----------------------------- MODULE GameClient -----------------------------
(***************************************************************************)
(* The game client (client/game_client.cpp), one record per client process.*)
(*                                                                         *)
(* A client predicts: it moves its own player as soon as a key is pressed, *)
(* keeps the inputs the server has not acknowledged, and on every world    *)
(* state starts again from the server's player and replays them.  A client *)
(* is one thread and meets the rest of the system only in ReceivePackets   *)
(* and SendPackets, so an Update is one step; what arrives is its argument. *)
(* Camera, drawing and InterpolatePlayerStates, which nothing calls, are   *)
(* left out.                                                               *)
(***************************************************************************)
EXTENDS Protocol, SequencesExt

CONSTANTS
  Clients,            \* the client processes
  MAX_INPUT_HISTORY,  \* inputs kept for reconciliation
  MAX_SNAPSHOTS       \* snapshots kept for interpolation

ASSUME ClientAssumption ==
  /\ MAX_INPUT_HISTORY \in Nat \ {0}
  /\ MAX_SNAPSHOTS \in Nat \ {0}

VARIABLE clients      \* the GameClient object of each process

-----------------------------------------------------------------------------
NoMove == [x |-> 0, y |-> 0]

ConnectionStatus == {"connecting", "connected", "disconnected"}

StoredInput == [sequenceNumber : Nat, move : Moves]

ShownPlayer == [id : Slots, position : Position, size : Nat]

Snapshot == [serverTick : Nat, players : SUBSET ShownPlayer]

ShownFood == [position : Position, tier : FoodTier, value : Nat]

(* The members of a GameClient.                                            *)
ClientState ==
  [status               : ConnectionStatus,
   clientIndex          : Slots,
   isLocalPlayerCreated : BOOLEAN,
   localPlayer          : PlayerState,
   predictedPlayer      : PlayerState,
   inputSequence        : Nat,
   inputHistory         : Seq(StoredInput),
   snapshotBuffer       : Seq(Snapshot),
   otherPlayers         : SUBSET ShownPlayer,
   foodItems            : {<<>>} \cup [FoodSlots -> ShownFood]]

(* The last n elements of a deque that is trimmed at its front.            *)
KeepLast(deque, n) ==
  IF Len(deque) > n THEN SubSeq(deque, Len(deque) - n + 1, Len(deque)) ELSE deque

(* Player's default constructor.                                           *)
DefaultPlayer == [position |-> [x |-> 0, y |-> 0], size |-> 0]

ClientInit ==
  clients = [c \in Clients |->
    [status               |-> "connecting",
     clientIndex          |-> 0,
     isLocalPlayerCreated |-> FALSE,
     localPlayer          |-> DefaultPlayer,
     predictedPlayer      |-> DefaultPlayer,
     inputSequence        |-> 0,
     inputHistory         |-> <<>>,
     snapshotBuffer       |-> <<>>,
     otherPlayers         |-> {},
     foodItems            |-> <<>>]]

-----------------------------------------------------------------------------
(* Mutant: the client forgets the far bounds of the world.                 *)
PredictMovementBeyond(player, input) ==
  [player EXCEPT !.position =
    [x |-> IF @.x + Displacement(input.move).x < 0 THEN 0
           ELSE @.x + Displacement(input.move).x,
     y |-> IF @.y + Displacement(input.move).y < 0 THEN 0
           ELSE @.y + Displacement(input.move).y]]

(* PredictMovement: the client's own copy of the server's movement code.   *)
PredictMovement(player, input) ==
  [player EXCEPT !.position =
    [x |-> Clamp(@.x + Displacement(input.move).x, WORLD_WIDTH),
     y |-> Clamp(@.y + Displacement(input.move).y, WORLD_HEIGHT)]]

(* The player after every input of a history, oldest first.                *)
Replay(player, history) ==
  LET after[n \in 0 .. Len(history)] ==
        IF n = 0 THEN player ELSE PredictMovement(after[n - 1], history[n])
  IN  after[Len(history)]

(* The history without the inputs at its front that the server has         *)
(* processed.                                                              *)
Unacknowledged(history, lastProcessed) ==
  LET acknowledged == {n \in 0 .. Len(history) :
                         \A i \in 1 .. n : history[i].sequenceNumber <= lastProcessed}
  IN  SubSeq(history, Max(acknowledged) + 1, Len(history))

(* Mutant: the server's position is taken without the replay.              *)
ReconcileWithoutReplay(client, serverPlayer, lastProcessed) ==
  [client EXCEPT !.inputHistory    = Unacknowledged(@, lastProcessed),
                 !.localPlayer     = serverPlayer,
                 !.predictedPlayer = serverPlayer]

(* Mutant: the replay comes before the acknowledged inputs are dropped.    *)
ReconcileBeforePruning(client, serverPlayer, lastProcessed) ==
  [client EXCEPT !.inputHistory    = Unacknowledged(@, lastProcessed),
                 !.localPlayer     = serverPlayer,
                 !.predictedPlayer = Replay(serverPlayer, client.inputHistory)]

(* Mutant: without an input to drop there is nothing to reconcile.         *)
ReconcileOnProgress(client, serverPlayer, lastProcessed) ==
  LET pending == Unacknowledged(client.inputHistory, lastProcessed)
  IN  IF pending = client.inputHistory THEN client
      ELSE [client EXCEPT !.inputHistory    = pending,
                          !.localPlayer     = serverPlayer,
                          !.predictedPlayer = Replay(serverPlayer, pending)]

(* Drop what is acknowledged, then replay the rest on the server's player. *)
ReconcileWithServer(client, serverPlayer, lastProcessed) ==
  LET pending == Unacknowledged(client.inputHistory, lastProcessed)
  IN  [client EXCEPT !.inputHistory    = pending,
                     !.localPlayer     = serverPlayer,
                     !.predictedPlayer = Replay(serverPlayer, pending)]

CreateLocalPlayer(client, serverPlayer) ==
  [client EXCEPT !.isLocalPlayerCreated = TRUE,
                 !.localPlayer          = serverPlayer,
                 !.predictedPlayer      = serverPlayer]

(* The local player is taken from the message, the others make a snapshot, *)
(* the food is replaced.  The message's tick decides nothing.              *)
ReceiveWorldState(client, message) ==
  LET own    == {p \in message.players : p.id = client.clientIndex}
      player == LET p == CHOOSE p \in own : TRUE
                IN  [position |-> p.position, size |-> p.size]
      seen   == [client EXCEPT
        !.snapshotBuffer = KeepLast(Append(@, [serverTick |-> message.serverTick,
                                               players    |-> message.players \ own]),
                                    MAX_SNAPSHOTS),
        !.foodItems = [j \in DOMAIN message.food |->
          CreateFoodItemFromTier(message.food[j].position, message.food[j].tier)]]
  IN  IF own = {} THEN seen
      ELSE IF ~client.isLocalPlayerCreated THEN CreateLocalPlayer(seen, player)
      ELSE ReconcileWithServer(seen, player, message.lastProcessedInputSeq)

(* ProcessServerMessages: every world state that arrived, one by one.      *)
ReceiveWorldStates(client, messages) ==
  LET after[n \in 0 .. Len(messages)] ==
        IF n = 0 THEN client ELSE ReceiveWorldState(after[n - 1], messages[n])
  IN  after[Len(messages)]

(* Mutant: an input is sent in every update, with a key down or not.       *)
SendInputAlways(client, move) ==
  IF ~client.isLocalPlayerCreated THEN client
  ELSE LET input == [sequenceNumber |-> client.inputSequence + 1, move |-> move]
       IN  [client EXCEPT
              !.inputSequence   = @ + 1,
              !.inputHistory    = KeepLast(Append(@, input), MAX_INPUT_HISTORY),
              !.predictedPlayer = PredictMovement(@, input)]

(* Mutant: the input is stored under the sequence number of the last one.  *)
SendInputUnnumbered(client, move) ==
  IF ~client.isLocalPlayerCreated \/ move = NoMove THEN client
  ELSE LET input == [sequenceNumber |-> client.inputSequence, move |-> move]
       IN  [client EXCEPT
              !.inputSequence   = @ + 1,
              !.inputHistory    = KeepLast(Append(@, input), MAX_INPUT_HISTORY),
              !.predictedPlayer = PredictMovement(@, input)]

(* A key is down: predict the movement and remember the input.  The input  *)
(* is kept whether or not a message for it could be created.               *)
SendInput(client, move) ==
  IF ~client.isLocalPlayerCreated \/ move = NoMove THEN client
  ELSE LET input == [sequenceNumber |-> client.inputSequence + 1, move |-> move]
       IN  [client EXCEPT
              !.inputSequence   = @ + 1,
              !.inputHistory    = KeepLast(Append(@, input), MAX_INPUT_HISTORY),
              !.predictedPlayer = PredictMovement(@, input)]

(* Mutant: players are added to those shown, and none is taken away.       *)
AddOtherPlayers(client) ==
  IF client.snapshotBuffer = <<>> THEN client
  ELSE [client EXCEPT !.otherPlayers = @ \cup Last(client.snapshotBuffer).players]

(* The other players shown are those of the latest snapshot received.      *)
RefreshOtherPlayers(client) ==
  IF client.snapshotBuffer = <<>> THEN client
  ELSE [client EXCEPT !.otherPlayers = Last(client.snapshotBuffer).players]

-----------------------------------------------------------------------------
(* Update of a connected client: every message that arrived, then the keys,*)
(* then what is shown.                                                     *)
ClientUpdate(c, arrived, move) ==
  /\ clients[c].status = "connected"
  /\ clients' = [clients EXCEPT ![c] =
       RefreshOtherPlayers(SendInput(ReceiveWorldStates(@, arrived), move))]

(* yojimbo's client learns that the server has admitted it, and where.     *)
ClientAccepted(c, slot) ==
  /\ clients[c].status = "connecting"
  /\ clients' = [clients EXCEPT ![c].status = "connected", ![c].clientIndex = slot]

(* yojimbo's client finds its connection closed or timed out.  IsConnected *)
(* is false from now on, and Update touches nothing of the game any more.  *)
ClientDropped(c) ==
  /\ clients[c].status = "connected"
  /\ clients' = [clients EXCEPT ![c].status = "disconnected"]
=============================================================================
