-------------------------- MODULE GameServerProofs --------------------------
(***************************************************************************)
(* Machine-checked proofs about GameServer, for every number of slots and  *)
(* food items, every world, every set of spawn points and moves.           *)
(*                                                                         *)
(* Typed is the inductive core: the players map has exactly the connected  *)
(* slots as its keys, and the iterators and vectors of the running loop    *)
(* only name players of that map.  The safety properties are proved on top *)
(* of it, each with the strengthening it needs.                            *)
(***************************************************************************)
EXTENDS GameServer, FiniteSetTheorems, TLAPS

-----------------------------------------------------------------------------
(* The data.                                                               *)

(* Clamp, in the movement code of server and client, stays in the world.   *)
LEMMA ClampInRange ==
  ASSUME NEW v \in Int, NEW limit \in Nat
  PROVE  Clamp(v, limit) \in 0 .. limit
BY DEF Clamp

(* An input leaves a player inside the world.                              *)
LEMMA MovedInWorld ==
  ASSUME NEW p \in Position, NEW m \in Moves
  PROVE  Moved(p, m) \in Position
<1>1. /\ m.x \in {-1, 0, 1}
      /\ m.y \in {-1, 0, 1}
  BY ProtocolAssumption DEF KeyboardMoves
<1>2. /\ Displacement(m).x \in Int
      /\ Displacement(m).y \in Int
  BY <1>1, ProtocolAssumption DEF Displacement
<1>3. /\ p.x \in Int
      /\ p.y \in Int
  BY ProtocolAssumption DEF Position
<1>4. /\ Clamp(p.x + Displacement(m).x, WORLD_WIDTH) \in 0 .. WORLD_WIDTH
      /\ Clamp(p.y + Displacement(m).y, WORLD_HEIGHT) \in 0 .. WORLD_HEIGHT
  <2>1. /\ p.x + Displacement(m).x \in Int
        /\ p.y + Displacement(m).y \in Int
    BY <1>2, <1>3
  <2> QED
    BY <2>1, ClampInRange, ProtocolAssumption
<1> QED
  BY <1>4 DEF Moved, Position

(* A food item has a place in the world, a tier, and a value that is paid  *)
(* in whole model units.                                                   *)
LEMMA FoodItemsTyped ==
  ASSUME NEW item \in FoodItems
  PROVE  /\ item.position \in Position
         /\ item.tier \in FoodTier
         /\ item.value \in Nat
<1>1. PICK p \in SpawnPoints, t \in FoodTier : item = CreateFoodItemFromTier(p, t)
  BY DEF FoodItems
<1>2. FoodValue(t) \in Nat
  BY ProtocolAssumption DEF FoodTier, FoodValue
<1> QED
  BY <1>1, <1>2, ProtocolAssumption DEF CreateFoodItemFromTier

(* A spawned player is a player of the initial size.                       *)
LEMMA SpawnedTyped ==
  ASSUME NEW player \in Spawned
  PROVE  /\ player \in PlayerState
         /\ player.size = INITIAL_SIZE
BY ProtocolAssumption DEF Spawned, PlayerState, INITIAL_SIZE

(* A player that grows is still a player.                                  *)
LEMMA GrownTyped ==
  ASSUME NEW player \in PlayerState, NEW growth \in Nat
  PROVE  [player EXCEPT !.size = player.size + growth] \in PlayerState
BY DEF PlayerState

(* A burst is a sequence of input messages.                                *)
LEMMA BurstsTyped ==
  ASSUME NEW burst \in InputBursts
  PROVE  burst \in Seq(PlayerInputMessage)
<1>1. PICK n \in 0 .. MaxBurst :
        burst \in [1 .. n -> [sequenceNumber : 1 .. MaxSeq, move : Moves]]
  BY DEF InputBursts
<1>2. burst \in [1 .. n -> PlayerInputMessage]
  BY <1>1, ServerAssumption DEF PlayerInputMessage
<1> QED
  BY <1>2, ServerAssumption

-----------------------------------------------------------------------------
(* The inductive core.                                                     *)

PlayersTyped == players \in [connected -> PlayerState]

LoopsTyped ==
  /\ order \in Seq(connected)
  /\ it1 \in Nat \ {0}
  /\ it2 \in Nat
  /\ foodReach \in Nat
  /\ playersToRespawn \in Seq(connected)

(* Between two updates, and while clients come and go, no loop is running. *)
LoopsFitPhase ==
  /\ phase \in {"Idle", "AdvanceTime", "ProcessMessages", "Stopped"} =>
       order = <<>> /\ playersToRespawn = <<>>
  /\ phase = "HandleGameFood" => it2 \in FoodSlots \cup {0} /\ playersToRespawn = <<>>
  /\ phase = "HandlePlayerCollisions" => it1 < it2

Typed ==
  /\ connected \in SUBSET Slots
  /\ inbox \in [Slots -> Seq(PlayerInputMessage)]
  /\ outbox \in [Slots -> Seq(WorldStateMessages)]
  /\ broken \in SUBSET Slots
  /\ PlayersTyped
  /\ foodItems \in [FoodSlots -> FoodItems]
  /\ lastProcessedInput \in [Slots -> Nat]
  /\ serverTick \in 0 .. TickWrap - 1
  /\ phase \in Phases
  /\ LoopsTyped
  /\ LoopsFitPhase

(* There are finitely many slots, so finitely many connected clients.      *)
LEMMA ConnectedFinite == Typed => IsFiniteSet(connected)
<1>1. /\ 0 \in Int
      /\ MAX_PLAYERS - 1 \in Int
  BY ProtocolAssumption
<1>2. IsFiniteSet(Slots)
  BY <1>1, FS_Interval DEF Slots
<1> QED
  BY <1>2, FS_Subset DEF Typed

LEMMA EmptyTyped == EmptyServer /\ lastProcessedInput \in [Slots -> Nat] => Typed
<1> SUFFICES ASSUME EmptyServer, lastProcessedInput \in [Slots -> Nat] PROVE Typed
  OBVIOUS
<1>1. players \in [connected -> PlayerState]
  BY DEF EmptyServer
<1> QED
  BY <1>1, ServerAssumption, ProtocolAssumption
  DEF EmptyServer, Typed, PlayersTyped, LoopsTyped, LoopsFitPhase, Phases

LEMMA TypedInit == ServerInit => Typed
BY EmptyTyped DEF ServerInit

(* What a world state shows is well formed.                                *)
LEMMA WorldStateTyped ==
  ASSUME Typed, NEW c \in Slots
  PROVE  WorldStateMessage(c) \in WorldStateMessages
<1>1. \A d \in DOMAIN players :
        [id |-> d, position |-> players[d].position, size |-> players[d].size]
          \in [id : Slots, position : Position, size : Nat]
  BY DEF Typed, PlayersTyped, PlayerState
<1>2. \A j \in FoodSlots : foodItems[j].position \in Position /\ foodItems[j].tier \in FoodTier
  BY FoodItemsTyped DEF Typed
<1>3. [j \in FoodSlots |-> [position |-> foodItems[j].position, tier |-> foodItems[j].tier]]
        \in [FoodSlots -> [position : Position, tier : FoodTier]]
  BY <1>2
<1>4. serverTick \in 0 .. TickWrap - 1 /\ lastProcessedInput[c] \in Nat
  BY DEF Typed
<1> QED
  BY <1>1, <1>3, <1>4 DEF WorldStateMessage, WorldStateMessages

(* The player at an iterator of a running loop is a connected one.         *)
LEMMA OrderTyped ==
  ASSUME Typed, NEW i \in Nat \ {0}, i <= Len(order)
  PROVE  /\ order[i] \in connected
         /\ players[order[i]] \in PlayerState
<1>1. order[i] \in connected
  BY DEF Typed, LoopsTyped
<1> QED
  BY <1>1 DEF Typed, PlayersTyped

LEMMA TypedConnections ==
  ASSUME Typed, NEW c \in Slots, ClientConnected(c) \/ ClientDisconnected(c)
  PROVE  Typed'
<1>1. order = <<>> /\ playersToRespawn = <<>> /\ phase = "AdvanceTime"
  BY DEF Typed, LoopsFitPhase, ClientConnected, ClientDisconnected
<1>2. CASE ClientConnected(c)
  <2>1. PICK player \in Spawned :
          players' = [d \in DOMAIN players \cup {c} |->
                        IF d = c THEN player ELSE players[d]]
    BY <1>2 DEF ClientConnected
  <2>2. PlayersTyped'
    BY <1>2, <2>1, SpawnedTyped DEF ClientConnected, Typed, PlayersTyped
  <2> QED
    BY <1>1, <1>2, <2>2 DEF ClientConnected, Typed, LoopsTyped, LoopsFitPhase, loopVars
<1>3. CASE ClientDisconnected(c)
  <2>1. PlayersTyped'
    BY <1>3 DEF ClientDisconnected, Typed, PlayersTyped
  <2>2. inbox' \in [Slots -> Seq(PlayerInputMessage)]
    BY <1>3 DEF ClientDisconnected, Typed
  <2> QED
    BY <1>1, <1>3, <2>1, <2>2
    DEF ClientDisconnected, Typed, LoopsTyped, LoopsFitPhase, loopVars
<1> QED
  BY <1>2, <1>3

LEMMA TypedMessages ==
  ASSUME Typed,
         \/ \E batch \in [Slots -> InputBursts], failed \in SUBSET connected :
                 ReceivePackets(batch, failed)
         \/ \E c \in Slots : ProcessMessage(c)
         \/ StartFood
  PROVE  Typed'
<1>1. ASSUME NEW batch \in [Slots -> InputBursts], NEW failed \in SUBSET connected,
             ReceivePackets(batch, failed)
      PROVE  Typed'
  <2>1. \A c \in Slots : inbox[c] \o batch[c] \in Seq(PlayerInputMessage)
    BY BurstsTyped DEF Typed
  <2>2. inbox' \in [Slots -> Seq(PlayerInputMessage)]
    BY <1>1, <2>1 DEF ReceivePackets
  <2> QED
    BY <1>1, <2>2
    DEF ReceivePackets, Typed, PlayersTyped, LoopsTyped, LoopsFitPhase, worldVars,
        loopVars, Phases
<1>2. ASSUME NEW c \in Slots, ProcessMessage(c)
      PROVE  Typed'
  <2>1. /\ c \in connected
        /\ inbox[c] \in Seq(PlayerInputMessage)
        /\ inbox[c] # <<>>
    BY <1>2 DEF ProcessMessage, Draining, WithMessages, Typed
  <2>2. /\ Head(inbox[c]) \in PlayerInputMessage
        /\ Tail(inbox[c]) \in Seq(PlayerInputMessage)
    BY <2>1
  <2>3. PlayersTyped'
    <3> DEFINE message == Head(inbox[c])
    <3>1. Moved(players[c].position, message.move) \in Position
      BY <2>1, <2>2, MovedInWorld DEF Typed, PlayersTyped, PlayerState, PlayerInputMessage
    <3>2. players' = [players EXCEPT ![c].position =
                        Moved(players[c].position, message.move)]
      BY <1>2, <2>1 DEF ProcessMessage, ReceivePlayerInputMessage, Typed, PlayersTyped
    <3>3. connected' = connected
      BY <1>2 DEF ProcessMessage
    <3> QED
      BY <2>1, <3>1, <3>2, <3>3 DEF Typed, PlayersTyped, PlayerState
  <2>4. lastProcessedInput' \in [Slots -> Nat]
    BY <1>2, <2>2 DEF ProcessMessage, ReceivePlayerInputMessage, Typed, PlayerInputMessage
  <2> QED
    BY <1>2, <2>2, <2>3, <2>4 DEF ProcessMessage, Typed, LoopsTyped, LoopsFitPhase, loopVars
<1>3. CASE StartFood
  <2>1. order' \in Seq(connected)
    <3>1. DOMAIN players = connected
      BY DEF Typed, PlayersTyped
    <3>2. Cardinality(connected) \in Nat
      BY ConnectedFinite, FS_CardinalityType
    <3>3. order' \in [1 .. Cardinality(connected) -> connected]
      BY <1>3, <3>1 DEF StartFood, IterationOrders
    <3> QED
      BY <3>2, <3>3
  <2> QED
    BY <1>3, <2>1, ProtocolAssumption
    DEF StartFood, Typed, PlayersTyped, LoopsTyped, LoopsFitPhase, netVars, worldVars,
        Phases, FoodSlots
<1> QED
  BY <1>1, <1>2, <1>3

(* Inside the food loop the inner iterator is the index of a food item.    *)
LEMMA FoodIndexTyped ==
  ASSUME Typed, InFoodLoop
  PROVE  it2 \in FoodSlots
<1>1. it2 \in FoodSlots \cup {0} /\ MAX_FOOD > 0
  BY DEF Typed, LoopsFitPhase, InFoodLoop
<1> QED
  BY <1>1, ProtocolAssumption DEF FoodSlots

LEMMA TypedFood ==
  ASSUME Typed, EatFood \/ SkipFood \/ StartCollisions
  PROVE  Typed'
<1>1. ASSUME InFoodLoop, NextFoodPair
      PROVE  /\ foodReach' \in Nat
             /\ it1' \in Nat \ {0}
             /\ it2' \in FoodSlots
             /\ it2' \in Nat
  <2>1. players[order[it1]] \in PlayerState
    BY <1>1, OrderTyped DEF InFoodLoop, Typed, LoopsTyped
  <2>2. FoodReach \in Nat
    BY <2>1, ProtocolAssumption DEF FoodReach, PlayerState, FOOD_SIZE, Typed, LoopsTyped
  <2>3. /\ it1 \in Nat \ {0}
        /\ it2 \in 0 .. MAX_FOOD - 1
        /\ MAX_FOOD \in Nat
    BY <1>1, FoodIndexTyped, ProtocolAssumption
    DEF InFoodLoop, Typed, LoopsTyped, LoopsFitPhase, FoodSlots
  <2>4. CASE it2 + 1 < MAX_FOOD
    BY <1>1, <2>2, <2>3, <2>4 DEF NextFoodPair, FoodSlots
  <2>5. CASE ~(it2 + 1 < MAX_FOOD)
    BY <1>1, <2>2, <2>3, <2>5 DEF NextFoodPair, FoodSlots
  <2> QED
    BY <2>4, <2>5
<1>2. CASE EatFood
  <2>1. /\ it2 \in FoodSlots
        /\ foodItems[it2].value \in Nat
    BY <1>2, FoodItemsTyped, FoodIndexTyped DEF EatFood, Typed
  <2>2. players' \in [connected -> PlayerState]
    <3> DEFINE p == order[it1]
    <3>1. p \in connected /\ players[p] \in PlayerState
      BY <1>2, OrderTyped DEF EatFood, InFoodLoop, Typed, LoopsTyped
    <3>2. [players[p] EXCEPT !.size = players[p].size + foodItems[it2].value] \in PlayerState
      BY <2>1, <3>1, GrownTyped
    <3>3. players' = [players EXCEPT ![p] =
            [players[p] EXCEPT !.size = players[p].size + foodItems[it2].value]]
      BY <1>2 DEF EatFood
    <3> HIDE DEF p
    <3> QED
      BY <3>1, <3>2, <3>3 DEF Typed, PlayersTyped
  <2>3. foodItems' \in [FoodSlots -> FoodItems]
    BY <1>2 DEF EatFood, Typed
  <2>4. /\ UNCHANGED <<connected, inbox, outbox, broken, lastProcessedInput, serverTick,
                       order, playersToRespawn, phase>>
        /\ phase = "HandleGameFood"
    BY <1>2 DEF EatFood, InFoodLoop, netVars
  <2>5. /\ foodReach' \in Nat
        /\ it1' \in Nat \ {0}
        /\ it2' \in FoodSlots
        /\ it2' \in Nat
    BY <1>1, <1>2 DEF EatFood
  <2> QED
    BY <2>2, <2>3, <2>4, <2>5 DEF Typed, PlayersTyped, LoopsTyped, LoopsFitPhase
<1>3. CASE SkipFood
  <2>1. /\ foodReach' \in Nat
        /\ it1' \in Nat \ {0}
        /\ it2' \in FoodSlots
        /\ it2' \in Nat
    BY <1>1, <1>3 DEF SkipFood
  <2> QED
    BY <1>3, <2>1
    DEF SkipFood, InFoodLoop, Typed, PlayersTyped, LoopsTyped, LoopsFitPhase, netVars,
        worldVars
<1>4. CASE StartCollisions
  BY <1>4
  DEF StartCollisions, Typed, PlayersTyped, LoopsTyped, LoopsFitPhase, netVars, worldVars,
      Phases
<1> QED
  BY <1>2, <1>3, <1>4

LEMMA TypedCollisions ==
  ASSUME Typed, FirstEatsSecond \/ SecondEatsFirst \/ SkipPair \/ StartRespawns
  PROVE  Typed'
<1>1. ASSUME InPairLoop
      PROVE  /\ it1 < it2
             /\ order[it1] \in connected
             /\ order[it2] \in connected
             /\ players[order[it1]] \in PlayerState
             /\ players[order[it2]] \in PlayerState
  BY <1>1, OrderTyped DEF InPairLoop, Typed, LoopsFitPhase, LoopsTyped
<1>2. ASSUME InPairLoop, NextPair
      PROVE  /\ it1' \in Nat \ {0}
             /\ it2' \in Nat
             /\ it1' < it2'
  <2>1. /\ it1 \in Nat \ {0}
        /\ it2 \in Nat
        /\ it1 < it2
    BY <1>1, <1>2 DEF Typed, LoopsTyped
  <2>2. CASE it2 + 1 <= Len(order)
    BY <1>2, <2>1, <2>2 DEF NextPair
  <2>3. CASE ~(it2 + 1 <= Len(order))
    BY <1>2, <2>1, <2>3 DEF NextPair
  <2> QED
    BY <2>2, <2>3
<1>3. CASE FirstEatsSecond
  <2>1. playersToRespawn' \in Seq(connected)
    BY <1>1, <1>3 DEF FirstEatsSecond, Typed, LoopsTyped
  <2> QED
    BY <1>2, <1>3, <2>1
    DEF FirstEatsSecond, InPairLoop, Typed, PlayersTyped, LoopsTyped, LoopsFitPhase,
        netVars, worldVars
<1>4. CASE SecondEatsFirst
  <2>1. playersToRespawn' \in Seq(connected)
    BY <1>1, <1>4 DEF SecondEatsFirst, Typed, LoopsTyped
  <2>2. players' \in [connected -> PlayerState]
    <3> DEFINE p == order[it1]
               q == order[it2]
               growth == players[p].size \div 2
    <3>1. /\ q \in connected
          /\ players[q] \in PlayerState
          /\ players[p].size \in Nat
      BY <1>1, <1>4 DEF SecondEatsFirst, PlayerState
    <3>2. growth \in Nat
      BY <3>1
    <3>3. players' = [players EXCEPT ![q] =
                        [players[q] EXCEPT !.size = players[q].size + growth]]
      BY <1>4 DEF SecondEatsFirst
    <3> HIDE DEF q, growth
    <3>4. [players[q] EXCEPT !.size = players[q].size + growth] \in PlayerState
      BY <3>1, <3>2, GrownTyped
    <3> QED
      BY <3>1, <3>3, <3>4 DEF Typed, PlayersTyped
  <2> QED
    BY <1>2, <1>4, <2>1, <2>2
    DEF SecondEatsFirst, InPairLoop, Typed, PlayersTyped, LoopsTyped, LoopsFitPhase, netVars
<1>5. CASE SkipPair
  BY <1>2, <1>5
  DEF SkipPair, InPairLoop, Typed, PlayersTyped, LoopsTyped, LoopsFitPhase, netVars,
      worldVars
<1>6. CASE StartRespawns
  BY <1>6
  DEF StartRespawns, Typed, PlayersTyped, LoopsTyped, LoopsFitPhase, netVars, worldVars,
      Phases
<1> QED
  BY <1>3, <1>4, <1>5, <1>6

LEMMA TypedBroadcast ==
  ASSUME Typed,
         \/ RespawnPlayer
         \/ StartBroadcast
         \/ \E failed \in SUBSET connected : BroadcastWorldState(failed)
         \/ SendPackets
  PROVE  Typed'
<1>1. CASE RespawnPlayer
  <2>1. PlayersTyped'
    BY <1>1, SpawnedTyped DEF RespawnPlayer, Typed, PlayersTyped, netVars
  <2> QED
    BY <1>1, <2>1 DEF RespawnPlayer, Typed, LoopsTyped, LoopsFitPhase, netVars
<1>2. CASE StartBroadcast
  BY <1>2
  DEF StartBroadcast, Typed, PlayersTyped, LoopsTyped, LoopsFitPhase, netVars, worldVars,
      loopVars, Phases
<1>3. ASSUME NEW failed \in SUBSET connected, BroadcastWorldState(failed)
      PROVE  Typed'
  <2>1. \A c \in Slots : Append(outbox[c], WorldStateMessage(c)) \in Seq(WorldStateMessages)
    BY WorldStateTyped DEF Typed
  <2>2. outbox' \in [Slots -> Seq(WorldStateMessages)]
    BY <1>3, <2>1 DEF BroadcastWorldState, Typed
  <2> QED
    BY <1>3, <2>2
    DEF BroadcastWorldState, Typed, PlayersTyped, LoopsTyped, LoopsFitPhase, worldVars,
        loopVars, Phases
<1>4. CASE SendPackets
  BY <1>4
  DEF SendPackets, Typed, PlayersTyped, LoopsTyped, LoopsFitPhase, worldVars, Phases
<1> QED
  BY <1>1, <1>2, <1>3, <1>4

LEMMA TypedStep == Typed /\ [ServerNext]_serverVars => Typed'
<1> SUFFICES ASSUME Typed, [ServerNext]_serverVars PROVE Typed'
  OBVIOUS
<1>1. CASE BeginUpdate
  <2>1. serverTick' \in 0 .. TickWrap - 1
    BY <1>1, ServerAssumption DEF BeginUpdate, Typed
  <2> QED
    BY <1>1, <2>1
    DEF BeginUpdate, Typed, PlayersTyped, LoopsTyped, LoopsFitPhase, netVars, loopVars, Phases
<1>2. CASE ServerStep
  BY <1>2, TypedConnections, TypedMessages, TypedFood, TypedCollisions, TypedBroadcast
  DEF ServerStep
<1>3. CASE Stop
  <2>1. /\ order' \in Seq(connected')
        /\ playersToRespawn' \in Seq(connected')
        /\ order' = <<>>
        /\ playersToRespawn' = <<>>
    BY <1>3 DEF Stop, Typed, LoopsFitPhase, loopVars
  <2>2. PlayersTyped'
    BY <1>3 DEF Stop, PlayersTyped
  <2>3. LoopsTyped' /\ LoopsFitPhase'
    BY <1>3, <2>1 DEF Stop, Typed, LoopsTyped, LoopsFitPhase, loopVars
  <2> QED
    BY <1>3, <2>2, <2>3 DEF Stop, Typed, Phases
<1>4. CASE Stopped \/ UNCHANGED serverVars
  BY <1>4
  DEF Stopped, serverVars, Typed, PlayersTyped, LoopsTyped, LoopsFitPhase, netVars,
      worldVars, loopVars
<1> QED
  BY <1>1, <1>2, <1>3, <1>4, TypedConnections DEF ServerNext

(* The inductive core holds in every reachable state.                      *)
THEOREM CoreInvariant == ServerSpec => []Typed
<1> QED
  BY TypedInit, TypedStep, PTL DEF ServerSpec

(* Type correctness of the server, whatever the clients send.              *)
THEOREM TypeCorrect == ServerSpec => []ServerTypeOK
<1>1. Typed => ServerTypeOK
  BY DEF Typed, PlayersTyped, LoopsTyped, ServerTypeOK
<1> QED
  BY <1>1, CoreInvariant, PTL

(* The players of the world are the clients yojimbo says are connected.    *)
THEOREM PlayersAreTheConnected == ServerSpec => []PlayersMatchConnected
<1>1. Typed => PlayersMatchConnected
  BY DEF Typed, PlayersTyped, PlayersMatchConnected
<1> QED
  BY <1>1, CoreInvariant, PTL

-----------------------------------------------------------------------------
(* Inputs.                                                                 *)

(* Why InputsAreFresh holds: a slot that is not connected has no message,  *)
(* and outside ProcessMessages only a connection in error still has any.   *)
InputsInv ==
  /\ \A c \in Slots \ connected : inbox[c] = <<>>
  /\ phase # "ProcessMessages" => \A c \in Slots \ broken : inbox[c] = <<>>

LEMMA InputsStep == Typed /\ InputsInv /\ [ServerNext]_serverVars => InputsInv'
<1> SUFFICES ASSUME Typed, InputsInv, [ServerNext]_serverVars PROVE InputsInv'
  OBVIOUS
<1> USE DEF InputsInv
<1>1. ASSUME NEW c \in Slots, ClientConnected(c) PROVE InputsInv'
  BY <1>1 DEF ClientConnected
<1>2. ASSUME NEW c \in Slots, ClientDisconnected(c) PROVE InputsInv'
  BY <1>2 DEF ClientDisconnected, Typed
<1>3. ASSUME NEW batch \in [Slots -> InputBursts], NEW failed \in SUBSET connected,
             ReceivePackets(batch, failed)
      PROVE  InputsInv'
  BY <1>3 DEF ReceivePackets
<1>4. ASSUME NEW c \in Slots, ProcessMessage(c) PROVE InputsInv'
  BY <1>4 DEF ProcessMessage, Draining, WithMessages, Typed
<1>5. CASE StartFood
  BY <1>5 DEF StartFood, WithMessages, netVars
<1>6. CASE BeginUpdate \/ Stop \/ Stopped \/ UNCHANGED serverVars
  BY <1>6 DEF BeginUpdate, Stop, Stopped, serverVars, netVars
<1>7. CASE EatFood \/ SkipFood \/ StartCollisions
  BY <1>7 DEF EatFood, SkipFood, InFoodLoop, StartCollisions, netVars
<1>8. CASE FirstEatsSecond \/ SecondEatsFirst \/ SkipPair \/ StartRespawns
  BY <1>8
  DEF FirstEatsSecond, SecondEatsFirst, SkipPair, InPairLoop, StartRespawns, netVars
<1>9. CASE RespawnPlayer \/ StartBroadcast \/ SendPackets
  BY <1>9 DEF RespawnPlayer, StartBroadcast, SendPackets, netVars
<1>10. ASSUME NEW failed \in SUBSET connected, BroadcastWorldState(failed) PROVE InputsInv'
  BY <1>10 DEF BroadcastWorldState
<1> QED
  BY <1>1, <1>2, <1>3, <1>4, <1>5, <1>6, <1>7, <1>8, <1>9, <1>10 DEF ServerNext, ServerStep

LEMMA FreshStep ==
  ASSUME Typed, InputsInv, ServerNext
  PROVE  /\ phase = "AdvanceTime" /\ phase' = "ProcessMessages" =>
              \A c \in Slots : inbox[c] = <<>>
         /\ \A c \in connected' \ connected : inbox'[c] = <<>>
<1>1. ASSUME phase = "AdvanceTime", phase' = "ProcessMessages"
      PROVE  \A c \in Slots : inbox[c] = <<>>
  <2>1. broken = {}
    BY <1>1
    DEF ServerNext, ServerStep, BeginUpdate, ClientConnected, ClientDisconnected,
        ReceivePackets, ProcessMessage, StartFood, EatFood, SkipFood, InFoodLoop,
        StartCollisions, FirstEatsSecond, SecondEatsFirst, SkipPair, InPairLoop,
        StartRespawns, RespawnPlayer, StartBroadcast, BroadcastWorldState, SendPackets,
        Stop, Stopped
  <2> QED
    BY <1>1, <2>1 DEF InputsInv
<1>2. ASSUME NEW c \in connected' \ connected PROVE inbox'[c] = <<>>
  <2>1. PICK d \in Slots : ClientConnected(d)
    BY <1>2
    DEF ServerNext, ServerStep, BeginUpdate, ClientDisconnected, ReceivePackets,
        ProcessMessage, StartFood, EatFood, SkipFood, StartCollisions, FirstEatsSecond,
        SecondEatsFirst, SkipPair, StartRespawns, RespawnPlayer, StartBroadcast,
        BroadcastWorldState, SendPackets, Stop, Stopped, netVars, serverVars
  <2> QED
    BY <1>2, <2>1 DEF ClientConnected, InputsInv
<1> QED
  BY <1>1, <1>2

(* No input outlives its update or its connection, though ProcessMessages  *)
(* leaves those of a channel in error where they are: AdvanceTime, the     *)
(* only place where slots change hands, clears them before packets are     *)
(* read again.                                                             *)
THEOREM InputsStayFresh == ServerSpec => InputsAreFresh
<1>1. ServerInit => InputsInv
  BY DEF ServerInit, EmptyServer, InputsInv
<1>2. Typed /\ InputsInv /\ [ServerNext]_serverVars =>
        [/\ phase = "AdvanceTime" /\ phase' = "ProcessMessages" =>
              \A c \in Slots : inbox[c] = <<>>
         /\ \A c \in connected' \ connected : inbox'[c] = <<>>]_serverVars
  BY FreshStep
<1> QED
  BY <1>1, <1>2, InputsStep, CoreInvariant, PTL DEF ServerSpec, InputsAreFresh

-----------------------------------------------------------------------------
(* Sizes.                                                                  *)

(* Size lost by a player that stays connected was lost in RespawnPlayer,   *)
(* and RespawnPlayer's player is one that HandlePlayerCollisions found     *)
(* eaten in this update.                                                   *)
LEMMA ShrinkStep ==
  ASSUME Typed, ServerNext, NEW c \in connected \cap connected',
         players'[c].size < players[c].size
  PROVE  c \in Unpaid
<1>1. players[c].size \in Nat
  BY DEF Typed, PlayersTyped, PlayerState
<1>2. players'[c].size # players[c].size
  BY <1>1
<1>3. CASE RespawnPlayer
  <2>1. /\ it1 \in Nat \ {0}
        /\ it1 <= Len(playersToRespawn)
        /\ Len(playersToRespawn) \in Nat
        /\ phase = "RespawnPlayers"
    BY <1>3 DEF RespawnPlayer, Typed, LoopsTyped
  <2>2. c = playersToRespawn[it1]
    BY <1>2, <1>3 DEF RespawnPlayer, Typed, PlayersTyped
  <2> QED
    BY <2>1, <2>2 DEF Unpaid
<1>4. CASE EatFood
  <2>1. foodItems[it2].value \in Nat
    BY <1>4, FoodItemsTyped, FoodIndexTyped DEF EatFood, Typed
  <2>2. players'[c] = IF c = order[it1]
                      THEN [players[c] EXCEPT !.size = players[c].size + foodItems[it2].value]
                      ELSE players[c]
    BY <1>4 DEF EatFood, Typed, PlayersTyped
  <2>3. players'[c].size >= players[c].size
    BY <1>1, <2>1, <2>2 DEF Typed, PlayersTyped, PlayerState
  <2> QED
    BY <1>1, <2>1, <2>2, <2>3 DEF Typed, PlayersTyped, PlayerState
<1>5. CASE SecondEatsFirst
  <2> DEFINE growth == players[order[it1]].size \div 2
  <2>1. growth \in Nat
    <3>1. it1 \in Nat \ {0} /\ it1 <= Len(order)
      BY <1>5 DEF SecondEatsFirst, InPairLoop, Typed, LoopsFitPhase, LoopsTyped
    <3>2. players[order[it1]].size \in Nat
      BY <3>1, OrderTyped DEF PlayerState
    <3> QED
      BY <3>2
  <2>2. players'[c] = IF c = order[it2]
                      THEN [players[c] EXCEPT !.size = players[c].size + growth]
                      ELSE players[c]
    BY <1>5 DEF SecondEatsFirst, Typed, PlayersTyped
  <2> HIDE DEF growth
  <2>3. players[c] \in PlayerState
    BY DEF Typed, PlayersTyped
  <2> QED
    BY <1>1, <2>1, <2>2, <2>3 DEF PlayerState
<1>6. ASSUME NEW d \in Slots, ClientConnected(d) PROVE FALSE
  BY <1>2, <1>6 DEF ClientConnected, Typed, PlayersTyped
<1>7. ASSUME NEW d \in Slots, ClientDisconnected(d) PROVE FALSE
  BY <1>2, <1>7 DEF ClientDisconnected, Typed, PlayersTyped
<1>8. ASSUME NEW d \in Slots, ProcessMessage(d) PROVE FALSE
  <2>1. players' = [players EXCEPT ![d].position = Moved(@, Head(inbox[d]).move)]
    BY <1>8 DEF ProcessMessage, Draining, WithMessages, ReceivePlayerInputMessage, Typed, PlayersTyped
  <2>2. players'[c].size = players[c].size
    BY <2>1 DEF Typed, PlayersTyped, PlayerState
  <2> QED
    BY <1>2, <2>2
<1>9. ASSUME players' = players PROVE FALSE
  BY <1>2, <1>9
<1>10. CASE \/ BeginUpdate \/ StartFood \/ SkipFood \/ StartCollisions \/ FirstEatsSecond
            \/ SkipPair \/ StartRespawns \/ StartBroadcast \/ SendPackets \/ Stopped
            \/ \E batch \in [Slots -> InputBursts], failed \in SUBSET connected :
                    ReceivePackets(batch, failed)
            \/ \E failed \in SUBSET connected : BroadcastWorldState(failed)
  BY <1>9, <1>10
  DEF BeginUpdate, StartFood, SkipFood, StartCollisions, FirstEatsSecond, SkipPair,
      StartRespawns, StartBroadcast, SendPackets, Stopped, ReceivePackets,
      BroadcastWorldState, worldVars, serverVars
<1>11. CASE Stop
  BY <1>11 DEF Stop
<1> QED
  BY <1>3, <1>4, <1>5, <1>6, <1>7, <1>8, <1>10, <1>11 DEF ServerNext, ServerStep

(* Nobody that stays connected loses size except by being eaten.           *)
THEOREM ShrinkOnlyWhenEaten == ServerSpec => OnlyTheEatenShrink
<1>1. Typed /\ [ServerNext]_serverVars =>
        [\A c \in connected \cap connected' :
           players'[c].size < players[c].size => c \in Unpaid]_serverVars
  BY ShrinkStep
<1> QED
  BY <1>1, CoreInvariant, PTL DEF ServerSpec, OnlyTheEatenShrink

-----------------------------------------------------------------------------
(* What goes on the wire.                                                  *)

NobodyTooSmall == \A c \in connected : players[c].size >= INITIAL_SIZE

(* The eaten players RespawnPlayer has already been called for.            *)
Respawned(n) ==
  \A k \in 1 .. n : players[playersToRespawn[k]].size = INITIAL_SIZE

RespawnsProceed ==
  /\ phase = "RespawnPlayers" =>
       it1 <= Len(playersToRespawn) + 1 /\ Respawned(it1 - 1)
  /\ phase \in {"BroadcastWorldState", "SendPackets"} => Respawned(Len(playersToRespawn))

OutboxOnlyToSend == phase # "SendPackets" => \A c \in Slots : outbox[c] = <<>>

SettledInv ==
  /\ NobodyTooSmall
  /\ RespawnsProceed
  /\ OutboxOnlyToSend
  /\ WireShowsSettledWorld

(* Growth keeps a player at least as large as it was.                      *)
LEMMA GrowthKeepsSize ==
  ASSUME Typed, NobodyTooSmall, NEW q \in connected, NEW growth \in Nat,
         players' = [players EXCEPT ![q] =
                       [players[q] EXCEPT !.size = players[q].size + growth]],
         connected' = connected
  PROVE  NobodyTooSmall'
<1> SUFFICES ASSUME NEW c \in connected PROVE players'[c].size >= INITIAL_SIZE
  BY DEF NobodyTooSmall, INITIAL_SIZE
<1>1. players[c] \in PlayerState /\ players[q] \in PlayerState
  BY DEF Typed, PlayersTyped
<1>2. players'[c].size = IF c = q THEN players[c].size + growth ELSE players[c].size
  BY <1>1 DEF Typed, PlayersTyped, PlayerState
<1>3. INITIAL_SIZE \in Nat
  BY ProtocolAssumption DEF INITIAL_SIZE
<1> QED
  BY <1>1, <1>2, <1>3 DEF NobodyTooSmall, PlayerState

LEMMA SettledStep == Typed /\ SettledInv /\ [ServerNext]_serverVars => SettledInv'
<1> SUFFICES ASSUME Typed, SettledInv, [ServerNext]_serverVars PROVE SettledInv'
  OBVIOUS
<1>0. INITIAL_SIZE \in Nat /\ INITIAL_SIZE' = INITIAL_SIZE
  BY ProtocolAssumption DEF INITIAL_SIZE
<1>a. ASSUME OutboxOnlyToSend', phase' # "SendPackets" PROVE WireShowsSettledWorld'
  BY <1>a DEF OutboxOnlyToSend, WireShowsSettledWorld
<1>1. ASSUME NEW c \in Slots, ClientConnected(c) PROVE SettledInv'
  <2>1. PICK player \in Spawned :
          players' = [d \in DOMAIN players \cup {c} |->
                        IF d = c THEN player ELSE players[d]]
    BY <1>1 DEF ClientConnected
  <2>2. NobodyTooSmall'
    BY <1>0, <1>1, <2>1, SpawnedTyped
    DEF ClientConnected, SettledInv, NobodyTooSmall, Typed, PlayersTyped
  <2>3. phase' = "AdvanceTime" /\ UNCHANGED <<outbox, phase>>
    BY <1>1 DEF ClientConnected
  <2> QED
    BY <1>a, <2>2, <2>3 DEF SettledInv, RespawnsProceed, OutboxOnlyToSend
<1>2. ASSUME NEW c \in Slots, ClientDisconnected(c) PROVE SettledInv'
  <2>1. NobodyTooSmall'
    BY <1>0, <1>2 DEF ClientDisconnected, SettledInv, NobodyTooSmall, Typed, PlayersTyped
  <2>2. phase' = "AdvanceTime" /\ UNCHANGED <<outbox, phase>>
    BY <1>2 DEF ClientDisconnected
  <2> QED
    BY <1>a, <2>1, <2>2 DEF SettledInv, RespawnsProceed, OutboxOnlyToSend
<1>3. ASSUME NEW c \in Slots, ProcessMessage(c) PROVE SettledInv'
  <2>1. players' = [players EXCEPT ![c].position = Moved(@, Head(inbox[c]).move)]
    BY <1>3 DEF ProcessMessage, Draining, WithMessages, ReceivePlayerInputMessage, Typed, PlayersTyped
  <2>2. NobodyTooSmall'
    BY <1>0, <1>3, <2>1
    DEF ProcessMessage, SettledInv, NobodyTooSmall, Typed, PlayersTyped, PlayerState
  <2>3. phase' = "ProcessMessages" /\ UNCHANGED <<outbox, phase>>
    BY <1>3 DEF ProcessMessage
  <2> QED
    BY <1>a, <2>2, <2>3 DEF SettledInv, RespawnsProceed, OutboxOnlyToSend
<1>4. CASE EatFood
  <2> DEFINE p == order[it1]
             growth == foodItems[it2].value
  <2>1. p \in connected /\ growth \in Nat
    BY <1>4, OrderTyped, FoodItemsTyped, FoodIndexTyped
    DEF EatFood, InFoodLoop, Typed, LoopsTyped
  <2>2. players' = [players EXCEPT ![p] =
                      [players[p] EXCEPT !.size = players[p].size + growth]]
    BY <1>4 DEF EatFood
  <2>3. /\ connected' = connected
        /\ phase = "HandleGameFood"
        /\ UNCHANGED <<outbox, phase>>
    BY <1>4 DEF EatFood, InFoodLoop, netVars
  <2> HIDE DEF p, growth
  <2>4. NobodyTooSmall'
    BY <2>1, <2>2, <2>3, GrowthKeepsSize DEF SettledInv
  <2> QED
    BY <1>a, <2>3, <2>4 DEF SettledInv, RespawnsProceed, OutboxOnlyToSend
<1>5. CASE SecondEatsFirst
  <2> DEFINE q == order[it2]
             growth == players[order[it1]].size \div 2
  <2>1. q \in connected /\ players[order[it1]].size \in Nat
    <3>1. /\ it1 \in Nat \ {0}
          /\ it2 \in Nat \ {0}
          /\ it1 <= Len(order)
          /\ it2 <= Len(order)
      <4>1. /\ it1 \in Nat \ {0}
            /\ it2 \in Nat
            /\ order \in Seq(connected)
            /\ it1 < it2
            /\ it2 <= Len(order)
        BY <1>5 DEF SecondEatsFirst, InPairLoop, Typed, LoopsTyped, LoopsFitPhase
      <4> QED
        BY <4>1
    <3> QED
      BY <3>1, OrderTyped DEF PlayerState
  <2>2. growth \in Nat
    BY <2>1
  <2>3. players' = [players EXCEPT ![q] =
                      [players[q] EXCEPT !.size = players[q].size + growth]]
    BY <1>5 DEF SecondEatsFirst
  <2>4. /\ connected' = connected
        /\ phase = "HandlePlayerCollisions"
        /\ UNCHANGED <<outbox, phase>>
    BY <1>5 DEF SecondEatsFirst, InPairLoop, netVars
  <2>5. q \in connected
    BY <2>1
  <2> HIDE DEF q, growth
  <2>6. NobodyTooSmall'
    BY <2>2, <2>3, <2>4, <2>5, GrowthKeepsSize DEF SettledInv
  <2> QED
    BY <1>a, <2>4, <2>6 DEF SettledInv, RespawnsProceed, OutboxOnlyToSend
<1>6. CASE RespawnPlayer
  <2>1. PICK player \in Spawned :
          players' = [d \in DOMAIN players |->
                        IF d = playersToRespawn[it1] THEN player ELSE players[d]]
    BY <1>6 DEF RespawnPlayer
  <2>2. /\ phase = "RespawnPlayers"
        /\ it1 \in Nat \ {0}
        /\ it1 <= Len(playersToRespawn)
        /\ it1' = it1 + 1
        /\ playersToRespawn \in Seq(connected)
        /\ UNCHANGED <<connected, outbox, playersToRespawn, phase>>
    BY <1>6 DEF RespawnPlayer, Typed, LoopsTyped, netVars
  <2>3. NobodyTooSmall'
    BY <1>0, <2>1, <2>2, SpawnedTyped DEF SettledInv, NobodyTooSmall, Typed, PlayersTyped
  <2>4. \A k \in 1 .. it1 : players'[playersToRespawn[k]].size = INITIAL_SIZE
    <3> SUFFICES ASSUME NEW k \in 1 .. it1
                 PROVE  players'[playersToRespawn[k]].size = INITIAL_SIZE
      OBVIOUS
    <3>1. playersToRespawn[k] \in connected
      BY <2>2
    <3>2. k < it1 => players[playersToRespawn[k]].size = INITIAL_SIZE
      BY <2>2 DEF SettledInv, RespawnsProceed, Respawned
    <3> QED
      BY <2>1, <2>2, <3>1, <3>2, SpawnedTyped DEF Typed, PlayersTyped
  <2>5. RespawnsProceed'
    BY <1>0, <2>2, <2>4 DEF RespawnsProceed, Respawned
  <2> QED
    BY <1>a, <2>2, <2>3, <2>5 DEF SettledInv, OutboxOnlyToSend
<1>7. CASE StartRespawns
  <2>1. /\ it1' = 1
        /\ playersToRespawn' = playersToRespawn
        /\ playersToRespawn \in Seq(connected)
        /\ phase' = "RespawnPlayers"
        /\ phase = "HandlePlayerCollisions"
        /\ UNCHANGED <<connected, outbox, players>>
    BY <1>7 DEF StartRespawns, netVars, worldVars, Typed, LoopsTyped
  <2>2. RespawnsProceed'
    BY <2>1 DEF RespawnsProceed, Respawned
  <2> QED
    BY <1>0, <1>a, <2>1, <2>2 DEF SettledInv, NobodyTooSmall, OutboxOnlyToSend
<1>8. CASE StartBroadcast
  <2>1. /\ it1 \in Nat
        /\ it1 > Len(playersToRespawn)
        /\ playersToRespawn \in Seq(connected)
        /\ phase = "RespawnPlayers"
        /\ phase' = "BroadcastWorldState"
        /\ UNCHANGED <<connected, outbox, players, playersToRespawn>>
    BY <1>8 DEF StartBroadcast, netVars, worldVars, loopVars, Typed, LoopsTyped
  <2>2. it1 - 1 = Len(playersToRespawn)
    BY <2>1 DEF SettledInv, RespawnsProceed
  <2>3. RespawnsProceed'
    BY <1>0, <2>1, <2>2 DEF SettledInv, RespawnsProceed, Respawned
  <2> QED
    BY <1>0, <1>a, <2>1, <2>3 DEF SettledInv, NobodyTooSmall, OutboxOnlyToSend
<1>9. ASSUME NEW failed \in SUBSET connected, BroadcastWorldState(failed) PROVE SettledInv'
  <2>1. /\ phase = "BroadcastWorldState"
        /\ phase' = "SendPackets"
        /\ UNCHANGED <<connected, players, playersToRespawn, it1>>
        /\ \A c \in Slots : outbox[c] = <<>>
        /\ outbox' = [c \in Slots |-> IF c \in connected \ broken'
                                      THEN Append(outbox[c], WorldStateMessage(c))
                                      ELSE outbox[c]]
    BY <1>9 DEF BroadcastWorldState, worldVars, loopVars, SettledInv, OutboxOnlyToSend
  <2>2. RespawnsProceed'
    BY <1>0, <2>1 DEF SettledInv, RespawnsProceed, Respawned
  <2>3. WireShowsSettledWorld'
    <3> SUFFICES ASSUME NEW c \in Slots, NEW i \in DOMAIN outbox'[c]
                 PROVE  LET shown == outbox'[c][i].players
                        IN  /\ \E player \in shown : player.id = c
                            /\ {player.id : player \in shown} = connected
                            /\ \A player \in shown :
                                 /\ player.size >= INITIAL_SIZE
                                 /\ \A k \in DOMAIN playersToRespawn :
                                      player.id = playersToRespawn[k] =>
                                        player.size = INITIAL_SIZE
      BY <1>0, <2>1 DEF WireShowsSettledWorld
    <3>1. c \in connected /\ outbox'[c][i] = WorldStateMessage(c)
      BY <2>1
    <3>2. DOMAIN players = connected
      BY DEF Typed, PlayersTyped
    <3>3. outbox'[c][i].players =
            {[id |-> d, position |-> players[d].position, size |-> players[d].size] :
               d \in connected}
      BY <3>1, <3>2 DEF WorldStateMessage
    <3>4. \A k \in DOMAIN playersToRespawn :
            players[playersToRespawn[k]].size = INITIAL_SIZE
      <4>1. DOMAIN playersToRespawn = 1 .. Len(playersToRespawn)
        BY DEF Typed, LoopsTyped
      <4>2. Respawned(Len(playersToRespawn))
        BY <2>1 DEF SettledInv, RespawnsProceed
      <4> QED
        BY <4>1, <4>2 DEF Respawned
    <3> DEFINE entry(d) == [id       |-> d,
                            position |-> players[d].position,
                            size     |-> players[d].size]
               shown == {entry(d) : d \in connected}
    <3>5. \A d \in connected : entry(d) \in shown /\ entry(d).id = d
      OBVIOUS
    <3>6. \A player \in shown : player.id \in connected
      OBVIOUS
    <3>7. ASSUME NEW player \in shown
          PROVE  /\ player.size >= INITIAL_SIZE
                 /\ \A k \in DOMAIN playersToRespawn :
                      player.id = playersToRespawn[k] => player.size = INITIAL_SIZE
      <4>1. PICK d \in connected : player = entry(d)
        OBVIOUS
      <4>2. player.id = d /\ player.size = players[d].size
        BY <4>1
      <4> QED
        BY <3>4, <4>2 DEF SettledInv, NobodyTooSmall
    <3> HIDE DEF entry, shown
    <3>8. \E player \in shown : player.id = c
      BY <3>1, <3>5
    <3>9. {player.id : player \in shown} = connected
      BY <3>5, <3>6
    <3>10. outbox'[c][i].players = shown
      BY <3>3 DEF entry, shown
    <3> QED
      BY <3>7, <3>8, <3>9, <3>10
  <2> QED
    BY <1>0, <2>1, <2>2, <2>3 DEF SettledInv, NobodyTooSmall, OutboxOnlyToSend
<1>10. CASE SendPackets
  BY <1>0, <1>a, <1>10
  DEF SendPackets, SettledInv, NobodyTooSmall, RespawnsProceed, OutboxOnlyToSend, worldVars
<1>11. CASE \/ BeginUpdate \/ StartFood \/ SkipFood \/ StartCollisions \/ FirstEatsSecond
            \/ SkipPair
            \/ \E batch \in [Slots -> InputBursts], failed \in SUBSET connected :
                    ReceivePackets(batch, failed)
  <2>1. /\ UNCHANGED <<players, outbox, connected>>
        /\ phase \notin {"SendPackets"}
        /\ phase' \notin {"RespawnPlayers", "BroadcastWorldState", "SendPackets"}
    BY <1>11
    DEF BeginUpdate, StartFood, SkipFood, InFoodLoop, StartCollisions, FirstEatsSecond,
        SkipPair, InPairLoop, ReceivePackets, netVars, worldVars
  <2> QED
    BY <1>0, <1>a, <2>1 DEF SettledInv, NobodyTooSmall, RespawnsProceed, OutboxOnlyToSend
<1>12. CASE Stopped \/ UNCHANGED serverVars
  BY <1>0, <1>12
  DEF Stopped, serverVars, netVars, worldVars, loopVars, SettledInv, NobodyTooSmall,
      RespawnsProceed, Respawned, OutboxOnlyToSend, WireShowsSettledWorld
<1>13. CASE Stop
  <2>1. phase = "Idle" /\ phase' = "Stopped" /\ connected' = {} /\ outbox' = outbox
    BY <1>13 DEF Stop
  <2> QED
    BY <1>a, <2>1 DEF SettledInv, NobodyTooSmall, RespawnsProceed, OutboxOnlyToSend
<1> QED
  BY <1>1, <1>2, <1>3, <1>4, <1>5, <1>6, <1>7, <1>8, <1>9, <1>10, <1>11, <1>12, <1>13
  DEF ServerNext, ServerStep

(* Every world state the server sends shows its addressee, exactly the     *)
(* connected players, and nobody who was eaten and not yet reset.          *)
THEOREM WireIsSettled == ServerSpec => []WireShowsSettledWorld
<1>1. ServerInit => SettledInv
  BY DEF ServerInit, EmptyServer, SettledInv, NobodyTooSmall, RespawnsProceed, OutboxOnlyToSend,
         WireShowsSettledWorld
<1>2. SettledInv => WireShowsSettledWorld
  BY DEF SettledInv
<1> QED
  BY <1>1, <1>2, SettledStep, CoreInvariant, PTL DEF ServerSpec

-----------------------------------------------------------------------------
(* The end of an update.                                                   *)

LEMMA FoodGetsOn ==
  ASSUME Typed, EatFood \/ SkipFood
  PROVE  phase' = phase /\ order' = order /\ LessToDo
<1>1. /\ phase = "HandleGameFood"
      /\ phase' = phase
      /\ order' = order
      /\ it1 <= Len(order)
      /\ NextFoodPair
  BY DEF EatFood, SkipFood, InFoodLoop
<1>2. /\ it1 \in Nat
      /\ it2 \in Nat
      /\ Len(order) \in Nat
      /\ MAX_FOOD \in Nat
  BY ProtocolAssumption DEF Typed, LoopsTyped
<1>3. NextIn(Len(order), MAX_FOOD)
  BY <1>1, <1>2 DEF NextFoodPair, NextIn
<1> QED
  BY <1>1, <1>3 DEF LessToDo

LEMMA PairsGetOn ==
  ASSUME Typed, FirstEatsSecond \/ SecondEatsFirst \/ SkipPair
  PROVE  phase' = phase /\ order' = order /\ LessToDo
<1>1. /\ phase = "HandlePlayerCollisions"
      /\ phase' = phase
      /\ order' = order
      /\ it2 <= Len(order)
      /\ NextPair
  BY DEF FirstEatsSecond, SecondEatsFirst, SkipPair, InPairLoop
<1>2. /\ it1 \in Nat
      /\ it2 \in Nat
      /\ it1 < it2
      /\ Len(order) \in Nat
  BY <1>1 DEF Typed, LoopsTyped, LoopsFitPhase
<1>3. NextIn(Len(order), Len(order))
  BY <1>1, <1>2 DEF NextPair, NextIn
<1> QED
  BY <1>1, <1>3 DEF LessToDo

LEMMA MessagesGetOn ==
  ASSUME Typed, NEW c \in Slots, ProcessMessage(c)
  PROVE  phase' = phase /\ order' = order /\ LessToDo
<1>1. /\ phase = "ProcessMessages"
      /\ phase' = phase
      /\ order' = order
      /\ inbox[c] # <<>>
      /\ inbox' = [inbox EXCEPT ![c] = Tail(inbox[c])]
  BY DEF ProcessMessage, Draining, WithMessages, loopVars
<1>2. \A d \in Slots : inbox[d] \in Seq(PlayerInputMessage) /\ Len(inbox[d]) \in Nat
  BY DEF Typed
<1>3. Len(Tail(inbox[c])) = Len(inbox[c]) - 1
  BY <1>1, <1>2
<1>4. /\ inbox'[c] = Tail(inbox[c])
      /\ \A d \in Slots \ {c} : inbox'[d] = inbox[d]
  BY <1>1 DEF Typed
<1>5. QueuesShrink
  <2>1. Len(inbox'[c]) < Len(inbox[c])
    BY <1>2, <1>3, <1>4
  <2>2. ASSUME NEW d \in Slots PROVE Len(inbox'[d]) <= Len(inbox[d])
    <3>1. CASE d = c
      <4>1. Len(inbox'[c]) = Len(inbox[c]) - 1
        BY <1>3, <1>4
      <4> QED
        BY <1>2, <3>1, <4>1
    <3>2. CASE d # c
      BY <1>2, <1>4, <3>2
    <3> QED
      BY <3>1, <3>2
  <2> QED
    BY <2>1, <2>2 DEF QueuesShrink
<1> QED
  BY <1>1, <1>5 DEF LessToDo

LEMMA StepGetsOn ==
  ASSUME Typed, ServerStep
  PROVE  \/ Progress[phase'] > Progress[phase]
         \/ phase' = phase /\ order' = order /\ LessToDo
<1>1. ASSUME NEW c \in Slots, c \in broken, ClientDisconnected(c)
      PROVE  phase' = phase /\ order' = order /\ LessToDo
  BY <1>1 DEF ClientDisconnected, LessToDo, loopVars
<1>2. CASE RespawnPlayer
  <2>1. /\ phase = "RespawnPlayers"
        /\ UNCHANGED <<phase, order, playersToRespawn>>
        /\ it1 <= Len(playersToRespawn)
        /\ it1' = it1 + 1
    BY <1>2 DEF RespawnPlayer
  <2>2. it1 \in Nat /\ Len(playersToRespawn) \in Nat
    BY DEF Typed, LoopsTyped
  <2>3. it1' > it1 /\ it1' <= Len(playersToRespawn) + 1
    BY <2>1, <2>2
  <2> QED
    BY <2>1, <2>3 DEF LessToDo
<1>3. CASE \/ \E batch \in [Slots -> InputBursts], failed \in SUBSET connected :
                   ReceivePackets(batch, failed)
           \/ StartFood \/ StartCollisions \/ StartRespawns \/ StartBroadcast
           \/ \E failed \in SUBSET connected : BroadcastWorldState(failed)
           \/ SendPackets
  <2>1. \/ phase = "AdvanceTime" /\ phase' = "ProcessMessages"
        \/ phase = "ProcessMessages" /\ phase' = "HandleGameFood"
        \/ phase = "HandleGameFood" /\ phase' = "HandlePlayerCollisions"
        \/ phase = "HandlePlayerCollisions" /\ phase' = "RespawnPlayers"
        \/ phase = "RespawnPlayers" /\ phase' = "BroadcastWorldState"
        \/ phase = "BroadcastWorldState" /\ phase' = "SendPackets"
        \/ phase = "SendPackets" /\ phase' = "Idle"
    BY <1>3
    DEF ReceivePackets, StartFood, StartCollisions, StartRespawns, StartBroadcast,
        BroadcastWorldState, SendPackets
  <2>2. Progress[phase'] > Progress[phase]
    BY <2>1 DEF Progress
  <2> QED
    BY <2>2
<1> QED
  BY <1>1, <1>2, <1>3, FoodGetsOn, PairsGetOn, MessagesGetOn DEF ServerStep

(* No step of an update goes round in a circle: queues, pairs and players  *)
(* to respawn are gone through once, however many there are and however    *)
(* the bodies of the loops change what they go through.  So an update ends *)
(* if its thread runs.                                                     *)
THEOREM EveryStepGetsOn == ServerSpec => UpdateGetsOn
<1>1. Typed /\ [ServerNext]_serverVars =>
        [ServerStep => \/ Progress[phase'] > Progress[phase]
                       \/ phase' = phase /\ order' = order /\ LessToDo]_serverVars
  BY StepGetsOn
<1> QED
  BY <1>1, CoreInvariant, PTL DEF ServerSpec, UpdateGetsOn
=============================================================================
