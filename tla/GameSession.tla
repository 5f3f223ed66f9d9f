----------------------------- MODULE GameSession -----------------------------
(***************************************************************************)
(* The server and its clients over the network they use: netcode packets   *)
(* carrying messages of yojimbo's unreliable unordered channel.  A packet  *)
(* may be lost or overtaken; netcode's replay protection and encryption    *)
(* exclude duplicates and packets of another connection.                   *)
(*                                                                         *)
(* Server and clients meet only in the packets in flight, which the server *)
(* reads in ReceivePackets and writes in SendPackets, so clients move      *)
(* between two updates of the server.                                      *)
(***************************************************************************)
EXTENDS GameServer, GameClient

CONSTANTS
  NoClient,        \* the occupant of a free slot
  InOrder,         \* TRUE: inputs arrive in order and none is lost, and a
                   \* world state comes neither after a younger one nor
                   \* after the end of the session it was sent in
  MaxTick,         \* bound on the updates of the server
  MaxPackets       \* bound on the packets one process takes in at once

ASSUME SessionAssumption ==
  /\ NoClient \notin Clients
  /\ InOrder \in BOOLEAN
  /\ MaxTick \in Nat
  /\ MaxPackets \in 0 .. MaxBurst

VARIABLES
  occupant,        \* yojimbo's server: the client behind each slot
  inputsInFlight,  \* inputs sent and not yet received, with their sender
  statesInFlight   \* world states sent and not yet received, with their addressee

linkVars    == <<occupant, inputsInFlight, statesInFlight>>
sessionVars == <<serverVars, clients, linkVars>>

-----------------------------------------------------------------------------
(* What a receiver takes in out of a set of packets: at most MaxPackets of *)
(* them, in any order or, on an orderly network, in the order of age.      *)
Arrivals(packets, Age(_)) ==
  {s \in UNION {[1 .. n -> packets] : n \in 0 .. MaxPackets} :
     \A i, j \in DOMAIN s : i < j => IF InOrder THEN Age(s[i]) < Age(s[j]) ELSE s[i] # s[j]}

InputAge(packet) == packet.sequenceNumber
StateAge(packet) == packet.message.serverTick

InputsFrom(c) == {packet \in inputsInFlight : packet.from = c}
StatesTo(c)   == {packet \in statesInFlight : packet.to = c}

(* A sequence of inputs none of which is missing from the start.           *)
NoneMissing(s, packets) ==
  \A i \in DOMAIN s : \A p \in packets :
    p.sequenceNumber < s[i].sequenceNumber => \E j \in DOMAIN s : s[j] = p

InputArrivals(slot) ==
  LET packets == InputsFrom(occupant[slot])
  IN  {s \in Arrivals(packets, InputAge) : InOrder => NoneMissing(s, packets)}

InputPayload(s) ==
  [i \in DOMAIN s |-> [sequenceNumber |-> s[i].sequenceNumber, move |-> s[i].move]]

-----------------------------------------------------------------------------
SentInput == [from : Clients, sequenceNumber : 1 .. MaxSeq, move : Moves]
SentState == [to : Clients, message : WorldStateMessages]

(* Nobody has a slot, nothing is in flight, the clients are about to ask.  *)
NobodyYet ==
  /\ ClientInit
  /\ occupant = [s \in Slots |-> NoClient]
  /\ inputsInFlight = {}
  /\ statesInFlight = {}

SessionInit == ServerInit /\ NobodyYet

(* A server whose slots have been used: what their occupants have left in  *)
(* m_lastProcessedInput is still there.                                    *)
UsedSlotsInit ==
  /\ EmptyServer
  /\ lastProcessedInput \in [Slots -> 0 .. MaxSeq]
  /\ NobodyYet

Update ==
  /\ BeginUpdate
  /\ serverTick < MaxTick
  /\ UNCHANGED <<clients, linkVars>>

(* A client that asks for a connection is given a free slot.               *)
Admit(c, s) ==
  /\ clients[c].status = "connecting"
  /\ \A t \in Slots : occupant[t] # c
  /\ ClientConnected(s)
  /\ occupant' = [occupant EXCEPT ![s] = c]
  /\ UNCHANGED <<clients, inputsInFlight, statesInFlight>>

(* The server drops a client that closed its connection or fell silent;    *)
(* what that client still has in flight will not be accepted any more.     *)
Drop(s) ==
  /\ ClientDisconnected(s)
  /\ occupant' = [occupant EXCEPT ![s] = NoClient]
  /\ inputsInFlight' = inputsInFlight \ InputsFrom(occupant[s])
  /\ statesInFlight' =
       {packet \in statesInFlight : InOrder => packet \notin StatesTo(occupant[s])}
  /\ UNCHANGED clients

ServerReceives ==
  /\ phase = "AdvanceTime"
  /\ \E arrived \in [Slots -> UNION {InputArrivals(s) : s \in Slots}] :
       /\ \A s \in Slots : arrived[s] \in InputArrivals(s)
       /\ \E failed \in SUBSET connected :
            ReceivePackets([s \in Slots |-> InputPayload(arrived[s])], failed)
       /\ inputsInFlight' = inputsInFlight \ UNION {Range(arrived[s]) : s \in Slots}
  /\ UNCHANGED <<clients, occupant, statesInFlight>>

ServerWorks ==
  /\ \/ \E s \in Slots : ProcessMessage(s)
     \/ StartFood
     \/ EatFood
     \/ SkipFood
     \/ StartCollisions
     \/ FirstEatsSecond
     \/ SecondEatsFirst
     \/ SkipPair
     \/ StartRespawns
     \/ RespawnPlayer
     \/ StartBroadcast
     \/ \E failed \in SUBSET connected : BroadcastWorldState(failed)
  /\ UNCHANGED <<clients, linkVars>>

ServerSends ==
  /\ SendPackets
  /\ statesInFlight' = statesInFlight \cup
       UNION {{[to |-> occupant[s], message |-> outbox[s][i]] : i \in DOMAIN outbox[s]} :
                s \in Slots}
  /\ UNCHANGED <<clients, occupant, inputsInFlight>>

(* A server that stops drops everybody, and with them what is in flight.   *)
ServerStops ==
  /\ Stop
  /\ occupant' = [s \in Slots |-> NoClient]
  /\ inputsInFlight' = {}
  /\ statesInFlight' = IF InOrder THEN {} ELSE statesInFlight
  /\ UNCHANGED clients

ServerHasStopped == Stopped /\ UNCHANGED <<clients, linkVars>>

-----------------------------------------------------------------------------
BetweenUpdates == phase \in {"Idle", "Stopped"}

(* A client learns its slot once the server has admitted it.               *)
Accepted(c) ==
  /\ BetweenUpdates
  /\ \E s \in Slots : occupant[s] = c /\ ClientAccepted(c, s)
  /\ UNCHANGED <<serverVars, linkVars>>

(* What an orderly network has let a world state overtake is lost.         *)
Overtaken(c, arrived) ==
  {packet \in StatesTo(c) :
     InOrder /\ \E i \in DOMAIN arrived : StateAge(packet) < StateAge(arrived[i])}

(* An Update of client c with the keys of move down.                       *)
ClientRuns(c, move) ==
  /\ BetweenUpdates
  /\ move # NoMove => clients[c].inputSequence < MaxSeq
  /\ \E arrived \in Arrivals(StatesTo(c), StateAge) :
       /\ ClientUpdate(c, [i \in DOMAIN arrived |-> arrived[i].message], move)
       /\ statesInFlight' = statesInFlight \ (Range(arrived) \cup Overtaken(c, arrived))
  /\ \E sent \in SUBSET {[from |-> c, sequenceNumber |-> clients'[c].inputSequence,
                          move |-> move]} :
       /\ clients'[c].inputSequence = clients[c].inputSequence => sent = {}
       /\ InOrder /\ clients'[c].inputSequence # clients[c].inputSequence => sent # {}
       /\ inputsInFlight' = inputsInFlight \cup sent
  /\ UNCHANGED <<serverVars, occupant>>

(* A client closes its connection, or finds it closed or silent.           *)
Leaves(c) ==
  /\ BetweenUpdates
  /\ ClientDropped(c)
  /\ statesInFlight' = statesInFlight \ StatesTo(c)
  /\ UNCHANGED <<serverVars, occupant, inputsInFlight>>

SessionNext ==
  \/ Update
  \/ \E c \in Clients, s \in Slots : Admit(c, s)
  \/ \E s \in Slots : Drop(s)
  \/ ServerReceives
  \/ ServerWorks
  \/ ServerSends
  \/ ServerStops
  \/ ServerHasStopped
  \/ \E c \in Clients : Accepted(c)
  \/ \E c \in Clients, move \in Moves \cup {NoMove} : ClientRuns(c, move)
  \/ \E c \in Clients : Leaves(c)

SessionSpec == SessionInit /\ [][SessionNext]_sessionVars

(* The server's thread, which runs update after update.                    *)
ServerRuns ==
  \/ Update
  \/ \E s \in Slots : s \in broken /\ Drop(s)
  \/ ServerReceives
  \/ ServerWorks
  \/ ServerSends

(* A world state that shows the world as it still is reaches client c (and *)
(* nothing else: ClientRuns with that packet).                             *)
NewsReaches(c) ==
  /\ BetweenUpdates
  /\ clients[c].status = "connected"
  /\ \E s \in Slots, packet \in StatesTo(c) :
       /\ occupant[s] = c
       /\ packet.message = WorldStateMessage(s)
       /\ statesInFlight' = statesInFlight \ {packet}

(* The server goes on, and the network is fair: of a world state that is   *)
(* sent over and over one gets through.                                    *)
SessionFairness ==
  /\ WF_sessionVars(ServerRuns)
  /\ \A c \in Clients : SF_statesInFlight(NewsReaches(c))

FairSessionSpec == SessionSpec /\ SessionFairness

-----------------------------------------------------------------------------
(* Properties.                                                             *)

(* Every variable stays in its type, whatever arrives late, stale or not   *)
(* at all; in particular only inputs a keyboard can make are on their way. *)
SessionTypeOK ==
  /\ clients \in [Clients -> ClientState]
  /\ occupant \in [Slots -> Clients \cup {NoClient}]
  /\ inputsInFlight \in SUBSET SentInput
  /\ statesInFlight \in SUBSET SentState

(* What clients and network do to the server is what GameServer allows its *)
(* environment: each slot gets a burst of well-formed inputs per update,   *)
(* clients come and go in AdvanceTime.  So all that holds of the server    *)
(* alone holds in every session.                                           *)
ImplementsServer == ServerSpec

(* The input history of a client is the run of its latest inputs, without  *)
(* gaps and never longer than MAX_INPUT_HISTORY, whatever acknowledgements *)
(* arrive, late, stale or of another session of the slot (SendInput and    *)
(* ReconcileWithServer both edit it).                                      *)
HistoryIsRecent ==
  \A c \in Clients :
    LET history == clients[c].inputHistory
        n       == Len(history)
    IN  /\ n <= MAX_INPUT_HISTORY
        /\ \A i \in 1 .. n :
             history[i].sequenceNumber = clients[c].inputSequence - n + i

(* What a client predicts is the server's last word plus the inputs it has *)
(* kept: SendInput's increments and ReconcileWithServer's replay agree.    *)
(* Only a history that has overflowed has forgotten inputs the prediction  *)
(* contains.                                                               *)
PredictionIsReplay ==
  \A c \in Clients :
    clients[c].isLocalPlayerCreated /\ Len(clients[c].inputHistory) < MAX_INPUT_HISTORY =>
      clients[c].predictedPlayer = Replay(clients[c].localPlayer, clients[c].inputHistory)

(* Where the server takes a player with the moves it has yet to process.   *)
WillBeAt(position, moves) ==
  LET at[n \in 0 .. Len(moves)] ==
        IF n = 0 THEN position ELSE Moved(at[n - 1], moves[n])
  IN  at[Len(moves)]

(* The inputs of a client on their way to the server, the oldest first.    *)
Flying(c) ==
  CHOOSE s \in [1 .. Cardinality(InputsFrom(c)) -> InputsFrom(c)] :
    \A i, j \in DOMAIN s : i < j => InputAge(s[i]) < InputAge(s[j])

(* The moves the server has yet to process of the client behind a slot.    *)
MovesToProcess(s) ==
  LET inputs == inbox[s] \o InputPayload(Flying(occupant[s]))
  IN  [i \in DOMAIN inputs |-> inputs[i].move]

(* The client sees its player exactly where the server will have put it    *)
(* once the inputs on their way are processed.  This is what prediction    *)
(* and reconciliation are for; it needs an orderly network, and nobody     *)
(* eaten meanwhile.                                                        *)
PredictionIsExact ==
  \A s \in Slots :
    LET c == occupant[s]
    IN  /\ c # NoClient
        /\ clients[c].status = "connected"
        /\ clients[c].isLocalPlayerCreated
        /\ Len(clients[c].inputHistory) < MAX_INPUT_HISTORY
        => clients[c].predictedPlayer.position =
             WillBeAt(players[s].position, MovesToProcess(s))

(* The same as a refinement: a client shows its player one stride further  *)
(* at every key press and at no other moment, however late world states    *)
(* are, while the server processes its inputs one by one.                  *)
Predicting(c) ==
  /\ clients[c].status = "connected"
  /\ clients[c].isLocalPlayerCreated
  /\ Len(clients[c].inputHistory) < MAX_INPUT_HISTORY
  /\ \E s \in Slots : occupant[s] = c

SlotOf(c) == CHOOSE s \in Slots : occupant[s] = c

PredictionOf(c) == INSTANCE Prediction WITH
  playing     <- Predicting(c),
  shown       <- IF Predicting(c) THEN clients[c].predictedPlayer.position ELSE NoMove,
  truth       <- IF Predicting(c) THEN players[SlotOf(c)].position ELSE NoMove,
  unprocessed <- IF Predicting(c) THEN MovesToProcess(SlotOf(c)) ELSE <<>>

ImplementsPrediction ==
  /\ \A c \in Clients : PredictionOf(c)!Init
  /\ [][\A c \in Clients :
          [PredictionOf(c)!Next]_(PredictionOf(c)!predictionVars)]_sessionVars

Distance(a, b) == IF a < b THEN b - a ELSE a - b

(* The server moves a player by at most one stride per input its client    *)
(* ever made: loss, reordering and reconnection never make it move more.   *)
MovedAtMostAsSent ==
  \A s \in Slots :
    occupant[s] # NoClient =>
      \E p \in SpawnPoints :
        /\ Distance(players[s].position.x, p.x) <= Stride * clients[occupant[s]].inputSequence
        /\ Distance(players[s].position.y, p.y) <= Stride * clients[occupant[s]].inputSequence

(* protocol.hpp says of lastProcessedInputSeq: the last input sequence the *)
(* server processed for this client.  So it is one this client has sent.   *)
AckIsOwn ==
  \A s \in Slots :
    occupant[s] # NoClient =>
      lastProcessedInput[s] <= clients[occupant[s]].inputSequence

(* protocol.hpp calls the sequence numbers of inputs monotonically          *)
(* increasing, and lastProcessedInputSeq the last one that the server has  *)
(* processed; the client, who drops all inputs up to it, takes what it is  *)
(* told for a point in its own past.  So while a client keeps its slot its *)
(* acknowledgements never move back.                                       *)
AcksIncrease ==
  [][\A s \in Slots : occupant'[s] = occupant[s] =>
       lastProcessedInput'[s] >= lastProcessedInput[s]]_sessionVars

(* The client is in the game and stays there if nobody ends its session.   *)
Playing(c) ==
  /\ phase # "Stopped"
  /\ clients[c].status = "connected"
  /\ \E s \in Slots : occupant[s] = c

(* The server has processed the last input of the client's player.         *)
LastInputProcessed(c) ==
  \E s \in Slots :
    occupant[s] = c /\ lastProcessedInput[s] = clients[c].inputSequence

ShowsOwnPosition(c) ==
  \A s \in Slots :
    occupant[s] = c => clients[c].predictedPlayer = players[s]

(* Whatever was lost, late or stale: a client that rests with its last     *)
(* input processed comes to show its player where the server has it, and   *)
(* goes on doing so.  ReconcileWithServer has to undo every wrong guess.   *)
SettlesOnServer ==
  \A c \in Clients : <>[](Playing(c) /\ LastInputProcessed(c)) => <>[]ShowsOwnPosition(c)

ShowsTheOthers(c) ==
  \A s \in Slots :
    occupant[s] = c => {p.id : p \in clients[c].otherPlayers} = connected \ {s}

(* When nobody comes or goes any more, every client in the game shows the  *)
(* players that are, and none that has left.                               *)
SeesWhoIsThere ==
  \A c \in Clients :
    <>[]Playing(c) /\ <>[][connected' = connected]_sessionVars => <>[]ShowsTheOthers(c)
=============================================================================
