-------------------------- MODULE GameSessionProofs --------------------------
(***************************************************************************)
(* Machine-checked proofs about GameSession, for every number of clients   *)
(* and slots, and every network the module allows.                         *)
(*                                                                         *)
(* Linked is the inductive core: the proofs about the server and about one *)
(* client, and how the network's packets and the slots' occupants tie them *)
(* together.  That a step of a session is a step of the server, or leaves  *)
(* it alone, carries everything proved of GameServer over.                 *)
(***************************************************************************)
EXTENDS GameSession, ServerRefinesArena, GameClientProofs

-----------------------------------------------------------------------------
(* The inductive core.                                                     *)

ClientsSound ==
  /\ clients \in [Clients -> ClientState]
  /\ \A c \in Clients :
       /\ ClientInv(clients[c])
       /\ clients[c].inputSequence <= MaxSeq
       /\ clients[c].status = "connecting" => clients[c].inputSequence = 0

PacketsTyped ==
  /\ inputsInFlight \in SUBSET SentInput
  /\ statesInFlight \in SUBSET SentState

(* Every connected slot has its client, and no client has two.             *)
OccupantsMatch ==
  /\ occupant \in [Slots -> Clients \cup {NoClient}]
  /\ \A s \in Slots : occupant[s] # NoClient <=> s \in connected
  /\ \A s, t \in Slots : occupant[s] = occupant[t] /\ occupant[s] # NoClient => s = t

Linked == ClientsSound /\ PacketsTyped /\ OccupantsMatch

SessionInv == Typed /\ InputsInv /\ SettledInv /\ Linked

-----------------------------------------------------------------------------
(* What the steps of a session are to the server.                          *)

(* Packets that arrive are in flight, and no more than MaxPackets of them. *)
LEMMA InputArrivalsTyped ==
  ASSUME PacketsTyped, NEW s \in Slots, NEW a \in InputArrivals(s)
  PROVE  \E n \in 0 .. MaxPackets :
           /\ a \in [1 .. n -> InputsFrom(occupant[s])]
           /\ a \in Seq(SentInput)
           /\ Len(a) = n
<1>1. PICK n \in 0 .. MaxPackets : a \in [1 .. n -> InputsFrom(occupant[s])]
  BY DEF InputArrivals, Arrivals
<1>2. InputsFrom(occupant[s]) \subseteq SentInput
  BY DEF InputsFrom, PacketsTyped
<1>3. n \in Nat
  BY SessionAssumption, ServerAssumption
<1>4. a \in Seq(SentInput) /\ Len(a) = n
  BY <1>1, <1>2, <1>3
<1> QED
  BY <1>1, <1>4

(* The payload of what arrives at a slot is a burst of inputs.             *)
LEMMA PayloadIsBurst ==
  ASSUME PacketsTyped, NEW s \in Slots, NEW a \in InputArrivals(s)
  PROVE  InputPayload(a) \in InputBursts
<1>1. PICK n \in 0 .. MaxPackets : a \in [1 .. n -> InputsFrom(occupant[s])]
  BY InputArrivalsTyped
<1>2. n \in 0 .. MaxBurst
  BY SessionAssumption, ServerAssumption
<1>3. \A i \in 1 .. n : /\ a[i].sequenceNumber \in 1 .. MaxSeq
                        /\ a[i].move \in Moves
  BY <1>1 DEF InputsFrom, PacketsTyped, SentInput
<1>4. InputPayload(a) \in [1 .. n -> [sequenceNumber : 1 .. MaxSeq, move : Moves]]
  BY <1>1, <1>3 DEF InputPayload
<1> QED
  BY <1>2, <1>4 DEF InputBursts

LEMMA SessionStepIsServerStep ==
  ASSUME PacketsTyped, [SessionNext]_sessionVars
  PROVE  [ServerNext]_serverVars
<1>1. CASE Update
  BY <1>1 DEF Update, ServerNext
<1>2. ASSUME NEW c \in Clients, NEW s \in Slots, Admit(c, s)
      PROVE  ServerNext
  BY <1>2 DEF Admit, ServerNext
<1>3. ASSUME NEW s \in Slots, Drop(s)
      PROVE  ServerNext
  BY <1>3 DEF Drop, ServerNext
<1>4. CASE ServerReceives
  <2>1. PICK arrived \in [Slots -> UNION {InputArrivals(s) : s \in Slots}] :
          /\ \A s \in Slots : arrived[s] \in InputArrivals(s)
          /\ \E failed \in SUBSET connected :
               ReceivePackets([s \in Slots |-> InputPayload(arrived[s])], failed)
          /\ phase = "AdvanceTime"
    BY <1>4 DEF ServerReceives
  <2>2. [s \in Slots |-> InputPayload(arrived[s])] \in [Slots -> InputBursts]
    BY <2>1, PayloadIsBurst
  <2> QED
    BY <2>1, <2>2 DEF ServerNext, ServerStep
<1>5. CASE ServerWorks
  BY <1>5 DEF ServerWorks, ServerNext, ServerStep
<1>6. CASE ServerSends
  BY <1>6 DEF ServerSends, ServerNext, ServerStep
<1>7. CASE ServerStops \/ ServerHasStopped
  BY <1>7 DEF ServerStops, ServerHasStopped, ServerNext
<1>8. CASE \/ \E c \in Clients : Accepted(c)
           \/ \E c \in Clients, move \in Moves \cup {NoMove} : ClientRuns(c, move)
           \/ \E c \in Clients : Leaves(c)
           \/ UNCHANGED sessionVars
  BY <1>8 DEF Accepted, ClientRuns, Leaves, sessionVars
<1> QED
  BY <1>1, <1>2, <1>3, <1>4, <1>5, <1>6, <1>7, <1>8 DEF SessionNext

(* A server step other than these leaves the clients and the links alone.  *)
LEMMA ServerAlone ==
  ASSUME Update \/ ServerWorks \/ ServerHasStopped \/ UNCHANGED sessionVars
  PROVE  UNCHANGED <<clients, linkVars>>
BY DEF Update, ServerWorks, ServerHasStopped, sessionVars

-----------------------------------------------------------------------------
(* The core is inductive.                                                  *)

LEMMA LinkedInit == EmptyServer /\ NobodyYet => Linked
<1> SUFFICES ASSUME EmptyServer, NobodyYet PROVE Linked
  OBVIOUS
<1>1. /\ 0 \in Slots
      /\ NoMove \in Position
      /\ DefaultPlayer \in PlayerState
      /\ <<>> \in Seq(StoredInput)
      /\ <<>> \in Seq(Snapshot)
      /\ Len(<<>>) = 0
  BY ProtocolAssumption DEF Slots, NoMove, DefaultPlayer, PlayerState, Position
<1>2. ASSUME NEW c \in Clients
      PROVE  ClientInv(clients[c]) /\ clients[c].inputSequence = 0
  <2>1. clients[c] =
          [status               |-> "connecting",
           clientIndex          |-> 0,
           isLocalPlayerCreated |-> FALSE,
           localPlayer          |-> DefaultPlayer,
           predictedPlayer      |-> DefaultPlayer,
           inputSequence        |-> 0,
           inputHistory         |-> <<>>,
           snapshotBuffer       |-> <<>>,
           otherPlayers         |-> {},
           foodItems            |-> <<>>]
    BY DEF NobodyYet, ClientInit
  <2>2. clients[c] \in ClientState
    BY <1>1, <2>1 DEF ClientState, ConnectionStatus
  <2>3. Recent(clients[c]) /\ Unmoved(clients[c]) /\ Replayed(clients[c])
    BY <1>1, <2>1, ClientAssumption DEF Recent, Unmoved, Replayed
  <2> QED
    BY <2>1, <2>2, <2>3 DEF ClientInv
<1>3. ClientsSound
  <2>1. clients \in [Clients -> ClientState]
    <3>1. clients = [c \in Clients |-> clients[c]]
      BY DEF NobodyYet, ClientInit
    <3>2. \A c \in Clients : clients[c] \in ClientState
      BY <1>2 DEF ClientInv
    <3> QED
      BY <3>1, <3>2
  <2> QED
    BY <1>2, <2>1, ServerAssumption DEF ClientsSound
<1>4. PacketsTyped /\ OccupantsMatch
  BY DEF NobodyYet, EmptyServer, PacketsTyped, OccupantsMatch
<1> QED
  BY <1>3, <1>4 DEF Linked

(* What the server broadcasts is what the client reads.                    *)
LEMMA WorldStateIsRead == WorldStateMessages \subseteq WorldState
<1>1. 0 .. TickWrap - 1 \subseteq Nat
  BY ServerAssumption
<1> QED
  BY <1>1 DEF WorldStateMessages, WorldState, ShownPlayer

LEMMA StateArrivalsTyped ==
  ASSUME PacketsTyped, NEW c \in Clients, NEW a \in Arrivals(StatesTo(c), StateAge)
  PROVE  \E n \in Nat :
           /\ a \in [1 .. n -> StatesTo(c)]
           /\ \A i \in 1 .. n : a[i] \in SentState /\ a[i].message \in WorldState
<1>1. PICK n \in 0 .. MaxPackets : a \in [1 .. n -> StatesTo(c)]
  BY DEF Arrivals
<1>2. n \in Nat
  BY SessionAssumption, ServerAssumption
<1>3. \A i \in 1 .. n : a[i] \in SentState /\ a[i].message \in WorldState
  BY <1>1, WorldStateIsRead DEF StatesTo, PacketsTyped, SentState
<1> QED
  BY <1>1, <1>2, <1>3

(* An Update of a client, as its parts are seen from outside.              *)
LEMMA ClientRunsEffect ==
  ASSUME Linked, NEW c \in Clients, NEW move \in Moves \cup {NoMove}, ClientRuns(c, move)
  PROVE  /\ clients' = [clients EXCEPT ![c] = clients'[c]]
         /\ clients[c].status = "connected"
         /\ ClientInv(clients'[c])
         /\ clients'[c].status = clients[c].status
         /\ clients'[c].clientIndex = clients[c].clientIndex
         /\ \/ clients'[c].inputSequence = clients[c].inputSequence
            \/ /\ move \in Moves
               /\ clients[c].inputSequence < MaxSeq
               /\ clients'[c].inputSequence = clients[c].inputSequence + 1
<1>1. PICK arrived \in Arrivals(StatesTo(c), StateAge) :
        ClientUpdate(c, [i \in DOMAIN arrived |-> arrived[i].message], move)
  BY DEF ClientRuns
<1> DEFINE messages == [i \in DOMAIN arrived |-> arrived[i].message]
<1>2. PICK n \in Nat :
        /\ arrived \in [1 .. n -> StatesTo(c)]
        /\ \A i \in 1 .. n : arrived[i] \in SentState /\ arrived[i].message \in WorldState
  BY StateArrivalsTyped DEF Linked
<1>3. Len(messages) \in Nat /\ \A i \in 1 .. Len(messages) : messages[i] \in WorldState
  <2>1. messages \in [1 .. n -> WorldState]
    BY <1>2
  <2> HIDE DEF messages
  <2> QED
    BY <2>1
<1>4. ClientInv(clients[c]) /\ clients \in [Clients -> ClientState]
  BY DEF Linked, ClientsSound
<1> HIDE DEF messages
<1> DEFINE after == RefreshOtherPlayers(SendInput(ReceiveWorldStates(clients[c], messages), move))
<1>5. /\ clients[c].status = "connected"
      /\ clients' = [clients EXCEPT ![c] = after]
  BY <1>1 DEF ClientUpdate, messages
<1>6. /\ ClientInv(after)
      /\ after.status = clients[c].status
      /\ after.clientIndex = clients[c].clientIndex
      /\ \/ after.inputSequence = clients[c].inputSequence
         \/ move \in Moves /\ after.inputSequence = clients[c].inputSequence + 1
  BY <1>3, <1>4, UpdateEffect
<1>7. move # NoMove => clients[c].inputSequence < MaxSeq
  BY DEF ClientRuns
<1>8. \A m \in Moves : m # NoMove
  BY ProtocolAssumption DEF KeyboardMoves, NoMove
<1> HIDE DEF after
<1>9. clients'[c] = after
  BY <1>4, <1>5
<1> QED
  BY <1>5, <1>6, <1>7, <1>8, <1>9

LEMMA ServerStepsKeepConnected ==
  ASSUME Update \/ ServerReceives \/ ServerWorks \/ ServerSends \/ ServerHasStopped
  PROVE  connected' = connected
BY DEF Update, BeginUpdate, ServerReceives, ReceivePackets, ServerWorks, ProcessMessage,
       StartFood, EatFood, SkipFood, StartCollisions, FirstEatsSecond, SecondEatsFirst,
       SkipPair, StartRespawns, RespawnPlayer, StartBroadcast, BroadcastWorldState,
       ServerSends, SendPackets, ServerHasStopped, Stopped, serverVars, netVars

LEMMA LinkedStep ==
  ASSUME Typed, SettledInv, Linked, [SessionNext]_sessionVars
  PROVE  Linked'
<1> USE DEF Linked
<1>1. ASSUME UNCHANGED <<clients, linkVars>>, connected' = connected PROVE Linked'
  BY <1>1 DEF linkVars, ClientsSound, PacketsTyped, OccupantsMatch
<1>2. ASSUME NEW c \in Clients, NEW s \in Slots, Admit(c, s) PROVE Linked'
  <2>1. /\ occupant' = [occupant EXCEPT ![s] = c]
        /\ connected' = connected \cup {s}
        /\ s \notin connected
        /\ \A t \in Slots : occupant[t] # c
        /\ UNCHANGED <<clients, inputsInFlight, statesInFlight>>
    BY <1>2 DEF Admit, ClientConnected
  <2>2. OccupantsMatch'
    BY <2>1, SessionAssumption DEF OccupantsMatch
  <2> QED
    BY <2>1, <2>2 DEF ClientsSound, PacketsTyped
<1>3. ASSUME NEW s \in Slots, Drop(s) PROVE Linked'
  <2>1. /\ occupant' = [occupant EXCEPT ![s] = NoClient]
        /\ connected' = connected \ {s}
        /\ inputsInFlight' \subseteq inputsInFlight
        /\ statesInFlight' \subseteq statesInFlight
        /\ clients' = clients
    BY <1>3 DEF Drop, ClientDisconnected
  <2>2. OccupantsMatch'
    BY <2>1, SessionAssumption DEF OccupantsMatch
  <2> QED
    BY <2>1, <2>2 DEF ClientsSound, PacketsTyped
<1>4. CASE ServerReceives
  <2>1. /\ inputsInFlight' \subseteq inputsInFlight
        /\ UNCHANGED <<clients, occupant, statesInFlight>>
    BY <1>4 DEF ServerReceives
  <2> QED
    BY <1>4, <2>1, ServerStepsKeepConnected DEF ClientsSound, PacketsTyped, OccupantsMatch
<1>5. CASE ServerSends
  <2>1. /\ UNCHANGED <<clients, occupant, inputsInFlight>>
        /\ statesInFlight' = statesInFlight \cup
             UNION {{[to |-> occupant[s], message |-> outbox[s][i]] : i \in DOMAIN outbox[s]} :
                      s \in Slots}
    BY <1>5 DEF ServerSends
  <2>2. ASSUME NEW s \in Slots, NEW i \in DOMAIN outbox[s]
        PROVE  occupant[s] \in Clients /\ outbox[s][i] \in WorldStateMessages
    <3>1. outbox[s] \in Seq(WorldStateMessages)
      BY DEF Typed
    <3>2. s \in connected
      BY DEF SettledInv, WireShowsSettledWorld
    <3> QED
      BY <3>1, <3>2 DEF OccupantsMatch
  <2>3. statesInFlight' \in SUBSET SentState
    BY <2>1, <2>2 DEF PacketsTyped, SentState
  <2> QED
    BY <1>5, <2>1, <2>3, ServerStepsKeepConnected DEF ClientsSound, PacketsTyped, OccupantsMatch
<1>6. ASSUME NEW c \in Clients,
             \/ Accepted(c)
             \/ Leaves(c)
             \/ \E move \in Moves \cup {NoMove} : ClientRuns(c, move)
      PROVE  /\ UNCHANGED <<connected, occupant>>
             /\ statesInFlight' \subseteq statesInFlight
  BY <1>6 DEF Accepted, Leaves, ClientRuns, serverVars, netVars, linkVars
<1>7. ASSUME NEW c \in Clients, NEW client \in ClientState,
             clients' = [clients EXCEPT ![c] = client],
             ClientInv(client),
             client.inputSequence <= MaxSeq,
             client.status = "connecting" => client.inputSequence = 0
      PROVE  ClientsSound'
  BY <1>7 DEF ClientsSound
<1>8. ASSUME NEW c \in Clients, Accepted(c) PROVE Linked'
  <2>1. PICK s \in Slots : ClientAccepted(c, s)
    BY <1>8 DEF Accepted
  <2> DEFINE before == clients[c]
             client == [before EXCEPT !.status = "connected", !.clientIndex = s]
  <2>2. clients' = [clients EXCEPT ![c] = client]
    BY <2>1 DEF ClientAccepted
  <2>3. /\ before \in ClientState
        /\ ClientInv(before)
        /\ before.inputSequence <= MaxSeq
    BY DEF ClientsSound
  <2> HIDE DEF before
  <2>4. /\ client \in ClientState
        /\ client.status = "connected"
        /\ client.inputSequence = before.inputSequence
        /\ client.inputHistory = before.inputHistory
        /\ client.isLocalPlayerCreated = before.isLocalPlayerCreated
        /\ client.localPlayer = before.localPlayer
        /\ client.predictedPlayer = before.predictedPlayer
    BY <2>3 DEF ClientState, ConnectionStatus
  <2> HIDE DEF client
  <2>5. ClientInv(client)
    BY <2>3, <2>4 DEF ClientInv, Recent, Unmoved, Replayed
  <2>6. ClientsSound'
    BY <1>7, <2>2, <2>3, <2>4, <2>5
  <2> QED
    BY <1>6, <1>8, <2>6 DEF Accepted, linkVars, PacketsTyped, OccupantsMatch
<1>9. ASSUME NEW c \in Clients, Leaves(c) PROVE Linked'
  <2> DEFINE before == clients[c]
             client == [before EXCEPT !.status = "disconnected"]
  <2>1. clients' = [clients EXCEPT ![c] = client]
    BY <1>9 DEF Leaves, ClientDropped
  <2>2. /\ before \in ClientState
        /\ ClientInv(before)
        /\ before.inputSequence <= MaxSeq
    BY DEF ClientsSound
  <2> HIDE DEF before
  <2>3. /\ client \in ClientState
        /\ client.status = "disconnected"
        /\ client.inputSequence = before.inputSequence
        /\ client.inputHistory = before.inputHistory
        /\ client.isLocalPlayerCreated = before.isLocalPlayerCreated
        /\ client.localPlayer = before.localPlayer
        /\ client.predictedPlayer = before.predictedPlayer
    BY <2>2 DEF ClientState, ConnectionStatus
  <2> HIDE DEF client
  <2>4. ClientInv(client)
    BY <2>2, <2>3 DEF ClientInv, Recent, Unmoved, Replayed
  <2>5. ClientsSound'
    BY <1>7, <2>1, <2>2, <2>3, <2>4
  <2> QED
    BY <1>6, <1>9, <2>5 DEF Leaves, PacketsTyped, OccupantsMatch
<1>10. ASSUME NEW c \in Clients, NEW move \in Moves \cup {NoMove}, ClientRuns(c, move)
       PROVE  Linked'
  <2> DEFINE client == clients'[c]
  <2>1. /\ clients' = [clients EXCEPT ![c] = client]
        /\ clients[c].status = "connected"
        /\ ClientInv(client)
        /\ client.status = clients[c].status
        /\ \/ client.inputSequence = clients[c].inputSequence
           \/ /\ move \in Moves
              /\ clients[c].inputSequence < MaxSeq
              /\ client.inputSequence = clients[c].inputSequence + 1
    BY <1>10, ClientRunsEffect
  <2>2. clients[c].inputSequence \in 0 .. MaxSeq /\ MaxSeq \in Nat
    BY ServerAssumption DEF ClientsSound, ClientState
  <2>3. inputsInFlight' \in SUBSET SentInput
    <3>1. PICK sent \in SUBSET {[from |-> c, sequenceNumber |-> clients'[c].inputSequence,
                                 move |-> move]} :
            /\ clients'[c].inputSequence = clients[c].inputSequence => sent = {}
            /\ inputsInFlight' = inputsInFlight \cup sent
      BY <1>10 DEF ClientRuns
    <3>2. sent \in SUBSET SentInput
      BY <2>1, <2>2, <3>1 DEF SentInput
    <3> QED
      BY <3>1, <3>2 DEF PacketsTyped
  <2> HIDE DEF client
  <2>4. client \in ClientState
    BY <2>1 DEF ClientInv
  <2>5. client.inputSequence <= MaxSeq /\ client.status # "connecting"
    BY <2>1, <2>2
  <2>6. ClientsSound'
    BY <1>7, <2>1, <2>4, <2>5
  <2> QED
    BY <1>6, <1>10, <2>3, <2>6 DEF PacketsTyped, OccupantsMatch
<1>12. CASE ServerStops
  BY <1>12, SessionAssumption
  DEF ServerStops, Stop, ClientsSound, PacketsTyped, OccupantsMatch
<1>11. CASE Update \/ ServerWorks \/ ServerHasStopped \/ UNCHANGED sessionVars
  BY <1>1, <1>11, ServerAlone, ServerStepsKeepConnected DEF sessionVars, serverVars, netVars
<1> QED
  BY <1>2, <1>3, <1>4, <1>5, <1>8, <1>9, <1>10, <1>11, <1>12 DEF SessionNext

(* A session begins with nobody connected, whatever the acknowledgements.  *)
LEMMA EmptySession ==
  ASSUME EmptyServer, lastProcessedInput \in [Slots -> Nat], NobodyYet
  PROVE  SessionInv
<1>1. InputsInv
  BY DEF EmptyServer, InputsInv
<1>2. SettledInv
  BY DEF EmptyServer, SettledInv, NobodyTooSmall, RespawnsProceed, OutboxOnlyToSend,
         WireShowsSettledWorld
<1> QED
  BY <1>1, <1>2, EmptyTyped, LinkedInit DEF SessionInv

LEMMA SessionInvInit == SessionInit => SessionInv
BY EmptySession DEF SessionInit, ServerInit

LEMMA SessionInvStep == SessionInv /\ [SessionNext]_sessionVars => SessionInv'
<1> SUFFICES ASSUME SessionInv, [SessionNext]_sessionVars PROVE SessionInv'
  OBVIOUS
<1>1. Typed /\ InputsInv /\ SettledInv /\ Linked /\ PacketsTyped
  BY DEF SessionInv, Linked
<1>2. [ServerNext]_serverVars
  BY <1>1, SessionStepIsServerStep
<1>3. Linked'
  BY <1>1, LinkedStep
<1> QED
  BY <1>1, <1>2, <1>3, TypedStep, InputsStep, SettledStep DEF SessionInv

(* The inductive core holds in every reachable state of a session.         *)
THEOREM SessionCore == SessionSpec => []SessionInv
<1> QED
  BY SessionInvInit, SessionInvStep, PTL DEF SessionSpec

LEMMA CoreSays == SessionInv => SessionTypeOK /\ HistoryIsRecent /\ PredictionIsReplay
<1> SUFFICES ASSUME SessionInv PROVE SessionTypeOK /\ HistoryIsRecent /\ PredictionIsReplay
  OBVIOUS
<1>1. SessionTypeOK
  BY DEF SessionInv, Linked, ClientsSound, PacketsTyped, OccupantsMatch, SessionTypeOK
<1>2. HistoryIsRecent
  BY DEF SessionInv, Linked, ClientsSound, ClientInv, Recent, HistoryIsRecent
<1>3. PredictionIsReplay
  BY DEF SessionInv, Linked, ClientsSound, ClientInv, Replayed, PredictionIsReplay
<1> QED
  BY <1>1, <1>2, <1>3

(* Type correctness of clients and network, whatever is lost or late.      *)
THEOREM SessionTypeCorrect == SessionSpec => []SessionTypeOK
BY SessionCore, CoreSays, PTL

(* A session is a behaviour of the server under the environment GameServer *)
(* allows, so what is proved of the server holds in every session.         *)
THEOREM SessionsImplementServer == SessionSpec => ImplementsServer
<1>1. SessionInit => ServerInit
  BY DEF SessionInit, NobodyYet
<1>2. SessionInv /\ [SessionNext]_sessionVars => [ServerNext]_serverVars
  BY SessionStepIsServerStep DEF SessionInv, Linked
<1> QED
  BY <1>1, <1>2, SessionCore, PTL DEF SessionSpec, ImplementsServer, ServerSpec

(* So every session is a game of Arena, whatever its network does.         *)
COROLLARY SessionsAreGames == SessionSpec => ImplementsArena
BY SessionsImplementServer, ServerImplementsArena, PTL DEF ImplementsServer

(* Every client's history is the gapless run of its latest inputs.         *)
THEOREM HistoryRecent == SessionSpec => []HistoryIsRecent
BY SessionCore, CoreSays, PTL

(* Every client predicts what its history makes of the server's last word. *)
THEOREM PredictionReplays == SessionSpec => []PredictionIsReplay
BY SessionCore, CoreSays, PTL

-----------------------------------------------------------------------------
(* What the server's loops do to one player and its inputs.                *)

Still(s) ==
  /\ inbox'[s] = inbox[s]
  /\ lastProcessedInput'[s] = lastProcessedInput[s]
  /\ players'[s].position = players[s].position

Processes(s) ==
  /\ inbox[s] # <<>>
  /\ inbox'[s] = Tail(inbox[s])
  /\ lastProcessedInput'[s] = Head(inbox[s]).sequenceNumber
  /\ players'[s].position = Moved(players[s].position, Head(inbox[s]).move)

Reappears(s) ==
  /\ playersToRespawn # <<>>
  /\ inbox'[s] = inbox[s]
  /\ lastProcessedInput'[s] = lastProcessedInput[s]
  /\ players'[s].position \in SpawnPoints

LEMMA WorkEffect ==
  ASSUME Typed, ServerWorks, NEW s \in connected
  PROVE  Still(s) \/ Processes(s) \/ Reappears(s)
<1>1. /\ s \in Slots
      /\ players \in [connected -> PlayerState]
      /\ inbox \in [Slots -> Seq(PlayerInputMessage)]
      /\ lastProcessedInput \in [Slots -> Nat]
  BY DEF Typed, PlayersTyped
<1>2. ASSUME NEW c \in Slots, ProcessMessage(c) PROVE Still(s) \/ Processes(s)
  <2>1. /\ c \in connected
        /\ inbox[c] # <<>>
        /\ inbox' = [inbox EXCEPT ![c] = Tail(inbox[c])]
        /\ lastProcessedInput' = [lastProcessedInput EXCEPT ![c] = Head(inbox[c]).sequenceNumber]
        /\ players' = [players EXCEPT ![c].position = Moved(players[c].position, Head(inbox[c]).move)]
    BY <1>1, <1>2 DEF ProcessMessage, Draining, WithMessages, ReceivePlayerInputMessage
  <2>2. CASE c = s
    BY <1>1, <2>1, <2>2 DEF Processes, PlayerState
  <2>3. CASE c # s
    BY <1>1, <2>1, <2>3 DEF Still, PlayerState
  <2> QED
    BY <2>2, <2>3
<1>3. ASSUME NEW p, NEW size,
             players' = [players EXCEPT ![p].size = size],
             UNCHANGED <<inbox, lastProcessedInput>>
      PROVE  Still(s)
  BY <1>1, <1>3 DEF Still, PlayerState
<1>4. CASE EatFood
  BY <1>3, <1>4 DEF EatFood, netVars
<1>5. CASE SecondEatsFirst
  BY <1>3, <1>5 DEF SecondEatsFirst, netVars
<1>6. CASE RespawnPlayer
  <2>1. PICK player \in Spawned :
          players' = [d \in DOMAIN players |->
                        IF d = playersToRespawn[it1] THEN player ELSE players[d]]
    BY <1>6 DEF RespawnPlayer
  <2>2. UNCHANGED <<inbox, lastProcessedInput>> /\ it1 <= Len(playersToRespawn)
    BY <1>6 DEF RespawnPlayer, netVars
  <2>3. playersToRespawn # <<>>
    BY <2>2 DEF Typed, LoopsTyped
  <2>4. player.position \in SpawnPoints
    BY DEF Spawned
  <2>5. CASE s = playersToRespawn[it1]
    BY <1>1, <2>1, <2>2, <2>3, <2>4, <2>5 DEF Reappears
  <2>6. CASE s # playersToRespawn[it1]
    BY <1>1, <2>1, <2>2, <2>6 DEF Still
  <2> QED
    BY <2>5, <2>6
<1>7. CASE \/ StartFood \/ SkipFood \/ StartCollisions \/ FirstEatsSecond \/ SkipPair
           \/ StartRespawns \/ StartBroadcast
           \/ \E failed \in SUBSET connected : BroadcastWorldState(failed)
  BY <1>7
  DEF StartFood, SkipFood, StartCollisions, FirstEatsSecond, SkipPair, StartRespawns,
      StartBroadcast, BroadcastWorldState, netVars, worldVars, Still
<1> QED
  BY <1>2, <1>4, <1>5, <1>6, <1>7 DEF ServerWorks

-----------------------------------------------------------------------------
(* How far a player may have moved.                                        *)

Near(a, b, n) ==
  /\ Distance(a.x, b.x) <= Stride * n
  /\ Distance(a.y, b.y) <= Stride * n

LEMMA NearSelf ==
  ASSUME NEW p \in Position, NEW n \in Nat
  PROVE  Near(p, p, n)
<1>1. /\ p.x \in Int
      /\ p.y \in Int
      /\ Stride * n >= 0
  BY ProtocolAssumption DEF Position
<1> QED
  BY <1>1 DEF Near, Distance

LEMMA NearMonotone ==
  ASSUME NEW a \in Position, NEW b \in Position, NEW n \in Nat, NEW m \in Nat,
         n <= m, Near(a, b, n)
  PROVE  Near(a, b, m)
<1>1. Stride * n \in Nat /\ Stride * m \in Nat /\ Stride * n <= Stride * m
  <2>1. Stride * m = Stride * n + Stride * (m - n)
    BY ProtocolAssumption
  <2>2. Stride * n \in Nat /\ Stride * (m - n) \in Nat
    BY ProtocolAssumption
  <2> QED
    BY <2>1, <2>2
<1>2. Distance(a.x, b.x) \in Int /\ Distance(a.y, b.y) \in Int
  BY ProtocolAssumption DEF Distance, Position
<1> QED
  BY <1>1, <1>2 DEF Near

(* One coordinate: a step of at most Stride, clamped to where the other    *)
(* one lies, adds at most Stride to their distance.                        *)
LEMMA ClampedStep ==
  ASSUME NEW limit \in Nat, NEW v \in 0 .. limit, NEW w \in 0 .. limit, NEW d \in Int,
         d <= Stride, -Stride <= d
  PROVE  Distance(Clamp(v + d, limit), w) <= Distance(v, w) + Stride
BY ProtocolAssumption DEF Clamp, Distance

LEMMA NearMoved ==
  ASSUME NEW a \in Position, NEW b \in Position, NEW n \in Nat, Near(a, b, n),
         NEW move \in Moves
  PROVE  Near(Moved(a, move), b, n + 1)
<1> DEFINE d == Displacement(move)
<1>1. /\ move.x \in {-1, 0, 1}
      /\ move.y \in {-1, 0, 1}
  BY ProtocolAssumption DEF KeyboardMoves
<1>2. /\ d.x \in Int /\ d.x <= Stride /\ -Stride <= d.x
      /\ d.y \in Int /\ d.y <= Stride /\ -Stride <= d.y
  BY <1>1, ProtocolAssumption DEF Displacement
<1> HIDE DEF d
<1>3. /\ Distance(Clamp(a.x + d.x, WORLD_WIDTH), b.x) <= Distance(a.x, b.x) + Stride
      /\ Distance(Clamp(a.y + d.y, WORLD_HEIGHT), b.y) <= Distance(a.y, b.y) + Stride
  <2>1. /\ a.x \in 0 .. WORLD_WIDTH /\ b.x \in 0 .. WORLD_WIDTH
        /\ a.y \in 0 .. WORLD_HEIGHT /\ b.y \in 0 .. WORLD_HEIGHT
    BY DEF Position
  <2> QED
    BY <1>2, <2>1, ClampedStep, ProtocolAssumption
<1>4. /\ Distance(a.x, b.x) \in Int
      /\ Distance(a.y, b.y) \in Int
      /\ Distance(Moved(a, move).x, b.x) \in Int
      /\ Distance(Moved(a, move).y, b.y) \in Int
  BY MovedInWorld, ProtocolAssumption DEF Distance, Position
<1>5. /\ Moved(a, move).x = Clamp(a.x + d.x, WORLD_WIDTH)
      /\ Moved(a, move).y = Clamp(a.y + d.y, WORLD_HEIGHT)
  BY DEF Moved, d
<1>6. Stride * (n + 1) = Stride * n + Stride /\ Stride * n \in Int /\ Stride \in Int
  BY ProtocolAssumption
<1> QED
  BY <1>3, <1>4, <1>5, <1>6 DEF Near

(* What arrives, n packets none of them twice, is n packets fewer.         *)
LEMMA ArrivalsCount ==
  ASSUME NEW F, IsFiniteSet(F), NEW n \in Nat, NEW a \in [1 .. n -> F],
         \A i, j \in 1 .. n : i < j => a[i] # a[j]
  PROVE  /\ IsFiniteSet(F \ Range(a))
         /\ Cardinality(F \ Range(a)) = Cardinality(F) - n
<1> DEFINE R == Range(a)
<1>1. R \subseteq F /\ a \in Surjection(1 .. n, R)
  BY DEF Range, Surjection
<1>2. a \in Injection(1 .. n, R)
  <2>1. \A i, j \in 1 .. n : a[i] = a[j] => i = j
    OBVIOUS
  <2> QED
    BY <1>1, <2>1 DEF Surjection, Injection, IsInjective
<1>3. IsFiniteSet(1 .. n) /\ Cardinality(1 .. n) = n
  BY FS_Interval
<1> HIDE DEF R
<1>4. Cardinality(R) = n
  BY <1>1, <1>2, <1>3, FS_Surjection
<1>5. F \cap R = R
  BY <1>1
<1>6. IsFiniteSet(F \ R) /\ Cardinality(F \ R) = Cardinality(F) - Cardinality(F \cap R)
  BY FS_Difference
<1> QED
  BY <1>4, <1>5, <1>6 DEF R

(* What a client has sent and the server has not processed.                *)
Pending(s) == Cardinality(InputsFrom(occupant[s])) + Len(inbox[s])

Sent(s) == clients[occupant[s]].inputSequence

(* The player is where the processed inputs can have taken it.             *)
WithinReach(s) ==
  /\ Pending(s) <= Sent(s)
  /\ \E p \in SpawnPoints : Near(players[s].position, p, Sent(s) - Pending(s))

InputsCounted ==
  \A c \in Clients :
    /\ IsFiniteSet(InputsFrom(c))
    /\ \A packet \in InputsFrom(c) : packet.sequenceNumber <= clients[c].inputSequence

ReachInv == InputsCounted /\ \A s \in connected : WithinReach(s)

LEMMA ReachTyped ==
  ASSUME Typed, Linked, InputsCounted, NEW s \in connected
  PROVE  /\ s \in Slots
         /\ occupant[s] \in Clients
         /\ Sent(s) \in Nat
         /\ Cardinality(InputsFrom(occupant[s])) \in Nat
         /\ Len(inbox[s]) \in Nat
         /\ Pending(s) \in Nat
         /\ players[s].position \in Position
<1>1. s \in Slots /\ occupant[s] \in Clients
  BY DEF Typed, Linked, OccupantsMatch
<1>2. clients[occupant[s]] \in ClientState
  BY <1>1 DEF Linked, ClientsSound
<1>3. Sent(s) \in Nat
  BY <1>2 DEF Sent, ClientState
<1>4. Cardinality(InputsFrom(occupant[s])) \in Nat
  BY <1>1, FS_CardinalityType DEF InputsCounted
<1>5. Len(inbox[s]) \in Nat
  BY <1>1 DEF Typed
<1>6. players[s].position \in Position
  BY DEF Typed, PlayersTyped, PlayerState
<1> QED
  BY <1>1, <1>3, <1>4, <1>5, <1>6 DEF Pending

(* A step that touches neither the player nor its inputs.                  *)
LEMMA ReachUntouched ==
  ASSUME NEW s \in connected, WithinReach(s),
         occupant'[s] = occupant[s],
         InputsFrom(occupant[s])' = InputsFrom(occupant[s]),
         inbox'[s] = inbox[s],
         players'[s].position = players[s].position,
         clients'[occupant[s]].inputSequence = clients[occupant[s]].inputSequence
  PROVE  WithinReach(s)'
<1>1. Pending(s)' = Pending(s) /\ Sent(s)' = Sent(s)
  BY DEF Pending, Sent, InputsFrom
<1> QED
  BY <1>1 DEF WithinReach

(* The server's own work.                                                  *)
LEMMA ReachWork ==
  ASSUME Typed, Linked, InputsCounted, ServerWorks, NEW s \in connected, WithinReach(s)
  PROVE  WithinReach(s)'
<1>1. /\ s \in Slots
      /\ occupant[s] \in Clients
      /\ Sent(s) \in Nat
      /\ Cardinality(InputsFrom(occupant[s])) \in Nat
      /\ Len(inbox[s]) \in Nat
      /\ Pending(s) \in Nat
      /\ players[s].position \in Position
  BY ReachTyped
<1>2. UNCHANGED <<clients, occupant, inputsInFlight>>
  BY ServerAlone DEF linkVars
<1>3. Sent(s)' = Sent(s) /\ InputsFrom(occupant[s])' = InputsFrom(occupant[s])
  BY <1>2 DEF Sent, InputsFrom
<1>4. CASE Still(s)
  BY <1>2, <1>3, <1>4, ReachUntouched DEF Still
<1>5. CASE Processes(s)
  <2>1. /\ inbox[s] \in Seq(PlayerInputMessage)
        /\ inbox[s] # <<>>
        /\ inbox'[s] = Tail(inbox[s])
        /\ players'[s].position = Moved(players[s].position, Head(inbox[s]).move)
    BY <1>1, <1>5 DEF Typed, Processes
  <2>2. Len(inbox'[s]) = Len(inbox[s]) - 1 /\ Head(inbox[s]) \in PlayerInputMessage
    BY <2>1
  <2>3. Pending(s)' = Pending(s) - 1
    BY <1>1, <1>2, <1>3, <2>2 DEF Pending, InputsFrom
  <2>4. PICK p \in SpawnPoints : Near(players[s].position, p, Sent(s) - Pending(s))
    BY DEF WithinReach
  <2>5. Sent(s) - Pending(s) \in Nat /\ Pending(s) <= Sent(s)
    BY <1>1 DEF WithinReach
  <2>6. Near(players'[s].position, p, Sent(s) - Pending(s) + 1)
    <3>1. p \in Position
      BY ProtocolAssumption
    <3>2. Head(inbox[s]).move \in Moves
      BY <2>2 DEF PlayerInputMessage
    <3> QED
      BY <1>1, <2>1, <2>4, <2>5, <3>1, <3>2, NearMoved
  <2>7. Sent(s)' - Pending(s)' = Sent(s) - Pending(s) + 1 /\ Pending(s)' <= Sent(s)'
    BY <1>1, <1>3, <2>3, <2>5
  <2>8. Near(players[s].position, p, Sent(s) - Pending(s))'
    BY <2>6, <2>7 DEF Near
  <2> QED
    BY <2>7, <2>8 DEF WithinReach
<1>6. CASE Reappears(s)
  <2>1. Pending(s)' = Pending(s)
    BY <1>2, <1>3, <1>6 DEF Pending, Reappears, InputsFrom
  <2>2. Sent(s) - Pending(s) \in Nat /\ Pending(s) <= Sent(s)
    BY <1>1 DEF WithinReach
  <2>3. players'[s].position \in SpawnPoints /\ players'[s].position \in Position
    BY <1>6, ProtocolAssumption DEF Reappears
  <2>4. Near(players'[s].position, players'[s].position, Sent(s) - Pending(s))
    BY <2>2, <2>3, NearSelf
  <2>5. \E p \in SpawnPoints : Near(players'[s].position, p, Sent(s)' - Pending(s)')
    BY <1>3, <2>1, <2>3, <2>4
  <2> QED
    BY <1>3, <2>1, <2>2, <2>5 DEF WithinReach, Near
<1> QED
  BY <1>4, <1>5, <1>6, WorkEffect

(* What ReceivePackets moves from the network into the inbox of one slot.  *)
LEMMA SlotReceives ==
  ASSUME Typed, Linked, ServerReceives, NEW s \in connected
  PROVE  \E a \in InputArrivals(s) :
           /\ inbox'[s] = inbox[s] \o InputPayload(a)
           /\ InputsFrom(occupant[s])' = InputsFrom(occupant[s]) \ Range(a)
<1>1. PICK arrived \in [Slots -> UNION {InputArrivals(t) : t \in Slots}] :
        /\ \A t \in Slots : arrived[t] \in InputArrivals(t)
        /\ \E failed \in SUBSET connected :
             ReceivePackets([t \in Slots |-> InputPayload(arrived[t])], failed)
        /\ inputsInFlight' = inputsInFlight \ UNION {Range(arrived[t]) : t \in Slots}
  BY DEF ServerReceives
<1> DEFINE c == occupant[s]
           a == arrived[s]
<1>2. s \in Slots /\ c \in Clients
  BY DEF Typed, Linked, OccupantsMatch
<1>3. occupant' = occupant
  BY DEF ServerReceives
<1>4. inbox'[s] = inbox[s] \o InputPayload(a)
  BY <1>1, <1>2 DEF ReceivePackets
<1>5. ASSUME NEW t \in Slots, NEW packet \in Range(arrived[t]), packet.from = c
      PROVE  t = s
  <2>1. PICK m \in 0 .. MaxPackets : arrived[t] \in [1 .. m -> InputsFrom(occupant[t])]
    BY <1>1, InputArrivalsTyped DEF Linked
  <2>2. packet.from = occupant[t]
    BY <2>1 DEF Range, InputsFrom
  <2> QED
    BY <1>2, <1>5, <2>2, SessionAssumption DEF Linked, OccupantsMatch
<1>6. InputsFrom(c)' = InputsFrom(c) \ Range(a)
  BY <1>1, <1>2, <1>3, <1>5 DEF InputsFrom
<1> QED
  BY <1>1, <1>2, <1>4, <1>6

(* Inputs that arrive are no longer in flight, but waiting in the inbox.   *)
LEMMA ReachReceive ==
  ASSUME Typed, Linked, InputsCounted, ServerReceives
  PROVE  /\ InputsCounted'
         /\ \A s \in connected : WithinReach(s) => WithinReach(s)'
<1>1. /\ UNCHANGED <<clients, occupant, players>>
      /\ inputsInFlight' \subseteq inputsInFlight
  BY DEF ServerReceives, ReceivePackets, worldVars
<1>2. \A c \in Clients : InputsFrom(c)' \subseteq InputsFrom(c)
  BY <1>1 DEF InputsFrom
<1>3. InputsCounted'
  BY <1>1, <1>2, FS_Subset DEF InputsCounted
<1>4. ASSUME NEW s \in connected, WithinReach(s)
      PROVE  WithinReach(s)'
  <2> DEFINE c == occupant[s]
  <2>1. /\ s \in Slots
        /\ c \in Clients
        /\ Cardinality(InputsFrom(c)) \in Nat
        /\ IsFiniteSet(InputsFrom(c))
        /\ Len(inbox[s]) \in Nat
    BY ReachTyped DEF InputsCounted
  <2>2. PICK a \in InputArrivals(s) :
          /\ inbox'[s] = inbox[s] \o InputPayload(a)
          /\ InputsFrom(c)' = InputsFrom(c) \ Range(a)
    BY SlotReceives
  <2>3. PICK n \in 0 .. MaxPackets : a \in [1 .. n -> InputsFrom(c)] /\ Len(a) = n
    BY <2>1, InputArrivalsTyped DEF Linked
  <2>4. n \in Nat
    BY SessionAssumption, ServerAssumption
  <2>5. ASSUME NEW i \in 1 .. n, NEW j \in 1 .. n, i < j
        PROVE  a[i] # a[j]
    <3>1. IF InOrder THEN InputAge(a[i]) < InputAge(a[j]) ELSE a[i] # a[j]
      BY <2>1, <2>3, <2>5 DEF InputArrivals, Arrivals
    <3>2. InputAge(a[i]) \in Int
      BY <2>3 DEF InputAge, InputsFrom, Linked, PacketsTyped, SentInput
    <3> QED
      BY <3>1, <3>2
  <2>6. Len(inbox'[s]) = Len(inbox[s]) + n
    <3>1. InputPayload(a) \in Seq(PlayerInputMessage) /\ inbox[s] \in Seq(PlayerInputMessage)
      BY <2>1, PayloadIsBurst, BurstsTyped DEF Linked, Typed
    <3>2. Len(InputPayload(a)) = n
      BY <2>3, <2>4 DEF InputPayload
    <3>3. Len(inbox[s] \o InputPayload(a)) = Len(inbox[s]) + Len(InputPayload(a))
      BY <3>1, ConcatProperties
    <3> QED
      BY <2>2, <3>2, <3>3
  <2>7. Cardinality(InputsFrom(c) \ Range(a)) = Cardinality(InputsFrom(c)) - n
    <3> HIDE DEF c
    <3> QED
      BY <2>1, <2>3, <2>4, <2>5, ArrivalsCount
  <2>8. Pending(s)' = Pending(s)
    <3>1. InputsFrom(occupant[s])' = InputsFrom(c)'
      BY <1>1 DEF InputsFrom
    <3>2. Pending(s)' = Cardinality(InputsFrom(c)') + Len(inbox'[s])
      BY <3>1 DEF Pending
    <3> QED
      BY <2>1, <2>2, <2>4, <2>6, <2>7, <3>2 DEF Pending
  <2> QED
    BY <1>1, <1>4, <2>8 DEF WithinReach, Sent
<1> QED
  BY <1>3, <1>4

(* A client that runs sends one input at most, and counts it.              *)
LEMMA RunsSend ==
  ASSUME Linked, NEW c \in Clients, NEW move \in Moves \cup {NoMove}, ClientRuns(c, move)
  PROVE  LET last   == clients[c].inputSequence
             packet == [from |-> c, sequenceNumber |-> last + 1, move |-> move]
         IN  /\ UNCHANGED <<serverVars, occupant>>
             /\ \A d \in Clients \ {c} : /\ InputsFrom(d)' = InputsFrom(d)
                                        /\ clients'[d] = clients[d]
             /\ \/ /\ clients'[c].inputSequence = last
                   /\ InputsFrom(c)' = InputsFrom(c)
                \/ /\ clients'[c].inputSequence = last + 1
                   /\ move \in Moves
                   /\ \/ InputsFrom(c)' = InputsFrom(c) \cup {packet}
                      \/ ~InOrder /\ InputsFrom(c)' = InputsFrom(c)
<1> DEFINE last   == clients[c].inputSequence
           packet == [from |-> c, sequenceNumber |-> last + 1, move |-> move]
           sendable == [from |-> c, sequenceNumber |-> clients'[c].inputSequence,
                        move |-> move]
<1>1. PICK sent \in SUBSET {sendable} :
        /\ clients'[c].inputSequence = last => sent = {}
        /\ InOrder /\ clients'[c].inputSequence # last => sent # {}
        /\ inputsInFlight' = inputsInFlight \cup sent
  BY DEF ClientRuns
<1>2. UNCHANGED <<serverVars, occupant>>
  BY DEF ClientRuns
<1>3. /\ clients' = [clients EXCEPT ![c] = clients'[c]]
      /\ \/ clients'[c].inputSequence = last
         \/ move \in Moves /\ clients'[c].inputSequence = last + 1
  BY ClientRunsEffect
<1>4. last \in Nat /\ clients \in [Clients -> ClientState]
  BY DEF Linked, ClientsSound, ClientState
<1>5. sent = {} \/ sent = {sendable}
  BY <1>1
<1>6. sendable.from = c
  OBVIOUS
<1> HIDE DEF last
<1>7. \A d \in Clients \ {c} : InputsFrom(d)' = InputsFrom(d) /\ clients'[d] = clients[d]
  <2> HIDE DEF sendable
  <2>1. \A d \in Clients \ {c} : InputsFrom(d)' = InputsFrom(d)
    BY <1>1, <1>5, <1>6 DEF InputsFrom
  <2>2. \A d \in Clients \ {c} : clients'[d] = clients[d]
    BY <1>3, <1>4
  <2> QED
    BY <2>1, <2>2
<1>8. CASE clients'[c].inputSequence = last
  <2>1. inputsInFlight' = inputsInFlight
    BY <1>1, <1>8
  <2>2. InputsFrom(c)' = InputsFrom(c)
    BY <2>1 DEF InputsFrom
  <2> QED
    BY <1>2, <1>7, <1>8, <2>2 DEF last
<1>9. CASE clients'[c].inputSequence # last
  <2>1. move \in Moves /\ clients'[c].inputSequence = last + 1 /\ sendable = packet
    BY <1>3, <1>9
  <2>2. packet.from = c
    OBVIOUS
  <2> HIDE DEF packet, sendable
  <2>3. \/ sent = {packet}
        \/ sent = {} /\ ~InOrder
    BY <1>1, <1>5, <1>9, <2>1, SessionAssumption
  <2>4. \/ InputsFrom(c)' = InputsFrom(c) \cup {packet}
        \/ ~InOrder /\ InputsFrom(c)' = InputsFrom(c)
    <3>1. CASE sent = {packet}
      BY <1>1, <2>2, <3>1 DEF InputsFrom
    <3>2. CASE sent = {} /\ ~InOrder
      <4>1. inputsInFlight' = inputsInFlight
        BY <1>1, <3>2
      <4> QED
        BY <3>2, <4>1 DEF InputsFrom
    <3> QED
      BY <2>3, <3>1, <3>2
  <2> QED
    BY <1>2, <1>7, <2>1, <2>4 DEF last, packet
<1> QED
  BY <1>8, <1>9

LEMMA ReachRuns ==
  ASSUME Typed, Linked, InputsCounted, NEW c \in Clients, NEW move \in Moves \cup {NoMove},
         ClientRuns(c, move)
  PROVE  /\ InputsCounted'
         /\ \A s \in connected : WithinReach(s) => WithinReach(s)'
<1> DEFINE last   == clients[c].inputSequence
           packet == [from |-> c, sequenceNumber |-> last + 1, move |-> move]
<1>1. /\ UNCHANGED <<serverVars, occupant>>
      /\ \A d \in Clients \ {c} : InputsFrom(d)' = InputsFrom(d) /\ clients'[d] = clients[d]
      /\ \/ clients'[c].inputSequence = last /\ InputsFrom(c)' = InputsFrom(c)
         \/ /\ clients'[c].inputSequence = last + 1
            /\ InputsFrom(c)' = InputsFrom(c) \cup {packet} \/ InputsFrom(c)' = InputsFrom(c)
  BY RunsSend
<1>2. UNCHANGED <<connected, inbox, players>>
  BY <1>1 DEF serverVars, netVars, worldVars
<1>3. /\ last \in Nat
      /\ IsFiniteSet(InputsFrom(c))
      /\ \A p \in InputsFrom(c) : p.sequenceNumber \in Nat /\ p.sequenceNumber <= last
  <2>1. last \in Nat
    BY DEF Linked, ClientsSound, ClientState
  <2>2. IsFiniteSet(InputsFrom(c)) /\ \A p \in InputsFrom(c) : p.sequenceNumber <= last
    BY DEF InputsCounted
  <2>3. \A p \in InputsFrom(c) : p.sequenceNumber \in Nat
    BY DEF Linked, InputsFrom, PacketsTyped, SentInput
  <2> QED
    BY <2>1, <2>2, <2>3
<1>4. packet.sequenceNumber = last + 1
  OBVIOUS
<1> HIDE DEF last, packet
<1>5. packet \notin InputsFrom(c)
  BY <1>3, <1>4
<1>6. /\ IsFiniteSet(InputsFrom(c) \cup {packet})
      /\ Cardinality(InputsFrom(c) \cup {packet}) = Cardinality(InputsFrom(c)) + 1
  BY <1>3, <1>5, FS_AddElement
<1>7. InputsCounted'
  <2> SUFFICES ASSUME NEW d \in Clients
               PROVE  /\ IsFiniteSet(InputsFrom(d)')
                      /\ \A p \in InputsFrom(d)' : p.sequenceNumber <= clients'[d].inputSequence
    BY DEF InputsCounted
  <2>1. CASE d # c
    <3>1. InputsFrom(d)' = InputsFrom(d) /\ clients'[d] = clients[d]
      BY <1>1, <2>1
    <3>2. /\ IsFiniteSet(InputsFrom(d))
          /\ \A p \in InputsFrom(d) : p.sequenceNumber <= clients[d].inputSequence
      BY DEF InputsCounted
    <3> QED
      BY <3>1, <3>2
  <2>2. CASE d = c
    <3>1. IsFiniteSet(InputsFrom(c)')
      BY <1>1, <1>3, <1>6
    <3>2. \A p \in InputsFrom(c)' : p.sequenceNumber <= clients'[c].inputSequence
      BY <1>1, <1>3, <1>4
    <3> QED
      BY <2>2, <3>1, <3>2
  <2> QED
    BY <2>1, <2>2
<1>8. ASSUME NEW s \in connected, WithinReach(s)
      PROVE  WithinReach(s)'
  <2>1. /\ s \in Slots
        /\ occupant[s] \in Clients
        /\ Sent(s) \in Nat
        /\ Cardinality(InputsFrom(occupant[s])) \in Nat
        /\ Len(inbox[s]) \in Nat
        /\ Pending(s) \in Nat
        /\ players[s].position \in Position
    BY ReachTyped
  <2>2. CASE occupant[s] # c
    BY <1>1, <1>2, <1>8, <2>1, <2>2, ReachUntouched
  <2>3. CASE occupant[s] = c
    <3>1. /\ Sent(s) = last
          /\ Sent(s)' = clients'[c].inputSequence
          /\ Pending(s)' = Cardinality(InputsFrom(c)') + Len(inbox[s])
          /\ Pending(s) = Cardinality(InputsFrom(c)) + Len(inbox[s])
      BY <1>1, <1>2, <2>3 DEF Sent, Pending, last, InputsFrom
    <3>2. PICK p \in SpawnPoints : Near(players[s].position, p, Sent(s) - Pending(s))
      BY <1>8 DEF WithinReach
    <3>3. Pending(s) <= Sent(s)
      BY <1>8 DEF WithinReach
    <3>4. \/ Sent(s)' = Sent(s) /\ Pending(s)' = Pending(s)
          \/ Sent(s)' = Sent(s) + 1 /\ Pending(s)' = Pending(s)
          \/ Sent(s)' = Sent(s) + 1 /\ Pending(s)' = Pending(s) + 1
      <4>1. Cardinality(InputsFrom(c)) \in Nat
        BY <1>3, FS_CardinalityType
      <4>2. CASE InputsFrom(c)' = InputsFrom(c)
        <5>1. Pending(s)' = Pending(s)
          BY <3>1, <4>2
        <5> QED
          BY <1>1, <3>1, <5>1
      <4>3. CASE InputsFrom(c)' # InputsFrom(c)
        <5>1. /\ clients'[c].inputSequence = last + 1
              /\ InputsFrom(c)' = InputsFrom(c) \cup {packet}
          BY <1>1, <4>3
        <5>2. Cardinality(InputsFrom(c)') = Cardinality(InputsFrom(c)) + 1
          BY <1>6, <5>1
        <5>3. Pending(s)' = Pending(s) + 1
          BY <2>1, <3>1, <4>1, <5>2
        <5> QED
          BY <3>1, <5>1, <5>3
      <4> QED
        BY <4>2, <4>3
    <3>5. /\ Sent(s) - Pending(s) \in Nat
          /\ Sent(s)' - Pending(s)' \in Nat
          /\ Sent(s) - Pending(s) <= Sent(s)' - Pending(s)'
          /\ Pending(s)' <= Sent(s)'
      BY <2>1, <3>3, <3>4
    <3>6. Near(players[s].position, p, Sent(s)' - Pending(s)')
      BY <2>1, <3>2, <3>5, NearMonotone, ProtocolAssumption
    <3>7. Near(players[s].position, p, Sent(s) - Pending(s))'
      BY <1>2, <3>6 DEF Near
    <3> QED
      BY <3>5, <3>7 DEF WithinReach
  <2> QED
    BY <2>2, <2>3
<1> QED
  BY <1>7, <1>8

(* A newcomer has sent nothing, and stands where it appeared.              *)
LEMMA ReachAdmit ==
  ASSUME Typed, InputsInv, Linked, InputsCounted,
         NEW c \in Clients, NEW s \in Slots, Admit(c, s)
  PROVE  /\ InputsCounted'
         /\ WithinReach(s)'
         /\ \A t \in connected : WithinReach(t) => WithinReach(t)'
<1>1. /\ clients[c].status = "connecting"
      /\ \A t \in Slots : occupant[t] # c
      /\ s \notin connected
      /\ occupant' = [occupant EXCEPT ![s] = c]
      /\ UNCHANGED <<clients, inputsInFlight, statesInFlight, inbox>>
  BY DEF Admit, ClientConnected
<1>2. PICK player \in Spawned :
        players' = [d \in DOMAIN players \cup {s} |-> IF d = s THEN player ELSE players[d]]
  BY DEF Admit, ClientConnected
<1>3. \A d \in Clients : InputsFrom(d)' = InputsFrom(d)
  BY <1>1 DEF InputsFrom
<1>4. InputsCounted'
  BY <1>1, <1>3 DEF InputsCounted
<1>5. InputsFrom(c) = {} /\ clients[c].inputSequence = 0
  <2>1. clients[c].inputSequence = 0
    BY <1>1 DEF Linked, ClientsSound
  <2>2. \A p \in InputsFrom(c) : p.sequenceNumber \in 1 .. MaxSeq /\ p.sequenceNumber <= 0
    BY <2>1 DEF InputsCounted, InputsFrom, Linked, PacketsTyped, SentInput
  <2> QED
    BY <2>1, <2>2, ServerAssumption
<1>6. occupant'[s] = c /\ \A t \in connected : t # s /\ occupant'[t] = occupant[t]
  BY <1>1 DEF Linked, OccupantsMatch, Typed
<1>7. WithinReach(s)'
  <2>1. inbox'[s] = <<>>
    BY <1>1 DEF InputsInv
  <2>2. Pending(s)' = 0 /\ Sent(s)' = 0
    <3>1. InputsFrom(occupant[s])' = {}
      BY <1>3, <1>5, <1>6 DEF InputsFrom
    <3>2. Len(<<>>) = 0 /\ Cardinality({}) = 0
      BY EmptySeq, FS_EmptySet
    <3>3. Pending(s)' = Cardinality(InputsFrom(occupant[s])') + Len(inbox'[s])
      BY DEF Pending
    <3>4. Pending(s)' = 0
      BY <2>1, <3>1, <3>2, <3>3
    <3>5. Sent(s)' = 0
      BY <1>1, <1>5, <1>6 DEF Sent
    <3> QED
      BY <3>4, <3>5
  <2>3. /\ players'[s].position \in SpawnPoints
        /\ players'[s].position \in Position
    BY <1>2, ProtocolAssumption DEF Spawned
  <2>4. Near(players'[s].position, players'[s].position, 0)
    BY <2>3, NearSelf
  <2>5. Near(players[s].position, players[s].position, Sent(s) - Pending(s))'
    BY <2>2, <2>4 DEF Near
  <2> QED
    BY <2>2, <2>3, <2>5 DEF WithinReach, Near
<1>8. ASSUME NEW t \in connected, WithinReach(t)
      PROVE  WithinReach(t)'
  <2>1. t # s /\ occupant'[t] = occupant[t] /\ occupant[t] \in Clients
    BY <1>6 DEF Linked, OccupantsMatch, Typed
  <2>2. players'[t] = players[t]
    BY <1>2, <2>1 DEF Typed, PlayersTyped
  <2> QED
    BY <1>1, <1>3, <1>8, <2>1, <2>2, ReachUntouched
<1> QED
  BY <1>4, <1>7, <1>8

(* A client dropped takes nothing of another's along.                      *)
LEMMA DropSpares ==
  ASSUME Typed, Linked, NEW s \in Slots, Drop(s), NEW t \in connected'
  PROVE  /\ t \in connected
         /\ occupant[t] \in Clients
         /\ occupant'[t] = occupant[t]
         /\ InputsFrom(occupant[t])' = InputsFrom(occupant[t])
         /\ inbox'[t] = inbox[t]
         /\ players'[t] = players[t]
         /\ lastProcessedInput'[t] = lastProcessedInput[t]
         /\ clients' = clients
<1>1. /\ connected' = connected \ {s}
      /\ s \in connected
      /\ occupant' = [occupant EXCEPT ![s] = NoClient]
      /\ inbox' = [inbox EXCEPT ![s] = <<>>]
      /\ players' = [d \in DOMAIN players \ {s} |-> players[d]]
      /\ inputsInFlight' = inputsInFlight \ InputsFrom(occupant[s])
      /\ UNCHANGED <<clients, lastProcessedInput>>
  BY DEF Drop, ClientDisconnected
<1>2. t \in connected /\ t # s /\ t \in Slots
  BY <1>1 DEF Typed
<1>3. occupant[t] \in Clients /\ occupant[t] # occupant[s] /\ occupant'[t] = occupant[t]
  BY <1>1, <1>2 DEF Linked, OccupantsMatch
<1>4. InputsFrom(occupant[t])' = InputsFrom(occupant[t])
  <2> DEFINE gone == InputsFrom(occupant[s])
             c == occupant[t]
  <2>1. \A packet \in gone : packet.from # c
    BY <1>3 DEF InputsFrom
  <2>2. inputsInFlight' = inputsInFlight \ gone
    BY <1>1
  <2> HIDE DEF gone
  <2>3. {packet \in inputsInFlight' : packet.from = c} = {packet \in inputsInFlight : packet.from = c}
    BY <2>1, <2>2
  <2> QED
    BY <1>3, <2>3 DEF InputsFrom
<1>5. inbox'[t] = inbox[t] /\ players'[t] = players[t]
  BY <1>1, <1>2 DEF Typed, PlayersTyped
<1> QED
  BY <1>1, <1>2, <1>3, <1>4, <1>5

LEMMA ReachDrop ==
  ASSUME Typed, Linked, InputsCounted, NEW s \in Slots, Drop(s)
  PROVE  /\ InputsCounted'
         /\ \A t \in connected' : t \in connected /\ (WithinReach(t) => WithinReach(t)')
<1>1. clients' = clients /\ inputsInFlight' = inputsInFlight \ InputsFrom(occupant[s])
  BY DEF Drop
<1>2. \A c \in Clients : InputsFrom(c)' \subseteq InputsFrom(c)
  BY <1>1 DEF InputsFrom
<1>3. InputsCounted'
  BY <1>1, <1>2, FS_Subset DEF InputsCounted
<1> QED
  BY <1>3, DropSpares, ReachUntouched

LEMMA ReachStep == SessionInv /\ ReachInv /\ [SessionNext]_sessionVars => ReachInv'
<1> SUFFICES ASSUME SessionInv, ReachInv, [SessionNext]_sessionVars PROVE ReachInv'
  OBVIOUS
<1>1. Typed /\ InputsInv /\ Linked /\ InputsCounted /\ \A s \in connected : WithinReach(s)
  BY DEF SessionInv, ReachInv
<1>2. ASSUME connected' = connected,
             \A s \in connected : /\ inbox'[s] = inbox[s]
                                  /\ players'[s].position = players[s].position,
             UNCHANGED <<occupant, inputsInFlight>>,
             clients' \in [Clients -> ClientState],
             \A c \in Clients : clients'[c].inputSequence = clients[c].inputSequence
      PROVE  ReachInv'
  <2>1. \A c \in Clients : InputsFrom(c)' = InputsFrom(c)
    BY <1>2 DEF InputsFrom
  <2>2. InputsCounted'
    BY <1>1, <1>2, <2>1 DEF InputsCounted
  <2>3. ASSUME NEW s \in connected PROVE WithinReach(s)'
    <3>1. occupant[s] \in Clients
      BY <1>1 DEF Typed, Linked, OccupantsMatch
    <3>2. InputsFrom(occupant[s])' = InputsFrom(occupant[s])
      BY <1>2 DEF InputsFrom
    <3> QED
      BY <1>1, <1>2, <3>1, <3>2, ReachUntouched
  <2> QED
    BY <1>2, <2>2, <2>3 DEF ReachInv
<1>0. CASE ServerStops
  <2>1. connected' = {} /\ clients' = clients /\ inputsInFlight' = {}
    BY <1>0 DEF ServerStops, Stop
  <2>2. InputsCounted'
    BY <1>1, <2>1, FS_EmptySet DEF InputsCounted, InputsFrom
  <2> QED
    BY <2>1, <2>2 DEF ReachInv
<1>3. CASE Update \/ ServerSends \/ ServerHasStopped \/ UNCHANGED sessionVars
  <2>1. UNCHANGED <<connected, inbox, players, occupant, inputsInFlight, clients>>
    BY <1>3
    DEF Update, BeginUpdate, ServerSends, SendPackets, ServerHasStopped, Stopped, sessionVars,
        serverVars, netVars, worldVars, linkVars
  <2> QED
    BY <1>1, <1>2, <2>1 DEF Linked, ClientsSound
<1>4. ASSUME NEW c \in Clients, NEW s \in Slots, Admit(c, s) PROVE ReachInv'
  <2>1. connected' = connected \cup {s}
    BY <1>4 DEF Admit, ClientConnected
  <2> QED
    BY <1>1, <1>4, <2>1, ReachAdmit DEF ReachInv
<1>5. ASSUME NEW s \in Slots, Drop(s) PROVE ReachInv'
  BY <1>1, <1>5, ReachDrop DEF ReachInv
<1>6. CASE ServerReceives
  BY <1>1, <1>6, ReachReceive, ServerStepsKeepConnected DEF ReachInv
<1>7. CASE ServerWorks
  <2>1. InputsCounted'
    <3>1. UNCHANGED <<clients, inputsInFlight>>
      BY <1>7, ServerAlone DEF linkVars
    <3> QED
      BY <1>1, <3>1 DEF InputsCounted, InputsFrom
  <2> QED
    BY <1>1, <1>7, <2>1, ReachWork, ServerStepsKeepConnected DEF ReachInv
<1>8. ASSUME NEW c \in Clients, Accepted(c) \/ Leaves(c) PROVE ReachInv'
  <2>1. UNCHANGED <<connected, inbox, players, occupant, inputsInFlight>>
    BY <1>8 DEF Accepted, Leaves, serverVars, netVars, worldVars, linkVars
  <2>2. clients' \in [Clients -> ClientState]
    <3>1. Linked'
      BY LinkedStep DEF SessionInv
    <3> QED
      BY <3>1 DEF Linked, ClientsSound
  <2>3. \A d \in Clients : clients'[d].inputSequence = clients[d].inputSequence
    <3>1. clients[c] \in ClientState /\ clients \in [Clients -> ClientState]
      BY <1>1 DEF Linked, ClientsSound
    <3>2. PICK s \in Slots :
            \/ clients' = [clients EXCEPT ![c].status = "connected", ![c].clientIndex = s]
            \/ clients' = [clients EXCEPT ![c].status = "disconnected"]
      <4>1. CASE Accepted(c)
        BY <4>1 DEF Accepted, ClientAccepted
      <4>2. CASE Leaves(c)
        BY <4>2, ProtocolAssumption DEF Leaves, ClientDropped, Slots
      <4> QED
        BY <1>8, <4>1, <4>2
    <3>3. clients'[c].inputSequence = clients[c].inputSequence
      BY <3>1, <3>2 DEF ClientState
    <3> QED
      BY <3>1, <3>2, <3>3
  <2> QED
    BY <1>2, <2>1, <2>2, <2>3
<1>9. ASSUME NEW c \in Clients, NEW move \in Moves \cup {NoMove}, ClientRuns(c, move)
      PROVE  ReachInv'
  <2>1. connected' = connected
    BY <1>9 DEF ClientRuns, serverVars, netVars
  <2> QED
    BY <1>1, <1>9, <2>1, ReachRuns DEF ReachInv
<1> QED
  BY <1>0, <1>3, <1>4, <1>5, <1>6, <1>7, <1>8, <1>9 DEF SessionNext

LEMMA ReachInit ==
  ASSUME EmptyServer, NobodyYet
  PROVE  ReachInv
BY FS_EmptySet DEF EmptyServer, NobodyYet, ReachInv, InputsCounted, InputsFrom

LEMMA ReachIsBound == SessionInv /\ ReachInv => MovedAtMostAsSent
<1> SUFFICES ASSUME SessionInv, ReachInv, NEW s \in Slots, occupant[s] # NoClient
             PROVE  \E p \in SpawnPoints : Near(players[s].position, p, Sent(s))
  BY DEF MovedAtMostAsSent, Near, Sent
<1>1. s \in connected /\ WithinReach(s)
  BY DEF SessionInv, ReachInv, Linked, OccupantsMatch
<1>2. /\ Sent(s) \in Nat
      /\ Pending(s) \in Nat
      /\ players[s].position \in Position
  BY <1>1, ReachTyped DEF SessionInv, ReachInv
<1>3. PICK p \in SpawnPoints : Near(players[s].position, p, Sent(s) - Pending(s))
  BY <1>1 DEF WithinReach
<1>4. Sent(s) - Pending(s) \in Nat /\ Sent(s) - Pending(s) <= Sent(s)
  BY <1>1, <1>2 DEF WithinReach
<1>5. Near(players[s].position, p, Sent(s))
  BY <1>2, <1>3, <1>4, NearMonotone, ProtocolAssumption
<1> QED
  BY <1>5

(* Loss, reordering and reconnection never make the server move a player   *)
(* by more than a stride per input its client made.                        *)
THEOREM MovesAreBounded == SessionSpec => []MovedAtMostAsSent
<1>1. SessionInit => ReachInv
  BY ReachInit DEF SessionInit, ServerInit
<1> QED
  BY <1>1, ReachIsBound, ReachStep, SessionCore, PTL DEF SessionSpec

(* None of this depends on what earlier occupants of the slots have left   *)
(* behind in m_lastProcessedInput.                                         *)
THEOREM UsedSlotsDoNoHarm ==
  UsedSlotsInit /\ [][SessionNext]_sessionVars =>
    [](SessionTypeOK /\ HistoryIsRecent /\ PredictionIsReplay /\ MovedAtMostAsSent)
<1>1. UsedSlotsInit => SessionInv /\ ReachInv
  <2>1. 0 .. MaxSeq \subseteq Nat
    BY ServerAssumption
  <2> QED
    BY <2>1, EmptySession, ReachInit DEF UsedSlotsInit
<1> QED
  BY <1>1, CoreSays, ReachIsBound, SessionInvStep, ReachStep, PTL

-----------------------------------------------------------------------------
(* On an orderly network: the inputs of a session, one after the other.    *)

Packet(c, k, move) == [from |-> c, sequenceNumber |-> k, move |-> move]

Acked(s) == lastProcessedInput[s]

(* M is what the client behind s has had its keys do, input by input: the  *)
(* server has processed it up to the acknowledgement, the inbox holds the  *)
(* part after that, and the network the rest.                              *)
InLine(s, M) ==
  /\ M \in [1 .. Sent(s) -> Moves]
  /\ Acked(s) + Len(inbox[s]) <= Sent(s)
  /\ \A i \in 1 .. Len(inbox[s]) :
       inbox[s][i] = [sequenceNumber |-> Acked(s) + i, move |-> M[Acked(s) + i]]
  /\ \A packet \in InputsFrom(occupant[s]) :
       /\ packet.sequenceNumber \in Acked(s) + Len(inbox[s]) + 1 .. Sent(s)
       /\ packet.move = M[packet.sequenceNumber]
  /\ \A k \in Acked(s) + Len(inbox[s]) + 1 .. Sent(s) :
       Packet(occupant[s], k, M[k]) \in InputsFrom(occupant[s])

LEMMA LineTyped ==
  ASSUME Typed, Linked, NEW s \in connected
  PROVE  /\ s \in Slots
         /\ occupant[s] \in Clients
         /\ Sent(s) \in Nat
         /\ Acked(s) \in Nat
         /\ Len(inbox[s]) \in Nat
         /\ inbox[s] \in Seq(PlayerInputMessage)
         /\ players[s] \in PlayerState
         /\ InputsFrom(occupant[s]) \subseteq SentInput
<1>1. s \in Slots /\ occupant[s] \in Clients
  BY DEF Typed, Linked, OccupantsMatch
<1>2. Sent(s) \in Nat
  BY <1>1 DEF Linked, ClientsSound, Sent, ClientState
<1>3. Acked(s) \in Nat /\ inbox[s] \in Seq(PlayerInputMessage)
  BY <1>1 DEF Typed, Acked
<1>4. players[s] \in PlayerState
  BY DEF Typed, PlayersTyped
<1>5. InputsFrom(occupant[s]) \subseteq SentInput
  BY DEF InputsFrom, Linked, PacketsTyped
<1> QED
  BY <1>1, <1>2, <1>3, <1>4, <1>5

LEMMA LineUntouched ==
  ASSUME NEW s \in connected, NEW M, InLine(s, M),
         occupant'[s] = occupant[s],
         InputsFrom(occupant[s])' = InputsFrom(occupant[s]),
         inbox'[s] = inbox[s],
         lastProcessedInput'[s] = lastProcessedInput[s],
         clients'[occupant[s]].inputSequence = clients[occupant[s]].inputSequence
  PROVE  InLine(s, M)'
<1>1. Sent(s)' = Sent(s) /\ Acked(s)' = Acked(s)
  BY DEF Sent, Acked
<1> QED
  BY <1>1 DEF InLine

(* What arrives at a slot is the next part of its client's moves.          *)
LEMMA ArrivalsInLine ==
  ASSUME Typed, Linked, InOrder, NEW s \in connected, NEW M, InLine(s, M),
         NEW a \in InputArrivals(s)
  PROVE  LET next == Acked(s) + Len(inbox[s])
         IN  \E m \in Nat :
               /\ a \in [1 .. m -> InputsFrom(occupant[s])]
               /\ next + m <= Sent(s)
               /\ \A i \in 1 .. m : a[i] = Packet(occupant[s], next + i, M[next + i])
<1> DEFINE c == occupant[s]
           next == Acked(s) + Len(inbox[s])
           flying == InputsFrom(c)
<1>1. /\ s \in Slots
      /\ c \in Clients
      /\ Sent(s) \in Nat
      /\ next \in Nat
      /\ flying \subseteq SentInput
  BY LineTyped
<1>2. PICK m \in 0 .. MaxPackets : a \in [1 .. m -> flying]
  BY <1>1, InputArrivalsTyped DEF Linked
<1>3. m \in Nat /\ next <= Sent(s)
  BY SessionAssumption, ServerAssumption DEF InLine
<1>4. /\ \A p \in flying : /\ p.from = c
                            /\ p.sequenceNumber \in next + 1 .. Sent(s)
                            /\ p.move = M[p.sequenceNumber]
                            /\ p = Packet(c, p.sequenceNumber, p.move)
      /\ \A k \in next + 1 .. Sent(s) : Packet(c, k, M[k]) \in flying
  <2>1. \A p \in flying : p.from = c
    BY DEF InputsFrom
  <2>2. \A p \in flying : p = Packet(c, p.sequenceNumber, p.move)
    BY <1>1, <2>1 DEF SentInput, Packet
  <2> QED
    BY <2>1, <2>2 DEF InLine
<1>5. \A i, j \in 1 .. m : i < j => a[i].sequenceNumber < a[j].sequenceNumber
  BY <1>1, <1>2 DEF InputArrivals, Arrivals, InputAge
<1>6. \A i \in 1 .. m : \A p \in flying :
        p.sequenceNumber < a[i].sequenceNumber => \E j \in 1 .. m : a[j] = p
  BY <1>1, <1>2 DEF InputArrivals, NoneMissing
<1>7. \A k : Packet(c, k, M[k]).sequenceNumber = k
  BY DEF Packet
<1> HIDE DEF flying, next, c
<1>8. \A i \in 1 .. m : a[i].sequenceNumber \in next + 1 .. Sent(s)
  BY <1>2, <1>4
<1> DEFINE bad == {i \in 1 .. m : a[i].sequenceNumber # next + i}
<1>9. bad = {}
  <2> SUFFICES ASSUME bad # {} PROVE FALSE
    OBVIOUS
  <2>1. PICK i \in bad : \A j \in bad : i <= j
    <3>1. bad \in SUBSET Nat
      BY <1>3
    <3> HIDE DEF bad
    <3> QED
      BY <3>1, LeastNatural
  <2>2. i \in 1 .. m /\ a[i].sequenceNumber # next + i
    OBVIOUS
  <2>3. \A j \in 1 .. m : j < i => a[j].sequenceNumber = next + j
    BY <1>3, <2>1
  <2>4. a[i].sequenceNumber > next + i
    <3>1. CASE i = 1
      BY <1>1, <1>8, <2>2, <3>1
    <3>2. CASE i # 1
      <4>1. i - 1 \in 1 .. m /\ i - 1 < i
        BY <1>3, <2>2, <3>2
      <4>2. a[i - 1].sequenceNumber = next + (i - 1)
        BY <2>3, <4>1
      <4>3. a[i - 1].sequenceNumber < a[i].sequenceNumber
        BY <1>5, <2>2, <4>1
      <4> QED
        BY <1>1, <1>3, <1>8, <2>2, <4>1, <4>2, <4>3
    <3> QED
      BY <3>1, <3>2
  <2>5. next + i \in next + 1 .. Sent(s)
    BY <1>1, <1>3, <1>8, <2>2, <2>4
  <2>6. PICK j \in 1 .. m : a[j] = Packet(c, next + i, M[next + i])
    <3>1. Packet(c, next + i, M[next + i]) \in flying
      BY <1>4, <2>5
    <3> QED
      BY <1>6, <1>7, <2>2, <2>4, <3>1
  <2>7. a[j].sequenceNumber = next + i
    BY <1>7, <2>6
  <2>8. j < i
    BY <1>1, <1>3, <1>5, <1>8, <2>2, <2>4, <2>7
  <2> QED
    BY <1>1, <1>3, <2>2, <2>3, <2>7, <2>8
<1>10. \A i \in 1 .. m : a[i].sequenceNumber = next + i
  BY <1>9
<1>11. \A i \in 1 .. m : a[i] = Packet(c, next + i, M[next + i])
  BY <1>2, <1>4, <1>10
<1>12. next + m <= Sent(s)
  <2>1. CASE m = 0
    BY <1>1, <1>3, <2>1
  <2>2. CASE m # 0
    BY <1>1, <1>3, <1>8, <1>10, <2>2
  <2> QED
    BY <2>1, <2>2
<1> QED
  BY <1>2, <1>3, <1>11, <1>12 DEF flying, next, c

LEMMA LineReceive ==
  ASSUME Typed, Linked, InOrder, ServerReceives, NEW s \in connected, NEW M, InLine(s, M)
  PROVE  InLine(s, M)'
<1> DEFINE c == occupant[s]
           L == Acked(s)
           b == Len(inbox[s])
           n == Sent(s)
           flying == InputsFrom(c)
<1>1. /\ s \in Slots
      /\ c \in Clients
      /\ n \in Nat
      /\ L \in Nat
      /\ b \in Nat
      /\ inbox[s] \in Seq(PlayerInputMessage)
  BY LineTyped
<1>2. UNCHANGED <<clients, occupant, lastProcessedInput>>
  BY DEF ServerReceives, ReceivePackets, worldVars
<1>3. PICK a \in InputArrivals(s) :
        /\ inbox'[s] = inbox[s] \o InputPayload(a)
        /\ InputsFrom(c)' = flying \ Range(a)
  BY SlotReceives
<1>4. PICK m \in Nat :
        /\ a \in [1 .. m -> flying]
        /\ L + b + m <= n
        /\ \A i \in 1 .. m : a[i] = Packet(c, L + b + i, M[L + b + i])
  BY ArrivalsInLine
<1> DEFINE payload == InputPayload(a)
<1>5. /\ payload \in Seq(PlayerInputMessage)
      /\ Len(payload) = m
      /\ \A i \in 1 .. m :
           payload[i] = [sequenceNumber |-> L + b + i, move |-> M[L + b + i]]
  <2>1. payload \in Seq(PlayerInputMessage)
    BY <1>1, PayloadIsBurst, BurstsTyped DEF Linked
  <2>2. /\ Len(payload) = m
        /\ \A i \in 1 .. m :
             payload[i] = [sequenceNumber |-> a[i].sequenceNumber, move |-> a[i].move]
    BY <1>4 DEF InputPayload
  <2>3. \A i \in 1 .. m : /\ a[i].sequenceNumber = L + b + i
                          /\ a[i].move = M[L + b + i]
    BY <1>4 DEF Packet
  <2> QED
    BY <2>1, <2>2, <2>3
<1>6. /\ M \in [1 .. n -> Moves]
      /\ \A i \in 1 .. b : inbox[s][i] = [sequenceNumber |-> L + i, move |-> M[L + i]]
      /\ \A packet \in flying : /\ packet.sequenceNumber \in L + b + 1 .. n
                                /\ packet.move = M[packet.sequenceNumber]
      /\ \A k \in L + b + 1 .. n : Packet(c, k, M[k]) \in flying
  BY DEF InLine
<1>7. \A p \in flying : p = Packet(c, p.sequenceNumber, p.move)
  BY LineTyped DEF InputsFrom, SentInput, Packet
<1>8. Sent(s)' = n /\ Acked(s)' = L /\ occupant'[s] = c
  BY <1>2 DEF Sent, Acked
<1>9. \A k : Packet(c, k, M[k]).sequenceNumber = k
  BY DEF Packet
<1>10. DOMAIN a = 1 .. m
  BY <1>4
<1> DEFINE longer == inbox[s] \o payload
<1>11. /\ longer \in Seq(PlayerInputMessage)
       /\ Len(longer) = b + m
       /\ \A i \in 1 .. b : longer[i] = inbox[s][i]
       /\ \A i \in b + 1 .. b + m : longer[i] = payload[i - b]
  <2>1. Len(inbox[s]) = b /\ b \in Nat
    BY <1>1
  <2>2. payload \in Seq(PlayerInputMessage) /\ Len(payload) = m
    BY <1>5
  <2> HIDE DEF payload, L, n, b, flying
  <2>3. /\ inbox[s] \o payload \in Seq(PlayerInputMessage)
        /\ Len(inbox[s] \o payload) = Len(inbox[s]) + Len(payload)
        /\ \A i \in 1 .. Len(inbox[s]) + Len(payload) :
             (inbox[s] \o payload)[i] =
               IF i <= Len(inbox[s]) THEN inbox[s][i] ELSE payload[i - Len(inbox[s])]
    BY <1>1, <2>2, ConcatProperties, Zenon
  <2>4. \A i \in 1 .. b + m :
          longer[i] = IF i <= b THEN inbox[s][i] ELSE payload[i - b]
    BY <2>1, <2>2, <2>3, Zenon
  <2>5. longer \in Seq(PlayerInputMessage) /\ Len(longer) = b + m
    BY <2>1, <2>2, <2>3, Zenon
  <2> HIDE DEF longer
  <2> QED
    BY <1>1, <2>1, <2>4, <2>5
<1> HIDE DEF flying, n, L, b, c, payload, longer
<1>12. \A i \in 1 .. b + m : longer[i] = [sequenceNumber |-> L + i, move |-> M[L + i]]
  <2> SUFFICES ASSUME NEW i \in 1 .. b + m
               PROVE  longer[i] = [sequenceNumber |-> L + i, move |-> M[L + i]]
    OBVIOUS
  <2>1. CASE i \in 1 .. b
    BY <1>6, <1>11, <2>1
  <2>2. CASE i \in b + 1 .. b + m
    <3>1. i - b \in 1 .. m /\ L + b + (i - b) = L + i
      BY <1>1, <1>4, <2>2
    <3>2. payload[i - b] = [sequenceNumber |-> L + b + (i - b), move |-> M[L + b + (i - b)]]
      BY <1>5, <3>1
    <3> QED
      BY <1>11, <2>2, <3>1, <3>2
  <2> QED
    BY <1>1, <1>4, <2>1, <2>2
<1>13. \A p \in flying \ Range(a) : /\ p.sequenceNumber \in L + (b + m) + 1 .. n
                                     /\ p.move = M[p.sequenceNumber]
  <2> SUFFICES ASSUME NEW p \in flying \ Range(a)
               PROVE  p.sequenceNumber \in L + (b + m) + 1 .. n
    BY <1>6
  <2> DEFINE k == p.sequenceNumber
             i == k - (L + b)
  <2>1. k \in L + b + 1 .. n /\ p = Packet(c, k, M[k])
    BY <1>6, <1>7
  <2>2. i \in 1 .. m => a[i] = Packet(c, L + b + i, M[L + b + i])
    BY <1>4
  <2>3. L + b + i = k
    BY <1>1, <2>1
  <2>4. i \in 1 .. m => p \in Range(a)
    BY <1>10, <2>1, <2>2, <2>3 DEF Range
  <2> QED
    BY <1>1, <1>4, <2>1, <2>4
<1>14. \A k \in L + (b + m) + 1 .. n : Packet(c, k, M[k]) \in flying \ Range(a)
  <2> SUFFICES ASSUME NEW k \in L + (b + m) + 1 .. n
               PROVE  Packet(c, k, M[k]) \in flying \ Range(a)
    OBVIOUS
  <2>1. Packet(c, k, M[k]) \in flying
    BY <1>1, <1>4, <1>6
  <2>2. ASSUME NEW i \in 1 .. m, a[i] = Packet(c, k, M[k]) PROVE FALSE
    <3>1. Packet(c, L + b + i, M[L + b + i]) = Packet(c, k, M[k])
      BY <1>4, <2>2
    <3>2. L + b + i = k
      BY <1>9, <3>1
    <3> QED
      BY <1>1, <1>4, <3>2
  <2> QED
    BY <1>10, <2>1, <2>2 DEF Range
<1>15. inbox'[s] = longer
  BY <1>3 DEF longer, payload
<1>16. L + (b + m) <= n /\ Len(longer) = b + m
  BY <1>1, <1>4, <1>11
<1>17. InputsFrom(occupant[s])' = flying \ Range(a)
  BY <1>3, <1>8 DEF flying, c, InputsFrom
<1> QED
  BY <1>6, <1>8, <1>12, <1>13, <1>14, <1>15, <1>16, <1>17 DEF InLine

(* ProcessMessages takes the next input of the line.                       *)
LEMMA LineProcess ==
  ASSUME Typed, Linked, NEW s \in connected, NEW M, InLine(s, M), Processes(s)
  PROVE  /\ Acked(s) + 1 \in 1 .. Sent(s)
         /\ Head(inbox[s]) = [sequenceNumber |-> Acked(s) + 1, move |-> M[Acked(s) + 1]]
         /\ Acked(s)' = Acked(s) + 1
         /\ Len(inbox'[s]) = Len(inbox[s]) - 1
<1> DEFINE L == Acked(s)
           b == Len(inbox[s])
<1>1. /\ Sent(s) \in Nat
      /\ L \in Nat
      /\ b \in Nat
      /\ inbox[s] \in Seq(PlayerInputMessage)
  BY LineTyped
<1>2. inbox[s] # <<>> /\ inbox'[s] = Tail(inbox[s])
  BY DEF Processes
<1>3. b >= 1 /\ Head(inbox[s]) = inbox[s][1] /\ Len(inbox'[s]) = b - 1
  BY <1>1, <1>2
<1>4. L + b <= Sent(s)
  BY DEF InLine
<1>5. inbox[s][1] = [sequenceNumber |-> L + 1, move |-> M[L + 1]]
  <2>1. 1 \in 1 .. b
    BY <1>1, <1>3
  <2> QED
    BY <2>1 DEF InLine
<1>6. Acked(s)' = L + 1
  BY <1>3, <1>5 DEF Processes, Acked
<1>7. L + 1 \in 1 .. Sent(s)
  <2> HIDE DEF L, b
  <2> QED
    BY <1>1, <1>3, <1>4
<1> QED
  BY <1>3, <1>5, <1>6, <1>7

LEMMA LineWork ==
  ASSUME Typed, Linked, ServerWorks, NEW s \in connected, NEW M, InLine(s, M)
  PROVE  InLine(s, M)'
<1>1. /\ s \in Slots
      /\ Sent(s) \in Nat
      /\ Acked(s) \in Nat
      /\ Len(inbox[s]) \in Nat
      /\ inbox[s] \in Seq(PlayerInputMessage)
  BY LineTyped
<1>2. UNCHANGED <<clients, occupant, inputsInFlight>>
  BY ServerAlone DEF linkVars
<1>3. Sent(s)' = Sent(s) /\ InputsFrom(occupant[s])' = InputsFrom(occupant[s])
  BY <1>2 DEF Sent, InputsFrom
<1>4. CASE Still(s) \/ Reappears(s)
  BY <1>2, <1>3, <1>4, LineUntouched DEF Still, Reappears
<1>5. CASE Processes(s)
  <2> DEFINE L == Acked(s)
             b == Len(inbox[s])
  <2>1. /\ Acked(s)' = L + 1
        /\ Len(inbox'[s]) = b - 1
    BY <1>5, LineProcess
  <2>2. Acked(s)' + Len(inbox'[s]) = L + b
    BY <1>1, <2>1
  <2>3. ASSUME NEW i \in 1 .. Len(inbox'[s])
        PROVE  inbox'[s][i] = [sequenceNumber |-> Acked(s)' + i, move |-> M[Acked(s)' + i]]
    <3>1. i + 1 \in 1 .. b /\ L + (i + 1) = L + 1 + i
      BY <1>1, <2>1
    <3>2. inbox'[s][i] = inbox[s][i + 1]
      BY <1>1, <1>5, <2>1 DEF Processes
    <3>3. inbox[s][i + 1] = [sequenceNumber |-> L + (i + 1), move |-> M[L + (i + 1)]]
      BY <3>1 DEF InLine
    <3> QED
      BY <2>1, <3>1, <3>2, <3>3
  <2>4. L + b <= Sent(s)
    BY DEF InLine
  <2>5. /\ M \in [1 .. Sent(s) -> Moves]
        /\ \A packet \in InputsFrom(occupant[s]) :
             /\ packet.sequenceNumber \in L + b + 1 .. Sent(s)
             /\ packet.move = M[packet.sequenceNumber]
        /\ \A k \in L + b + 1 .. Sent(s) : Packet(occupant[s], k, M[k]) \in InputsFrom(occupant[s])
    BY DEF InLine
  <2>6. occupant'[s] = occupant[s]
    BY <1>2
  <2> DEFINE Lb == L + b
  <2> HIDE DEF L, b, Lb
  <2>7. Acked(s)' + Len(inbox'[s]) = Lb
    BY <2>2 DEF Lb
  <2>8. /\ Lb <= Sent(s)
        /\ \A packet \in InputsFrom(occupant[s]) :
             /\ packet.sequenceNumber \in Lb + 1 .. Sent(s)
             /\ packet.move = M[packet.sequenceNumber]
        /\ \A k \in Lb + 1 .. Sent(s) : Packet(occupant[s], k, M[k]) \in InputsFrom(occupant[s])
    BY <2>4, <2>5 DEF Lb
  <2> QED
    BY <1>3, <2>3, <2>5, <2>6, <2>7, <2>8 DEF InLine
<1> QED
  BY <1>4, <1>5, WorkEffect

(* The input a client sends is the next of its line.                       *)
Prolonged(M, n, move) == [k \in 1 .. n + 1 |-> IF k <= n THEN M[k] ELSE move]

LEMMA LineSend ==
  ASSUME Typed, Linked, NEW s \in connected, NEW M, InLine(s, M), NEW move \in Moves,
         NEW N, N = Prolonged(M, Sent(s), move),
         UNCHANGED <<serverVars, occupant>>,
         Sent(s)' = Sent(s) + 1,
         InputsFrom(occupant[s])' =
           InputsFrom(occupant[s]) \cup {Packet(occupant[s], Sent(s) + 1, move)}
  PROVE  InLine(s, N)'
<1> DEFINE c  == occupant[s]
           n  == Sent(s)
           L  == Acked(s)
           b  == Len(inbox[s])
           flying == InputsFrom(c)
<1>1. n \in Nat /\ L \in Nat /\ b \in Nat
  BY LineTyped
<1>2. /\ M \in [1 .. n -> Moves]
      /\ L + b <= n
      /\ \A i \in 1 .. b : inbox[s][i] = [sequenceNumber |-> L + i, move |-> M[L + i]]
      /\ \A packet \in flying : /\ packet.sequenceNumber \in L + b + 1 .. n
                                /\ packet.move = M[packet.sequenceNumber]
      /\ \A k \in L + b + 1 .. n : Packet(c, k, M[k]) \in flying
  BY DEF InLine
<1>3. /\ inbox'[s] = inbox[s]
      /\ Acked(s)' = L
      /\ Sent(s)' = n + 1
      /\ occupant'[s] = c
      /\ InputsFrom(occupant[s])' = flying \cup {Packet(c, n + 1, move)}
  BY DEF serverVars, netVars, worldVars, Acked
<1> HIDE DEF L, b, n, c, flying
<1>4. /\ N \in [1 .. n + 1 -> Moves]
      /\ \A k \in 1 .. n : N[k] = M[k]
      /\ N[n + 1] = move
  BY <1>1, <1>2 DEF Prolonged, n
<1>5. \A i \in 1 .. b : inbox[s][i] = [sequenceNumber |-> L + i, move |-> N[L + i]]
  <2>1. \A i \in 1 .. b : L + i \in 1 .. n
    BY <1>1, <1>2
  <2> QED
    BY <1>2, <1>4, <2>1
<1>6. \A packet \in flying \cup {Packet(c, n + 1, move)} :
        /\ packet.sequenceNumber \in L + b + 1 .. n + 1
        /\ packet.move = N[packet.sequenceNumber]
  <2>1. ASSUME NEW packet \in flying
        PROVE  /\ packet.sequenceNumber \in L + b + 1 .. n + 1
               /\ packet.move = N[packet.sequenceNumber]
    <3>1. packet.sequenceNumber \in L + b + 1 .. n /\ packet.move = M[packet.sequenceNumber]
      BY <1>2, <2>1
    <3>2. packet.sequenceNumber \in 1 .. n
      BY <1>1, <3>1
    <3> QED
      BY <1>1, <1>4, <3>1, <3>2
  <2>2. /\ Packet(c, n + 1, move).sequenceNumber = n + 1
        /\ Packet(c, n + 1, move).move = move
    BY DEF Packet
  <2>3. n + 1 \in L + b + 1 .. n + 1
    BY <1>1, <1>2
  <2> QED
    BY <1>4, <2>1, <2>2, <2>3
<1>7. \A k \in L + b + 1 .. n + 1 : Packet(c, k, N[k]) \in flying \cup {Packet(c, n + 1, move)}
  <2> SUFFICES ASSUME NEW k \in L + b + 1 .. n + 1
               PROVE  Packet(c, k, N[k]) \in flying \cup {Packet(c, n + 1, move)}
    OBVIOUS
  <2>1. CASE k = n + 1
    BY <1>4, <2>1
  <2>2. CASE k # n + 1
    <3>1. k \in L + b + 1 .. n /\ k \in 1 .. n
      BY <1>1, <2>2
    <3> QED
      BY <1>2, <1>4, <3>1
  <2> QED
    BY <2>1, <2>2
<1>8. L + b <= n + 1
  BY <1>1, <1>2
<1>9. /\ N \in [1 .. Sent(s)' -> Moves]
      /\ Acked(s)' + Len(inbox'[s]) <= Sent(s)'
      /\ \A i \in 1 .. Len(inbox'[s]) :
           inbox'[s][i] = [sequenceNumber |-> Acked(s)' + i, move |-> N[Acked(s)' + i]]
  BY <1>3, <1>4, <1>5, <1>8 DEF b
<1>10. /\ \A packet \in InputsFrom(occupant[s])' :
            /\ packet.sequenceNumber \in Acked(s)' + Len(inbox'[s]) + 1 .. Sent(s)'
            /\ packet.move = N[packet.sequenceNumber]
       /\ \A k \in Acked(s)' + Len(inbox'[s]) + 1 .. Sent(s)' :
            Packet(occupant'[s], k, N[k]) \in InputsFrom(occupant[s])'
  BY <1>3, <1>6, <1>7 DEF b
<1> QED
  BY <1>9, <1>10 DEF InLine

InSomeLine(s) == \E M : InLine(s, M)

LineInv == \A s \in connected : InSomeLine(s)

LEMMA LineRuns ==
  ASSUME Typed, Linked, InOrder, NEW c \in Clients, NEW move \in Moves \cup {NoMove},
         ClientRuns(c, move), NEW s \in connected, InSomeLine(s)
  PROVE  InSomeLine(s)'
<1> DEFINE last   == clients[c].inputSequence
           packet == [from |-> c, sequenceNumber |-> last + 1, move |-> move]
<1>1. /\ UNCHANGED <<serverVars, occupant>>
      /\ \A d \in Clients \ {c} : InputsFrom(d)' = InputsFrom(d) /\ clients'[d] = clients[d]
      /\ \/ clients'[c].inputSequence = last /\ InputsFrom(c)' = InputsFrom(c)
         \/ /\ clients'[c].inputSequence = last + 1
            /\ move \in Moves
            /\ InputsFrom(c)' = InputsFrom(c) \cup {packet}
  BY RunsSend
<1>2. PICK M : InLine(s, M)
  BY DEF InSomeLine
<1>3. s \in Slots /\ occupant[s] \in Clients
  BY LineTyped
<1>4. UNCHANGED <<occupant, inbox, lastProcessedInput>>
  BY <1>1 DEF serverVars, netVars, worldVars
<1>5. CASE clients'[occupant[s]].inputSequence = clients[occupant[s]].inputSequence
  <2>1. clients'[c].inputSequence = last + 1 => occupant[s] # c
    <3>1. last \in Nat
      BY DEF Linked, ClientsSound, ClientState
    <3> QED
      BY <1>5, <3>1
  <2>2. InputsFrom(occupant[s])' = InputsFrom(occupant[s])
    <3>1. CASE occupant[s] = c
      <4>1. InputsFrom(c)' = InputsFrom(c)
        BY <1>1, <2>1, <3>1
      <4> QED
        BY <1>4, <3>1, <4>1 DEF InputsFrom
    <3>2. CASE occupant[s] # c
      <4>1. \A d \in Clients \ {c} : InputsFrom(d)' = InputsFrom(d)
        BY <1>1
      <4> QED
        BY <1>3, <1>4, <3>2, <4>1 DEF InputsFrom
    <3> QED
      BY <3>1, <3>2
  <2>3. InLine(s, M)'
    BY <1>2, <1>4, <1>5, <2>2, LineUntouched
  <2> QED
    BY <2>3 DEF InSomeLine
<1>6. CASE clients'[occupant[s]].inputSequence # clients[occupant[s]].inputSequence
  <2>1. occupant[s] = c
    BY <1>1, <1>3, <1>6
  <2>2. /\ clients'[c].inputSequence = last + 1
        /\ move \in Moves
        /\ InputsFrom(c)' = InputsFrom(c) \cup {packet}
    BY <1>1, <1>6, <2>1
  <2>3. Sent(s)' = Sent(s) + 1
    BY <1>4, <2>1, <2>2 DEF Sent
  <2>4. packet = Packet(occupant[s], Sent(s) + 1, move)
    BY <2>1 DEF Packet, Sent
  <2>5. InputsFrom(occupant[s])' = InputsFrom(occupant[s]) \cup {packet}
    BY <1>4, <2>1, <2>2 DEF InputsFrom
  <2>6. PICK N : N = Prolonged(M, Sent(s), move)
    OBVIOUS
  <2>7. InLine(s, N)'
    BY <1>1, <1>2, <2>2, <2>3, <2>4, <2>5, <2>6, LineSend
  <2> QED
    BY <2>7 DEF InSomeLine
<1> QED
  BY <1>5, <1>6

(* A newcomer starts a line of its own, if the slot's acknowledgement does *)
(* not speak of a predecessor's inputs.                                    *)
LEMMA LineAdmit ==
  ASSUME Typed, InputsInv, Linked, InputsCounted, NEW c \in Clients, NEW s \in Slots,
         Admit(c, s)
  PROVE  /\ Acked(s)' \in Nat
         /\ Sent(s)' = 0
         /\ Acked(s)' <= Sent(s)' => InSomeLine(s)'
         /\ \A t \in connected : InSomeLine(t) => InSomeLine(t)'
<1>1. /\ clients[c].status = "connecting"
      /\ \A t \in Slots : occupant[t] # c
      /\ s \notin connected
      /\ occupant' = [occupant EXCEPT ![s] = c]
      /\ UNCHANGED <<clients, inputsInFlight, statesInFlight, inbox, lastProcessedInput>>
  BY DEF Admit, ClientConnected
<1>2. \A d \in Clients : InputsFrom(d)' = InputsFrom(d)
  BY <1>1 DEF InputsFrom
<1>3. InputsFrom(c) = {} /\ clients[c].inputSequence = 0
  <2>1. clients[c].inputSequence = 0
    BY <1>1 DEF Linked, ClientsSound
  <2>2. \A p \in InputsFrom(c) : p.sequenceNumber \in 1 .. MaxSeq /\ p.sequenceNumber <= 0
    BY <2>1 DEF InputsCounted, InputsFrom, Linked, PacketsTyped, SentInput
  <2> QED
    BY <2>1, <2>2, ServerAssumption
<1>4. occupant'[s] = c /\ \A t \in connected : t # s /\ occupant'[t] = occupant[t]
  BY <1>1 DEF Linked, OccupantsMatch, Typed
<1>5. Acked(s)' \in Nat /\ Sent(s)' = 0
  BY <1>1, <1>3, <1>4 DEF Typed, Acked, Sent
<1>6. ASSUME Acked(s)' <= Sent(s)'
      PROVE  InSomeLine(s)'
  <2>1. inbox'[s] = <<>> /\ Len(<<>>) = 0
    BY <1>1, EmptySeq DEF InputsInv
  <2>2. Acked(s)' = 0 /\ Sent(s)' = 0 /\ Len(inbox'[s]) = 0
    BY <1>5, <1>6, <2>1
  <2>3. InputsFrom(occupant[s])' = {}
    BY <1>2, <1>3, <1>4 DEF InputsFrom
  <2>4. PICK M : M = [k \in 1 .. 0 |-> NoMove]
    OBVIOUS
  <2>5. M \in [1 .. 0 -> Moves]
    BY <2>4
  <2>6. InLine(s, M)'
    <3>1. /\ M \in [1 .. Sent(s)' -> Moves]
          /\ Acked(s)' + Len(inbox'[s]) <= Sent(s)'
          /\ 1 .. Len(inbox'[s]) = {}
          /\ Acked(s)' + Len(inbox'[s]) + 1 .. Sent(s)' = {}
      BY <2>2, <2>5
    <3> QED
      BY <2>3, <3>1 DEF InLine
  <2> QED
    BY <2>6 DEF InSomeLine
<1>7. ASSUME NEW t \in connected, InSomeLine(t)
      PROVE  InSomeLine(t)'
  <2>1. PICK M : InLine(t, M)
    BY <1>7 DEF InSomeLine
  <2>2. t # s /\ occupant'[t] = occupant[t] /\ occupant[t] \in Clients
    BY <1>4 DEF Linked, OccupantsMatch, Typed
  <2>3. InputsFrom(occupant[t])' = InputsFrom(occupant[t])
    BY <1>1, <2>2 DEF InputsFrom
  <2>4. InLine(t, M)'
    BY <1>1, <2>1, <2>2, <2>3, LineUntouched
  <2> QED
    BY <2>4 DEF InSomeLine
<1> QED
  BY <1>5, <1>6, <1>7

LEMMA LineDrop ==
  ASSUME Typed, Linked, NEW s \in Slots, Drop(s), NEW t \in connected', InSomeLine(t)
  PROVE  InSomeLine(t)'
<1>1. PICK M : InLine(t, M)
  BY DEF InSomeLine
<1>2. InLine(t, M)'
  BY <1>1, DropSpares, LineUntouched
<1> QED
  BY <1>2 DEF InSomeLine

(* A step that touches no input and no acknowledgement.                    *)
LEMMA LineQuiet ==
  ASSUME Typed, Linked, NEW s \in connected, InSomeLine(s),
         UNCHANGED <<occupant, inputsInFlight, inbox, lastProcessedInput>>,
         clients'[occupant[s]].inputSequence = clients[occupant[s]].inputSequence
  PROVE  InSomeLine(s)'
<1>1. PICK M : InLine(s, M)
  BY DEF InSomeLine
<1>2. InputsFrom(occupant[s])' = InputsFrom(occupant[s])
  BY DEF InputsFrom
<1>3. InLine(s, M)'
  BY <1>1, <1>2, LineUntouched
<1> QED
  BY <1>3 DEF InSomeLine

(* Of a client that connects or leaves only the connection changes.        *)
LEMMA AcceptOrLeave ==
  ASSUME Linked, NEW c \in Clients, Accepted(c) \/ Leaves(c), NEW d \in Clients
  PROVE  /\ UNCHANGED <<serverVars, occupant, inputsInFlight>>
         /\ clients'[d].inputSequence = clients[d].inputSequence
<1>1. UNCHANGED <<serverVars, occupant, inputsInFlight>>
  BY DEF Accepted, Leaves, linkVars
<1>2. clients[c] \in ClientState /\ clients \in [Clients -> ClientState]
  BY DEF Linked, ClientsSound
<1>3. PICK s \in Slots :
        \/ clients' = [clients EXCEPT ![c].status = "connected", ![c].clientIndex = s]
        \/ clients' = [clients EXCEPT ![c].status = "disconnected"]
  <2>1. CASE Accepted(c)
    BY <2>1 DEF Accepted, ClientAccepted
  <2>2. CASE Leaves(c)
    BY <2>2, ProtocolAssumption DEF Leaves, ClientDropped, Slots
  <2> QED
    BY <2>1, <2>2
<1>4. clients'[c].inputSequence = clients[c].inputSequence
  BY <1>2, <1>3 DEF ClientState
<1> QED
  BY <1>1, <1>2, <1>3, <1>4

LEMMA LineStep ==
  ASSUME InOrder
  PROVE  SessionInv /\ ReachInv /\ LineInv /\ AckIsOwn' /\ [SessionNext]_sessionVars => LineInv'
<1> SUFFICES ASSUME SessionInv, ReachInv, LineInv, AckIsOwn', [SessionNext]_sessionVars
             PROVE  LineInv'
  OBVIOUS
<1>1. Typed /\ InputsInv /\ Linked /\ InputsCounted /\ \A s \in connected : InSomeLine(s)
  BY DEF SessionInv, ReachInv, LineInv
<1>0. CASE ServerStops
  BY <1>0 DEF ServerStops, Stop, LineInv
<1>2. CASE Update \/ ServerSends \/ ServerHasStopped \/ UNCHANGED sessionVars
  <2>1. UNCHANGED <<connected, inbox, lastProcessedInput, occupant, inputsInFlight, clients>>
    BY <1>2
    DEF Update, BeginUpdate, ServerSends, SendPackets, ServerHasStopped, Stopped, sessionVars,
        serverVars, netVars, worldVars, linkVars
  <2> QED
    BY <1>1, <2>1, LineQuiet DEF LineInv
<1>3. ASSUME NEW c \in Clients, NEW s \in Slots, Admit(c, s) PROVE LineInv'
  <2>1. connected' = connected \cup {s} /\ occupant'[s] = c
    BY <1>1, <1>3 DEF Admit, ClientConnected, Linked, OccupantsMatch
  <2>2. Acked(s)' <= Sent(s)'
    BY <2>1, SessionAssumption DEF AckIsOwn, Acked, Sent
  <2> QED
    BY <1>1, <1>3, <2>1, <2>2, LineAdmit DEF LineInv
<1>4. ASSUME NEW s \in Slots, Drop(s) PROVE LineInv'
  <2>1. connected' \subseteq connected
    BY <1>4 DEF Drop, ClientDisconnected
  <2> QED
    BY <1>1, <1>4, <2>1, LineDrop DEF LineInv
<1>5. CASE ServerReceives
  <2>1. \A s \in connected : InSomeLine(s)'
    BY <1>1, <1>5, LineReceive DEF InSomeLine
  <2> QED
    BY <1>1, <1>5, <2>1, ServerStepsKeepConnected DEF LineInv
<1>6. CASE ServerWorks
  <2>1. \A s \in connected : InSomeLine(s)'
    BY <1>1, <1>6, LineWork DEF InSomeLine
  <2> QED
    BY <1>1, <1>6, <2>1, ServerStepsKeepConnected DEF LineInv
<1>7. ASSUME NEW c \in Clients, Accepted(c) \/ Leaves(c) PROVE LineInv'
  <2>1. /\ UNCHANGED <<serverVars, occupant, inputsInFlight>>
        /\ \A d \in Clients : clients'[d].inputSequence = clients[d].inputSequence
    BY <1>1, <1>7, AcceptOrLeave, ProtocolAssumption
  <2>2. UNCHANGED <<connected, inbox, lastProcessedInput>>
    BY <2>1 DEF serverVars, netVars, worldVars
  <2>3. \A s \in connected : occupant[s] \in Clients
    BY <1>1, LineTyped
  <2> QED
    BY <1>1, <2>1, <2>2, <2>3, LineQuiet DEF LineInv
<1>8. ASSUME NEW c \in Clients, NEW move \in Moves \cup {NoMove}, ClientRuns(c, move)
      PROVE  LineInv'
  <2>1. connected' = connected
    BY <1>8 DEF ClientRuns, serverVars, netVars
  <2> QED
    BY <1>1, <1>8, <2>1, LineRuns DEF LineInv
<1> QED
  BY <1>0, <1>2, <1>3, <1>4, <1>5, <1>6, <1>7, <1>8 DEF SessionNext

-----------------------------------------------------------------------------
(* A slot's acknowledgement outlives its client, so AckIsOwn is not true   *)
(* of every session.  It is when there is one client only.                 *)

OneClient == \A c, d \in Clients : c = d

(* Nothing anywhere is numbered higher than what the client has sent.      *)
NumberedUpTo(s, n) ==
  /\ lastProcessedInput[s] <= n
  /\ \A i \in 1 .. Len(inbox[s]) : inbox[s][i].sequenceNumber <= n

OwnInv == \A s \in Slots, c \in Clients : NumberedUpTo(s, clients[c].inputSequence)

(* What the server does to the numbers of a slot.                          *)
LEMMA NumbersFall ==
  ASSUME Typed, ServerNext, NEW s \in Slots, NEW n \in Nat, NumberedUpTo(s, n),
         \A batch \in [Slots -> InputBursts], failed \in SUBSET connected :
           ~ReceivePackets(batch, failed)
  PROVE  NumberedUpTo(s, n)'
<1>1. /\ inbox \in [Slots -> Seq(PlayerInputMessage)]
      /\ lastProcessedInput \in [Slots -> Nat]
  BY DEF Typed
<1>2. ASSUME NEW c \in Slots, ProcessMessage(c) PROVE NumberedUpTo(s, n)'
  <2>1. /\ inbox[c] # <<>>
        /\ inbox' = [inbox EXCEPT ![c] = Tail(inbox[c])]
        /\ lastProcessedInput' = [lastProcessedInput EXCEPT ![c] = Head(inbox[c]).sequenceNumber]
    BY <1>2 DEF ProcessMessage, Draining, WithMessages, ReceivePlayerInputMessage
  <2>2. CASE c # s
    <3>1. inbox'[s] = inbox[s] /\ lastProcessedInput'[s] = lastProcessedInput[s]
      BY <1>1, <2>1, <2>2
    <3> QED
      BY <3>1 DEF NumberedUpTo
  <2>3. CASE c = s
    <3>1. inbox[s] \in Seq(PlayerInputMessage) /\ inbox[s] # <<>>
      BY <1>1, <2>1, <2>3
    <3>2. /\ Head(inbox[s]) = inbox[s][1]
          /\ 1 \in 1 .. Len(inbox[s])
          /\ Len(Tail(inbox[s])) = Len(inbox[s]) - 1
          /\ \A i \in 1 .. Len(inbox[s]) - 1 : /\ i + 1 \in 1 .. Len(inbox[s])
                                              /\ Tail(inbox[s])[i] = inbox[s][i + 1]
      BY <3>1
    <3>3. inbox'[s] = Tail(inbox[s]) /\ lastProcessedInput'[s] = Head(inbox[s]).sequenceNumber
      BY <1>1, <2>1, <2>3
    <3> QED
      BY <3>2, <3>3 DEF NumberedUpTo
  <2> QED
    BY <2>2, <2>3
<1>3. ASSUME NEW c \in Slots, ClientDisconnected(c) PROVE NumberedUpTo(s, n)'
  <2>1. /\ inbox' = [inbox EXCEPT ![c] = <<>>]
        /\ lastProcessedInput' = lastProcessedInput
    BY <1>3 DEF ClientDisconnected
  <2>2. inbox'[s] = inbox[s] \/ inbox'[s] = <<>>
    BY <1>1, <2>1
  <2>3. 1 .. Len(<<>>) = {}
    BY EmptySeq
  <2> QED
    BY <2>1, <2>2, <2>3 DEF NumberedUpTo
<1>6. CASE Stop
  <2>1. inbox'[s] = <<>> /\ lastProcessedInput' = lastProcessedInput
    BY <1>6 DEF Stop
  <2>2. 1 .. Len(<<>>) = {}
    BY EmptySeq
  <2> QED
    BY <2>1, <2>2 DEF NumberedUpTo
<1>4. CASE UNCHANGED <<inbox, lastProcessedInput>>
  BY <1>4 DEF NumberedUpTo
<1>5. CASE /\ ~ \E c \in Slots : ProcessMessage(c)
           /\ ~ \E c \in Slots : ClientDisconnected(c)
           /\ ~Stop
  <2>1. UNCHANGED <<inbox, lastProcessedInput>>
    BY <1>5
    DEF ServerNext, ServerStep, BeginUpdate, ClientConnected, StartFood, EatFood, SkipFood,
        StartCollisions, FirstEatsSecond, SecondEatsFirst, SkipPair, StartRespawns,
        RespawnPlayer, StartBroadcast, BroadcastWorldState, SendPackets, Stopped,
        netVars, worldVars, serverVars
  <2> QED
    BY <1>4, <2>1
<1> QED
  BY <1>2, <1>3, <1>5, <1>6

LEMMA OwnReceive ==
  ASSUME Typed, InputsInv, Linked, InputsCounted, OneClient, ServerReceives,
         NEW s \in Slots, NEW c \in Clients, NumberedUpTo(s, clients[c].inputSequence)
  PROVE  NumberedUpTo(s, clients[c].inputSequence)'
<1> DEFINE n == clients[c].inputSequence
<1>1. UNCHANGED <<clients, occupant, lastProcessedInput>>
  BY DEF ServerReceives, ReceivePackets, worldVars
<1>2. n \in Nat /\ inbox[s] \in Seq(PlayerInputMessage)
  BY DEF Linked, ClientsSound, ClientState, Typed
<1>3. \A i \in 1 .. Len(inbox'[s]) : inbox'[s][i].sequenceNumber <= n
  <2>1. CASE s \notin connected
    <3>1. inbox'[s] = <<>>
      BY <2>1 DEF ServerReceives, ReceivePackets
    <3>2. 1 .. Len(<<>>) = {}
      BY EmptySeq
    <3> QED
      BY <3>1, <3>2
  <2>2. CASE s \in connected
    <3>1. PICK a \in InputArrivals(s) : inbox'[s] = inbox[s] \o InputPayload(a)
      BY <2>2, SlotReceives
    <3>2. PICK m \in 0 .. MaxPackets : a \in [1 .. m -> InputsFrom(occupant[s])]
      BY InputArrivalsTyped DEF Linked
    <3>3. m \in Nat
      BY SessionAssumption, ServerAssumption
    <3>4. occupant[s] = c
      BY <2>2 DEF OneClient, Linked, OccupantsMatch
    <3>5. \A i \in 1 .. m : a[i].sequenceNumber <= n
      BY <3>2, <3>4 DEF InputsCounted
    <3> DEFINE payload == InputPayload(a)
    <3>6. /\ payload \in Seq(PlayerInputMessage)
          /\ Len(payload) = m
          /\ \A i \in 1 .. m : payload[i].sequenceNumber = a[i].sequenceNumber
      <4>1. payload \in Seq(PlayerInputMessage)
        BY PayloadIsBurst, BurstsTyped DEF Linked
      <4> QED
        BY <3>2, <3>3, <4>1 DEF InputPayload
    <3> HIDE DEF payload, n
    <3>7. /\ Len(inbox[s] \o payload) = Len(inbox[s]) + Len(payload)
          /\ \A i \in 1 .. Len(inbox[s]) + Len(payload) :
               (inbox[s] \o payload)[i] =
                 IF i <= Len(inbox[s]) THEN inbox[s][i] ELSE payload[i - Len(inbox[s])]
      BY <1>2, <3>6, ConcatProperties, Zenon
    <3> DEFINE b == Len(inbox[s])
               longer == inbox[s] \o payload
    <3>8. b \in Nat /\ \A i \in 1 .. b : inbox[s][i].sequenceNumber <= n
      BY <1>2 DEF NumberedUpTo, n
    <3>9. /\ Len(longer) = b + m
          /\ \A i \in 1 .. b + m : longer[i] = IF i <= b THEN inbox[s][i] ELSE payload[i - b]
      BY <3>6, <3>7, Zenon
    <3>10. inbox'[s] = longer
      BY <3>1 DEF payload
    <3> HIDE DEF b, longer
    <3>11. ASSUME NEW i \in 1 .. b + m PROVE longer[i].sequenceNumber <= n
      <4>1. CASE i <= b
        BY <3>8, <3>9, <3>11, <4>1
      <4>2. CASE ~(i <= b)
        <5>1. i - b \in 1 .. m
          BY <3>3, <3>8, <3>11, <4>2
        <5> QED
          BY <3>5, <3>6, <3>9, <3>11, <4>2, <5>1
      <4> QED
        BY <4>1, <4>2
    <3> QED
      BY <3>9, <3>10, <3>11 DEF n
  <2> QED
    BY <2>1, <2>2
<1> QED
  BY <1>1, <1>3 DEF NumberedUpTo

LEMMA NumbersRise ==
  ASSUME Typed, NEW s \in Slots, NEW n \in Nat, NEW m \in Nat, n <= m, NumberedUpTo(s, n)
  PROVE  NumberedUpTo(s, m)
<1>1. /\ lastProcessedInput[s] \in Nat
      /\ \A i \in 1 .. Len(inbox[s]) : inbox[s][i].sequenceNumber \in Nat
  <2>1. inbox[s] \in Seq(PlayerInputMessage) /\ lastProcessedInput[s] \in Nat
    BY DEF Typed
  <2>2. \A i \in 1 .. Len(inbox[s]) : inbox[s][i] \in PlayerInputMessage
    BY <2>1
  <2> QED
    BY <2>1, <2>2 DEF PlayerInputMessage
<1> QED
  BY <1>1 DEF NumberedUpTo

LEMMA OwnStep ==
  ASSUME OneClient
  PROVE  SessionInv /\ ReachInv /\ OwnInv /\ [SessionNext]_sessionVars => OwnInv'
<1> SUFFICES ASSUME SessionInv, ReachInv, OwnInv, [SessionNext]_sessionVars,
                    NEW s \in Slots, NEW c \in Clients
             PROVE  NumberedUpTo(s, clients[c].inputSequence)'
  BY DEF OwnInv
<1>1. /\ Typed /\ InputsInv /\ Linked /\ InputsCounted
      /\ NumberedUpTo(s, clients[c].inputSequence)
      /\ clients[c].inputSequence \in Nat
  BY DEF SessionInv, ReachInv, OwnInv, Linked, ClientsSound, ClientState
<1>2. CASE ServerReceives
  BY <1>1, <1>2, OwnReceive
<1>3. CASE ~ServerReceives /\ ~UNCHANGED <<inbox, lastProcessedInput>>
  <2>1. clients' = clients
    BY <1>3
    DEF SessionNext, Update, Admit, Drop, ServerWorks, ServerSends, ServerStops, Stop,
        ServerHasStopped, Stopped, Accepted, ClientRuns, Leaves, serverVars, netVars, worldVars, sessionVars
  <2>2. ServerNext
    BY <1>1, <1>3, SessionStepIsServerStep DEF Linked, serverVars, netVars, worldVars
  <2>3. \A batch \in [Slots -> InputBursts], failed \in SUBSET connected :
          ~ReceivePackets(batch, failed)
    <3>1. \/ \E t \in Slots : Drop(t)
          \/ \E t \in Slots : ProcessMessage(t)
          \/ Stop
      BY <1>3
      DEF SessionNext, Update, BeginUpdate, Admit, ClientConnected, ServerWorks, StartFood,
          EatFood, SkipFood, StartCollisions, FirstEatsSecond, SecondEatsFirst, SkipPair,
          StartRespawns, RespawnPlayer, StartBroadcast, BroadcastWorldState, ServerSends,
          SendPackets, ServerStops, ServerHasStopped, Stopped, Accepted, ClientRuns, Leaves,
          netVars, worldVars, serverVars, sessionVars
    <3>2. \/ phase' = phase /\ phase = "AdvanceTime"
          \/ phase \in {"ProcessMessages", "Idle"}
      BY <3>1 DEF Drop, ClientDisconnected, ProcessMessage, Stop
    <3> QED
      BY <3>2 DEF ReceivePackets
  <2>4. NumberedUpTo(s, clients[c].inputSequence)'
    <3>1. PICK n : n = clients[c].inputSequence
      OBVIOUS
    <3>2. NumberedUpTo(s, n)'
      BY <1>1, <2>2, <2>3, <3>1, NumbersFall
    <3> QED
      BY <2>1, <3>1, <3>2 DEF NumberedUpTo
  <2> QED
    BY <2>4
<1>4. CASE UNCHANGED <<inbox, lastProcessedInput>>
  <2>1. PICK m : m = clients'[c].inputSequence
    OBVIOUS
  <2>2. m \in Nat /\ clients[c].inputSequence <= m
    <3>1. CASE clients' = clients
      BY <1>1, <2>1, <3>1
    <3>2. CASE clients' # clients
      <4>1. \/ \E d \in Clients : Accepted(d) \/ Leaves(d)
            \/ \E d \in Clients, move \in Moves \cup {NoMove} : ClientRuns(d, move)
        BY <3>2
        DEF SessionNext, Update, Admit, Drop, ServerReceives, ServerWorks, ServerSends,
            ServerStops, ServerHasStopped, sessionVars
      <4>2. ASSUME NEW d \in Clients, Accepted(d) \/ Leaves(d)
            PROVE  m \in Nat /\ clients[c].inputSequence <= m
        BY <1>1, <2>1, <4>2, AcceptOrLeave
      <4>3. ASSUME NEW d \in Clients, NEW move \in Moves \cup {NoMove}, ClientRuns(d, move)
            PROVE  m \in Nat /\ clients[c].inputSequence <= m
        <5>1. d = c
          BY DEF OneClient
        <5>2. \/ clients'[d].inputSequence = clients[d].inputSequence
              \/ clients'[d].inputSequence = clients[d].inputSequence + 1
          BY <1>1, <4>3, RunsSend
        <5> QED
          BY <1>1, <2>1, <5>1, <5>2
      <4> QED
        BY <4>1, <4>2, <4>3
    <3> QED
      BY <3>1, <3>2
  <2>3. NumberedUpTo(s, m)
    BY <1>1, <2>2, NumbersRise
  <2> QED
    BY <1>4, <2>1, <2>3 DEF NumberedUpTo
<1> QED
  BY <1>2, <1>3, <1>4

(* In a session of one client the acknowledgement in a world state is of   *)
(* an input this client has sent, however its inputs are lost or overtaken *)
(* (so it may move back, but never beyond what the client has made).       *)
THEOREM AcksAreOwn ==
  ASSUME OneClient
  PROVE  SessionSpec => []AckIsOwn
<1>1. SessionInit => ReachInv /\ OwnInv
  <2>1. SessionInit => ReachInv
    BY ReachInit DEF SessionInit, ServerInit
  <2>2. SessionInit => OwnInv
    <3>1. 1 .. Len(<<>>) = {}
      BY EmptySeq
    <3> QED
      BY <3>1, SessionInvInit
      DEF SessionInit, NobodyYet, ServerInit, EmptyServer, ClientInit, OwnInv, NumberedUpTo
  <2> QED
    BY <2>1, <2>2
<1>2. SessionInv /\ OwnInv => AckIsOwn
  BY DEF SessionInv, Linked, OccupantsMatch, OwnInv, NumberedUpTo, AckIsOwn
<1> QED
  BY <1>1, <1>2, SessionInvInit, SessionInvStep, ReachStep, OwnStep, PTL DEF SessionSpec

-----------------------------------------------------------------------------
(* A client on the path of its player: P is where each of its moves M      *)
(* takes the player, P[0] where it appeared.                               *)

Walk(n, M, P) ==
  /\ M \in [1 .. n -> Moves]
  /\ P \in [0 .. n -> Position]
  /\ \A k \in 1 .. n : P[k] = Moved(P[k - 1], M[k])

(* The history is the end of M.                                            *)
Remembers(client, M) ==
  LET n == client.inputSequence
      h == Len(client.inputHistory)
  IN  /\ h <= n
      /\ \A i \in 1 .. h : client.inputHistory[i].move = M[n - h + i]

(* The replay starts where the path is before the history, and the         *)
(* acknowledgement does not lie before that.                               *)
BasedOn(client, P, ack) ==
  LET n == client.inputSequence
      h == Len(client.inputHistory)
  IN  h < MAX_INPUT_HISTORY =>
        /\ n - h <= ack
        /\ client.isLocalPlayerCreated => client.localPlayer.position = P[n - h]

(* A world state shows the player where its acknowledgement is on the path.*)
Depicts(message, id, P) ==
  /\ \E p \in message.players : p.id = id
  /\ \A p \in message.players :
       p.id = id => p.position = P[message.lastProcessedInputSeq]

LEMMA ClientTyped ==
  ASSUME NEW client, ClientInv(client)
  PROVE  /\ client \in ClientState
         /\ client.inputSequence \in Nat
         /\ client.inputHistory \in Seq(StoredInput)
         /\ Len(client.inputHistory) \in Nat
         /\ Len(client.inputHistory) <= MAX_INPUT_HISTORY
         /\ client.localPlayer \in PlayerState
         /\ client.predictedPlayer \in PlayerState
         /\ MAX_INPUT_HISTORY \in Nat \ {0}
<1>1. client \in ClientState
  BY DEF ClientInv
<1>2. client.inputHistory \in Seq(StoredInput)
  BY <1>1 DEF ClientState
<1> QED
  BY <1>1, <1>2, ClientAssumption DEF ClientState, ClientInv, Recent

LEMMA BasedOnLater ==
  ASSUME NEW client, ClientInv(client), NEW P, NEW ack \in Nat, BasedOn(client, P, ack),
         NEW later \in Nat, ack <= later
  PROVE  BasedOn(client, P, later)
<1>1. client.inputSequence \in Nat /\ Len(client.inputHistory) \in Nat
  BY ClientTyped
<1> QED
  BY <1>1 DEF BasedOn

(* Before its player is created a client is on every path.                 *)
LEMMA FreshOnPath ==
  ASSUME NEW client, ClientInv(client), ~client.isLocalPlayerCreated,
         NEW M, NEW P, NEW ack \in Nat
  PROVE  Remembers(client, M) /\ BasedOn(client, P, ack)
<1>1. client.inputSequence = 0 /\ Len(client.inputHistory) = 0
  BY EmptySeq DEF ClientInv, Unmoved
<1> QED
  BY <1>1 DEF Remembers, BasedOn

(* The prediction is the end of the path.                                  *)
LEMMA PredictionOnPath ==
  ASSUME NEW client, ClientInv(client), NEW M, NEW P, NEW ack,
         Walk(client.inputSequence, M, P), Remembers(client, M), BasedOn(client, P, ack),
         client.isLocalPlayerCreated, Len(client.inputHistory) < MAX_INPUT_HISTORY
  PROVE  client.predictedPlayer.position = P[client.inputSequence]
<1> DEFINE n == client.inputSequence
           history == client.inputHistory
           h == Len(history)
           local == client.localPlayer
           g == [k \in 0 .. h |-> [position |-> P[n - h + k], size |-> local.size]]
<1>1. /\ n \in Nat
      /\ h \in Nat
      /\ history \in Seq(StoredInput)
      /\ local \in PlayerState
  BY ClientTyped
<1>2. /\ h <= n
      /\ \A i \in 1 .. h : history[i].move = M[n - h + i]
      /\ local.position = P[n - h]
  BY DEF Remembers, BasedOn
<1>3. \A k \in 1 .. n : P[k] = Moved(P[k - 1], M[k])
  BY DEF Walk
<1>4. client.predictedPlayer = Replay(local, history)
  BY DEF ClientInv, Replayed
<1>5. \A i \in 1 .. h : n - h + i \in 1 .. n /\ n - h + i - 1 = n - h + (i - 1)
  BY <1>1, <1>2
<1> HIDE DEF n, h, history, local
<1>6. g[0] = local
  <2>1. g[0] = [position |-> P[n - h], size |-> local.size]
    BY <1>1
  <2>2. local = [position |-> local.position, size |-> local.size]
    BY <1>1 DEF PlayerState
  <2> HIDE DEF g
  <2> QED
    BY <1>2, <2>1, <2>2
<1>7. ASSUME NEW i \in 1 .. h PROVE g[i] = PredictMovement(g[i - 1], history[i])
  <2>1. P[n - h + i] = Moved(P[n - h + (i - 1)], M[n - h + i])
    <3>1. PICK k \in Int : k = n - h + i
      BY <1>1
    <3>2. k \in 1 .. n /\ k - 1 = n - h + (i - 1)
      BY <1>1, <1>2, <3>1
    <3>3. P[k] = Moved(P[k - 1], M[k])
      BY <1>3, <3>2
    <3> QED
      BY <3>1, <3>2, <3>3
  <2>2. /\ g[i] = [position |-> P[n - h + i], size |-> local.size]
        /\ g[i - 1] = [position |-> P[n - h + (i - 1)], size |-> local.size]
    BY <1>1
  <2>3. history[i].move = M[n - h + i]
    BY <1>2
  <2> HIDE DEF g
  <2> QED
    BY <2>1, <2>2, <2>3 DEF PredictMovement, Moved
<1>8. Replay(local, history) = g[h]
  <2> HIDE DEF g
  <2> QED
    BY <1>1, <1>6, <1>7, ReplayIs DEF h
<1>9. g[h].position = P[n]
  <2>1. n - h + h = n /\ h \in 0 .. h
    BY <1>1
  <2> QED
    BY <2>1
<1> QED
  BY <1>4, <1>8, <1>9 DEF n

(* ReconcileWithServer, on a world state no older than the base.           *)
LEMMA ReceiveOnPath ==
  ASSUME NEW client, ClientInv(client), NEW M, NEW P, Remembers(client, M),
         NEW message \in WorldState, Depicts(message, client.clientIndex, P),
         message.lastProcessedInputSeq <= client.inputSequence,
         BasedOn(client, P, message.lastProcessedInputSeq)
  PROVE  LET after == ReceiveWorldState(client, message)
         IN  /\ Remembers(after, M)
             /\ BasedOn(after, P, message.lastProcessedInputSeq)
<1> DEFINE after == ReceiveWorldState(client, message)
           ack == message.lastProcessedInputSeq
           n == client.inputSequence
           history == client.inputHistory
           h == Len(history)
           pending == Unacknowledged(history, ack)
<1>1. /\ n \in Nat
      /\ h \in Nat
      /\ history \in Seq(StoredInput)
      /\ client \in ClientState
      /\ ack \in Nat
      /\ MAX_INPUT_HISTORY \in Nat
  BY ClientTyped DEF WorldState
<1>2. /\ ack <= n
      /\ h <= n
      /\ \A i \in 1 .. h : history[i].move = M[n - h + i]
      /\ \A i \in 1 .. h : history[i].sequenceNumber = n - h + i
      /\ h < MAX_INPUT_HISTORY => n - h <= ack
  BY DEF Remembers, BasedOn, ClientInv, Recent
<1>3. PICK p \in message.players :
        /\ p.id = client.clientIndex
        /\ after.isLocalPlayerCreated
        /\ after.localPlayer = [position |-> p.position, size |-> p.size]
        /\ \/ ~client.isLocalPlayerCreated /\ after.inputHistory = history
           \/ client.isLocalPlayerCreated /\ after.inputHistory = pending
  BY <1>1, ReceiveEffect DEF Depicts
<1>4. after.inputSequence = n
  BY <1>1, ReceiveEffect
<1>5. after.localPlayer.position = P[ack]
  BY <1>3 DEF Depicts
<1>6. ASSUME NEW d \in 0 .. h,
             after.inputHistory \in Seq(StoredInput),
             Len(after.inputHistory) = h - d,
             \A i \in 1 .. h - d : after.inputHistory[i] = history[d + i],
             h - d < MAX_INPUT_HISTORY => n - (h - d) = ack
      PROVE  Remembers(after, M) /\ BasedOn(after, P, ack)
  <2> HIDE DEF after, n, h, ack, history
  <2>1. ASSUME NEW i \in 1 .. h - d
        PROVE  after.inputHistory[i].move = M[n - (h - d) + i]
    <3>1. d + i \in 1 .. h /\ n - h + (d + i) = n - (h - d) + i
      BY <1>1, <1>6
    <3>2. history[d + i].move = M[n - h + (d + i)]
      BY <1>2, <3>1
    <3> QED
      BY <1>6, <3>1, <3>2
  <2>2. h - d <= n
    BY <1>1, <1>2, <1>6
  <2>3. Remembers(after, M)
    BY <1>4, <1>6, <2>1, <2>2 DEF Remembers
  <2>4. h - d < MAX_INPUT_HISTORY => n - (h - d) <= ack
    BY <1>1, <1>6
  <2>5. BasedOn(after, P, ack)
    BY <1>4, <1>5, <1>6, <2>4 DEF BasedOn
  <2> QED
    BY <2>3, <2>5
<1>7. CASE ~client.isLocalPlayerCreated
  <2>1. n = 0 /\ h = 0
    BY <1>7, EmptySeq DEF ClientInv, Unmoved
  <2>2. after.inputHistory = history
    BY <1>3, <1>7
  <2> HIDE DEF after, n, h, ack, history
  <2>3. ack = 0 /\ 0 \in 0 .. h /\ h - 0 = 0 /\ n - (h - 0) = 0
    BY <1>1, <1>2, <2>1
  <2>4. after.inputHistory \in Seq(StoredInput) /\ Len(after.inputHistory) = h - 0
    BY <1>1, <2>1, <2>2, <2>3 DEF h
  <2>5. Remembers(after, M) /\ BasedOn(after, P, ack)
    BY <1>6, <2>3, <2>4
  <2> QED
    BY <2>5 DEF after, ack
<1>8. CASE client.isLocalPlayerCreated
  <2>1. after.inputHistory = pending
    BY <1>3, <1>8
  <2>2. PICK d \in 0 .. h :
          /\ \A i \in 1 .. d : history[i].sequenceNumber <= ack
          /\ d < h => ~(history[d + 1].sequenceNumber <= ack)
          /\ pending \in Seq(StoredInput)
          /\ Len(pending) = h - d
          /\ \A i \in 1 .. Len(pending) : pending[i] = history[d + i]
    BY <1>1, UnacknowledgedIsSuffix
  <2> HIDE DEF after, n, h, ack, history, pending
  <2>3. d > 0 => n - (h - d) <= ack
    <3>1. SUFFICES ASSUME d > 0 PROVE n - (h - d) <= ack
      OBVIOUS
    <3>2. d \in 1 .. h /\ d \in 1 .. d
      BY <1>1, <3>1
    <3>3. history[d].sequenceNumber = n - h + d /\ history[d].sequenceNumber <= ack
      BY <1>2, <2>2, <3>2
    <3> QED
      BY <1>1, <3>3
  <2>4. ack <= n - (h - d)
    <3>1. CASE d < h
      <4>1. d + 1 \in 1 .. h
        BY <1>1, <3>1
      <4>2. history[d + 1].sequenceNumber = n - h + (d + 1)
        BY <1>2, <4>1
      <4> QED
        BY <1>1, <2>2, <3>1, <4>2
    <3>2. CASE ~(d < h)
      BY <1>1, <1>2, <3>2
    <3> QED
      BY <3>1, <3>2
  <2>5. h - d < MAX_INPUT_HISTORY => n - (h - d) = ack
    BY <1>1, <1>2, <2>3, <2>4
  <2>6. Remembers(after, M) /\ BasedOn(after, P, ack)
    BY <1>6, <2>1, <2>2, <2>5
  <2> QED
    BY <2>6 DEF after, ack
<1> QED
  BY <1>7, <1>8

(* Any number of them, one not older than the other.                       *)
LEMMA WorldStatesOnPath ==
  ASSUME NEW client, ClientInv(client), NEW M, NEW P, Remembers(client, M),
         NEW messages, Len(messages) \in Nat,
         \A i \in 1 .. Len(messages) :
           /\ messages[i] \in WorldState
           /\ Depicts(messages[i], client.clientIndex, P)
           /\ messages[i].lastProcessedInputSeq <= client.inputSequence
           /\ BasedOn(client, P, messages[i].lastProcessedInputSeq),
         \A i, j \in 1 .. Len(messages) :
           i <= j => messages[i].lastProcessedInputSeq <= messages[j].lastProcessedInputSeq,
         NEW acks \in SUBSET Nat,
         \A ack \in acks :
           /\ BasedOn(client, P, ack)
           /\ \A i \in 1 .. Len(messages) : messages[i].lastProcessedInputSeq <= ack
  PROVE  LET after == ReceiveWorldStates(client, messages)
         IN  /\ ClientInv(after)
             /\ after.inputSequence = client.inputSequence
             /\ Remembers(after, M)
             /\ \A ack \in acks : BasedOn(after, P, ack)
<1> DEFINE N == Len(messages)
           Ack(i) == messages[i].lastProcessedInputSeq
           Same(r) == /\ ClientInv(r)
                      /\ r.inputSequence = client.inputSequence
                      /\ r.clientIndex = client.clientIndex
           S == {r \in ClientState : Same(r)}
           On(r, n) == /\ Remembers(r, M)
                       /\ \A ack \in acks : BasedOn(r, P, ack)
                       /\ \A i \in n + 1 .. N : BasedOn(r, P, Ack(i))
<1>1. \A i \in 1 .. N : Ack(i) \in Nat
  BY DEF WorldState
<1>2. client \in S
  BY DEF ClientInv
<1>3. ASSUME NEW r \in S, NEW n \in 1 .. N
      PROVE  ReceiveWorldState(r, messages[n]) \in S
  <2>1. r \in ClientState /\ Same(r) /\ messages[n] \in WorldState
    OBVIOUS
  <2> DEFINE after == ReceiveWorldState(r, messages[n])
  <2>2. ClientInv(after)
    BY <2>1, ReceiveKeepsInv
  <2>3. /\ after \in ClientState
        /\ after.inputSequence = r.inputSequence
        /\ after.clientIndex = r.clientIndex
    BY <2>1, ReceiveEffect
  <2> HIDE DEF after
  <2>4. after \in S
    BY <2>1, <2>2, <2>3
  <2> QED
    BY <2>4 DEF after
<1>4. PICK g \in [0 .. N -> S] :
        /\ g[0] = client
        /\ \A n \in 1 .. N : g[n] = ReceiveWorldState(g[n - 1], messages[n])
        /\ ReceiveWorldStates(client, messages) = g[N]
  <2> HIDE DEF S
  <2> QED
    BY <1>2, <1>3, WorldStatesRun
<1> DEFINE T == {n \in 0 .. N : On(g[n], n)}
<1>5. 0 \in T
  <2>1. 0 \in 0 .. N /\ \A i \in 0 + 1 .. N : i \in 1 .. N
    OBVIOUS
  <2>2. On(client, 0)
    BY <2>1
  <2> HIDE DEF On
  <2> QED
    BY <1>4, <2>1, <2>2
<1>6. ASSUME NEW n \in 1 .. N, n - 1 \in T
      PROVE  n \in T
  <2> DEFINE r == g[n - 1]
             after == g[n]
  <2>1. /\ n - 1 \in 0 .. N
        /\ n \in 0 .. N
        /\ n \in n - 1 + 1 .. N
        /\ \A i \in n + 1 .. N : i \in n - 1 + 1 .. N /\ i \in 1 .. N /\ n <= i
    OBVIOUS
  <2>2. r \in S /\ after \in S /\ On(r, n - 1)
    BY <1>4, <1>6, <2>1
  <2>3. after = ReceiveWorldState(r, messages[n])
    BY <1>4
  <2>4. /\ Same(r)
        /\ Same(after)
        /\ Remembers(r, M)
        /\ BasedOn(r, P, Ack(n))
    BY <2>1, <2>2
  <2> HIDE DEF r, after
  <2>5. Remembers(after, M) /\ BasedOn(after, P, Ack(n))
    BY <2>3, <2>4, ReceiveOnPath
  <2>6. \A ack \in acks : BasedOn(after, P, ack)
    BY <1>1, <2>4, <2>5, BasedOnLater
  <2>7. \A i \in n + 1 .. N : BasedOn(after, P, Ack(i))
    BY <1>1, <2>1, <2>4, <2>5, BasedOnLater
  <2>8. On(after, n)
    BY <2>5, <2>6, <2>7
  <2> HIDE DEF On
  <2> QED
    BY <2>1, <2>8 DEF after
<1>7. N \in T
  <2>1. 0 .. N \subseteq T
    <3> HIDE DEF T, N
    <3> QED
      BY <1>5, <1>6, IndexInduction DEF N
  <2> QED
    BY <2>1
<1>8. On(g[N], N) /\ g[N] \in S
  BY <1>4, <1>7
<1> HIDE DEF N
<1> QED
  BY <1>4, <1>8

(* One more move is one more step of the path.                             *)
Onward(P, n, move) == [k \in 0 .. n + 1 |-> IF k <= n THEN P[k] ELSE Moved(P[n], move)]

LEMMA WalkOn ==
  ASSUME NEW n \in Nat, NEW M, NEW P, Walk(n, M, P), NEW move \in Moves
  PROVE  /\ Walk(n + 1, Prolonged(M, n, move), Onward(P, n, move))
         /\ \A k \in 0 .. n : Onward(P, n, move)[k] = P[k]
<1> DEFINE N == Prolonged(M, n, move)
           Q == Onward(P, n, move)
<1>1. /\ M \in [1 .. n -> Moves]
      /\ P \in [0 .. n -> Position]
      /\ \A k \in 1 .. n : P[k] = Moved(P[k - 1], M[k])
      /\ P[n] \in Position
  BY DEF Walk
<1>2. /\ N \in [1 .. n + 1 -> Moves]
      /\ \A k \in 1 .. n : N[k] = M[k]
      /\ N[n + 1] = move
  BY <1>1 DEF Prolonged
<1>3. /\ Q \in [0 .. n + 1 -> Position]
      /\ \A k \in 0 .. n : Q[k] = P[k]
      /\ Q[n + 1] = Moved(P[n], move)
  <2>1. Moved(P[n], move) \in Position
    BY <1>1, MovedInWorld
  <2> QED
    BY <1>1, <2>1 DEF Onward
<1> HIDE DEF N, Q
<1>4. ASSUME NEW k \in 1 .. n + 1 PROVE Q[k] = Moved(Q[k - 1], N[k])
  <2>1. CASE k = n + 1
    BY <1>2, <1>3, <2>1
  <2>2. CASE k # n + 1
    <3>1. k \in 1 .. n /\ k \in 0 .. n /\ k - 1 \in 0 .. n
      BY <2>2
    <3>2. P[k] = Moved(P[k - 1], M[k])
      BY <1>1, <3>1
    <3> QED
      BY <1>2, <1>3, <3>1, <3>2
  <2> QED
    BY <2>1, <2>2
<1> QED
  BY <1>2, <1>3, <1>4 DEF Walk, N, Q

(* SendInput, when it makes an input.                                      *)
LEMMA SendOnPath ==
  ASSUME NEW client, ClientInv(client), NEW M, NEW P, NEW ack \in Nat,
         Walk(client.inputSequence, M, P), Remembers(client, M), BasedOn(client, P, ack),
         NEW move \in Moves, SendInput(client, move) # client
  PROVE  LET n     == client.inputSequence
             after == SendInput(client, move)
         IN  /\ after.inputSequence = n + 1
             /\ Remembers(after, Prolonged(M, n, move))
             /\ BasedOn(after, Onward(P, n, move), ack)
<1> DEFINE n == client.inputSequence
           after == SendInput(client, move)
           history == client.inputHistory
           h == Len(history)
           input == [sequenceNumber |-> n + 1, move |-> move]
           longer == Append(history, input)
           kept == KeepLast(longer, MAX_INPUT_HISTORY)
           N == Prolonged(M, n, move)
           Q == Onward(P, n, move)
<1>1. /\ n \in Nat
      /\ h \in Nat
      /\ history \in Seq(StoredInput)
      /\ client \in ClientState
      /\ MAX_INPUT_HISTORY \in Nat \ {0}
      /\ h <= MAX_INPUT_HISTORY
  BY ClientTyped
<1>2. /\ h <= n
      /\ \A i \in 1 .. h : history[i].move = M[n - h + i]
      /\ h < MAX_INPUT_HISTORY =>
           /\ n - h <= ack
           /\ client.isLocalPlayerCreated => client.localPlayer.position = P[n - h]
  BY DEF Remembers, BasedOn
<1>3. /\ input \in StoredInput
      /\ after.isLocalPlayerCreated
      /\ client.isLocalPlayerCreated
      /\ after.localPlayer = client.localPlayer
      /\ after.inputSequence = n + 1
      /\ after.inputHistory = kept
  BY <1>1, SendInputEffect
<1>4. /\ longer \in Seq(StoredInput)
      /\ Len(longer) = h + 1
      /\ \A i \in 1 .. h : longer[i] = history[i]
      /\ longer[h + 1] = input
  BY <1>1, <1>3, AppendProperties
<1>5. input.move = move
  OBVIOUS
<1>6. /\ \A k \in 1 .. n : N[k] = M[k]
      /\ N[n + 1] = move
  BY <1>1 DEF Prolonged
<1>7. \A k \in 0 .. n : Q[k] = P[k]
  BY <1>1, WalkOn
<1> HIDE DEF longer, input, N, Q, after
<1>8. /\ kept \in Seq(StoredInput)
      /\ Len(longer) <= MAX_INPUT_HISTORY => kept = longer
      /\ Len(longer) > MAX_INPUT_HISTORY => Len(kept) = MAX_INPUT_HISTORY
      /\ \A i \in 1 .. Len(kept) : kept[i] = longer[Len(longer) - Len(kept) + i]
  BY <1>1, <1>4, KeepLastIsSuffix
<1> HIDE DEF kept, n, h, history
<1> DEFINE m == Len(kept)
<1>9. /\ m \in Nat
      /\ m <= h + 1
      /\ \A i \in 1 .. m : kept[i] = longer[h + 1 - m + i]
      /\ m < MAX_INPUT_HISTORY => m = h + 1
  BY <1>1, <1>4, <1>8
<1> HIDE DEF m
<1>10. ASSUME NEW i \in 1 .. h + 1 PROVE longer[i].move = N[n - h + i]
  <2>1. CASE i \in 1 .. h
    <3>1. n - h + i \in 1 .. n
      BY <1>1, <1>2, <2>1
    <3> QED
      BY <1>2, <1>4, <1>6, <2>1, <3>1
  <2>2. CASE i = h + 1
    <3>1. n - h + i = n + 1
      BY <1>1, <2>2
    <3> QED
      BY <1>4, <1>5, <1>6, <2>2, <3>1
  <2> QED
    BY <1>1, <2>1, <2>2
<1>11. ASSUME NEW i \in 1 .. m PROVE kept[i].move = N[n + 1 - m + i]
  <2>1. /\ h + 1 - m + i \in 1 .. h + 1
        /\ n - h + (h + 1 - m + i) = n + 1 - m + i
    BY <1>1, <1>2, <1>9
  <2>2. longer[h + 1 - m + i].move = N[n - h + (h + 1 - m + i)]
    BY <1>10, <2>1
  <2> QED
    BY <1>9, <2>1, <2>2
<1>12. /\ after.inputSequence = n + 1
       /\ after.inputHistory = kept
       /\ Len(after.inputHistory) = m
  BY <1>3 DEF m
<1>13. Remembers(after, N)
  <2>1. m <= n + 1
    BY <1>1, <1>2, <1>9
  <2>2. \A i \in 1 .. m : after.inputHistory[i].move = N[n + 1 - m + i]
    BY <1>11, <1>12
  <2> QED
    BY <1>1, <1>9, <1>12, <2>1, <2>2 DEF Remembers
<1>14. BasedOn(after, Q, ack)
  <2>1. ASSUME m < MAX_INPUT_HISTORY
        PROVE  n + 1 - m <= ack /\ after.localPlayer.position = Q[n + 1 - m]
    <3>1. h < MAX_INPUT_HISTORY /\ n + 1 - m = n - h /\ n - h \in 0 .. n
      BY <1>1, <1>2, <1>9, <2>1
    <3>2. Q[n - h] = P[n - h]
      BY <1>7, <3>1
    <3> QED
      BY <1>2, <1>3, <3>1, <3>2
  <2> QED
    BY <1>1, <1>9, <1>12, <2>1 DEF BasedOn
<1> QED
  BY <1>3, <1>13, <1>14 DEF after, N, Q, n

-----------------------------------------------------------------------------
(* Server, network and client on the path of one player.  Nobody is eaten, *)
(* and no tick comes twice.                                                *)

NobodyEaten == playersToRespawn = <<>>

TicksDiffer == MaxTick < TickWrap

(* The server is where the acknowledgement is on the path, and so is every *)
(* world state on its way.                                                 *)
Follows(s, P) ==
  /\ players[s].position = P[Acked(s)]
  /\ \A packet \in StatesTo(occupant[s]) :
       /\ packet.message.lastProcessedInputSeq <= Acked(s)
       /\ Depicts(packet.message, s, P)

(* The client's prediction is based no later than what it will be told.    *)
Believes(s, M, P) ==
  LET c == occupant[s]
  IN  clients[c].status = "connected" =>
        /\ clients[c].clientIndex = s
        /\ Remembers(clients[c], M)
        /\ BasedOn(clients[c], P, Acked(s))
        /\ \A packet \in StatesTo(c) :
             BasedOn(clients[c], P, packet.message.lastProcessedInputSeq)

Tale(s, M, P) ==
  /\ InLine(s, M)
  /\ Walk(Sent(s), M, P)
  /\ Follows(s, P)
  /\ Believes(s, M, P)

HasTale(s) == \E M, P : Tale(s, M, P)

(* World states are on their way to clients in the game only, and the      *)
(* younger acknowledges no less.                                           *)
NewsInv ==
  /\ \A packet \in statesInFlight :
       /\ \E s \in connected : occupant[s] = packet.to
       /\ StateAge(packet) <= serverTick
       /\ phase \notin {"Idle", "Stopped"} => StateAge(packet) < serverTick
  /\ \A p, q \in statesInFlight :
       p.to = q.to /\ StateAge(p) <= StateAge(q) =>
         p.message.lastProcessedInputSeq <= q.message.lastProcessedInputSeq

OutboxIsNow == \A s \in Slots : \A i \in DOMAIN outbox[s] : outbox[s][i] = WorldStateMessage(s)

FreshConnect ==
  \A c \in Clients : clients[c].status = "connecting" => ~clients[c].isLocalPlayerCreated

ExactInv ==
  /\ \A s \in connected : HasTale(s)
  /\ NewsInv
  /\ OutboxIsNow
  /\ FreshConnect

LEMMA StatesTyped ==
  ASSUME Linked, NEW c, NEW packet \in StatesTo(c)
  PROVE  /\ packet \in SentState
         /\ packet.to = c
         /\ packet.message \in WorldState
         /\ packet.message.lastProcessedInputSeq \in Nat
         /\ StateAge(packet) \in Nat
<1>1. packet \in SentState /\ packet.to = c
  BY DEF StatesTo, Linked, PacketsTyped
<1>2. packet.message \in WorldState
  BY <1>1, WorldStateIsRead DEF SentState
<1> QED
  BY <1>1, <1>2 DEF WorldState, StateAge

(* A step that leaves slot and client as they are, up to the connection's  *)
(* end, and brings no news.                                                *)
LEMMA TaleGoesOn ==
  ASSUME NEW s \in connected, NEW M, NEW P, Tale(s, M, P), InLine(s, M)',
         occupant'[s] = occupant[s],
         lastProcessedInput'[s] = lastProcessedInput[s],
         players'[s].position = players[s].position,
         StatesTo(occupant[s])' \subseteq StatesTo(occupant[s]),
         clients'[occupant[s]].inputSequence = clients[occupant[s]].inputSequence,
         \/ clients'[occupant[s]] = clients[occupant[s]]
         \/ clients'[occupant[s]].status # "connected"
  PROVE  Tale(s, M, P)'
<1>1. Sent(s)' = Sent(s) /\ Acked(s)' = Acked(s)
  BY DEF Sent, Acked
<1>2. Walk(Sent(s), M, P)'
  BY <1>1 DEF Tale, Walk
<1>3. Follows(s, P)'
  BY <1>1 DEF Tale, Follows, Depicts
<1>4. Believes(s, M, P)'
  BY <1>1 DEF Tale, Believes, Remembers, BasedOn
<1> QED
  BY <1>2, <1>3, <1>4 DEF Tale

(* An input is processed: one step of the path.                            *)
LEMMA TaleProcess ==
  ASSUME Typed, Linked, ServerWorks, NEW s \in connected, NEW M, NEW P, Tale(s, M, P),
         Processes(s)
  PROVE  Tale(s, M, P)'
<1> DEFINE L == Acked(s)
           c == occupant[s]
<1>1. UNCHANGED <<clients, occupant, statesInFlight>>
  BY ServerAlone DEF linkVars
<1>2. InLine(s, M) /\ InLine(s, M)'
  BY LineWork DEF Tale
<1>3. /\ L + 1 \in 1 .. Sent(s)
      /\ Head(inbox[s]) = [sequenceNumber |-> L + 1, move |-> M[L + 1]]
      /\ Acked(s)' = L + 1
  BY <1>2, LineProcess
<1>4. L \in Nat /\ Sent(s) \in Nat /\ c \in Clients
  BY LineTyped
<1>5. Sent(s)' = Sent(s)
  BY <1>1 DEF Sent
<1>6. Walk(Sent(s), M, P)'
  BY <1>5 DEF Tale, Walk
<1>7. players'[s].position = P[L + 1]
  <2>1. players'[s].position = Moved(players[s].position, M[L + 1])
    BY <1>3 DEF Processes
  <2>2. players[s].position = P[L]
    BY DEF Tale, Follows
  <2>3. P[L + 1] = Moved(P[L + 1 - 1], M[L + 1]) /\ L + 1 - 1 = L
    BY <1>3, <1>4 DEF Tale, Walk
  <2> QED
    BY <2>1, <2>2, <2>3
<1>8. Follows(s, P)'
  <2>1. ASSUME NEW packet \in StatesTo(c)
        PROVE  packet.message.lastProcessedInputSeq <= L + 1 /\ Depicts(packet.message, s, P)
    <3>1. packet.message.lastProcessedInputSeq \in Nat
      BY <2>1, StatesTyped
    <3>2. packet.message.lastProcessedInputSeq <= L /\ Depicts(packet.message, s, P)
      BY <2>1 DEF Tale, Follows
    <3> QED
      BY <1>4, <3>1, <3>2
  <2>2. StatesTo(occupant[s])' = StatesTo(c)
    BY <1>1 DEF StatesTo
  <2> QED
    BY <1>3, <1>7, <2>1, <2>2 DEF Follows, Depicts
<1>9. Believes(s, M, P)'
  <2>1. SUFFICES ASSUME clients[c].status = "connected"
                 PROVE  /\ clients[c].clientIndex = s
                        /\ Remembers(clients[c], M)
                        /\ BasedOn(clients[c], P, L + 1)
                        /\ \A packet \in StatesTo(c) :
                             BasedOn(clients[c], P, packet.message.lastProcessedInputSeq)
    <3>1. StatesTo(occupant[s])' = StatesTo(c) /\ clients'[occupant'[s]] = clients[c]
      BY <1>1 DEF StatesTo
    <3> QED
      BY <1>3, <3>1 DEF Believes, Remembers, BasedOn
  <2>2. /\ clients[c].clientIndex = s
        /\ Remembers(clients[c], M)
        /\ BasedOn(clients[c], P, L)
        /\ \A packet \in StatesTo(c) :
             BasedOn(clients[c], P, packet.message.lastProcessedInputSeq)
    BY <2>1 DEF Tale, Believes
  <2>3. ClientInv(clients[c])
    BY <1>4 DEF Linked, ClientsSound
  <2>4. L + 1 \in Nat /\ L <= L + 1
    BY <1>4
  <2> HIDE DEF L, c
  <2>5. BasedOn(clients[c], P, L + 1)
    BY <1>4, <2>2, <2>3, <2>4, BasedOnLater
  <2> QED
    BY <2>2, <2>5
<1> QED
  BY <1>2, <1>6, <1>8, <1>9 DEF Tale

(* What the server broadcasts is where the player is now.                  *)
LEMMA BroadcastDepicts ==
  ASSUME Typed, NEW s \in connected, NEW P, players[s].position = P[Acked(s)]
  PROVE  /\ WorldStateMessage(s).lastProcessedInputSeq = Acked(s)
         /\ WorldStateMessage(s).serverTick = serverTick
         /\ Depicts(WorldStateMessage(s), s, P)
<1> DEFINE message == WorldStateMessage(s)
<1>1. /\ message.lastProcessedInputSeq = Acked(s)
      /\ message.serverTick = serverTick
      /\ message.players = {[id       |-> d,
                             position |-> players[d].position,
                             size     |-> players[d].size] : d \in DOMAIN players}
  BY DEF WorldStateMessage, Acked
<1>2. s \in DOMAIN players
  BY DEF Typed, PlayersTyped
<1> HIDE DEF message
<1>3. \E p \in message.players : p.id = s
  <2> DEFINE own == [id       |-> s,
                     position |-> players[s].position,
                     size     |-> players[s].size]
  <2>1. own \in message.players
    BY <1>1, <1>2
  <2>2. own.id = s
    OBVIOUS
  <2> QED
    BY <2>1, <2>2
<1>4. \A p \in message.players : p.id = s => p.position = players[s].position
  BY <1>1
<1> QED
  BY <1>1, <1>3, <1>4 DEF Depicts, message

(* What SendPackets sends to the client behind a slot.                     *)
LEMMA NewsSent ==
  ASSUME Typed, SettledInv, Linked, OutboxIsNow, ServerSends,
         NEW packet \in statesInFlight'
  PROVE  \/ packet \in statesInFlight
         \/ \E s \in connected : /\ packet.to = occupant[s]
                                 /\ packet.message = WorldStateMessage(s)
<1>1. SUFFICES ASSUME packet \notin statesInFlight
               PROVE  \E s \in connected : /\ packet.to = occupant[s]
                                           /\ packet.message = WorldStateMessage(s)
  OBVIOUS
<1>2. PICK s \in Slots : \E i \in DOMAIN outbox[s] :
        packet = [to |-> occupant[s], message |-> outbox[s][i]]
  BY <1>1 DEF ServerSends
<1>3. PICK i \in DOMAIN outbox[s] :
         packet = [to |-> occupant[s], message |-> outbox[s][i]]
  BY <1>2
<1>4. s \in connected
  <2>1. /\ \E player \in outbox[s][i].players : player.id = s
        /\ {player.id : player \in outbox[s][i].players} = connected
    BY <1>3 DEF SettledInv, WireShowsSettledWorld
  <2> QED
    BY <2>1
<1> QED
  BY <1>3, <1>4 DEF OutboxIsNow

LEMMA TaleSends ==
  ASSUME Typed, SettledInv, Linked, OutboxIsNow, ServerSends,
         NEW s \in connected, NEW M, NEW P, Tale(s, M, P)
  PROVE  Tale(s, M, P)'
<1> DEFINE L == Acked(s)
           c == occupant[s]
<1>1. UNCHANGED <<clients, occupant, inbox, inputsInFlight, players, lastProcessedInput>>
  BY DEF ServerSends, SendPackets, worldVars
<1>2. c \in Clients /\ s \in Slots
  BY LineTyped
<1>3. InLine(s, M)'
  <2>1. InputsFrom(occupant[s])' = InputsFrom(occupant[s])
    BY <1>1 DEF InputsFrom
  <2> QED
    BY <1>1, <2>1, LineUntouched DEF Tale
<1>4. Sent(s)' = Sent(s) /\ Acked(s)' = L
  BY <1>1 DEF Sent, Acked
<1>5. players[s].position = P[L]
  BY DEF Tale, Follows
<1>6. ASSUME NEW packet \in StatesTo(occupant[s])'
      PROVE  \/ packet \in StatesTo(c)
             \/ packet.message = WorldStateMessage(s)
  <2>1. packet \in statesInFlight' /\ packet.to = c
    BY <1>1 DEF StatesTo
  <2>2. CASE packet \in statesInFlight
    BY <2>1, <2>2 DEF StatesTo
  <2>3. CASE packet \notin statesInFlight
    <3>1. PICK t \in connected : packet.to = occupant[t] /\ packet.message = WorldStateMessage(t)
      BY <2>1, <2>3, NewsSent
    <3>2. t = s
      BY <1>2, <2>1, <3>1, SessionAssumption DEF Linked, OccupantsMatch, Typed
    <3> QED
      BY <3>1, <3>2
  <2> QED
    BY <2>2, <2>3
<1>7. /\ WorldStateMessage(s).lastProcessedInputSeq = L
      /\ Depicts(WorldStateMessage(s), s, P)
  BY <1>5, BroadcastDepicts
<1>8. L \in Nat
  BY LineTyped
<1> HIDE DEF L, c
<1>9. \A packet \in StatesTo(occupant[s])' :
        packet.message.lastProcessedInputSeq <= L /\ Depicts(packet.message, s, P)
  BY <1>6, <1>7, <1>8 DEF Tale, Follows, c, L
<1>10. Follows(s, P)'
  BY <1>1, <1>4, <1>5, <1>9 DEF Follows, Depicts
<1>11. Believes(s, M, P)'
  <2>1. SUFFICES ASSUME clients[c].status = "connected"
                 PROVE  /\ clients[c].clientIndex = s
                        /\ Remembers(clients[c], M)
                        /\ BasedOn(clients[c], P, L)
                        /\ \A packet \in StatesTo(occupant[s])' :
                             BasedOn(clients[c], P, packet.message.lastProcessedInputSeq)
    <3>1. clients'[occupant'[s]] = clients[c] /\ occupant'[s] = c
      BY <1>1 DEF c
    <3> QED
      BY <1>4, <3>1 DEF Believes, Remembers, BasedOn
  <2>2. /\ clients[c].clientIndex = s
        /\ Remembers(clients[c], M)
        /\ BasedOn(clients[c], P, L)
        /\ \A packet \in StatesTo(c) :
             BasedOn(clients[c], P, packet.message.lastProcessedInputSeq)
    BY <2>1 DEF Tale, Believes, L, c
  <2> QED
    BY <1>6, <1>7, <2>2
<1>12. Walk(Sent(s), M, P)'
  BY <1>4 DEF Tale, Walk
<1> QED
  BY <1>3, <1>10, <1>11, <1>12 DEF Tale

(* The server's loops, as long as nobody is eaten.                         *)
LEMMA TaleWork ==
  ASSUME Typed, Linked, NobodyEaten, ServerWorks,
         NEW s \in connected, NEW M, NEW P, Tale(s, M, P)
  PROVE  Tale(s, M, P)'
<1>1. UNCHANGED <<clients, occupant, statesInFlight>>
  BY ServerAlone DEF linkVars
<1>2. InLine(s, M)'
  BY LineWork DEF Tale
<1>3. CASE Still(s)
  <2>1. StatesTo(occupant[s])' = StatesTo(occupant[s])
    BY <1>1 DEF StatesTo
  <2> QED
    BY <1>1, <1>2, <1>3, <2>1, TaleGoesOn DEF Still
<1>4. CASE Processes(s)
  BY <1>4, TaleProcess
<1>5. CASE Reappears(s)
  BY <1>5 DEF Reappears, NobodyEaten
<1> QED
  BY <1>3, <1>4, <1>5, WorkEffect

LEMMA TaleReceives ==
  ASSUME Typed, Linked, InOrder, ServerReceives,
         NEW s \in connected, NEW M, NEW P, Tale(s, M, P)
  PROVE  Tale(s, M, P)'
<1>1. UNCHANGED <<clients, occupant, statesInFlight, players, lastProcessedInput>>
  BY DEF ServerReceives, ReceivePackets, worldVars
<1>2. InLine(s, M)'
  BY LineReceive DEF Tale
<1>3. StatesTo(occupant[s])' = StatesTo(occupant[s])
  BY <1>1 DEF StatesTo
<1> QED
  BY <1>1, <1>2, <1>3, TaleGoesOn

(* A step that touches neither the slot nor what is sent to its client.    *)
LEMMA TaleQuiet ==
  ASSUME NEW s \in connected, NEW M, NEW P, Tale(s, M, P),
         occupant'[s] = occupant[s],
         inbox'[s] = inbox[s],
         lastProcessedInput'[s] = lastProcessedInput[s],
         players'[s] = players[s],
         InputsFrom(occupant[s])' = InputsFrom(occupant[s]),
         StatesTo(occupant[s])' \subseteq StatesTo(occupant[s]),
         clients'[occupant[s]].inputSequence = clients[occupant[s]].inputSequence,
         \/ clients'[occupant[s]] = clients[occupant[s]]
         \/ clients'[occupant[s]].status # "connected"
  PROVE  Tale(s, M, P)'
<1>1. InLine(s, M)'
  BY LineUntouched DEF Tale
<1> QED
  BY <1>1, TaleGoesOn

LEMMA TaleDrop ==
  ASSUME Typed, Linked, NEW s \in Slots, Drop(s),
         NEW t \in connected', NEW M, NEW P, Tale(t, M, P)
  PROVE  Tale(t, M, P)'
<1>1. statesInFlight' \subseteq statesInFlight
  BY DEF Drop
<1>2. StatesTo(occupant[t])' \subseteq StatesTo(occupant[t])
  BY <1>1, DropSpares DEF StatesTo
<1> QED
  BY <1>2, DropSpares, TaleQuiet

(* A newcomer has a path of one point, the one where it appears.           *)
LEMMA TaleAdmit ==
  ASSUME Typed, InputsInv, Linked, InputsCounted, NewsInv,
         NEW c \in Clients, NEW s \in Slots, Admit(c, s), Typed', Acked(s)' <= Sent(s)'
  PROVE  /\ HasTale(s)'
         /\ \A t \in connected : HasTale(t) => HasTale(t)'
<1>1. /\ clients[c].status = "connecting"
      /\ \A t \in Slots : occupant[t] # c
      /\ s \notin connected
      /\ occupant' = [occupant EXCEPT ![s] = c]
      /\ connected' = connected \cup {s}
      /\ UNCHANGED <<clients, inputsInFlight, statesInFlight, inbox, lastProcessedInput>>
  BY DEF Admit, ClientConnected
<1>2. occupant'[s] = c /\ \A t \in connected : t # s /\ occupant'[t] = occupant[t]
  BY <1>1 DEF Linked, OccupantsMatch, Typed
<1>3. HasTale(s)'
  <2>1. Acked(s)' \in Nat /\ Sent(s)' = 0 /\ InSomeLine(s)'
    BY LineAdmit
  <2>2. Acked(s)' = 0
    BY <2>1
  <2>3. PICK M : InLine(s, M)'
    BY <2>1 DEF InSomeLine
  <2>4. PICK P : P = [k \in 0 .. 0 |-> players'[s].position]
    OBVIOUS
  <2>5. players'[s].position \in Position /\ P[0] = players'[s].position
    BY <1>1, <2>4 DEF Typed, PlayersTyped, PlayerState
  <2>6. Walk(Sent(s), M, P)'
    <3>1. M \in [1 .. Sent(s)' -> Moves]
      BY <2>3 DEF InLine
    <3>2. P \in [0 .. 0 -> Position] /\ 1 .. 0 = {}
      BY <2>4, <2>5
    <3> QED
      BY <2>1, <3>1, <3>2 DEF Walk
  <2>7. StatesTo(occupant[s])' = {}
    BY <1>1, <1>2 DEF NewsInv, StatesTo, Typed
  <2>8. Follows(s, P)'
    BY <2>2, <2>5, <2>7 DEF Follows
  <2>9. Believes(s, M, P)'
    BY <1>1, <1>2 DEF Believes
  <2>10. Tale(s, M, P)'
    BY <2>3, <2>6, <2>8, <2>9 DEF Tale
  <2> QED
    BY <2>10 DEF HasTale
<1>4. ASSUME NEW t \in connected, HasTale(t)
      PROVE  HasTale(t)'
  <2>1. PICK M, P : Tale(t, M, P)
    BY <1>4 DEF HasTale
  <2>2. t # s /\ occupant'[t] = occupant[t]
    BY <1>2
  <2>3. players'[t] = players[t]
    BY <2>2 DEF Admit, ClientConnected, Typed, PlayersTyped
  <2>4. /\ InputsFrom(occupant[t])' = InputsFrom(occupant[t])
        /\ StatesTo(occupant[t])' \subseteq StatesTo(occupant[t])
    BY <1>1, <2>2 DEF InputsFrom, StatesTo
  <2>5. Tale(t, M, P)'
    BY <1>1, <2>1, <2>2, <2>3, <2>4, TaleQuiet
  <2> QED
    BY <2>5 DEF HasTale
<1> QED
  BY <1>3, <1>4

(* A client that gets to know its slot has no player yet, and one that     *)
(* leaves believes nothing any more.                                       *)
LEMMA TaleAcceptOrLeave ==
  ASSUME Typed, Linked, Linked', FreshConnect, NEW c \in Clients, Accepted(c) \/ Leaves(c),
         NEW s \in connected, NEW M, NEW P, Tale(s, M, P)
  PROVE  Tale(s, M, P)'
<1>1. /\ UNCHANGED <<serverVars, occupant, inputsInFlight>>
      /\ \A d \in Clients : clients'[d].inputSequence = clients[d].inputSequence
  BY AcceptOrLeave
<1>2. UNCHANGED <<inbox, lastProcessedInput, players>>
  BY <1>1 DEF serverVars, netVars, worldVars
<1>3. s \in Slots /\ occupant[s] \in Clients /\ Acked(s) \in Nat
  BY LineTyped
<1>4. statesInFlight' \subseteq statesInFlight
  BY DEF Accepted, Leaves, linkVars
<1>5. /\ InputsFrom(occupant[s])' = InputsFrom(occupant[s])
      /\ StatesTo(occupant[s])' \subseteq StatesTo(occupant[s])
  BY <1>1, <1>4 DEF InputsFrom, StatesTo
<1>6. clients \in [Clients -> ClientState]
  BY DEF Linked, ClientsSound
<1>7. CASE occupant[s] # c
  <2>1. clients'[occupant[s]] = clients[occupant[s]]
    BY <1>3, <1>6, <1>7 DEF Accepted, ClientAccepted, Leaves, ClientDropped
  <2> QED
    BY <1>1, <1>2, <1>3, <1>5, <2>1, TaleQuiet
<1>8. CASE occupant[s] = c /\ Leaves(c)
  <2>1. clients'[c].status = "disconnected"
    BY <1>6, <1>8 DEF Leaves, ClientDropped, ClientState
  <2> QED
    BY <1>1, <1>2, <1>3, <1>5, <1>8, <2>1, TaleQuiet
<1>9. CASE occupant[s] = c /\ Accepted(c)
  <2>1. PICK t \in Slots : occupant[t] = c /\ ClientAccepted(c, t)
    BY <1>9 DEF Accepted
  <2>2. t = s
    BY <1>3, <1>9, <2>1, SessionAssumption DEF Linked, OccupantsMatch
  <2> DEFINE client == clients'[c]
  <2>3. /\ client.clientIndex = s
        /\ client.isLocalPlayerCreated = clients[c].isLocalPlayerCreated
        /\ clients[c].status = "connecting"
    BY <1>6, <2>1, <2>2 DEF ClientAccepted, ClientState
  <2>4. ~client.isLocalPlayerCreated
    BY <2>3 DEF FreshConnect
  <2>5. ClientInv(client)
    BY DEF Linked, ClientsSound
  <2>6. \A ack \in Nat : Remembers(client, M) /\ BasedOn(client, P, ack)
    <3> HIDE DEF client
    <3> QED
      BY <2>4, <2>5, FreshOnPath
  <2>7. Believes(s, M, P)'
    <3>1. occupant'[s] = c /\ Acked(s)' \in Nat
      BY <1>1, <1>2, <1>3, <1>9 DEF Acked
    <3>2. \A packet \in StatesTo(c)' : packet.message.lastProcessedInputSeq \in Nat
      <4>1. StatesTo(c)' \subseteq StatesTo(c)
        BY <1>4 DEF StatesTo
      <4> QED
        BY <4>1, StatesTyped
    <3>3. Remembers(client, M)
      BY <2>6, <1>3
    <3> QED
      BY <2>3, <2>6, <3>1, <3>2, <3>3 DEF Believes, Remembers, BasedOn
  <2>8. Sent(s)' = Sent(s) /\ Acked(s)' = Acked(s)
    BY <1>1, <1>2, <1>3 DEF Sent, Acked
  <2>9. InLine(s, M)'
    BY <1>1, <1>2, <1>3, <1>5, LineUntouched DEF Tale
  <2>10. Follows(s, P)' /\ Walk(Sent(s), M, P)'
    BY <1>1, <1>2, <1>5, <2>8 DEF Tale, Follows, Depicts, Walk
  <2> QED
    BY <2>7, <2>9, <2>10 DEF Tale
<1> QED
  BY <1>7, <1>8, <1>9

(* A client that takes in what arrived stays on the path, and what is left *)
(* in flight is no older than the base of its prediction.                  *)
LEMMA ClientHears ==
  ASSUME Typed, Linked, InOrder, NewsInv, NEW s \in connected, NEW M, NEW P, Tale(s, M, P),
         NEW c \in Clients, occupant[s] = c, clients[c].status = "connected",
         NEW arrived \in Arrivals(StatesTo(c), StateAge)
  PROVE  LET received == ReceiveWorldStates(clients[c],
                                            [i \in DOMAIN arrived |-> arrived[i].message])
         IN  /\ ClientInv(received)
             /\ received.inputSequence = Sent(s)
             /\ Remembers(received, M)
             /\ BasedOn(received, P, Acked(s))
             /\ \A packet \in StatesTo(c) \ (Range(arrived) \cup Overtaken(c, arrived)) :
                  BasedOn(received, P, packet.message.lastProcessedInputSeq)
<1> DEFINE client == clients[c]
           messages == [i \in DOMAIN arrived |-> arrived[i].message]
           received == ReceiveWorldStates(client, messages)
           Ack(packet) == packet.message.lastProcessedInputSeq
           left == StatesTo(c) \ (Range(arrived) \cup Overtaken(c, arrived))
           acks == {Acked(s)} \cup {Ack(packet) : packet \in left}
<1>1. PICK n \in Nat :
        /\ arrived \in [1 .. n -> StatesTo(c)]
        /\ \A i \in 1 .. n : arrived[i] \in SentState /\ arrived[i].message \in WorldState
  BY StateArrivalsTyped DEF Linked
<1>2. /\ Sent(s) \in Nat
      /\ Acked(s) \in Nat
      /\ Acked(s) <= Sent(s)
      /\ client.inputSequence = Sent(s)
      /\ ClientInv(client)
  <2>1. Sent(s) \in Nat /\ Acked(s) \in Nat /\ Len(inbox[s]) \in Nat
    BY LineTyped
  <2>2. Acked(s) + Len(inbox[s]) <= Sent(s)
    BY DEF Tale, InLine
  <2>3. Acked(s) <= Sent(s)
    BY <2>1, <2>2
  <2> QED
    BY <2>1, <2>3 DEF Sent, Linked, ClientsSound
<1>3. /\ client.clientIndex = s
      /\ Remembers(client, M)
      /\ BasedOn(client, P, Acked(s))
      /\ \A packet \in StatesTo(c) : BasedOn(client, P, Ack(packet))
  BY DEF Tale, Believes
<1>4. \A packet \in StatesTo(c) :
        Ack(packet) \in Nat /\ Ack(packet) <= Acked(s) /\ Depicts(packet.message, s, P)
  BY StatesTyped DEF Tale, Follows
<1>5. \A p, q \in StatesTo(c) : StateAge(p) <= StateAge(q) => Ack(p) <= Ack(q)
  BY DEF NewsInv, StatesTo
<1>6. \A p \in StatesTo(c) : StateAge(p) \in Nat
  BY StatesTyped
<1>7. \A i, j \in 1 .. n : i < j => StateAge(arrived[i]) < StateAge(arrived[j])
  BY <1>1 DEF Arrivals
<1>8. /\ Len(messages) = n
      /\ \A i \in 1 .. n : messages[i] = arrived[i].message
  BY <1>1
<1> HIDE DEF messages, client, Ack
<1>9. ASSUME NEW i \in 1 .. n
      PROVE  /\ messages[i] \in WorldState
             /\ Depicts(messages[i], client.clientIndex, P)
             /\ messages[i].lastProcessedInputSeq <= client.inputSequence
             /\ BasedOn(client, P, messages[i].lastProcessedInputSeq)
  <2>1. arrived[i] \in StatesTo(c) /\ messages[i].lastProcessedInputSeq = Ack(arrived[i])
    BY <1>1, <1>8 DEF Ack
  <2>2. Ack(arrived[i]) \in Nat /\ Ack(arrived[i]) <= Acked(s)
    BY <1>4, <2>1
  <2>3. Ack(arrived[i]) <= client.inputSequence
    BY <1>2, <2>2
  <2> QED
    BY <1>1, <1>3, <1>4, <1>8, <2>1, <2>3
<1>10. ASSUME NEW i \in 1 .. n, NEW j \in 1 .. n, i <= j
       PROVE  messages[i].lastProcessedInputSeq <= messages[j].lastProcessedInputSeq
  <2>1. arrived[i] \in StatesTo(c) /\ arrived[j] \in StatesTo(c)
    BY <1>1
  <2>2. StateAge(arrived[i]) <= StateAge(arrived[j])
    <3>1. CASE i = j
      BY <1>6, <2>1, <3>1
    <3>2. CASE i # j
      <4>1. i < j
        BY <1>10, <3>2
      <4> QED
        BY <1>6, <1>7, <2>1, <4>1
    <3> QED
      BY <3>1, <3>2
  <2> QED
    BY <1>5, <1>8, <2>1, <2>2 DEF Ack
<1>11. ASSUME NEW packet \in left
       PROVE  /\ Ack(packet) \in Nat
              /\ BasedOn(client, P, Ack(packet))
              /\ \A i \in 1 .. n : messages[i].lastProcessedInputSeq <= Ack(packet)
  <2>1. packet \in StatesTo(c) /\ packet \notin Overtaken(c, arrived)
    OBVIOUS
  <2>2. \A i \in 1 .. n : ~(StateAge(packet) < StateAge(arrived[i]))
    BY <1>1, <2>1 DEF Overtaken
  <2>3. \A i \in 1 .. n : StateAge(arrived[i]) <= StateAge(packet)
    BY <1>1, <1>6, <2>1, <2>2
  <2>4. \A i \in 1 .. n : Ack(arrived[i]) <= Ack(packet)
    BY <1>1, <1>5, <2>1, <2>3
  <2> QED
    BY <1>3, <1>4, <1>8, <2>1, <2>4 DEF Ack
<1>12. \A i \in 1 .. n : messages[i].lastProcessedInputSeq <= Acked(s)
  BY <1>1, <1>4, <1>8 DEF Ack
<1> HIDE DEF left
<1>13. /\ acks \in SUBSET Nat
       /\ \A ack \in acks : /\ BasedOn(client, P, ack)
                            /\ \A i \in 1 .. n : messages[i].lastProcessedInputSeq <= ack
  BY <1>2, <1>3, <1>11, <1>12
<1>14. Acked(s) \in acks /\ \A packet \in left : Ack(packet) \in acks
  OBVIOUS
<1> HIDE DEF acks
<1>15. /\ ClientInv(received)
       /\ received.inputSequence = client.inputSequence
       /\ Remembers(received, M)
       /\ \A ack \in acks : BasedOn(received, P, ack)
  BY <1>2, <1>3, <1>8, <1>9, <1>10, <1>13, WorldStatesOnPath
<1> QED
  BY <1>2, <1>14, <1>15 DEF left, messages, client, Ack

(* A client's Update: what it hears is on the path, and an input it sends  *)
(* takes the path one step further.                                        *)
LEMMA TaleRuns ==
  ASSUME Typed, Linked, InOrder, NewsInv, NEW c \in Clients, NEW move \in Moves \cup {NoMove},
         ClientRuns(c, move), NEW s \in connected, HasTale(s)
  PROVE  HasTale(s)'
<1> DEFINE n == Sent(s)
           packet == [from |-> c, sequenceNumber |-> clients[c].inputSequence + 1,
                      move |-> move]
           client == clients'[c]
<1>1. /\ UNCHANGED <<serverVars, occupant>>
      /\ \A d \in Clients \ {c} : InputsFrom(d)' = InputsFrom(d) /\ clients'[d] = clients[d]
      /\ \/ clients'[c].inputSequence = clients[c].inputSequence /\ InputsFrom(c)' = InputsFrom(c)
         \/ /\ clients'[c].inputSequence = clients[c].inputSequence + 1
            /\ InputsFrom(c)' = InputsFrom(c) \cup {packet}
  BY RunsSend
<1>2. UNCHANGED <<inbox, lastProcessedInput, players>>
  BY <1>1 DEF serverVars, netVars, worldVars
<1>3. /\ s \in Slots
      /\ occupant[s] \in Clients
      /\ n \in Nat
      /\ Acked(s) \in Nat
      /\ occupant'[s] = occupant[s]
  BY <1>1, LineTyped
<1>4. PICK M, P : Tale(s, M, P)
  BY DEF HasTale
<1>5. PICK arrived \in Arrivals(StatesTo(c), StateAge) :
        /\ ClientUpdate(c, [i \in DOMAIN arrived |-> arrived[i].message], move)
        /\ statesInFlight' = statesInFlight \ (Range(arrived) \cup Overtaken(c, arrived))
  BY DEF ClientRuns
<1>6. StatesTo(occupant[s])' \subseteq StatesTo(occupant[s])
  BY <1>3, <1>5 DEF StatesTo
<1>7. CASE occupant[s] # c
  <2>1. InputsFrom(occupant[s])' = InputsFrom(occupant[s])
    <3>1. \A d \in Clients \ {c} : InputsFrom(d)' = InputsFrom(d)
      BY <1>1
    <3> QED
      BY <1>3, <1>7, <3>1 DEF InputsFrom
  <2>2. clients'[occupant[s]] = clients[occupant[s]]
    BY <1>1, <1>3, <1>7
  <2>3. Tale(s, M, P)'
    BY <1>2, <1>3, <1>4, <1>6, <2>1, <2>2, TaleQuiet
  <2> QED
    BY <2>3 DEF HasTale
<1>8. CASE occupant[s] = c
  <2> DEFINE received == ReceiveWorldStates(clients[c],
                                            [i \in DOMAIN arrived |-> arrived[i].message])
             sent == SendInput(received, move)
             left == StatesTo(c) \ (Range(arrived) \cup Overtaken(c, arrived))
  <2>1. clients[c].status = "connected" /\ client.clientIndex = clients[c].clientIndex
    BY ClientRunsEffect
  <2>2. /\ ClientInv(received)
        /\ received.inputSequence = n
        /\ Remembers(received, M)
        /\ BasedOn(received, P, Acked(s))
        /\ \A p \in left : BasedOn(received, P, p.message.lastProcessedInputSeq)
    BY <1>4, <1>8, <2>1, ClientHears
  <2>3. client = RefreshOtherPlayers(sent)
    BY <1>5 DEF ClientUpdate, Linked, ClientsSound
  <2> HIDE DEF received
  <2>4. ClientInv(sent)
    BY <2>2, SendKeepsInv
  <2> HIDE DEF sent
  <2>5. /\ client.inputSequence = sent.inputSequence
        /\ client.inputHistory = sent.inputHistory
        /\ client.localPlayer = sent.localPlayer
        /\ client.isLocalPlayerCreated = sent.isLocalPlayerCreated
    BY <2>3, <2>4, RefreshEffect DEF ClientInv
  <2>6. client.clientIndex = s
    BY <1>4, <1>8, <2>1 DEF Tale, Believes
  <2>7. /\ Sent(s)' = client.inputSequence
        /\ Acked(s)' = Acked(s)
        /\ StatesTo(occupant[s])' = left
    <3>1. {p \in statesInFlight' : p.to = c} = left
      BY <1>5 DEF StatesTo
    <3> QED
      BY <1>2, <1>3, <1>8, <3>1 DEF Sent, Acked, StatesTo
  <2>8. /\ players[s].position = P[Acked(s)]
        /\ \A p \in StatesTo(c) : /\ p.message.lastProcessedInputSeq <= Acked(s)
                                  /\ Depicts(p.message, s, P)
        /\ InLine(s, M)
        /\ Walk(n, M, P)
    BY <1>4, <1>8 DEF Tale, Follows
  <2>9. \A p \in StatesTo(c) : p.message.lastProcessedInputSeq \in Nat
    BY StatesTyped
  <2>10. n = clients[c].inputSequence
    BY <1>8 DEF Sent
  <2>11. Acked(s) <= n
    <3>1. Acked(s) + Len(inbox[s]) <= n /\ Len(inbox[s]) \in Nat
      BY <2>8, LineTyped DEF InLine
    <3> QED
      BY <1>3, <3>1
  <2> HIDE DEF n, client, packet
  <2>12. ASSUME NEW N, NEW Q, InLine(s, N)', Walk(client.inputSequence, N, Q),
                \A k \in 0 .. n : Q[k] = P[k],
                Remembers(sent, N),
                BasedOn(sent, Q, Acked(s)),
                \A p \in left : BasedOn(sent, Q, p.message.lastProcessedInputSeq)
         PROVE  Tale(s, N, Q)'
    <3>1. Walk(Sent(s), N, Q)'
      BY <2>7, <2>12 DEF Walk
    <3>2. players[s].position = Q[Acked(s)]
      BY <1>3, <2>8, <2>11, <2>12
    <3>3. ASSUME NEW p \in left
          PROVE  /\ p.message.lastProcessedInputSeq <= Acked(s)
                 /\ Depicts(p.message, s, Q)
      <4>1. /\ p \in StatesTo(c)
            /\ p.message.lastProcessedInputSeq <= Acked(s)
            /\ p.message.lastProcessedInputSeq \in Nat
            /\ Depicts(p.message, s, P)
        BY <2>8, <2>9
      <4>2. p.message.lastProcessedInputSeq \in 0 .. n
        BY <1>3, <2>11, <4>1 DEF n
      <4>3. Q[p.message.lastProcessedInputSeq] = P[p.message.lastProcessedInputSeq]
        BY <2>12, <4>2
      <4> QED
        BY <4>1, <4>3 DEF Depicts
    <3>4. Follows(s, Q)'
      BY <1>2, <2>7, <3>2, <3>3 DEF Follows, Depicts
    <3>5. Remembers(client, N)
      BY <2>5, <2>12 DEF Remembers
    <3>6. /\ BasedOn(client, Q, Acked(s))
          /\ \A p \in left : BasedOn(client, Q, p.message.lastProcessedInputSeq)
      BY <2>5, <2>12 DEF BasedOn
    <3>7. clients'[occupant'[s]] = client
      BY <1>3, <1>8 DEF client
    <3>8. Believes(s, N, Q)'
      BY <2>6, <2>7, <3>5, <3>6, <3>7 DEF Believes, Remembers, BasedOn
    <3> QED
      BY <2>12, <3>1, <3>4, <3>8 DEF Tale
  <2>13. CASE sent = received
    <3>1. client.inputSequence = n
      BY <2>2, <2>5, <2>13
    <3>2. clients'[c].inputSequence = clients[c].inputSequence
      BY <2>10, <3>1 DEF client
    <3>3. InputsFrom(c)' = InputsFrom(c)
      <4>1. clients[c].inputSequence \in Nat
        BY <1>3, <2>10
      <4> QED
        BY <1>1, <3>2, <4>1
    <3>4. InputsFrom(occupant[s])' = InputsFrom(occupant[s])
      BY <1>3, <1>8, <3>3 DEF InputsFrom
    <3>5. InLine(s, M)'
      BY <1>2, <1>3, <1>8, <2>8, <3>2, <3>4, LineUntouched
    <3>6. Tale(s, M, P)'
      BY <2>2, <2>8, <2>12, <2>13, <3>1, <3>5
    <3> QED
      BY <3>6 DEF HasTale
  <2>14. CASE sent # received
    <3>1. move \in Moves
      BY <2>14 DEF sent, SendInput
    <3>2. PICK N : N = Prolonged(M, n, move)
      OBVIOUS
    <3>3. PICK Q : Q = Onward(P, n, move)
      OBVIOUS
    <3>4. Walk(n + 1, N, Q) /\ \A k \in 0 .. n : Q[k] = P[k]
      BY <1>3, <2>8, <3>1, <3>2, <3>3, WalkOn
    <3>5. ASSUME NEW ack \in Nat, BasedOn(received, P, ack)
          PROVE  /\ sent.inputSequence = n + 1
                 /\ Remembers(sent, N)
                 /\ BasedOn(sent, Q, ack)
      BY <2>2, <2>8, <2>14, <3>1, <3>2, <3>3, <3>5, SendOnPath DEF sent
    <3>6. /\ client.inputSequence = n + 1
          /\ Remembers(sent, N)
          /\ BasedOn(sent, Q, Acked(s))
          /\ \A p \in left : BasedOn(sent, Q, p.message.lastProcessedInputSeq)
      BY <1>3, <2>2, <2>5, <2>9, <3>5
    <3>7. InputsFrom(c)' = InputsFrom(c) \cup {packet}
      <4>1. clients'[c].inputSequence # clients[c].inputSequence
        BY <1>3, <2>10, <3>6 DEF client
      <4> QED
        BY <1>1, <4>1
    <3>8. InLine(s, N)'
      <4>1. packet = Packet(occupant[s], Sent(s) + 1, move)
        BY <1>8, <2>10 DEF packet, Packet, n
      <4>2. InputsFrom(occupant[s])' = InputsFrom(occupant[s]) \cup {packet}
        BY <1>3, <1>8, <3>7 DEF InputsFrom
      <4>3. Sent(s)' = Sent(s) + 1
        BY <2>7, <3>6 DEF n
      <4> QED
        BY <1>1, <2>8, <3>1, <3>2, <4>1, <4>2, <4>3, LineSend DEF n
    <3>9. Tale(s, N, Q)'
      BY <2>12, <3>4, <3>6, <3>8
    <3> QED
      BY <3>9 DEF HasTale
  <2> QED
    BY <2>13, <2>14
<1> QED
  BY <1>7, <1>8

(* Ticks are counted without a turn around.                                *)
LEMMA TickAdvances ==
  ASSUME Typed, TicksDiffer, Update
  PROVE  serverTick' = serverTick + 1
<1>1. /\ serverTick' = (serverTick + 1) % TickWrap
      /\ serverTick < MaxTick
  BY DEF Update, BeginUpdate
<1>2. /\ serverTick \in Nat
      /\ TickWrap \in Nat \ {0}
      /\ MaxTick \in Nat
  BY ServerAssumption, SessionAssumption DEF Typed
<1>3. PICK k \in Int : k = serverTick + 1
  BY <1>2
<1>4. k \in 0 .. TickWrap - 1
  BY <1>1, <1>2, <1>3 DEF TicksDiffer
<1>5. k % TickWrap = k
  BY <1>2, <1>4, SMTT(30)
<1> QED
  BY <1>1, <1>3, <1>5

(* A step that sends no world state leaves those on their way in order.    *)
LEMMA NewsKept ==
  ASSUME Linked, NewsInv,
         statesInFlight' \subseteq statesInFlight,
         \A packet \in statesInFlight' : \A s \in connected :
           occupant[s] = packet.to => s \in connected' /\ occupant'[s] = packet.to,
         \/ /\ serverTick' = serverTick
            /\ phase' \notin {"Idle", "Stopped"} => phase \notin {"Idle", "Stopped"}
         \/ serverTick \in Nat /\ serverTick' = serverTick + 1
  PROVE  NewsInv'
<1>1. ASSUME NEW packet \in statesInFlight'
      PROVE  /\ \E s \in connected' : occupant'[s] = packet.to
             /\ StateAge(packet) <= serverTick'
             /\ phase' \notin {"Idle", "Stopped"} => StateAge(packet) < serverTick'
  <2>1. packet \in statesInFlight
    BY <1>1
  <2>2. /\ \E s \in connected : occupant[s] = packet.to
        /\ StateAge(packet) <= serverTick
        /\ phase \notin {"Idle", "Stopped"} => StateAge(packet) < serverTick
    BY <2>1 DEF NewsInv
  <2>3. StateAge(packet) \in Nat
    BY <2>1, StatesTyped DEF StatesTo
  <2> QED
    BY <1>1, <2>2, <2>3
<1>2. \A p, q \in statesInFlight' :
        p.to = q.to /\ StateAge(p) <= StateAge(q) =>
          p.message.lastProcessedInputSeq <= q.message.lastProcessedInputSeq
  BY DEF NewsInv
<1> QED
  BY <1>1, <1>2 DEF NewsInv

LEMMA NewsAdmit ==
  ASSUME Typed, Linked, NewsInv, NEW c \in Clients, NEW s \in Slots, Admit(c, s)
  PROVE  NewsInv'
<1>1. /\ s \notin connected
      /\ occupant' = [occupant EXCEPT ![s] = c]
      /\ connected' = connected \cup {s}
      /\ UNCHANGED <<statesInFlight, serverTick, phase>>
  BY DEF Admit, ClientConnected
<1>2. \A t \in connected : t \in connected' /\ occupant'[t] = occupant[t]
  BY <1>1 DEF Linked, OccupantsMatch, Typed
<1> QED
  BY <1>1, <1>2, NewsKept

LEMMA NewsDrop ==
  ASSUME InOrder, Typed, Linked, NewsInv, NEW s \in Slots, Drop(s)
  PROVE  NewsInv'
<1>1. /\ occupant' = [occupant EXCEPT ![s] = NoClient]
      /\ connected' = connected \ {s}
      /\ statesInFlight' = {packet \in statesInFlight : packet \notin StatesTo(occupant[s])}
      /\ UNCHANGED <<serverTick, phase>>
  BY DEF Drop, ClientDisconnected
<1>2. ASSUME NEW packet \in statesInFlight', NEW t \in connected, occupant[t] = packet.to
      PROVE  t \in connected' /\ occupant'[t] = packet.to
  <2>1. t # s
    BY <1>1, <1>2 DEF StatesTo
  <2> QED
    BY <1>1, <1>2, <2>1 DEF Linked, OccupantsMatch, Typed
<1> QED
  BY <1>1, <1>2, NewsKept

(* What is sent now is younger than what is on its way, and acknowledges   *)
(* no less.                                                                *)
LEMMA NewsSends ==
  ASSUME Typed, SettledInv, Linked, OutboxIsNow, NewsInv, ServerSends,
         \A s \in connected : HasTale(s)
  PROVE  NewsInv'
<1>1. /\ phase = "SendPackets"
      /\ phase' = "Idle"
      /\ UNCHANGED <<connected, occupant, serverTick, lastProcessedInput>>
  BY DEF ServerSends, SendPackets, worldVars
<1>2. serverTick \in Nat
  BY ServerAssumption DEF Typed
<1> DEFINE New(packet) == \E s \in connected : /\ packet.to = occupant[s]
                                               /\ packet.message = WorldStateMessage(s)
<1>3. \A packet \in statesInFlight' : packet \in statesInFlight \/ New(packet)
  BY NewsSent
<1>4. ASSUME NEW packet, New(packet)
      PROVE  StateAge(packet) = serverTick
  BY <1>4 DEF WorldStateMessage, StateAge
<1>5. ASSUME NEW packet \in statesInFlight
      PROVE  /\ \E s \in connected : occupant[s] = packet.to
             /\ StateAge(packet) < serverTick
             /\ StateAge(packet) \in Nat
  BY <1>1, StatesTyped DEF NewsInv, StatesTo
<1>6. ASSUME NEW packet \in statesInFlight'
      PROVE  /\ \E s \in connected : occupant[s] = packet.to
             /\ StateAge(packet) <= serverTick
  BY <1>2, <1>3, <1>4, <1>5
<1>7. ASSUME NEW p \in statesInFlight', NEW q \in statesInFlight',
             p.to = q.to, StateAge(p) <= StateAge(q)
      PROVE  p.message.lastProcessedInputSeq <= q.message.lastProcessedInputSeq
  <2>1. CASE p \in statesInFlight /\ q \in statesInFlight
    BY <1>7, <2>1 DEF NewsInv
  <2>2. CASE New(p) /\ q \in statesInFlight
    BY <1>2, <1>4, <1>5, <1>7, <2>2
  <2>3. CASE p \in statesInFlight /\ New(q)
    <3>1. PICK s \in connected : q.to = occupant[s] /\ q.message = WorldStateMessage(s)
      BY <2>3
    <3>2. PICK M, P : Tale(s, M, P)
      BY DEF HasTale
    <3>3. p \in StatesTo(occupant[s])
      BY <1>7, <2>3, <3>1 DEF StatesTo
    <3>4. p.message.lastProcessedInputSeq <= Acked(s)
      BY <3>2, <3>3 DEF Tale, Follows
    <3> QED
      BY <3>1, <3>4 DEF WorldStateMessage, Acked
  <2>4. CASE New(p) /\ New(q)
    <3>1. PICK s \in connected : p.to = occupant[s] /\ p.message = WorldStateMessage(s)
      BY <2>4
    <3>2. PICK t \in connected : q.to = occupant[t] /\ q.message = WorldStateMessage(t)
      BY <2>4
    <3>3. s = t
      BY <1>7, <3>1, <3>2, SessionAssumption DEF Linked, OccupantsMatch, Typed
    <3>4. lastProcessedInput[s] \in Nat
      BY DEF Typed
    <3> QED
      BY <3>1, <3>2, <3>3, <3>4 DEF WorldStateMessage
  <2> QED
    BY <1>3, <2>1, <2>2, <2>3, <2>4
<1> QED
  BY <1>1, <1>6, <1>7 DEF NewsInv

LEMMA NewsStep ==
  ASSUME InOrder, TicksDiffer, SessionInv, OutboxIsNow, NewsInv,
         \A s \in connected : HasTale(s), [SessionNext]_sessionVars
  PROVE  NewsInv'
<1>1. Typed /\ SettledInv /\ Linked
  BY DEF SessionInv
<1>2. ASSUME statesInFlight' \subseteq statesInFlight, connected' = connected,
             occupant' = occupant,
             \/ /\ serverTick' = serverTick
                /\ phase' \notin {"Idle", "Stopped"} => phase \notin {"Idle", "Stopped"}
             \/ serverTick \in Nat /\ serverTick' = serverTick + 1
      PROVE  NewsInv'
  BY <1>1, <1>2, NewsKept
<1>3. CASE Update
  <2>1. serverTick \in Nat /\ serverTick' = serverTick + 1
    BY <1>1, <1>3, TickAdvances, ServerAssumption DEF Typed
  <2> QED
    BY <1>2, <1>3, <2>1, ServerAlone, ServerStepsKeepConnected DEF linkVars
<1>4. ASSUME NEW c \in Clients, NEW s \in Slots, Admit(c, s) PROVE NewsInv'
  BY <1>1, <1>4, NewsAdmit
<1>5. ASSUME NEW s \in Slots, Drop(s) PROVE NewsInv'
  BY <1>1, <1>5, NewsDrop
<1>6. CASE ServerReceives
  <2>1. /\ UNCHANGED <<occupant, statesInFlight, serverTick>>
        /\ phase = "AdvanceTime"
    BY <1>6 DEF ServerReceives, ReceivePackets, worldVars
  <2> QED
    BY <1>2, <1>6, <2>1, ServerStepsKeepConnected
<1>7. CASE ServerWorks
  <2>1. serverTick' = serverTick /\ phase \notin {"Idle", "Stopped"}
    BY <1>7
    DEF ServerWorks, ProcessMessage, StartFood, EatFood, InFoodLoop, SkipFood, StartCollisions,
        FirstEatsSecond, SecondEatsFirst, SkipPair, InPairLoop, StartRespawns, RespawnPlayer,
        StartBroadcast, BroadcastWorldState, worldVars
  <2> QED
    BY <1>2, <1>7, <2>1, ServerAlone, ServerStepsKeepConnected DEF linkVars
<1>8. CASE ServerSends
  BY <1>1, <1>8, NewsSends
<1>9. CASE ServerStops
  <2>1. statesInFlight' = {} /\ serverTick' = serverTick /\ phase' = "Stopped"
    BY <1>9 DEF ServerStops, Stop
  <2> QED
    BY <1>1, <2>1, NewsKept
<1>10. ASSUME NEW c \in Clients,
              \/ Accepted(c)
              \/ Leaves(c)
              \/ \E move \in Moves \cup {NoMove} : ClientRuns(c, move)
       PROVE  NewsInv'
  <2>1. /\ UNCHANGED <<serverVars, occupant>>
        /\ statesInFlight' \subseteq statesInFlight
    BY <1>10 DEF Accepted, Leaves, ClientRuns, linkVars
  <2>2. UNCHANGED <<connected, serverTick, phase>>
    BY <2>1 DEF serverVars, netVars, worldVars
  <2> QED
    BY <1>2, <2>1, <2>2
<1>11. CASE ServerHasStopped \/ UNCHANGED sessionVars
  <2>1. UNCHANGED <<connected, occupant, statesInFlight, serverTick, phase>>
    BY <1>11 DEF ServerHasStopped, Stopped, sessionVars, serverVars, netVars, worldVars, linkVars
  <2> QED
    BY <1>2, <2>1
<1> QED
  BY <1>3, <1>4, <1>5, <1>6, <1>7, <1>8, <1>9, <1>10, <1>11 DEF SessionNext

(* The send queues are filled and emptied within an update.                *)
LEMMA OutboxStep ==
  ASSUME SessionInv, SessionInv', OutboxIsNow, [SessionNext]_sessionVars
  PROVE  OutboxIsNow'
<1>1. Typed /\ SettledInv /\ SettledInv' /\ PacketsTyped
  BY DEF SessionInv, Linked
<1>2. CASE phase' # "SendPackets"
  <2>1. \A s \in Slots : outbox'[s] = <<>>
    BY <1>1, <1>2 DEF SettledInv, OutboxOnlyToSend
  <2> QED
    BY <2>1 DEF OutboxIsNow
<1>3. ASSUME NEW failed \in SUBSET connected, BroadcastWorldState(failed)
      PROVE  OutboxIsNow'
  <2> SUFFICES ASSUME NEW s \in Slots, NEW i \in DOMAIN outbox'[s]
               PROVE  outbox'[s][i] = WorldStateMessage(s)'
    BY DEF OutboxIsNow
  <2>1. WorldStateMessage(s)' = WorldStateMessage(s)
    BY <1>3 DEF BroadcastWorldState, worldVars, WorldStateMessage
  <2>2. outbox[s] = <<>>
    BY <1>1, <1>3 DEF BroadcastWorldState, SettledInv, OutboxOnlyToSend
  <2>3. \/ outbox'[s] = <<>>
        \/ outbox'[s] = Append(<<>>, WorldStateMessage(s))
    BY <1>3, <2>2 DEF BroadcastWorldState
  <2> HIDE DEF WorldStateMessage
  <2>4. Append(<<>>, WorldStateMessage(s)) = <<WorldStateMessage(s)>>
    OBVIOUS
  <2> QED
    BY <2>1, <2>3, <2>4
<1>4. CASE UNCHANGED serverVars
  BY <1>4 DEF OutboxIsNow, WorldStateMessage, serverVars, netVars, worldVars
<1>5. ASSUME phase' = "SendPackets"
      PROVE  \/ \E failed \in SUBSET connected : BroadcastWorldState(failed)
             \/ UNCHANGED serverVars
  <2>1. [ServerNext]_serverVars
    BY <1>1, SessionStepIsServerStep
  <2> QED
    BY <1>5, <2>1
    DEF ServerNext, ServerStep, BeginUpdate, ClientConnected, ClientDisconnected, ReceivePackets,
        ProcessMessage, StartFood, EatFood, InFoodLoop, SkipFood, StartCollisions,
        FirstEatsSecond, SecondEatsFirst, SkipPair, InPairLoop, StartRespawns, RespawnPlayer,
        StartBroadcast, SendPackets, Stop, Stopped
<1> QED
  BY <1>2, <1>3, <1>4, <1>5

LEMMA ConnectStep ==
  ASSUME Linked, FreshConnect, [SessionNext]_sessionVars
  PROVE  FreshConnect'
<1>1. clients \in [Clients -> ClientState]
  BY DEF Linked, ClientsSound
<1>2. ASSUME NEW c \in Clients,
             clients' = [clients EXCEPT ![c] = clients'[c]],
             clients'[c].status # "connecting"
      PROVE  FreshConnect'
  BY <1>1, <1>2 DEF FreshConnect
<1>3. ASSUME NEW c \in Clients, Accepted(c) PROVE FreshConnect'
  <2>1. PICK s \in Slots : ClientAccepted(c, s)
    BY <1>3 DEF Accepted
  <2>2. /\ clients' = [clients EXCEPT ![c] = clients'[c]]
        /\ clients'[c].status = "connected"
    BY <1>1, <2>1 DEF ClientAccepted, ClientState
  <2> QED
    BY <1>2, <2>2
<1>4. ASSUME NEW c \in Clients, Leaves(c) PROVE FreshConnect'
  <2>1. /\ clients' = [clients EXCEPT ![c] = clients'[c]]
        /\ clients'[c].status = "disconnected"
    BY <1>1, <1>4 DEF Leaves, ClientDropped, ClientState
  <2> QED
    BY <1>2, <2>1
<1>5. ASSUME NEW c \in Clients, NEW move \in Moves \cup {NoMove}, ClientRuns(c, move)
      PROVE  FreshConnect'
  <2>1. /\ clients' = [clients EXCEPT ![c] = clients'[c]]
        /\ clients'[c].status = "connected"
    BY <1>5, ClientRunsEffect
  <2> QED
    BY <1>2, <2>1
<1>6. CASE clients' = clients
  BY <1>6 DEF FreshConnect
<1> QED
  BY <1>3, <1>4, <1>5, <1>6
  DEF SessionNext, Update, Admit, Drop, ServerReceives, ServerWorks, ServerSends, ServerStops,
      ServerHasStopped, sessionVars

LEMMA ExactInit == SessionInit => ExactInv
<1> SUFFICES ASSUME SessionInit PROVE ExactInv
  OBVIOUS
<1>1. /\ connected = {}
      /\ statesInFlight = {}
      /\ \A s \in Slots : outbox[s] = <<>>
      /\ \A c \in Clients : ~clients[c].isLocalPlayerCreated
  BY DEF SessionInit, NobodyYet, ServerInit, EmptyServer, ClientInit
<1> QED
  BY <1>1 DEF ExactInv, NewsInv, OutboxIsNow, FreshConnect

LEMMA ExactStep ==
  ASSUME InOrder, TicksDiffer
  PROVE  SessionInv /\ SessionInv' /\ ReachInv /\ ExactInv /\ NobodyEaten /\ AckIsOwn'
           /\ [SessionNext]_sessionVars => ExactInv'
<1> SUFFICES ASSUME SessionInv, SessionInv', ReachInv, ExactInv, NobodyEaten, AckIsOwn',
                    [SessionNext]_sessionVars
             PROVE  ExactInv'
  OBVIOUS
<1>1. /\ Typed /\ InputsInv /\ SettledInv /\ Linked /\ InputsCounted
      /\ Typed' /\ Linked'
      /\ NewsInv /\ OutboxIsNow /\ FreshConnect
      /\ \A s \in connected : HasTale(s)
  BY DEF SessionInv, ReachInv, ExactInv
<1>2. NewsInv' /\ OutboxIsNow' /\ FreshConnect'
  BY <1>1, NewsStep, OutboxStep, ConnectStep
<1>3. ASSUME connected' = connected,
             \A s \in connected : \A M, P : Tale(s, M, P) => Tale(s, M, P)'
      PROVE  \A s \in connected' : HasTale(s)'
  BY <1>1, <1>3 DEF HasTale
<1>13. ASSUME ServerStops
       PROVE  \A s \in connected' : HasTale(s)'
  BY <1>13 DEF ServerStops, Stop
<1>4. ASSUME Update \/ ServerHasStopped \/ UNCHANGED sessionVars
      PROVE  \A s \in connected' : HasTale(s)'
  <2>1. UNCHANGED <<connected, inbox, lastProcessedInput, players, occupant, inputsInFlight,
                    statesInFlight, clients>>
    BY <1>4
    DEF Update, BeginUpdate, ServerHasStopped, Stopped, sessionVars, serverVars, netVars,
        worldVars, linkVars
  <2>2. ASSUME NEW s \in connected, NEW M, NEW P, Tale(s, M, P)
        PROVE  Tale(s, M, P)'
    <3>1. /\ InputsFrom(occupant[s])' = InputsFrom(occupant[s])
          /\ StatesTo(occupant[s])' = StatesTo(occupant[s])
      BY <2>1 DEF InputsFrom, StatesTo
    <3> QED
      BY <2>1, <2>2, <3>1, TaleQuiet
  <2> QED
    BY <1>3, <2>1, <2>2
<1>5. ASSUME NEW c \in Clients, NEW s \in Slots, Admit(c, s)
      PROVE  \A t \in connected' : HasTale(t)'
  <2>1. connected' = connected \cup {s} /\ occupant'[s] = c
    BY <1>1, <1>5 DEF Admit, ClientConnected, Linked, OccupantsMatch
  <2>2. Acked(s)' <= Sent(s)'
    BY <2>1, SessionAssumption DEF AckIsOwn, Acked, Sent
  <2>3. HasTale(s)' /\ \A t \in connected : HasTale(t) => HasTale(t)'
    BY <1>1, <1>5, <2>2, TaleAdmit
  <2> QED
    BY <1>1, <2>1, <2>3
<1>6. ASSUME NEW s \in Slots, Drop(s)
      PROVE  \A t \in connected' : HasTale(t)'
  <2> SUFFICES ASSUME NEW t \in connected' PROVE HasTale(t)'
    OBVIOUS
  <2>1. t \in connected
    BY <1>1, <1>6, DropSpares
  <2>2. PICK M, P : Tale(t, M, P)
    BY <1>1, <2>1 DEF HasTale
  <2>3. Tale(t, M, P)'
    BY <1>1, <1>6, <2>2, TaleDrop
  <2> QED
    BY <2>3 DEF HasTale
<1>7. ASSUME ServerReceives
      PROVE  \A s \in connected' : HasTale(s)'
  <2>1. ASSUME NEW s \in connected, NEW M, NEW P, Tale(s, M, P)
        PROVE  Tale(s, M, P)'
    BY <1>1, <1>7, <2>1, TaleReceives
  <2> QED
    BY <1>3, <1>7, <2>1, ServerStepsKeepConnected
<1>8. ASSUME ServerWorks
      PROVE  \A s \in connected' : HasTale(s)'
  <2>1. ASSUME NEW s \in connected, NEW M, NEW P, Tale(s, M, P)
        PROVE  Tale(s, M, P)'
    BY <1>1, <1>8, <2>1, TaleWork
  <2> QED
    BY <1>3, <1>8, <2>1, ServerStepsKeepConnected
<1>9. ASSUME ServerSends
      PROVE  \A s \in connected' : HasTale(s)'
  <2>1. ASSUME NEW s \in connected, NEW M, NEW P, Tale(s, M, P)
        PROVE  Tale(s, M, P)'
    BY <1>1, <1>9, <2>1, TaleSends
  <2> QED
    BY <1>3, <1>9, <2>1, ServerStepsKeepConnected
<1>10. ASSUME NEW c \in Clients, Accepted(c) \/ Leaves(c)
       PROVE  \A s \in connected' : HasTale(s)'
  <2>1. ASSUME NEW s \in connected, NEW M, NEW P, Tale(s, M, P)
        PROVE  Tale(s, M, P)'
    BY <1>1, <1>10, <2>1, TaleAcceptOrLeave
  <2>2. connected' = connected
    BY <1>10 DEF Accepted, Leaves, serverVars, netVars
  <2> QED
    BY <1>3, <2>1, <2>2
<1>11. ASSUME NEW c \in Clients, NEW move \in Moves \cup {NoMove}, ClientRuns(c, move)
       PROVE  \A s \in connected' : HasTale(s)'
  <2>1. connected' = connected
    BY <1>11 DEF ClientRuns, serverVars, netVars
  <2>2. ASSUME NEW s \in connected
        PROVE  HasTale(s)'
    <3>1. HasTale(s)
      BY <1>1
    <3> QED
      BY <1>1, <1>11, <3>1, TaleRuns
  <2> QED
    BY <2>1, <2>2
<1>12. \A s \in connected' : HasTale(s)'
  BY <1>4, <1>5, <1>6, <1>7, <1>8, <1>9, <1>10, <1>11, <1>13 DEF SessionNext
<1> QED
  BY <1>2, <1>12 DEF ExactInv

-----------------------------------------------------------------------------
(* What the property says of the moves to process is what the line says.   *)

(* Numbers that increase through an interval of as many.                   *)
LEMMA IncreasingFills ==
  ASSUME NEW m \in Nat, NEW base \in Nat, NEW a,
         \A i \in 1 .. m : a[i] \in base + 1 .. base + m,
         \A i, j \in 1 .. m : i < j => a[i] < a[j]
  PROVE  \A i \in 1 .. m : a[i] = base + i
<1> DEFINE T == {i \in 0 .. m : i = 0 \/ a[i] >= base + i}
           U == {i \in 0 .. m : i = m \/ a[m - i] <= base + (m - i)}
<1>1. 0 .. m \subseteq T
  <2>1. 0 \in T
    OBVIOUS
  <2>2. ASSUME NEW i \in 1 .. m, i - 1 \in T
        PROVE  i \in T
    <3>1. CASE i = 1
      BY <3>1
    <3>2. CASE i # 1
      <4>1. i - 1 \in 1 .. m /\ i - 1 < i
        BY <3>2
      <4>2. a[i - 1] >= base + (i - 1)
        BY <2>2, <4>1
      <4>3. a[i - 1] < a[i]
        BY <4>1
      <4>4. a[i - 1] \in Int /\ a[i] \in Int
        BY <4>1
      <4>5. a[i] >= base + i
        BY <4>2, <4>3, <4>4
      <4> QED
        BY <4>5
    <3> QED
      BY <3>1, <3>2
  <2> HIDE DEF T
  <2> QED
    BY <2>1, <2>2, IndexInduction
<1>2. 0 .. m \subseteq U
  <2>1. 0 \in U
    BY m - 0 = m
  <2>2. ASSUME NEW i \in 1 .. m, i - 1 \in U
        PROVE  i \in U
    <3>1. CASE i = m
      BY <3>1
    <3>2. CASE i # m
      <4>1. m - i \in 1 .. m /\ m - (i - 1) \in 1 .. m /\ m - i < m - (i - 1)
        BY <3>2
      <4>2. a[m - (i - 1)] <= base + (m - (i - 1))
        BY <2>2
      <4>3. a[m - i] < a[m - (i - 1)]
        BY <4>1
      <4>4. a[m - i] \in Int /\ a[m - (i - 1)] \in Int
        BY <4>1
      <4>5. a[m - i] <= base + (m - i)
        BY <4>2, <4>3, <4>4
      <4> QED
        BY <4>5
    <3> QED
      BY <3>1, <3>2
  <2> HIDE DEF U
  <2> QED
    BY <2>1, <2>2, IndexInduction
<1>3. ASSUME NEW i \in 1 .. m
      PROVE  a[i] = base + i
  <2>1. i \in T /\ m - i \in U
    BY <1>1, <1>2
  <2>2. a[i] >= base + i
    BY <2>1
  <2>3. m - (m - i) = i /\ m - i # m
    OBVIOUS
  <2>4. a[i] <= base + i
    BY <2>1, <2>3
  <2>5. a[i] \in Int
    OBVIOUS
  <2> QED
    BY <2>2, <2>4, <2>5
<1> QED
  BY <1>3

(* The inputs in flight, the oldest first, are the rest of the line.       *)
LEMMA FlyingIs ==
  ASSUME Typed, Linked, NEW s \in connected, NEW M, InLine(s, M),
         NEW base, base = Acked(s) + Len(inbox[s])
  PROVE  Flying(occupant[s]) =
           [i \in 1 .. Sent(s) - base |-> Packet(occupant[s], base + i, M[base + i])]
<1> DEFINE c == occupant[s]
           m == Sent(s) - base
           flying == InputsFrom(c)
           F == [i \in 1 .. m |-> Packet(c, base + i, M[base + i])]
           Increasing(f) == \A i, j \in DOMAIN f : i < j => InputAge(f[i]) < InputAge(f[j])
<1>1. /\ Sent(s) \in Nat
      /\ base \in Nat
      /\ m \in Nat
      /\ base + m = Sent(s)
      /\ flying \subseteq SentInput
  <2>1. /\ Sent(s) \in Nat
        /\ Acked(s) \in Nat
        /\ Len(inbox[s]) \in Nat
        /\ flying \subseteq SentInput
    BY LineTyped
  <2>2. Acked(s) + Len(inbox[s]) <= Sent(s)
    BY DEF InLine
  <2> DEFINE k == Acked(s) + Len(inbox[s])
             n == Sent(s)
  <2>3. k \in Nat /\ n \in Nat /\ k <= n /\ base = k
    BY <2>1, <2>2
  <2> HIDE DEF k, n
  <2>4. base \in Nat /\ n - base \in Nat /\ base + (n - base) = n
    BY <2>3
  <2> QED
    BY <2>1, <2>3, <2>4 DEF n
<1>2. /\ \A p \in flying : p.sequenceNumber \in base + 1 .. base + m
      /\ \A p \in flying : p = Packet(c, p.sequenceNumber, M[p.sequenceNumber])
      /\ \A k \in base + 1 .. base + m : Packet(c, k, M[k]) \in flying
  <2>1. /\ \A p \in flying : p.from = c /\ p \in SentInput
        /\ \A p \in flying : /\ p.sequenceNumber \in base + 1 .. Sent(s)
                             /\ p.move = M[p.sequenceNumber]
        /\ \A k \in base + 1 .. Sent(s) : Packet(c, k, M[k]) \in flying
    BY <1>1 DEF InLine, InputsFrom
  <2>2. \A p \in flying : p = Packet(c, p.sequenceNumber, M[p.sequenceNumber])
    BY <2>1 DEF SentInput, Packet
  <2> QED
    BY <1>1, <2>1, <2>2
<1>3. \A k : InputAge(Packet(c, k, M[k])) = k
  BY DEF InputAge, Packet
<1>4. \A p : InputAge(p) = p.sequenceNumber
  BY DEF InputAge
<1> HIDE DEF m, flying, c
<1>5. \A i \in 1 .. m : /\ base + i \in base + 1 .. base + m
                        /\ F[i] = Packet(c, base + i, M[base + i])
                        /\ InputAge(F[i]) = base + i
  BY <1>1, <1>3
<1>6. F \in [1 .. m -> flying] /\ DOMAIN F = 1 .. m
  <2>1. \A i \in 1 .. m : F[i] \in flying
    BY <1>2, <1>5
  <2> QED
    BY <2>1
<1> HIDE DEF F
<1>7. Increasing(F)
  <2>1. ASSUME NEW i \in DOMAIN F, NEW j \in DOMAIN F, i < j
        PROVE  InputAge(F[i]) < InputAge(F[j])
    BY <1>1, <1>5, <1>6, <2>1
  <2> QED
    BY <2>1
<1>8. ASSUME NEW f \in [1 .. m -> flying], Increasing(f)
      PROVE  f = F
  <2> DEFINE a == [i \in 1 .. m |-> InputAge(f[i])]
  <2>1. \A i \in 1 .. m : f[i] \in flying /\ a[i] \in base + 1 .. base + m
    BY <1>2, <1>4
  <2>2. \A i, j \in 1 .. m : i < j => a[i] < a[j]
    BY <1>8
  <2>3. \A i \in 1 .. m : a[i] = InputAge(f[i])
    OBVIOUS
  <2> HIDE DEF a
  <2>4. \A i \in 1 .. m : a[i] = base + i
    BY <1>1, <2>1, <2>2, IncreasingFills
  <2>5. ASSUME NEW i \in 1 .. m PROVE f[i] = F[i]
    <3>1. f[i].sequenceNumber = base + i
      BY <1>4, <2>3, <2>4
    <3>2. f[i] = Packet(c, base + i, M[base + i])
      BY <1>2, <2>1, <3>1
    <3> QED
      BY <1>5, <3>2
  <2>6. f = [i \in 1 .. m |-> f[i]] /\ F = [i \in 1 .. m |-> F[i]]
    BY <1>6
  <2> QED
    BY <2>5, <2>6, Zenon
<1>9. Cardinality(flying) = m
  <2>1. \A i, j \in 1 .. m : F[i] = F[j] => i = j
    <3>1. ASSUME NEW i \in 1 .. m, NEW j \in 1 .. m, F[i] = F[j]
          PROVE  i = j
      <4>1. base + i = base + j
        BY <1>5, <3>1
      <4> QED
        BY <1>1, <4>1
    <3> QED
      BY <3>1
  <2>2. ASSUME NEW p \in flying PROVE \E i \in 1 .. m : F[i] = p
    <3>1. PICK i \in Int : i = p.sequenceNumber - base
      BY <1>1, <1>2
    <3>2. i \in 1 .. m /\ base + i = p.sequenceNumber
      BY <1>1, <1>2, <3>1
    <3>3. F[i] = p
      BY <1>2, <1>5, <3>2
    <3> QED
      BY <3>2, <3>3
  <2>3. F \in Bijection(1 .. m, flying)
    BY <1>6, <2>1, <2>2 DEF Bijection, Injection, Surjection, IsInjective
  <2>4. IsFiniteSet(1 .. m) /\ Cardinality(1 .. m) = m
    <3>1. m \in Nat
      BY <1>1
    <3> QED
      BY <3>1, FS_Interval
  <2>5. ExistsBijection(1 .. m, flying)
    BY <2>3 DEF ExistsBijection
  <2> QED
    BY <2>4, <2>5, FS_Bijection
<1>10. Flying(c) = CHOOSE f \in [1 .. m -> flying] : Increasing(f)
  BY <1>9 DEF Flying, flying
<1> HIDE DEF Increasing
<1>11. (CHOOSE f \in [1 .. m -> flying] : Increasing(f)) = F
  BY <1>6, <1>8
<1> QED
  BY <1>10, <1>11 DEF F, m, c

(* The moves the server has yet to process are the line's, from the        *)
(* acknowledgement on.                                                     *)
LEMMA MovesToProcessIs ==
  ASSUME Typed, Linked, NEW s \in connected, NEW M, InLine(s, M)
  PROVE  LET moves == MovesToProcess(s)
         IN  /\ Len(moves) = Sent(s) - Acked(s)
             /\ moves \in [1 .. Len(moves) -> Moves]
             /\ \A i \in 1 .. Len(moves) : moves[i] = M[Acked(s) + i]
<1> DEFINE c == occupant[s]
           n == Sent(s)
           L == Acked(s)
           b == Len(inbox[s])
           base == L + b
           m == n - base
           payload == InputPayload(Flying(c))
           inputs == inbox[s] \o payload
           moves == MovesToProcess(s)
<1>1. /\ n \in Nat
      /\ L \in Nat
      /\ b \in Nat
      /\ inbox[s] \in Seq(PlayerInputMessage)
      /\ base <= n
      /\ M \in [1 .. n -> Moves]
  <2>1. Sent(s) \in Nat /\ Acked(s) \in Nat /\ Len(inbox[s]) \in Nat
    BY LineTyped
  <2> QED
    BY <2>1, LineTyped DEF InLine
<1>2. Flying(c) = [i \in 1 .. m |-> Packet(c, base + i, M[base + i])]
  <2> PICK k : k = base
    OBVIOUS
  <2>1. Flying(occupant[s]) =
          [i \in 1 .. Sent(s) - k |-> Packet(occupant[s], k + i, M[k + i])]
    BY FlyingIs
  <2> QED
    BY <2>1
<1>3. \A i \in 1 .. b : inbox[s][i] = [sequenceNumber |-> L + i, move |-> M[L + i]]
  BY DEF InLine
<1>4. moves = [i \in DOMAIN inputs |-> inputs[i].move]
  BY DEF MovesToProcess
<1> HIDE DEF n, L, b, moves
<1>5. m \in Nat /\ base \in Nat /\ b + m = n - L
  BY <1>1
<1>6. \A i \in 1 .. m : base + i \in 1 .. n
  BY <1>1
<1> HIDE DEF m
<1>7. /\ payload = [i \in 1 .. m |-> [sequenceNumber |-> base + i, move |-> M[base + i]]]
      /\ payload \in Seq(PlayerInputMessage)
      /\ Len(payload) = m
  <2>1. /\ DOMAIN Flying(c) = 1 .. m
        /\ \A i \in 1 .. m : /\ Flying(c)[i].sequenceNumber = base + i
                             /\ Flying(c)[i].move = M[base + i]
    BY <1>2 DEF Packet
  <2>2. payload = [i \in 1 .. m |-> [sequenceNumber |-> base + i, move |-> M[base + i]]]
    BY <2>1 DEF InputPayload
  <2> HIDE DEF payload
  <2>3. ASSUME NEW i \in 1 .. m PROVE payload[i] \in PlayerInputMessage
    <3>1. base + i \in Nat /\ M[base + i] \in Moves
      BY <1>1, <1>5, <1>6
    <3> HIDE DEF base
    <3> QED
      BY <2>2, <3>1 DEF PlayerInputMessage
  <2>4. payload \in [1 .. m -> PlayerInputMessage]
    BY <2>2, <2>3
  <2> QED
    BY <1>5, <2>2, <2>4
<1>8. /\ inputs \in Seq(PlayerInputMessage)
      /\ Len(inputs) = b + m
      /\ \A i \in 1 .. b + m : inputs[i] = IF i <= b THEN inbox[s][i] ELSE payload[i - b]
  <2> HIDE DEF payload
  <2>1. /\ inbox[s] \o payload \in Seq(PlayerInputMessage)
        /\ Len(inbox[s] \o payload) = Len(inbox[s]) + Len(payload)
        /\ \A i \in 1 .. Len(inbox[s]) + Len(payload) :
             (inbox[s] \o payload)[i] =
               IF i <= Len(inbox[s]) THEN inbox[s][i] ELSE payload[i - Len(inbox[s])]
    BY <1>1, <1>7, ConcatProperties, Zenon
  <2>2. Len(inbox[s]) = b /\ Len(payload) = m
    BY <1>7 DEF b
  <2> QED
    BY <2>1, <2>2, Zenon
<1>9. ASSUME NEW i \in 1 .. b + m
      PROVE  inputs[i].move = M[L + i] /\ L + i \in 1 .. n
  <2>1. CASE i <= b
    <3>1. i \in 1 .. b
      BY <1>1, <1>5, <2>1
    <3>2. inputs[i].move = M[L + i]
      <4>1. inputs[i] = inbox[s][i]
        BY <1>8, <2>1
      <4> HIDE DEF inputs
      <4>2. inbox[s][i] = [sequenceNumber |-> L + i, move |-> M[L + i]]
        BY <1>3, <3>1
      <4> QED
        BY <4>1, <4>2
    <3>3. L + i \in 1 .. n
      BY <1>1, <1>5, <3>1
    <3> QED
      BY <3>2, <3>3
  <2>2. CASE ~(i <= b)
    <3>1. PICK j \in Int : j = i - b
      BY <1>1, <1>5
    <3>2. j \in 1 .. m /\ base + j = L + i
      BY <1>1, <1>5, <2>2, <3>1
    <3>3. payload[j].move = M[base + j]
      BY <1>7, <3>2
    <3>4. inputs[i] = payload[j]
      BY <1>8, <2>2, <3>1
    <3> QED
      BY <1>6, <3>2, <3>3, <3>4
  <2> QED
    BY <2>1, <2>2
<1> HIDE DEF inputs
<1>10. DOMAIN inputs = 1 .. b + m
  BY <1>8
<1>11. ASSUME NEW i \in 1 .. b + m
       PROVE  moves[i] = M[L + i] /\ moves[i] \in Moves
  BY <1>1, <1>4, <1>9, <1>10
<1>12. moves \in [1 .. b + m -> Moves]
  <2>1. moves = [i \in 1 .. b + m |-> moves[i]]
    BY <1>4, <1>10
  <2> QED
    BY <1>11, <2>1
<1>13. b + m \in Nat
  BY <1>1, <1>5
<1>14. Len(moves) = b + m
  BY <1>12, <1>13
<1> QED
  BY <1>5, <1>11, <1>12, <1>14 DEF moves, n, L

(* Whatever goes through the moves one by one ends where WillBeAt ends.    *)
LEMMA WillBeAtIs ==
  ASSUME NEW moves, Len(moves) \in Nat, NEW Q, NEW position,
         Q = [i \in 0 .. Len(moves) |-> Q[i]],
         Q[0] = position,
         \A i \in 1 .. Len(moves) : Q[i] = Moved(Q[i - 1], moves[i])
  PROVE  WillBeAt(position, moves) = Q[Len(moves)]
<1> DEFINE r == Len(moves)
           Body(g) == [i \in 0 .. r |-> IF i = 0 THEN position ELSE Moved(g[i - 1], moves[i])]
           at == CHOOSE g : g = Body(g)
<1>1. Q = Body(Q)
  <2>1. \A i \in 0 .. r : Q[i] = IF i = 0 THEN position ELSE Moved(Q[i - 1], moves[i])
    OBVIOUS
  <2> HIDE DEF r
  <2> QED
    BY <2>1 DEF r
<1>2. at = Body(at)
  <2> HIDE DEF Body
  <2> QED
    BY <1>1
<1>3. WillBeAt(position, moves) = at[r]
  BY DEF WillBeAt
<1>4. /\ at[0] = position
      /\ \A i \in 1 .. r : at[i] = Moved(at[i - 1], moves[i])
  <2> HIDE DEF at
  <2> QED
    BY <1>2
<1> HIDE DEF at
<1> DEFINE T == {i \in 0 .. r : at[i] = Q[i]}
<1>5. 0 \in T /\ \A i \in 1 .. r : i - 1 \in T => i \in T
  <2>1. 0 \in T
    BY <1>4
  <2>2. ASSUME NEW i \in 1 .. r, i - 1 \in T
        PROVE  i \in T
    <3>1. at[i - 1] = Q[i - 1]
      BY <2>2
    <3>2. at[i] = Moved(at[i - 1], moves[i]) /\ Q[i] = Moved(Q[i - 1], moves[i])
      BY <1>4
    <3> QED
      BY <3>1, <3>2
  <2> QED
    BY <2>1, <2>2
<1>6. 0 .. r \subseteq T
  <2>1. r \in Nat
    OBVIOUS
  <2> HIDE DEF r, T
  <2> QED
    BY <1>5, <2>1, IndexInduction
<1>7. at[r] = Q[r]
  BY <1>6
<1> QED
  BY <1>3, <1>7

(* Where the moves to process lead from where the server has the player,   *)
(* position by position.                                                   *)
Trail(s, Q) ==
  LET moves == MovesToProcess(s)
  IN  /\ Q = [i \in 0 .. Len(moves) |-> Q[i]]
      /\ Q[0] = players[s].position
      /\ \A i \in 1 .. Len(moves) : Q[i] = Moved(Q[i - 1], moves[i])

(* The server goes down the rest of the path, and the client shows its end.*)
LEMMA PathTrail ==
  ASSUME Typed, Linked, NEW s \in connected, NEW M, NEW P, InLine(s, M),
         Walk(Sent(s), M, P), players[s].position = P[Acked(s)]
  PROVE  \E Q : Trail(s, Q) /\ Q[Len(MovesToProcess(s))] = P[Sent(s)]
<1> DEFINE n == Sent(s)
           L == Acked(s)
           moves == MovesToProcess(s)
           r == Len(moves)
<1>1. n \in Nat /\ L \in Nat /\ L <= n
  <2>1. n \in Nat /\ L \in Nat /\ Len(inbox[s]) \in Nat
    BY LineTyped
  <2>2. L + Len(inbox[s]) <= n
    BY DEF InLine
  <2> QED
    BY <2>1, <2>2
<1>2. r = n - L /\ \A i \in 1 .. r : moves[i] = M[L + i]
  BY MovesToProcessIs
<1>3. /\ P \in [0 .. n -> Position]
      /\ \A k \in 1 .. n : P[k] = Moved(P[k - 1], M[k])
  BY DEF Walk
<1> HIDE DEF n, L, moves, r
<1>4. r \in Nat
  BY <1>1, <1>2
<1> DEFINE Q == [i \in 0 .. r |-> P[L + i]]
<1>5. Q[0] = P[L] /\ Q[r] = P[n]
  BY <1>1, <1>2, <1>4
<1>6. ASSUME NEW i \in 1 .. r
      PROVE  Q[i] = Moved(Q[i - 1], moves[i])
  <2>1. PICK k \in Int : k = L + i
    BY <1>1
  <2>2. k \in 1 .. n /\ k - 1 = L + (i - 1)
    BY <1>1, <1>2, <2>1
  <2>3. P[k] = Moved(P[k - 1], M[k])
    BY <1>3, <2>2
  <2>4. Q[i] = P[k] /\ Q[i - 1] = P[k - 1] /\ moves[i] = M[k]
    BY <1>2, <1>4, <2>1, <2>2
  <2> QED
    BY <2>3, <2>4
<1>7. Q = [i \in 0 .. r |-> Q[i]]
  OBVIOUS
<1> HIDE DEF Q
<1>8. Trail(s, Q)
  BY <1>5, <1>6, <1>7 DEF Trail, L, moves, r
<1> QED
  BY <1>5, <1>8 DEF moves, n, r

LEMMA TaleIsExact ==
  ASSUME Typed, Linked, NEW s \in connected, HasTale(s),
         clients[occupant[s]].status = "connected",
         clients[occupant[s]].isLocalPlayerCreated,
         Len(clients[occupant[s]].inputHistory) < MAX_INPUT_HISTORY
  PROVE  clients[occupant[s]].predictedPlayer.position =
           WillBeAt(players[s].position, MovesToProcess(s))
<1> DEFINE client == clients[occupant[s]]
           moves == MovesToProcess(s)
<1>1. PICK M, P : Tale(s, M, P)
  BY DEF HasTale
<1>2. /\ InLine(s, M)
      /\ Walk(Sent(s), M, P)
      /\ players[s].position = P[Acked(s)]
      /\ Remembers(client, M)
      /\ BasedOn(client, P, Acked(s))
  BY <1>1 DEF Tale, Follows, Believes
<1>3. /\ Acked(s) \in Nat
      /\ ClientInv(client)
      /\ client.inputSequence = Sent(s)
      /\ Sent(s) \in Nat
  BY LineTyped DEF Linked, ClientsSound, Sent
<1>4. client.predictedPlayer.position = P[Sent(s)]
  <2> HIDE DEF client
  <2>1. client.isLocalPlayerCreated /\ Len(client.inputHistory) < MAX_INPUT_HISTORY
    BY DEF client
  <2> QED
    BY <1>2, <1>3, <2>1, PredictionOnPath
<1>5. PICK Q : Trail(s, Q) /\ Q[Len(moves)] = P[Sent(s)]
  BY <1>2, PathTrail
<1>6. Len(moves) \in Nat
  <2>1. Len(moves) = Sent(s) - Acked(s)
    BY <1>2, MovesToProcessIs
  <2>2. Acked(s) + Len(inbox[s]) <= Sent(s) /\ Len(inbox[s]) \in Nat
    BY <1>2, LineTyped DEF InLine
  <2> QED
    BY <1>3, <2>1, <2>2
<1> HIDE DEF moves
<1>7. WillBeAt(players[s].position, moves) = Q[Len(moves)]
  BY <1>5, <1>6, WillBeAtIs DEF Trail, moves
<1> QED
  BY <1>4, <1>5, <1>7 DEF client, moves

LEMMA ExactCore ==
  ASSUME InOrder, TicksDiffer
  PROVE  SessionSpec /\ []AckIsOwn /\ []NobodyEaten => []ExactInv
<1>1. SessionInit => ReachInv
  BY ReachInit DEF SessionInit, ServerInit
<1> QED
  BY <1>1, ExactInit, ExactStep, ReachStep, SessionCore, PTL DEF SessionSpec

(* Prediction is exact: on a network that keeps the order, as long as      *)
(* nobody is eaten and acknowledgements are the client's own, a client     *)
(* shows its player exactly where ReceivePlayerInputMessage will have put  *)
(* it once the inputs on their way are processed.  It holds for every      *)
(* number of clients and slots, burst of inputs and depth of the history;  *)
(* TicksDiffer excludes sessions in which serverTick turns around.         *)
THEOREM PredictionsAreExact ==
  ASSUME InOrder, TicksDiffer
  PROVE  SessionSpec /\ []AckIsOwn /\ []NobodyEaten => []PredictionIsExact
<1>1. SessionInv /\ ExactInv => PredictionIsExact
  <2> SUFFICES ASSUME SessionInv, ExactInv, NEW s \in Slots,
                      occupant[s] # NoClient,
                      clients[occupant[s]].status = "connected",
                      clients[occupant[s]].isLocalPlayerCreated,
                      Len(clients[occupant[s]].inputHistory) < MAX_INPUT_HISTORY
               PROVE  clients[occupant[s]].predictedPlayer.position =
                        WillBeAt(players[s].position, MovesToProcess(s))
    BY DEF PredictionIsExact
  <2>1. s \in connected
    BY DEF SessionInv, Linked, OccupantsMatch
  <2>2. Typed /\ Linked /\ HasTale(s)
    BY <2>1 DEF SessionInv, ExactInv
  <2> QED
    BY <2>1, <2>2, TaleIsExact
<1> QED
  BY <1>1, ExactCore, SessionCore, PTL

(* With one client there is one player at most, and it does not eat itself.*)
LEMMA NobodyStep ==
  ASSUME OneClient
  PROVE  SessionInv /\ NobodyEaten /\ [SessionNext]_sessionVars => NobodyEaten'
<1> SUFFICES ASSUME SessionInv, NobodyEaten, [SessionNext]_sessionVars
             PROVE  NobodyEaten'
  OBVIOUS
<1>1. Typed /\ Linked /\ PacketsTyped
  BY DEF SessionInv, Linked
<1>2. \A s, t \in connected : s = t
  <2>1. \A s \in connected : s \in Slots /\ occupant[s] \in Clients
    BY <1>1, LineTyped
  <2> QED
    BY <1>1, <2>1, SessionAssumption DEF OneClient, Linked, OccupantsMatch
<1>3. [ServerNext]_serverVars
  BY <1>1, SessionStepIsServerStep
<1>4. ~(FirstEatsSecond \/ SecondEatsFirst)
  <2> SUFFICES ASSUME FirstEatsSecond \/ SecondEatsFirst PROVE FALSE
    OBVIOUS
  <2>1. /\ order \in Seq(connected)
        /\ it1 \in Nat \ {0}
        /\ it2 \in Nat
        /\ it1 < it2
        /\ it2 <= Len(order)
        /\ \/ Dominates(order[it1], order[it2])
           \/ Dominates(order[it2], order[it1])
    BY <1>1 DEF FirstEatsSecond, SecondEatsFirst, InPairLoop, Typed, LoopsTyped, LoopsFitPhase
  <2>2. it1 \in 1 .. Len(order) /\ it2 \in 1 .. Len(order)
    BY <2>1
  <2>3. order[it1] \in connected /\ order[it2] \in connected
    BY <2>1, <2>2
  <2>4. order[it1] = order[it2]
    BY <1>2, <2>3
  <2>5. players[order[it1]].size \in Nat
    BY <1>1, <2>3 DEF Typed, PlayersTyped, PlayerState
  <2> QED
    BY <2>1, <2>4, <2>5 DEF Dominates
<1> QED
  BY <1>3, <1>4
  DEF ServerNext, ServerStep, BeginUpdate, ClientConnected, ClientDisconnected, ReceivePackets,
      ProcessMessage, StartFood, EatFood, SkipFood, StartCollisions, SkipPair, StartRespawns,
      RespawnPlayer, StartBroadcast, BroadcastWorldState, SendPackets, Stop, Stopped,
      serverVars, loopVars, NobodyEaten

LEMMA NobodyIsEaten ==
  ASSUME OneClient
  PROVE  SessionSpec => []NobodyEaten
<1>1. SessionInit => NobodyEaten
  BY DEF SessionInit, NobodyYet, ServerInit, EmptyServer, NobodyEaten
<1> QED
  BY <1>1, NobodyStep, SessionCore, PTL DEF SessionSpec

(* The case the runs check, and the hypotheses' witness: one client on an  *)
(* orderly network is never eaten, and is acknowledged its own inputs.     *)
COROLLARY PredictionOfOneClient ==
  ASSUME InOrder, TicksDiffer, OneClient
  PROVE  SessionSpec => []PredictionIsExact
BY PredictionsAreExact, AcksAreOwn, NobodyIsEaten, PTL

-----------------------------------------------------------------------------
(* What the player at the keyboard sees: the steps of Prediction.          *)

(* The moves of M from L to n, which the server has yet to process.        *)
Rest(M, L, n) == [i \in 1 .. n - L |-> M[L + i]]

LineMoves ==
  \A s \in connected : \A M : InLine(s, M) => MovesToProcess(s) = Rest(M, Acked(s), Sent(s))

LEMMA LineMovesHold == SessionInv => LineMoves
<1> SUFFICES ASSUME SessionInv, NEW s \in connected, NEW M, InLine(s, M)
             PROVE  MovesToProcess(s) = Rest(M, Acked(s), Sent(s))
  BY DEF LineMoves
<1> DEFINE moves == MovesToProcess(s)
           r == Sent(s) - Acked(s)
<1>1. Typed /\ Linked
  BY DEF SessionInv
<1>2. /\ Len(moves) = r
      /\ moves \in [1 .. Len(moves) -> Moves]
      /\ \A i \in 1 .. Len(moves) : moves[i] = M[Acked(s) + i]
  BY <1>1, MovesToProcessIs
<1> HIDE DEF moves
<1>3. moves = [i \in 1 .. r |-> moves[i]]
  BY <1>2
<1>4. moves = [i \in 1 .. r |-> M[Acked(s) + i]]
  BY <1>2, <1>3
<1> QED
  BY <1>4 DEF Rest, moves

(* One move more leads one step further.                                   *)
LEMMA TrailGoesOn ==
  ASSUME NEW s, NEW Q, Trail(s, Q), NEW move,
         NEW moves, moves = MovesToProcess(s), moves \in Seq(Moves), move \in Moves
  PROVE  WillBeAt(players[s].position, Append(moves, move)) =
           Moved(WillBeAt(players[s].position, moves), move)
<1> DEFINE r == Len(moves)
           longer == Append(moves, move)
           R == [i \in 0 .. r + 1 |-> IF i <= r THEN Q[i] ELSE Moved(Q[r], move)]
           position == players[s].position
<1>1. /\ r \in Nat
      /\ Len(longer) = r + 1
      /\ \A i \in 1 .. r : longer[i] = moves[i]
      /\ longer[r + 1] = move
  OBVIOUS
<1>2. /\ Q = [i \in 0 .. r |-> Q[i]]
      /\ Q[0] = position
      /\ \A i \in 1 .. r : Q[i] = Moved(Q[i - 1], moves[i])
  BY DEF Trail
<1>3. WillBeAt(position, moves) = Q[r]
  BY <1>1, <1>2, WillBeAtIs
<1> HIDE DEF r, longer, position
<1>4. /\ R = [i \in 0 .. r + 1 |-> R[i]]
      /\ R[0] = position
      /\ R[r + 1] = Moved(Q[r], move)
  BY <1>1, <1>2
<1>5. ASSUME NEW i \in 1 .. r + 1
      PROVE  R[i] = Moved(R[i - 1], longer[i])
  <2>1. i - 1 \in 0 .. r /\ R[i - 1] = Q[i - 1]
    BY <1>1
  <2>2. CASE i = r + 1
    BY <1>1, <1>4, <2>1, <2>2
  <2>3. CASE i # r + 1
    <3>1. i \in 1 .. r /\ R[i] = Q[i]
      BY <1>1, <2>3
    <3> QED
      BY <1>1, <1>2, <2>1, <3>1
  <2> QED
    BY <2>2, <2>3
<1> HIDE DEF R
<1>6. WillBeAt(position, longer) = R[r + 1]
  <2>1. PICK k \in Nat : k = r + 1
    BY <1>1
  <2>2. /\ Len(longer) = k
        /\ R = [i \in 0 .. k |-> R[i]]
        /\ \A i \in 1 .. k : R[i] = Moved(R[i - 1], longer[i])
    BY <1>1, <1>4, <1>5, <2>1
  <2>3. WillBeAt(position, longer) = R[k]
    BY <1>4, <2>2, WillBeAtIs
  <2> QED
    BY <2>1, <2>3
<1> QED
  BY <1>3, <1>4, <1>6 DEF longer, position

LEMMA RestIsSeq ==
  ASSUME NEW n \in Nat, NEW L \in 0 .. n, NEW M \in [1 .. n -> Moves]
  PROVE  /\ Rest(M, L, n) \in Seq(Moves)
         /\ Len(Rest(M, L, n)) = n - L
         /\ \A i \in 1 .. n - L : Rest(M, L, n)[i] = M[L + i]
<1>1. PICK r \in Nat : r = n - L
  OBVIOUS
<1>2. Rest(M, L, n) = [i \in 1 .. r |-> M[L + i]]
  BY <1>1 DEF Rest
<1>3. \A i \in 1 .. r : M[L + i] \in Moves
  <2>1. \A i \in 1 .. r : L + i \in 1 .. n
    BY <1>1
  <2> QED
    BY <2>1
<1>4. Rest(M, L, n) \in [1 .. r -> Moves]
  BY <1>2, <1>3
<1> QED
  BY <1>1, <1>2, <1>4

(* What a step of a session does to one player: nothing, or the server     *)
(* processes an input of its client, or the client sends one more.         *)
Rests(s) ==
  /\ players'[s].position = players[s].position
  /\ MovesToProcess(s)' = MovesToProcess(s)

Advances(s) ==
  /\ MovesToProcess(s) # <<>>
  /\ MovesToProcess(s)' = Tail(MovesToProcess(s))
  /\ players'[s].position = Moved(players[s].position, Head(MovesToProcess(s)))
  /\ UNCHANGED clients

Grows(s) ==
  /\ players'[s].position = players[s].position
  /\ \E move \in Moves : MovesToProcess(s)' = Append(MovesToProcess(s), move)

LEMMA MovesUntouched ==
  ASSUME NEW s,
         players'[s].position = players[s].position,
         occupant'[s] = occupant[s],
         InputsFrom(occupant[s])' = InputsFrom(occupant[s]),
         inbox'[s] = inbox[s]
  PROVE  Rests(s)
<1>1. Flying(occupant[s])' = Flying(occupant[s])
  BY DEF Flying
<1>2. MovesToProcess(s)' = MovesToProcess(s)
  BY <1>1 DEF MovesToProcess
<1> QED
  BY <1>2 DEF Rests

LEMMA WorkMoves ==
  ASSUME Typed, Linked, NobodyEaten, LineMoves, LineMoves',
         ServerWorks, NEW s \in connected, InSomeLine(s)
  PROVE  Rests(s) \/ Advances(s)
<1>1. UNCHANGED <<clients, occupant, inputsInFlight>>
  BY ServerAlone DEF linkVars
<1>2. PICK M : InLine(s, M)
  BY DEF InSomeLine
<1>3. InLine(s, M)'
  BY <1>2, LineWork
<1>4. s \in connected' /\ Sent(s)' = Sent(s)
  BY <1>1, ServerStepsKeepConnected DEF Sent
<1>5. /\ MovesToProcess(s) = Rest(M, Acked(s), Sent(s))
      /\ MovesToProcess(s)' = Rest(M, Acked(s)', Sent(s))
  BY <1>2, <1>3, <1>4 DEF LineMoves
<1>6. CASE Still(s)
  BY <1>5, <1>6 DEF Still, Rests, Acked
<1>7. CASE Processes(s)
  <2> DEFINE L == Acked(s)
             n == Sent(s)
  <2>1. /\ L + 1 \in 1 .. n
        /\ Head(inbox[s]) = [sequenceNumber |-> L + 1, move |-> M[L + 1]]
        /\ Acked(s)' = L + 1
    BY <1>2, <1>7, LineProcess
  <2>2. L \in Nat /\ n \in Nat /\ M \in [1 .. n -> Moves]
    BY <1>2, LineTyped DEF InLine
  <2>3. /\ MovesToProcess(s) = Rest(M, L, n)
        /\ MovesToProcess(s)' = Rest(M, L + 1, n)
    BY <1>5, <2>1
  <2>4. players'[s].position = Moved(players[s].position, M[L + 1])
    BY <1>7, <2>1 DEF Processes
  <2> HIDE DEF L, n
  <2>5. /\ Rest(M, L, n) \in Seq(Moves)
        /\ Len(Rest(M, L, n)) = n - L
        /\ \A i \in 1 .. n - L : Rest(M, L, n)[i] = M[L + i]
    <3>1. L \in 0 .. n
      BY <2>1, <2>2
    <3> QED
      BY <2>2, <3>1, RestIsSeq
  <2>6. Rest(M, L, n) # <<>> /\ Head(Rest(M, L, n)) = M[L + 1]
    BY <2>1, <2>2, <2>5
  <2>7. Tail(Rest(M, L, n)) = Rest(M, L + 1, n)
    <3>1. Tail(Rest(M, L, n)) = [i \in 1 .. n - (L + 1) |-> Rest(M, L, n)[i + 1]]
      <4>1. PICK rest : rest = Rest(M, L, n)
        OBVIOUS
      <4>2. /\ Tail(rest) \in Seq(Moves)
            /\ Len(Tail(rest)) = Len(rest) - 1
            /\ \A i \in 1 .. Len(Tail(rest)) : Tail(rest)[i] = rest[i + 1]
        BY <2>5, <2>6, <4>1, HeadTailProperties
      <4>3. Tail(rest) = [i \in 1 .. Len(Tail(rest)) |-> Tail(rest)[i]]
        <5>1. PICK tail : tail = Tail(rest)
          OBVIOUS
        <5>2. tail \in [1 .. Len(tail) -> Moves]
          BY <4>2, <5>1, LenProperties
        <5>3. tail = [i \in 1 .. Len(tail) |-> tail[i]]
          BY <5>2
        <5> QED
          BY <5>1, <5>3
      <4>4. Len(rest) - 1 = n - (L + 1)
        BY <2>2, <2>5, <4>1
      <4> QED
        BY <4>1, <4>2, <4>3, <4>4
    <3>2. \A i \in 1 .. n - (L + 1) : Rest(M, L, n)[i + 1] = M[(L + 1) + i]
      <4> SUFFICES ASSUME NEW i \in 1 .. n - (L + 1)
                   PROVE  Rest(M, L, n)[i + 1] = M[(L + 1) + i]
        OBVIOUS
      <4>1. i + 1 \in 1 .. n - L /\ L + (i + 1) = (L + 1) + i
        BY <2>2
      <4> QED
        BY <2>5, <4>1
    <3>3. Rest(M, L + 1, n) = [i \in 1 .. n - (L + 1) |-> M[(L + 1) + i]]
      BY DEF Rest
    <3> QED
      BY <3>1, <3>2, <3>3
  <2> QED
    BY <1>1, <2>3, <2>4, <2>6, <2>7 DEF Advances
<1>8. ~Reappears(s)
  BY DEF Reappears, NobodyEaten
<1> QED
  BY <1>6, <1>7, <1>8, WorkEffect

LEMMA RunMoves ==
  ASSUME Typed, Linked, InOrder, LineMoves, LineMoves', NEW c \in Clients,
         NEW move \in Moves \cup {NoMove}, ClientRuns(c, move), NEW s \in connected, InSomeLine(s)
  PROVE  Rests(s) \/ Grows(s)
<1> DEFINE last   == clients[c].inputSequence
           packet == [from |-> c, sequenceNumber |-> last + 1, move |-> move]
<1>1. /\ UNCHANGED <<serverVars, occupant>>
      /\ \A d \in Clients \ {c} : InputsFrom(d)' = InputsFrom(d)
      /\ \/ InputsFrom(c)' = InputsFrom(c)
         \/ /\ clients'[c].inputSequence = last + 1
            /\ move \in Moves
            /\ InputsFrom(c)' = InputsFrom(c) \cup {packet}
  BY RunsSend
<1>2. s \in Slots /\ occupant[s] \in Clients
  BY LineTyped
<1>3. UNCHANGED <<occupant, inbox, lastProcessedInput, players, connected>>
  BY <1>1 DEF serverVars, netVars, worldVars
<1>4. CASE InputsFrom(occupant[s])' = InputsFrom(occupant[s])
  BY <1>3, <1>4, MovesUntouched
<1>5. CASE InputsFrom(occupant[s])' # InputsFrom(occupant[s])
  <2> DEFINE n == Sent(s)
             L == Acked(s)
  <2>1. occupant[s] = c
    <3> SUFFICES ASSUME occupant[s] # c PROVE FALSE
      OBVIOUS
    <3>1. \A d \in Clients \ {c} : InputsFrom(d)' = InputsFrom(d)
      BY <1>1
    <3> QED
      BY <1>2, <1>3, <1>5, <3>1 DEF InputsFrom
  <2>2. /\ clients'[c].inputSequence = last + 1
        /\ move \in Moves
        /\ InputsFrom(occupant[s])' = InputsFrom(occupant[s]) \cup {Packet(occupant[s], n + 1, move)}
    <3>1. InputsFrom(c)' # InputsFrom(c)
      BY <1>3, <1>5, <2>1 DEF InputsFrom
    <3>2. packet = Packet(occupant[s], n + 1, move)
      BY <2>1 DEF Packet, Sent
    <3> QED
      BY <1>1, <1>3, <2>1, <3>1, <3>2 DEF InputsFrom
  <2>3. Sent(s)' = n + 1 /\ Acked(s)' = L
    BY <1>3, <2>1, <2>2 DEF Sent, Acked
  <2>4. PICK M : InLine(s, M)
    BY DEF InSomeLine
  <2>5. PICK N : N = Prolonged(M, Sent(s), move)
    OBVIOUS
  <2>6. InLine(s, N)'
    BY <1>1, <2>2, <2>3, <2>4, <2>5, LineSend
  <2>7. /\ MovesToProcess(s) = Rest(M, L, n)
        /\ MovesToProcess(s)' = Rest(N, L, n + 1)
    BY <1>3, <2>3, <2>4, <2>6 DEF LineMoves
  <2>8. /\ n \in Nat
        /\ L \in 0 .. n
        /\ M \in [1 .. n -> Moves]
    <3>1. Sent(s) \in Nat /\ Acked(s) \in Nat /\ Len(inbox[s]) \in Nat
      BY LineTyped
    <3> QED
      BY <2>4, <3>1 DEF InLine
  <2> HIDE DEF L
  <2>9. Rest(N, L, n + 1) = Append(Rest(M, L, n), move)
    <3>1. /\ Rest(M, L, n) \in Seq(Moves)
          /\ Len(Rest(M, L, n)) = n - L
          /\ \A i \in 1 .. n - L : Rest(M, L, n)[i] = M[L + i]
      BY <2>8, RestIsSeq
    <3>2. N = Prolonged(M, n, move)
      BY <2>5
    <3> HIDE DEF n
    <3>3. PICK r \in Nat : r = n - L /\ (n + 1) - L = r + 1
      BY <2>8
    <3>4. Append(Rest(M, L, n), move) =
            [i \in 1 .. r + 1 |-> IF i = r + 1 THEN move ELSE Rest(M, L, n)[i]]
      <4>1. PICK rest : rest = Rest(M, L, n)
        OBVIOUS
      <4>2. rest \in Seq(Moves) /\ Len(rest) = r
        BY <3>1, <3>3, <4>1
      <4>3. PICK longer : longer = Append(rest, move)
        OBVIOUS
      <4>4. /\ longer \in Seq(Moves)
            /\ Len(longer) = r + 1
            /\ \A i \in 1 .. r + 1 : longer[i] = IF i = r + 1 THEN move ELSE rest[i]
        BY <2>2, <4>2, <4>3
      <4>5. longer \in [1 .. r + 1 -> Moves]
        BY <4>4, LenProperties
      <4>6. longer = [i \in 1 .. r + 1 |-> longer[i]]
        BY <4>5
      <4>7. longer = [i \in 1 .. r + 1 |-> IF i = r + 1 THEN move ELSE rest[i]]
        BY <4>4, <4>6
      <4> QED
        BY <4>1, <4>3, <4>7
    <3>5. ASSUME NEW i \in 1 .. r + 1
          PROVE  N[L + i] = IF i = r + 1 THEN move ELSE Rest(M, L, n)[i]
      <4>1. L + i \in 1 .. n + 1 /\ (L + i <= n <=> i # r + 1)
        BY <2>8, <3>3
      <4>2. N[L + i] = IF L + i <= n THEN M[L + i] ELSE move
        BY <3>2, <4>1 DEF Prolonged
      <4>3. i # r + 1 => Rest(M, L, n)[i] = M[L + i]
        BY <3>1, <3>3
      <4> QED
        BY <4>1, <4>2, <4>3
    <3>6. Rest(N, L, n + 1) = [i \in 1 .. r + 1 |-> N[L + i]]
      BY <3>3 DEF Rest
    <3> QED
      BY <3>4, <3>5, <3>6
  <2> QED
    BY <1>3, <2>2, <2>7, <2>9 DEF Grows
<1> QED
  BY <1>4, <1>5

LEMMA MovesStep ==
  ASSUME SessionInv, LineMoves, LineMoves', InOrder, NobodyEaten, SessionNext,
         NEW s \in connected, InSomeLine(s), occupant'[s] = occupant[s]
  PROVE  Rests(s) \/ Advances(s) \/ Grows(s)
<1>1. Typed /\ Linked
  BY DEF SessionInv
<1>2. s \in Slots /\ occupant[s] \in Clients
  BY <1>1, LineTyped
<1>3. ASSUME UNCHANGED <<inbox, players, occupant, inputsInFlight>> PROVE Rests(s)
  BY <1>3, MovesUntouched DEF InputsFrom
<1>0. ~ServerStops
  BY <1>2, SessionAssumption DEF ServerStops
<1>4. CASE Update \/ ServerSends \/ ServerHasStopped
  BY <1>3, <1>4
  DEF Update, BeginUpdate, ServerSends, SendPackets, ServerHasStopped, Stopped, serverVars,
      netVars, worldVars, linkVars
<1>5. ASSUME NEW c \in Clients, NEW t \in Slots, Admit(c, t) PROVE Rests(s)
  <2>1. /\ t \notin connected
        /\ \E player \in Spawned :
             players' = [d \in DOMAIN players \cup {t} |->
                           IF d = t THEN player ELSE players[d]]
        /\ UNCHANGED <<inbox, inputsInFlight>>
    BY <1>5 DEF Admit, ClientConnected
  <2>2. players'[s] = players[s]
    BY <1>1, <2>1 DEF Typed, PlayersTyped
  <2>3. InputsFrom(occupant[s])' = InputsFrom(occupant[s])
    BY <2>1 DEF InputsFrom
  <2> QED
    BY <2>1, <2>2, <2>3, MovesUntouched
<1>6. ASSUME NEW t \in Slots, Drop(t) PROVE Rests(s)
  <2>1. s \in connected'
    <3>1. /\ occupant' = [occupant EXCEPT ![t] = NoClient]
          /\ connected' = connected \ {t}
      BY <1>6 DEF Drop, ClientDisconnected
    <3>2. s # t
      BY <1>1, <1>2, <3>1, SessionAssumption DEF Linked, OccupantsMatch
    <3> QED
      BY <3>1, <3>2
  <2> QED
    BY <1>1, <1>6, <2>1, DropSpares, MovesUntouched
<1>7. CASE ServerReceives
  <2>1. PICK M : InLine(s, M)
    BY DEF InSomeLine
  <2>2. InLine(s, M)'
    BY <1>1, <1>7, <2>1, LineReceive
  <2>3. UNCHANGED <<clients, lastProcessedInput, players, connected>>
    BY <1>7 DEF ServerReceives, ReceivePackets, worldVars
  <2>4. Sent(s)' = Sent(s) /\ Acked(s)' = Acked(s)
    BY <2>3 DEF Sent, Acked
  <2>5. MovesToProcess(s)' = MovesToProcess(s)
    BY <2>1, <2>2, <2>3, <2>4 DEF LineMoves
  <2> QED
    BY <2>3, <2>5 DEF Rests
<1>8. CASE ServerWorks
  BY <1>1, <1>8, WorkMoves
<1>9. ASSUME NEW c \in Clients, Accepted(c) \/ Leaves(c) PROVE Rests(s)
  BY <1>3, <1>9 DEF Accepted, Leaves, linkVars, serverVars, netVars, worldVars
<1>10. ASSUME NEW c \in Clients, NEW move \in Moves \cup {NoMove}, ClientRuns(c, move)
       PROVE  Rests(s) \/ Grows(s)
  BY <1>1, <1>10, RunMoves
<1> QED
  BY <1>0, <1>4, <1>5, <1>6, <1>7, <1>8, <1>9, <1>10 DEF SessionNext

(* Every client in the game has a line, and a trail for what is left of it.*)
LEMMA TrailOfTale ==
  ASSUME SessionInv, ExactInv, NEW s \in connected
  PROVE  /\ InSomeLine(s)
         /\ \E Q : Trail(s, Q)
<1>1. PICK M, P : Tale(s, M, P)
  BY DEF ExactInv, HasTale
<1>2. InLine(s, M) /\ Walk(Sent(s), M, P) /\ players[s].position = P[Acked(s)]
  BY <1>1 DEF Tale, Follows
<1> QED
  BY <1>2, PathTrail DEF SessionInv, InSomeLine

LEMMA SameSteps ==
  ASSUME NEW c, NEW position
  PROVE  /\ \A move : PredictionOf(c)!Stepped(position, move) = Moved(position, move)
         /\ \A moves : PredictionOf(c)!Walked(position, moves) = WillBeAt(position, moves)
BY DEF PredictionOf!Stepped, PredictionOf!Walked, PredictionOf!Clamp, PredictionOf!Displacement,
       Moved, WillBeAt, Clamp, Displacement

LEMMA SlotOfIs ==
  ASSUME Linked, NEW s \in Slots, occupant[s] # NoClient
  PROVE  SlotOf(occupant[s]) = s
BY DEF SlotOf, Linked, OccupantsMatch

(* A client that shows a player, and goes on doing so, keeps its slot.     *)
LEMMA KeepsSlot ==
  ASSUME Linked, SessionNext, NEW c \in Clients, NEW s \in Slots, occupant[s] = c,
         NEW t \in Slots, occupant'[t] = c
  PROVE  t = s
<1>1. \A u \in Slots : occupant[u] = c => u = s
  BY SessionAssumption DEF Linked, OccupantsMatch
<1>2. ASSUME NEW d \in Clients, NEW u \in Slots, Admit(d, u) PROVE t = s
  <2>1. occupant' = [occupant EXCEPT ![u] = d] /\ \A v \in Slots : occupant[v] # d
    BY <1>2 DEF Admit
  <2>2. t # u
    BY <2>1 DEF Linked, OccupantsMatch
  <2> QED
    BY <1>1, <2>1, <2>2 DEF Linked, OccupantsMatch
<1>3. ASSUME NEW u \in Slots, Drop(u) PROVE t = s
  <2>1. occupant' = [occupant EXCEPT ![u] = NoClient]
    BY <1>3 DEF Drop
  <2>2. t # u
    BY <2>1, SessionAssumption DEF Linked, OccupantsMatch
  <2> QED
    BY <1>1, <2>1, <2>2 DEF Linked, OccupantsMatch
<1>5. ~ServerStops
  BY SessionAssumption DEF ServerStops
<1>4. CASE occupant' = occupant
  BY <1>1, <1>4
<1> QED
  BY <1>2, <1>3, <1>4, <1>5
  DEF SessionNext, Update, ServerReceives, ServerWorks, ServerSends, ServerHasStopped, Accepted,
      ClientRuns, Leaves, linkVars

(* What Prediction is told of a client in the game.                        *)
Shown ==
  \A c \in Clients, s \in Slots :
    Predicting(c) /\ occupant[s] = c =>
      /\ SlotOf(c) = s
      /\ s \in connected
      /\ clients[c].predictedPlayer.position =
           WillBeAt(players[s].position, MovesToProcess(s))

LEMMA ShownHolds == SessionInv /\ PredictionIsExact => Shown
<1> SUFFICES ASSUME SessionInv, PredictionIsExact, NEW c \in Clients, NEW s \in Slots,
                    Predicting(c), occupant[s] = c
             PROVE  /\ SlotOf(c) = s
                    /\ s \in connected
                    /\ clients[c].predictedPlayer.position =
                         WillBeAt(players[s].position, MovesToProcess(s))
  BY DEF Shown
<1>1. occupant[s] # NoClient
  BY SessionAssumption
<1> QED
  BY <1>1, SlotOfIs DEF SessionInv, Linked, OccupantsMatch, Predicting, PredictionIsExact

LEMMA PredictionStep ==
  ASSUME InOrder
  PROVE  /\ SessionInv
         /\ ExactInv
         /\ NobodyEaten
         /\ LineMoves /\ LineMoves'
         /\ Shown /\ Shown'
         /\ [SessionNext]_sessionVars
         => [\A c \in Clients :
               [PredictionOf(c)!Next]_(PredictionOf(c)!predictionVars)]_sessionVars
<1> SUFFICES ASSUME SessionInv, ExactInv, NobodyEaten, LineMoves, LineMoves', Shown, Shown',
                    SessionNext, NEW c \in Clients
             PROVE  PredictionOf(c)!Next \/ UNCHANGED PredictionOf(c)!predictionVars
  OBVIOUS
<1>1. Predicting(c) \in BOOLEAN /\ Predicting(c)' \in BOOLEAN
  BY DEF Predicting
<1>2. CASE ~Predicting(c) /\ ~Predicting(c)'
  <2>1. Predicting(c) = FALSE /\ Predicting(c)' = FALSE
    BY <1>1, <1>2
  <2> QED
    BY <2>1 DEF PredictionOf!predictionVars
<1>3. CASE Predicting(c) /\ ~Predicting(c)'
  BY <1>1, <1>3 DEF PredictionOf!Next, PredictionOf!Finish
<1>4. CASE ~Predicting(c) /\ Predicting(c)'
  <2>1. PICK s \in Slots : occupant'[s] = c
    BY <1>4 DEF Predicting
  <2>2. /\ SlotOf(c)' = s
        /\ clients'[c].predictedPlayer.position =
             WillBeAt(players'[s].position, MovesToProcess(s)')
    BY <1>4, <2>1 DEF Shown
  <2> QED
    BY <1>1, <1>4, <2>2, SameSteps DEF PredictionOf!Next, PredictionOf!Start
<1>5. CASE Predicting(c) /\ Predicting(c)'
  <2>1. PICK s \in Slots : occupant[s] = c
    BY <1>5 DEF Predicting
  <2>2. PICK t \in Slots : occupant'[t] = c
    BY <1>5 DEF Predicting
  <2>3. t = s /\ occupant'[s] = occupant[s]
    BY <2>1, <2>2, KeepsSlot DEF SessionInv
  <2>4. /\ SlotOf(c) = s
        /\ SlotOf(c)' = s
        /\ s \in connected
        /\ clients[c].predictedPlayer.position =
             WillBeAt(players[s].position, MovesToProcess(s))
        /\ clients'[c].predictedPlayer.position =
             WillBeAt(players'[s].position, MovesToProcess(s)')
    BY <1>5, <2>1, <2>2, <2>3 DEF Shown
  <2>5. InSomeLine(s)
    BY <2>4, TrailOfTale
  <2>6. CASE Rests(s)
    BY <1>1, <1>5, <2>4, <2>6 DEF Rests, PredictionOf!predictionVars
  <2>7. CASE Advances(s)
    <3>1. clients'[c].predictedPlayer.position = clients[c].predictedPlayer.position
      BY <2>7 DEF Advances
    <3> QED
      BY <1>1, <1>5, <2>4, <2>7, <3>1, SameSteps
      DEF Advances, PredictionOf!Next, PredictionOf!Process
  <2>8. CASE Grows(s)
    <3>1. PICK move \in Moves : MovesToProcess(s)' = Append(MovesToProcess(s), move)
      BY <2>8 DEF Grows
    <3>2. PICK Q : Trail(s, Q)
      BY <2>4, TrailOfTale
    <3>3. MovesToProcess(s) \in Seq(Moves)
      <4>1. PICK M : InLine(s, M)
        BY <2>5 DEF InSomeLine
      <4>2. Typed /\ Linked
        BY DEF SessionInv
      <4>3. /\ Sent(s) \in Nat
            /\ Acked(s) \in 0 .. Sent(s)
            /\ M \in [1 .. Sent(s) -> Moves]
        <5>1. Sent(s) \in Nat /\ Acked(s) \in Nat /\ Len(inbox[s]) \in Nat
          BY <2>4, <4>2, LineTyped
        <5> QED
          BY <4>1, <5>1 DEF InLine
      <4>4. Rest(M, Acked(s), Sent(s)) \in Seq(Moves)
        BY <4>3, RestIsSeq
      <4> QED
        BY <2>4, <4>1, <4>4 DEF LineMoves
    <3>4. players'[s].position = players[s].position
      BY <2>8 DEF Grows
    <3>5. clients'[c].predictedPlayer.position =
            Moved(clients[c].predictedPlayer.position, move)
      <4>1. PICK moves : moves = MovesToProcess(s)
        OBVIOUS
      <4>2. WillBeAt(players[s].position, Append(moves, move)) =
              Moved(WillBeAt(players[s].position, moves), move)
        BY <3>2, <3>3, <4>1, TrailGoesOn
      <4> QED
        BY <2>4, <3>1, <3>4, <4>1, <4>2
    <3> QED
      BY <1>1, <1>5, <2>4, <3>1, <3>4, <3>5, SameSteps
      DEF PredictionOf!Next, PredictionOf!Press
  <2> QED
    BY <2>3, <2>4, <2>5, <2>6, <2>7, <2>8, MovesStep
<1> QED
  BY <1>1, <1>2, <1>3, <1>4, <1>5

(* A session implements Prediction: what a player sees at the keyboard is  *)
(* one stride per key press, whatever the network delays, as long as       *)
(* SendInput and ReconcileWithServer can be exact.                         *)
THEOREM SessionsPredict ==
  ASSUME InOrder, TicksDiffer
  PROVE  SessionSpec /\ []AckIsOwn /\ []NobodyEaten => ImplementsPrediction
<1>1. SessionInit => \A c \in Clients : PredictionOf(c)!Init
  <2> SUFFICES ASSUME SessionInit, NEW c \in Clients
               PROVE  PredictionOf(c)!Init
    OBVIOUS
  <2>1. Predicting(c) = FALSE
    BY DEF SessionInit, NobodyYet, ClientInit, Predicting
  <2> QED
    BY <2>1 DEF PredictionOf!Init
<1> QED
  BY <1>1, ExactCore, PredictionsAreExact, SessionCore, LineMovesHold, ShownHolds, PredictionStep,
     PTL
  DEF SessionSpec, ImplementsPrediction

(* The case of run session_ordered, without a hypothesis about behaviours. *)
COROLLARY OneClientPredicts ==
  ASSUME InOrder, TicksDiffer, OneClient
  PROVE  SessionSpec => ImplementsPrediction
BY SessionsPredict, AcksAreOwn, NobodyIsEaten, PTL
=============================================================================
