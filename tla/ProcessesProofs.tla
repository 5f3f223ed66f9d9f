--------------------------- MODULE ProcessesProofs ---------------------------
(***************************************************************************)
(* Type correctness of the two programs, on every path and for any number  *)
(* of attempts and any timeout.                                            *)
(***************************************************************************)
EXTENDS Processes, TLAPS

(* The inductive invariant: that no thread is left in Run when main ends   *)
(* also holds of a main that fails before there is a thread.               *)
NoThreadYet == serverMain \in {"initialize", "construct", "detach"} => runThread = "none"

LifeInv == ProcessesTypeOK /\ NoThreadYet

(* It holds when both programs start.                                      *)
LEMMA LifeInit == Init => LifeInv
<1> SUFFICES ASSUME Init
             PROVE  LifeInv
  OBVIOUS
<1>1. /\ g_running \in BOOLEAN
      /\ window \in BOOLEAN
      /\ closeRequested \in BOOLEAN
      /\ shouldClose \in BOOLEAN
  BY Zenon DEF Init
<1> QED
  BY <1>1, ProcessesAssumption DEF Init, LifeInv, ProcessesTypeOK, NoThreadYet,
     Ends, InRun, Objects, Libraries, Packets

(* The steps of the server's two threads keep it.                          *)
LEMMA LifeServerSteps == LifeInv /\ (ServerMainStep \/ RunStep \/ SignalHandler) => LifeInv'
<1> USE DEF LifeInv, ProcessesTypeOK, NoThreadYet, Ends, InRun, Objects, Libraries, Packets,
            clientProcess, windowVars, linkVars
<1> SUFFICES ASSUME LifeInv, ServerMainStep \/ RunStep \/ SignalHandler
             PROVE  LifeInv'
  OBVIOUS
<1>1. CASE InitializeServer
  BY <1>1 DEF InitializeServer
<1>2. CASE ConstructServer
  BY <1>2 DEF ConstructServer
<1>3. CASE DetachRunThread
  BY <1>3 DEF DetachRunThread
<1>4. CASE StopServer
  BY <1>4 DEF StopServer
<1>5. CASE DestroyServer
  BY <1>5 DEF DestroyServer
<1>6. CASE ShutdownServer
  BY <1>6 DEF ShutdownServer
<1>7. CASE ServerReturns
  BY <1>7 DEF ServerReturns
<1>8. CASE CheckRunning
  BY <1>8 DEF CheckRunning
<1>9. CASE RunUpdates
  <2>1. CASE HearsNothing
    BY <1>9, <2>1, ProcessesAssumption DEF RunUpdates, HearsNothing
  <2>2. CASE HearsClient
    BY <1>9, <2>2, ProcessesAssumption DEF RunUpdates, HearsClient
  <2>3. CASE UNCHANGED linkVars
    BY <1>9, <2>3 DEF RunUpdates
  <2> QED
    BY <1>9, <2>1, <2>2, <2>3 DEF RunUpdates
<1>10. CASE RunSleeps
  BY <1>10 DEF RunSleeps
<1>11. CASE RunCrashes
  BY <1>11 DEF RunCrashes
<1>12. CASE SignalHandler
  <2>1. g_running' \in BOOLEAN
    BY <1>12, Zenon DEF SignalHandler
  <2> QED
    BY <1>12, <2>1 DEF SignalHandler
<1> QED
  BY <1>1, <1>2, <1>3, <1>4, <1>5, <1>6, <1>7, <1>8, <1>9, <1>10, <1>11, <1>12
     DEF ServerMainStep, RunStep

(* What an Update does to the connection of a client that exists.          *)
LEMMA UpdateTyped ==
  ASSUME ProcessesTypeOK, connection # "none", Update
  PROVE  /\ connection' \in {"connecting", "connected", "disconnected"}
         /\ silence' \in 0 .. TIMEOUT
         /\ shouldClose' \in BOOLEAN
         /\ toServer' \in Packets
<1>1. /\ connection' \in {"connecting", "connected", "disconnected"}
      /\ silence' \in 0 .. TIMEOUT
  BY ProcessesAssumption DEF ProcessesTypeOK, Update, Network
<1>2. shouldClose' \in BOOLEAN
  BY Zenon DEF ProcessesTypeOK, Update
<1>3. toServer' \in Packets
  BY <1>1 DEF ProcessesTypeOK, Update, Sends, Packets
<1> QED
  BY <1>1, <1>2, <1>3

(* The steps of the client keep it.                                        *)
LEMMA LifeClientSteps == LifeInv /\ (ClientMainStep \/ ClientThrows \/ RequestClose) => LifeInv'
<1> USE DEF LifeInv, ProcessesTypeOK, NoThreadYet, Ends, InRun, Objects, Libraries, Packets,
            serverProcess, windowVars, linkVars
<1> SUFFICES ASSUME LifeInv, ClientMainStep \/ ClientThrows \/ RequestClose
             PROVE  LifeInv'
  OBVIOUS
<1>1. CASE InitializeClient
  BY <1>1 DEF InitializeClient
<1>2. CASE PollConnection
  <2>1. connection # "none"
    BY <1>2 DEF PollConnection, Update, Network
  <2>2. attempts' \in 0 .. MAX_ATTEMPTS
    BY <1>2, ProcessesAssumption DEF PollConnection
  <2> QED
    BY <1>2, <2>1, <2>2, UpdateTyped DEF PollConnection
<1>3. CASE OpenWindow
  BY <1>3 DEF OpenWindow
<1>4. CASE Frame
  <2>1. connection # "none"
    BY <1>4 DEF Frame, Update, Network
  <2> QED
    BY <1>4, <2>1, UpdateTyped DEF Frame
<1>5. CASE ShutdownClient
  BY <1>5 DEF ShutdownClient
<1>6. CASE ClientReturns
  <2>1. window' \in BOOLEAN /\ ~window'
    BY <1>6, Zenon DEF ClientReturns, DestroyClient
  <2> QED
    BY <1>6, <2>1 DEF ClientReturns, DestroyClient
<1>7. CASE ClientThrows
  <2>1. window' \in BOOLEAN /\ ~window'
    BY <1>7, Zenon DEF ClientThrows, DestroyClient
  <2> QED
    BY <1>7, <2>1 DEF ClientThrows, DestroyClient
<1>8. CASE RequestClose
  BY <1>8 DEF RequestClose
<1> QED
  BY <1>1, <1>2, <1>3, <1>4, <1>5, <1>6, <1>7, <1>8 DEF ClientMainStep

(* The invariant is inductive.                                             *)
LEMMA LifeStep == LifeInv /\ [Next]_processVars => LifeInv'
<1> SUFFICES ASSUME LifeInv, [Next]_processVars
             PROVE  LifeInv'
  OBVIOUS
<1>1. CASE ServerMainStep \/ RunStep \/ SignalHandler
  BY <1>1, LifeServerSteps
<1>2. CASE ClientMainStep \/ ClientThrows \/ RequestClose
  BY <1>2, LifeClientSteps
<1>3. CASE UNCHANGED processVars
  BY <1>3 DEF processVars, serverProcess, clientProcess, windowVars, LifeInv, ProcessesTypeOK,
     NoThreadYet, linkVars
<1> QED
  BY <1>1, <1>2, <1>3 DEF Next, Ended

(* Every variable of the two programs stays in its type; in particular the *)
(* polling loop of the client's main never counts past its bound, and no   *)
(* thread is in Run when the server's main has returned.                   *)
THEOREM ProcessesTyped == Spec => []ProcessesTypeOK
<1>1. LifeInv => ProcessesTypeOK
  BY DEF LifeInv
<1> QED
  BY <1>1, LifeInit, LifeStep, PTL DEF Spec
=============================================================================
