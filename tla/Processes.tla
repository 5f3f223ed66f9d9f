------------------------------ MODULE Processes ------------------------------
(***************************************************************************)
(* The two programs around the game: server/main.cpp, whose Run loop has a *)
(* detached thread to itself while the main thread waits for a signal, and *)
(* client/main.cpp, which polls for its connection, opens the window and   *)
(* runs the client until the window is closed.                             *)
(*                                                                         *)
(* The world is left out (GameServer, GameClient): what matters here is    *)
(* who may still use the server, the client and the yojimbo library, and   *)
(* whether the programs come to their end.                                 *)
(***************************************************************************)
EXTENDS Naturals

CONSTANTS
  MAX_ATTEMPTS,  \* how often main polls for the connection, 200 in the code
  TIMEOUT        \* updates without a packet after which yojimbo gives up

ASSUME ProcessesAssumption ==
  /\ MAX_ATTEMPTS \in Nat \ {0}
  /\ TIMEOUT \in Nat \ {0}

VARIABLES
  serverMain,     \* where the server's main() is
  g_running,      \* cleared by signalHandler
  server,         \* the GameServer on main's stack
  runThread,      \* where the detached thread is in GameServer::Run
  serverLibrary,  \* yojimbo in the server's process
  seat,           \* yojimbo's server: whether a slot is the client's
  quiet,          \* updates since the server last heard from that client
  clientMain,     \* where the client's main() is
  attempts,       \* i of the polling loop
  client,         \* the GameClient on main's stack
  connection,     \* m_client's state
  silence,        \* updates since the client last heard from the server
  toServer,       \* what the client sent last, until the server receives it
  window,         \* raylib: IsWindowReady()
  closeRequested, \* the user has closed the window or pressed Escape
  shouldClose,    \* raylib: WindowShouldClose()
  clientLibrary   \* yojimbo in the client's process

linkVars      == <<seat, quiet, toServer>>
serverProcess == <<serverMain, g_running, server, runThread, serverLibrary>>
windowVars    == <<window, closeRequested, shouldClose>>
clientProcess == <<clientMain, attempts, client, connection, silence, windowVars,
                   clientLibrary>>
processVars   == <<serverProcess, clientProcess, linkVars>>

Objects   == {"none", "alive", "stopped", "destroyed"}
Libraries == {"none", "up", "down"}
InRun     == {"checking", "updating", "sleeping"}
Packets   == {"nothing", "request", "payload", "goodbye"}

Init ==
  /\ serverMain = "initialize"
  /\ g_running = TRUE
  /\ server = "none"
  /\ runThread = "none"
  /\ serverLibrary = "none"
  /\ seat = "free"
  /\ quiet = 0
  /\ clientMain = "initialize"
  /\ attempts = 0
  /\ client = "none"
  /\ connection = "none"
  /\ silence = 0
  /\ toServer = "nothing"
  /\ window = FALSE
  /\ closeRequested = FALSE
  /\ shouldClose = FALSE
  /\ clientLibrary = "none"

-----------------------------------------------------------------------------
(* The server's main thread.                                               *)
InitializeServer ==
  /\ serverMain = "initialize"
  /\ \/ serverMain' = "construct" /\ serverLibrary' = "up"
     \/ serverMain' = "exited" /\ UNCHANGED serverLibrary
  /\ UNCHANGED <<g_running, server, runThread, clientProcess, linkVars>>

(* The constructor starts yojimbo's server or throws: the port is in use.  *)
ConstructServer ==
  /\ serverMain = "construct"
  /\ \/ serverMain' = "detach" /\ server' = "alive"
     \/ serverMain' = "shutdown" /\ UNCHANGED server
  /\ UNCHANGED <<g_running, runThread, serverLibrary, clientProcess, linkVars>>

DetachRunThread ==
  /\ serverMain = "detach"
  /\ serverMain' = "wait"
  /\ runThread' = "checking"
  /\ UNCHANGED <<g_running, server, serverLibrary, clientProcess, linkVars>>

SignalHandler ==
  /\ serverMain \in {"construct", "detach", "wait", "destroy", "shutdown"}
  /\ g_running' = FALSE
  /\ UNCHANGED <<serverMain, server, runThread, serverLibrary, clientProcess, linkVars>>

(* Mutant: main joins the thread first and stops the server afterwards.    *)
JoinBeforeStop ==
  /\ serverMain = "wait"
  /\ ~g_running
  /\ runThread = "gone"
  /\ serverMain' = "destroy"
  /\ server' = "stopped"
  /\ seat' = "free"
  /\ UNCHANGED <<g_running, runThread, serverLibrary, clientProcess, quiet, toServer>>

(* The block that holds the server ends: the destructor's body stops it,   *)
(* which disconnects whoever has a slot...                                 *)
StopServer ==
  /\ serverMain = "wait"
  /\ ~g_running
  /\ serverMain' = "destroy"
  /\ server' = "stopped"
  /\ seat' = "free"
  /\ UNCHANGED <<g_running, runThread, serverLibrary, clientProcess, quiet, toServer>>

(* ... and its members are destroyed, wherever the other thread is.        *)
DestroyServer ==
  /\ serverMain = "destroy"
  /\ serverMain' = "shutdown"
  /\ server' = "destroyed"
  /\ UNCHANGED <<g_running, runThread, serverLibrary, clientProcess, linkVars>>

ShutdownServer ==
  /\ serverMain = "shutdown"
  /\ serverMain' = "return"
  /\ serverLibrary' = "down"
  /\ UNCHANGED <<g_running, server, runThread, clientProcess, linkVars>>

(* Returning from main ends the process and every thread of it.            *)
ServerReturns ==
  /\ serverMain = "return"
  /\ serverMain' = "exited"
  /\ runThread' = IF runThread = "none" THEN "none" ELSE "gone"
  /\ UNCHANGED <<g_running, server, serverLibrary, clientProcess, linkVars>>

-----------------------------------------------------------------------------
(* The detached thread, in GameServer::Run.                                *)

(* The loop's condition and what the clock then says.  Once the server is  *)
(* destroyed, IsRunning reads whatever is there.                           *)
CheckRunning ==
  /\ runThread = "checking"
  /\ \/ server \in {"alive", "destroyed"} /\ runThread' \in {"updating", "sleeping"}
     \/ server \in {"stopped", "destroyed"} /\ runThread' = "gone"
  /\ UNCHANGED <<serverMain, g_running, server, serverLibrary, clientProcess, linkVars>>

(* What an Update makes of the client's packets: AdvanceTime gives up a    *)
(* client that has been silent for too long...                             *)
HearsNothing ==
  /\ \/ seat = "taken" /\ quiet < TIMEOUT /\ seat' = seat /\ quiet' = quiet + 1
     \/ seat = "taken" /\ quiet = TIMEOUT /\ seat' = "free" /\ quiet' = 0
     \/ seat = "free" /\ UNCHANGED <<seat, quiet>>
  /\ UNCHANGED toServer

(* ... and ReceivePackets hears it, if the packet gets through: it wants   *)
(* in, is still there, or takes its leave.                                 *)
HearsClient ==
  /\ toServer # "nothing"
  /\ toServer' = "nothing"
  /\ seat' = CASE toServer = "request" -> "taken"
               [] toServer = "payload" -> seat
               [] toServer = "goodbye" -> "free"
  /\ quiet' = 0

(* Mutant: the server's time is not advanced, so no silence is too long.   *)
RunUpdatesAtStandstill ==
  /\ runThread = "updating"
  /\ runThread' = "checking"
  /\ (server = "alive" /\ HearsClient) \/ UNCHANGED linkVars
  /\ UNCHANGED <<serverMain, g_running, server, serverLibrary, clientProcess>>

(* A server that has been stopped serves nobody.                           *)
RunUpdates ==
  /\ runThread = "updating"
  /\ runThread' = "checking"
  /\ IF server = "alive" THEN HearsNothing \/ HearsClient ELSE UNCHANGED linkVars
  /\ UNCHANGED <<serverMain, g_running, server, serverLibrary, clientProcess>>

RunSleeps ==
  /\ runThread = "sleeping"
  /\ runThread' = "checking"
  /\ UNCHANGED <<serverMain, g_running, server, serverLibrary, clientProcess, linkVars>>

(* An Update that works on a server stopped or destroyed under it.         *)
RunCrashes ==
  /\ \/ runThread = "updating" /\ server \in {"stopped", "destroyed"}
     \/ runThread = "checking" /\ server = "destroyed"
  /\ runThread' = "gone"
  /\ serverMain' = "crashed"
  /\ seat' = "free"
  /\ UNCHANGED <<g_running, server, serverLibrary, clientProcess, quiet, toServer>>

-----------------------------------------------------------------------------
(* The client has a slot on a server that answers.                         *)
Served == server = "alive" /\ runThread \in InRun /\ seat = "taken"

(* Mutant: time is not advanced, so no silence is ever too long.           *)
NetworkAtStandstill ==
  \/ /\ connection = "connecting"
     /\ connection' \in {"connecting"} \cup (IF Served THEN {"connected"} ELSE {})
     /\ UNCHANGED silence
  \/ /\ connection # "connecting"
     /\ UNCHANGED <<connection, silence>>

(* What AdvanceTime and ReceivePackets make of the connection: a server    *)
(* that stops or gives the client up may say goodbye, in packets that may  *)
(* be lost; one that crashes does not.                                     *)
Network ==
  \/ /\ connection = "connecting"
     /\ connection' \in {"connecting", "disconnected"} \cup
                        (IF Served THEN {"connected"} ELSE {})
     /\ UNCHANGED silence
  \/ /\ connection = "connected" /\ Served
     /\ UNCHANGED connection
     /\ silence' = 0
  \/ /\ connection = "connected" /\ silence < TIMEOUT
     /\ UNCHANGED connection
     /\ silence' = silence + 1
  \/ /\ connection = "connected"
     /\ \/ seat = "free" /\ serverMain # "crashed"
        \/ silence = TIMEOUT
     /\ connection' = "disconnected"
     /\ UNCHANGED silence
  \/ /\ connection = "disconnected"
     /\ UNCHANGED <<connection, silence>>

(* SendPackets, if the client has someone to send them to.                 *)
Sends ==
  toServer' = CASE connection' = "connecting" -> "request"
                [] connection' = "connected" -> "payload"
                [] connection' = "disconnected" -> toServer

(* GameClient::Update.  Only a connected client renders, and only          *)
(* rendering (EndDrawing) makes raylib look at the window's events.        *)
Update ==
  /\ Network
  /\ shouldClose' = IF connection' = "connected" /\ window THEN closeRequested ELSE shouldClose
  /\ Sends

(* InitializeYojimbo and the client's constructor, which starts connecting *)
(* or throws; the handler shuts the library down.                          *)
InitializeClient ==
  /\ clientMain = "initialize"
  /\ \/ /\ clientMain' = "connect"
        /\ clientLibrary' = "up"
        /\ client' = "alive"
        /\ connection' = "connecting"
     \/ /\ clientMain' = "exited"
        /\ clientLibrary' \in {"none", "down"}
        /\ UNCHANGED <<client, connection>>
  /\ UNCHANGED <<attempts, silence, windowVars, serverProcess, linkVars>>

(* Mutant: the polling loop has no end of its own.                         *)
PollForever ==
  /\ clientMain = "connect"
  /\ connection # "connected"
  /\ Update
  /\ UNCHANGED <<clientMain, attempts, client, window, closeRequested, clientLibrary,
                 serverProcess, seat, quiet>>

(* Mutant: one attempt too many.                                           *)
PollOnceMore ==
  /\ clientMain = "connect"
  /\ connection # "connected"
  /\ attempts <= MAX_ATTEMPTS
  /\ attempts' = attempts + 1
  /\ Update
  /\ UNCHANGED <<clientMain, client, window, closeRequested, clientLibrary, serverProcess,
                 seat, quiet>>

(* main polls until it is connected, MAX_ATTEMPTS times at most.           *)
PollConnection ==
  /\ clientMain = "connect"
  /\ connection # "connected"
  /\ attempts < MAX_ATTEMPTS
  /\ attempts' = attempts + 1
  /\ Update
  /\ UNCHANGED <<clientMain, client, window, closeRequested, clientLibrary, serverProcess,
                 seat, quiet>>

OpenWindow ==
  /\ clientMain = "connect"
  /\ connection = "connected"
  /\ clientMain' = "play"
  /\ window' = TRUE
  /\ UNCHANGED <<attempts, client, connection, silence, closeRequested, shouldClose,
                 clientLibrary, serverProcess, linkVars>>

(* One turn of the game's loop.                                            *)
Frame ==
  /\ clientMain = "play"
  /\ ~shouldClose
  /\ Update
  /\ UNCHANGED <<clientMain, attempts, client, window, closeRequested, clientLibrary,
                 serverProcess, seat, quiet>>

RequestClose ==
  /\ window
  /\ ~closeRequested
  /\ closeRequested' = TRUE
  /\ UNCHANGED <<clientMain, attempts, client, connection, silence, window, shouldClose,
                 clientLibrary, serverProcess, linkVars>>

(* Not connected in time, or the window is closed: both paths shut the     *)
(* library down and return with the client still on the stack.             *)
ShutdownClient ==
  /\ \/ clientMain = "connect" /\ connection # "connected" /\ attempts = MAX_ATTEMPTS
     \/ clientMain = "play" /\ shouldClose
  /\ clientMain' = "return"
  /\ clientLibrary' = "down"
  /\ UNCHANGED <<attempts, client, connection, silence, windowVars, serverProcess, linkVars>>

(* ~GameClient disconnects and closes the window.  Of a client on the way  *)
(* to a slot or in one the server is told, unless the library is down by   *)
(* then: what Disconnect still does is undefined, the packets of a goodbye *)
(* being one possibility.                                                  *)
DestroyClient ==
  /\ client' = "destroyed"
  /\ connection' = "disconnected"
  /\ window' = FALSE
  /\ \/ connection \in {"connecting", "connected"} /\ toServer' = "goodbye"
     \/ connection = "disconnected" /\ UNCHANGED toServer
     \/ clientLibrary = "down" /\ UNCHANGED toServer

(* The function returns and so destroys the client, if the program does    *)
(* not fail of the library that is down.                                   *)
ClientReturns ==
  /\ clientMain = "return"
  /\ DestroyClient
  /\ \/ clientMain' = "exited"
     \/ clientLibrary = "down" /\ clientMain' = "crashed"
  /\ UNCHANGED <<attempts, silence, closeRequested, shouldClose, clientLibrary, serverProcess,
                 seat, quiet>>

(* An exception destroys the client on its way to the handler, which shuts *)
(* the library down.                                                       *)
ClientThrows ==
  /\ clientMain \in {"connect", "play"}
  /\ DestroyClient
  /\ clientLibrary' = "down"
  /\ clientMain' = "exited"
  /\ UNCHANGED <<attempts, silence, closeRequested, shouldClose, serverProcess, seat, quiet>>

-----------------------------------------------------------------------------
ServerMainStep ==
  InitializeServer \/ ConstructServer \/ DetachRunThread \/ StopServer
  \/ DestroyServer \/ ShutdownServer \/ ServerReturns

RunStep == CheckRunning \/ RunUpdates \/ RunSleeps \/ RunCrashes

ClientMainStep ==
  InitializeClient \/ PollConnection \/ OpenWindow \/ Frame \/ ShutdownClient \/ ClientReturns

(* Both programs have ended.                                               *)
Ends == {"exited", "crashed"}

Ended == serverMain \in Ends /\ clientMain \in Ends /\ UNCHANGED processVars

Next ==
  \/ ServerMainStep
  \/ RunStep
  \/ SignalHandler
  \/ ClientMainStep
  \/ ClientThrows
  \/ RequestClose
  \/ Ended

(* The threads of both programs run; nobody has to press a key.  That Run  *)
(* does not sleep for ever but comes to the next Update is what its clock  *)
(* brings about (RunLoop).                                                 *)
Spec ==
  /\ Init /\ [][Next]_processVars
  /\ WF_processVars(ServerMainStep)
  /\ WF_processVars(RunStep)
  /\ SF_processVars(CheckRunning /\ runThread' = "updating")
  /\ WF_processVars(ClientMainStep)

-----------------------------------------------------------------------------
(* Properties.                                                             *)

(* Every variable stays in its type, and a program that has ended has no   *)
(* thread left in GameServer::Run (server/main.cpp).                       *)
ProcessesTypeOK ==
  /\ serverMain \in {"initialize", "construct", "detach", "wait", "destroy", "shutdown",
                     "return"} \cup Ends
  /\ g_running \in BOOLEAN
  /\ server \in Objects
  /\ runThread \in InRun \cup {"none", "gone"}
  /\ serverLibrary \in Libraries
  /\ seat \in {"free", "taken"}
  /\ quiet \in 0 .. TIMEOUT
  /\ clientMain \in {"initialize", "connect", "play", "return"} \cup Ends
  /\ attempts \in 0 .. MAX_ATTEMPTS
  /\ client \in Objects \ {"stopped"}
  /\ connection \in {"none", "connecting", "connected", "disconnected"}
  /\ silence \in 0 .. TIMEOUT
  /\ toServer \in Packets
  /\ window \in BOOLEAN
  /\ closeRequested \in BOOLEAN
  /\ shouldClose \in BOOLEAN
  /\ clientLibrary \in Libraries
  /\ serverMain \in Ends => runThread \in {"none", "gone"}

(* A signal ends the server: its main thread waits for nothing that only   *)
(* its own next step would bring about (server/main.cpp).                  *)
InterruptEndsServer == ~g_running ~> serverMain \in Ends

(* The polling loop of the client's main comes to a decision.              *)
StartupDecides == clientMain = "connect" ~> clientMain # "connect"

(* A client that plays notices that its server is gone (or has left).      *)
ServerExitIsNoticed ==
  serverMain \in Ends /\ connection = "connected" ~> connection # "connected"

(* However the client's main ends, by the window, an exception or a crash  *)
(* in ~GameClient, whose Disconnect comes after ShutdownYojimbo            *)
(* (client/main.cpp:44), whatever it still had on its way to the server:   *)
(* in the end the server keeps no slot, and no player, for it.             *)
ClientExitIsNoticed == clientMain \in Ends ~> [](seat = "free")

(* yojimbo.h says of ShutdownYojimbo: call this after you finish using the *)
(* library.  The server's main thread calls it when it has destroyed the   *)
(* server, while the detached thread may be anywhere in GameServer::Run.   *)
RunEndsBeforeShutdown == serverLibrary = "down" => runThread \notin InRun

(* raylib.h says of WindowShouldClose that it checks whether Escape was    *)
(* pressed or the close icon clicked: so the loop on it ends if they were. *)
CloseEndsClient == closeRequested ~> clientMain \in Ends
=============================================================================
