------------------------------- MODULE RunLoop -------------------------------
(***************************************************************************)
(* The pacing of GameServer::Run (server/game_server.cpp) and what it      *)
(* means for the clients' timeouts.                                        *)
(*                                                                         *)
(* m_time advances by one tick per update.  The loop updates while m_time  *)
(* is not ahead of the clock and sleeps for the difference otherwise, so   *)
(* after a stall it runs updates back to back until it has caught up.      *)
(* yojimbo measures silence in m_time, clients send in real time: while    *)
(* the server catches up its time runs faster than theirs.                 *)
(*                                                                         *)
(* Only differences of times matter, so the state has those alone.  Times  *)
(* are counted in a common unit.  Real time passes only in Pass; a step of *)
(* the loop says how long it keeps the thread busy.                        *)
(***************************************************************************)
EXTENDS Integers

CONSTANTS
  Clients,         \* the client processes
  Tick,            \* tickRate
  UpdateTimes,     \* how long an update may take
  MaxStall,        \* bound: how long the thread may be held up, in all,
                   \* from one moment it is on time to the next
  EarlyWake,       \* yojimbo_sleep sleeps approximately: this much less
  ClientInterval,  \* a packet of a live client arrives at least this often
  Timeout          \* the silence after which yojimbo drops a client

ASSUME RunLoopAssumption ==
  /\ Tick \in Nat \ {0}
  /\ UpdateTimes \subseteq Nat
  /\ MaxStall \in Nat
  /\ EarlyWake \in Nat
  /\ ClientInterval \in Nat \ {0}
  /\ Timeout \in Nat \ {0}

VARIABLES
  step,      \* what the loop does next
  busy,      \* how long until it does
  behind,    \* the clock minus m_time
  seen,      \* currentTime minus m_time: behind, when the clock was read
  stall,     \* what is left of MaxStall
  alive,     \* the clients that have not crashed
  quiet,     \* how long ago the last packet of a client arrived
  socket,    \* the clients with a packet that the server has not read
  status,    \* yojimbo: what the server makes of a client
  silence    \* yojimbo: m_time minus the time of the last packet it read

loopVars   == <<step, busy, behind, seen, stall>>
clientVars == <<alive, quiet, socket, status, silence>>
vars       == <<loopVars, clientVars>>

-----------------------------------------------------------------------------
(* A step takes one of the given times, and may be held up besides.        *)
Takes(times, budget) ==
  \E t \in times, held \in 0 .. budget :
    /\ busy' = t + held
    /\ stall' = budget - held

Init ==
  /\ step = "ReadClock"
  /\ busy = 0
  /\ behind = 0
  /\ seen = 0
  /\ stall = MaxStall
  /\ alive = Clients
  /\ quiet = [c \in Clients |-> 0]
  /\ socket = {}
  /\ status = [c \in Clients |-> "new"]
  /\ silence = [c \in Clients |-> 0]

-----------------------------------------------------------------------------
(* Mutant: the loop updates although m_time is ahead of the clock.         *)
ReadClockLenient ==
  /\ step = "ReadClock" /\ busy = 0
  /\ seen' = behind
  /\ step' = IF behind + Tick >= 0 THEN "Update" ELSE "Sleep"
  /\ Takes({0}, IF behind <= 0 THEN MaxStall ELSE stall)
  /\ UNCHANGED <<behind, clientVars>>

(* Mutant: update after update, whatever the clock says.                   *)
ReadClockUnpaced ==
  /\ step = "ReadClock" /\ busy = 0
  /\ seen' = behind
  /\ step' = "Update"
  /\ Takes({0}, IF behind <= 0 THEN MaxStall ELSE stall)
  /\ UNCHANGED <<behind, clientVars>>

(* The clock is read and compared with m_time.  The thread may be held up  *)
(* before it acts on what it read.                                         *)
ReadClock ==
  /\ step = "ReadClock" /\ busy = 0
  /\ seen' = behind
  /\ step' = IF behind >= 0 THEN "Update" ELSE "Sleep"
  /\ Takes({0}, IF behind <= 0 THEN MaxStall ELSE stall)
  /\ UNCHANGED <<behind, clientVars>>

(* Server::AdvanceTime(m_time): what the socket holds is read, then whoever *)
(* has been silent for the timeout is dropped.                             *)
AdvanceTime ==
  /\ status' = [c \in Clients |->
       CASE status[c] = "new" /\ c \in socket -> "connected"
         [] /\ status[c] = "connected"
            /\ c \notin socket
            /\ silence[c] >= Timeout          -> "dropped"
         [] OTHER                             -> status[c]]
  /\ silence' = [c \in Clients |->
       IF status'[c] # "connected" \/ c \in socket THEN 0 ELSE silence[c]]
  /\ socket' = {}

Update ==
  /\ step = "Update" /\ busy = 0
  /\ AdvanceTime
  /\ step' = "AddTick"
  /\ Takes(UpdateTimes, stall)
  /\ UNCHANGED <<behind, seen, alive, quiet>>

(* Mutant: the loop rests for a tick after every update.                   *)
AddTickAndRest ==
  /\ step = "AddTick" /\ busy = 0
  /\ behind' = behind - Tick
  /\ silence' = [c \in Clients |->
       IF status[c] = "connected" THEN silence[c] + Tick ELSE 0]
  /\ step' = "ReadClock"
  /\ Takes({Tick}, stall)
  /\ UNCHANGED <<seen, alive, quiet, socket, status>>

(* Mutant: the tick is added only when more than one is owed.              *)
AddTickIfOwed ==
  /\ step = "AddTick" /\ busy = 0
  /\ behind' = IF behind > Tick THEN behind - Tick ELSE behind
  /\ silence' = [c \in Clients |->
       IF status[c] = "connected" /\ behind > Tick THEN silence[c] + Tick ELSE silence[c]]
  /\ step' = "ReadClock"
  /\ Takes({0}, stall)
  /\ UNCHANGED <<seen, alive, quiet, socket, status>>

(* Mutant: AdvanceTime is given tickRate instead of m_time, the same in    *)
(* every update.                                                           *)
AddTickForGame ==
  /\ step = "AddTick" /\ busy = 0
  /\ behind' = behind - Tick
  /\ step' = "ReadClock"
  /\ Takes({0}, stall)
  /\ UNCHANGED <<seen, alive, quiet, socket, status, silence>>

(* m_time += tickRate, however long the update took.                       *)
AddTick ==
  /\ step = "AddTick" /\ busy = 0
  /\ behind' = behind - Tick
  /\ silence' = [c \in Clients |->
       IF status[c] = "connected" THEN silence[c] + Tick ELSE 0]
  /\ step' = "ReadClock"
  /\ Takes({0}, stall)
  /\ UNCHANGED <<seen, alive, quiet, socket, status>>

(* Mutant: currentTime - m_time.                                           *)
SleepTimesSwapped == {seen}

(* yojimbo_sleep(m_time - currentTime) sleeps for about that time.         *)
SleepTimes == {t \in 1 .. -seen : t + EarlyWake >= -seen}

Sleep ==
  /\ step = "Sleep" /\ busy = 0
  /\ step' = "ReadClock"
  /\ Takes(SleepTimes, stall)
  /\ UNCHANGED <<behind, seen, clientVars>>

Loop == ReadClock \/ Update \/ AddTick \/ Sleep

-----------------------------------------------------------------------------
(* A unit of real time, in which every live client keeps its interval.     *)
Pass ==
  /\ busy > 0
  /\ \A c \in alive : quiet[c] < ClientInterval
  /\ busy' = busy - 1
  /\ behind' = behind + 1
  /\ quiet' = [c \in Clients |-> IF c \in alive THEN quiet[c] + 1 ELSE quiet[c]]
  /\ UNCHANGED <<step, seen, stall, alive, socket, status, silence>>

(* A packet of a live client reaches the server's socket.                  *)
PacketArrives(c) ==
  /\ c \in alive
  /\ quiet' = [quiet EXCEPT ![c] = 0]
  /\ socket' = socket \cup {c}
  /\ UNCHANGED <<loopVars, alive, status, silence>>

(* A client dies without a word.                                           *)
ClientCrashes(c) ==
  /\ c \in alive
  /\ alive' = alive \ {c}
  /\ quiet' = [quiet EXCEPT ![c] = 0]
  /\ UNCHANGED <<loopVars, socket, status, silence>>

Next ==
  \/ Loop
  \/ Pass
  \/ \E c \in Clients : PacketArrives(c)
  \/ \E c \in Clients : ClientCrashes(c)

(* The thread and the clock go on, and live clients go on sending.         *)
Spec ==
  /\ Init /\ [][Next]_vars
  /\ WF_vars(Loop)
  /\ WF_vars(Pass)
  /\ \A c \in Clients : WF_vars(PacketArrives(c))

-----------------------------------------------------------------------------
(* Properties.                                                             *)

(* Updates are quick: none takes longer than the tick it simulates.        *)
Quick == \A t \in UpdateTimes : t <= Tick

(* The timeout is longer than the thread is held up and a client silent.   *)
Patient == Timeout > ClientInterval + MaxStall

(* Every variable stays in its type.                                       *)
RunLoopTypeOK ==
  /\ step \in {"ReadClock", "Update", "AddTick", "Sleep"}
  /\ busy \in Nat
  /\ behind \in Int
  /\ seen \in Int
  /\ stall \in Nat
  /\ alive \subseteq Clients
  /\ quiet \in [Clients -> 0 .. ClientInterval]
  /\ socket \subseteq Clients
  /\ status \in [Clients -> {"new", "connected", "dropped"}]
  /\ silence \in [Clients -> Nat]

(* m_time is never more than a tick ahead of the clock, wherever the       *)
(* thread was held up between reading the clock and using what it read.    *)
NeverAhead == behind >= -Tick

(* With quick updates the lag is what the thread was held up, and no more  *)
(* than one tick besides: catching up does not itself build up a lag.      *)
LagIsBounded == behind <= MaxStall + Tick

(* A client that keeps sending is never dropped, although the server's     *)
(* time runs fast while it catches up: what m_time gains on the clock is   *)
(* at most the lag.  It takes quick updates and a Patient timeout.         *)
LiveClientsKept == \A c \in Clients : status[c] = "dropped" => c \notin alive

(* After every stall the game is back on time.                             *)
CatchesUp == []<>(behind <= 0)

(* A client that died without a word is dropped in the end.                *)
DeadClientsDropped ==
  \A c \in Clients : (status[c] = "connected" /\ c \notin alive) ~> status[c] = "dropped"
=============================================================================
