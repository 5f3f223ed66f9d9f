---------------------------- MODULE RunLoopProofs ----------------------------
(***************************************************************************)
(* Proofs about the pacing of Run, for every tick, every timeout and every *)
(* bound on what holds the thread up.                                      *)
(***************************************************************************)
EXTENDS RunLoop, TLAPS

USE RunLoopAssumption

LEMMA InitTyped == Init => RunLoopTypeOK
  BY DEF Init, RunLoopTypeOK

(* A step that takes some times out of Nat leaves the thread's delay and   *)
(* the rest of the budget in Nat.                                          *)
LEMMA TakesTyped ==
  ASSUME NEW times \in SUBSET Nat, NEW budget \in Nat, Takes(times, budget)
  PROVE  busy' \in Nat /\ stall' \in Nat
  BY DEF Takes

(* Type correctness is inductive as it stands.                             *)
LEMMA StepTyped ==
  ASSUME RunLoopTypeOK, [Next]_vars
  PROVE  RunLoopTypeOK'
<1> USE DEF RunLoopTypeOK, loopVars, clientVars
<1>1. CASE ReadClock
  <2>1. IF behind <= 0 THEN MaxStall \in Nat ELSE stall \in Nat
    OBVIOUS
  <2>2. busy' \in Nat /\ stall' \in Nat
    BY <1>1, <2>1, TakesTyped DEF ReadClock
  <2> QED BY <1>1, <2>2 DEF ReadClock
<1>2. CASE Update
  <2>1. busy' \in Nat /\ stall' \in Nat
    BY <1>2, TakesTyped DEF Update
  <2>2. status' \in [Clients -> {"new", "connected", "dropped"}]
    BY <1>2 DEF Update, AdvanceTime
  <2>3. silence' \in [Clients -> Nat]
    BY <1>2 DEF Update, AdvanceTime
  <2>4. socket' \subseteq Clients
    BY <1>2 DEF Update, AdvanceTime
  <2> QED BY <1>2, <2>1, <2>2, <2>3, <2>4 DEF Update
<1>3. CASE AddTick
  <2>1. busy' \in Nat /\ stall' \in Nat
    BY <1>3, TakesTyped DEF AddTick
  <2> QED BY <1>3, <2>1 DEF AddTick
<1>4. CASE Sleep
  <2>1. SleepTimes \in SUBSET Nat
    BY DEF SleepTimes
  <2>2. busy' \in Nat /\ stall' \in Nat
    BY <1>4, <2>1, TakesTyped DEF Sleep
  <2> QED BY <1>4, <2>2 DEF Sleep
<1>5. CASE Pass
  BY <1>5 DEF Pass
<1>6. ASSUME NEW c \in Clients, PacketArrives(c)
      PROVE  RunLoopTypeOK'
  BY <1>6 DEF PacketArrives
<1>7. ASSUME NEW c \in Clients, ClientCrashes(c)
      PROVE  RunLoopTypeOK'
  BY <1>7 DEF ClientCrashes
<1>8. CASE UNCHANGED vars
  BY <1>8 DEF vars
<1> QED
  BY <1>1, <1>2, <1>3, <1>4, <1>5, <1>6, <1>7, <1>8 DEF Next, Loop

(* Every variable of the run loop stays in its type.                       *)
THEOREM RunLoopTyped == Spec => []RunLoopTypeOK
<1>1. Init => RunLoopTypeOK
  BY InitTyped
<1>2. RunLoopTypeOK /\ [Next]_vars => RunLoopTypeOK'
  BY StepTyped
<1> QED BY <1>1, <1>2, PTL DEF Spec

-----------------------------------------------------------------------------
(* m_time ahead of the clock.  NeverAhead holds because of what the loop   *)
(* knows at each step: it updates when it read a clock not before m_time,  *)
(* and the clock has gone on since; it sleeps when it read an earlier one. *)
PaceInv ==
  /\ RunLoopTypeOK
  /\ step \in {"Update", "AddTick"} => behind >= 0
  /\ step = "Sleep" => seen < 0 /\ behind >= seen
  /\ behind >= -Tick

LEMMA StepPaced ==
  ASSUME PaceInv, [Next]_vars
  PROVE  PaceInv'
<1>1. RunLoopTypeOK'
  BY StepTyped DEF PaceInv
<1> USE DEF PaceInv, RunLoopTypeOK
<1>2. CASE ReadClock
  BY <1>1, <1>2 DEF ReadClock
<1>3. CASE Update
  BY <1>1, <1>3 DEF Update
<1>4. CASE AddTick
  BY <1>1, <1>4 DEF AddTick
<1>5. CASE Sleep
  BY <1>1, <1>5 DEF Sleep
<1>6. CASE Pass
  BY <1>1, <1>6 DEF Pass
<1>7. ASSUME UNCHANGED loopVars
      PROVE  PaceInv'
  BY <1>1, <1>7 DEF loopVars
<1>8. CASE UNCHANGED vars
  BY <1>7, <1>8 DEF vars
<1> QED
  BY <1>2, <1>3, <1>4, <1>5, <1>6, <1>7, <1>8
     DEF Next, Loop, PacketArrives, ClientCrashes

(* m_time is never more than a tick ahead of the clock, wherever the       *)
(* thread was held up between reading the clock and using what it read.    *)
THEOREM LoopNeverAhead == Spec => []NeverAhead
<1>1. Init => PaceInv
  BY InitTyped DEF Init, PaceInv
<1>2. PaceInv /\ [Next]_vars => PaceInv'
  BY StepPaced
<1>3. PaceInv => NeverAhead
  BY DEF PaceInv, NeverAhead
<1> QED BY <1>1, <1>2, <1>3, PTL DEF Spec

-----------------------------------------------------------------------------
(* The lag.  What the clock will be ahead of m_time when the step at hand  *)
(* is over and all that may hold the thread up has done so is conserved by *)
(* the passing of time, and grows only by what a step itself takes.        *)
Owed == behind + busy + stall

LagInv ==
  /\ PaceInv
  /\ step \in {"ReadClock", "Update"} => Owed <= MaxStall
  /\ step = "AddTick" => Owed <= MaxStall + Tick
  /\ step = "Sleep" => Owed <= MaxStall + seen

LEMMA StepLags ==
  ASSUME Quick, LagInv, [Next]_vars
  PROVE  LagInv'
<1>1. PaceInv'
  BY StepPaced DEF LagInv
<1> USE DEF LagInv, PaceInv, RunLoopTypeOK, Owed
<1>2. CASE ReadClock
  <2>1. CASE behind <= 0
    <3>1. PICK held \in 0 .. MaxStall : busy' = held /\ stall' = MaxStall - held
      BY <1>2, <2>1 DEF ReadClock, Takes
    <3> QED BY <1>1, <1>2, <2>1, <3>1 DEF ReadClock
  <2>2. CASE behind > 0
    <3>1. PICK held \in 0 .. stall : busy' = held /\ stall' = stall - held
      BY <1>2, <2>2 DEF ReadClock, Takes
    <3> QED BY <1>1, <1>2, <2>2, <3>1 DEF ReadClock
  <2> QED BY <2>1, <2>2
<1>3. CASE Update
  <2>1. PICK t \in UpdateTimes, held \in 0 .. stall :
          busy' = t + held /\ stall' = stall - held
    BY <1>3 DEF Update, Takes
  <2>2. t \in Nat /\ t <= Tick
    BY DEF Quick
  <2> QED BY <1>1, <1>3, <2>1, <2>2 DEF Update
<1>4. CASE AddTick
  <2>1. PICK held \in 0 .. stall : busy' = held /\ stall' = stall - held
    BY <1>4 DEF AddTick, Takes
  <2> QED BY <1>1, <1>4, <2>1 DEF AddTick
<1>5. CASE Sleep
  <2>1. PICK t \in SleepTimes, held \in 0 .. stall :
          busy' = t + held /\ stall' = stall - held
    BY <1>5 DEF Sleep, Takes
  <2>2. t \in Nat /\ t <= -seen
    BY DEF SleepTimes
  <2> QED BY <1>1, <1>5, <2>1, <2>2 DEF Sleep
<1>6. CASE Pass
  BY <1>1, <1>6 DEF Pass
<1>7. ASSUME UNCHANGED loopVars
      PROVE  LagInv'
  BY <1>1, <1>7 DEF loopVars
<1>8. CASE UNCHANGED vars
  BY <1>7, <1>8 DEF vars
<1> QED
  BY <1>2, <1>3, <1>4, <1>5, <1>6, <1>7, <1>8
     DEF Next, Loop, PacketArrives, ClientCrashes

LEMMA LagStarts == Init => LagInv
  BY InitTyped DEF Init, LagInv, PaceInv, Owed

(* With quick updates the lag is what the thread was held up, and no more  *)
(* than one tick besides.                                                  *)
THEOREM LagStaysBounded ==
  ASSUME Quick
  PROVE  Spec => []LagIsBounded
<1>1. LagInv /\ [Next]_vars => LagInv'
  BY StepLags
<1>2. LagInv => LagIsBounded
  BY DEF LagInv, PaceInv, RunLoopTypeOK, Owed, LagIsBounded
<1> QED BY LagStarts, <1>1, <1>2, PTL DEF Spec

-----------------------------------------------------------------------------
(* The timeouts.  A tick makes a client older in m_time and m_time later   *)
(* by the same amount, so the silence that the server has counted and the  *)
(* lag together are never more than what is true in real time and the      *)
(* stall.                                                                  *)
KeptInv ==
  /\ LagInv
  /\ LiveClientsKept
  /\ \A c \in alive : status[c] = "connected" /\ c \notin socket
                      => silence[c] + behind <= quiet[c] + MaxStall

LEMMA StepKeeps ==
  ASSUME Quick, Patient, KeptInv, [Next]_vars
  PROVE  KeptInv'
<1>1. LagInv'
  BY StepLags DEF KeptInv
<1> USE DEF KeptInv, LagInv, PaceInv, RunLoopTypeOK, LiveClientsKept
<1>2. CASE Update
  <2>1. 0 <= behind /\ behind <= MaxStall
    BY <1>2 DEF Update, Owed
  <2>2. alive' = alive /\ quiet' = quiet /\ behind' = behind
    BY <1>2 DEF Update
  <2>3. AdvanceTime
    BY <1>2 DEF Update
  <2>4. ASSUME NEW c \in alive
        PROVE  /\ status'[c] # "dropped"
               /\ silence'[c] + behind <= quiet[c] + MaxStall
    <3>1. c \in Clients /\ quiet[c] \in 0 .. ClientInterval /\ silence[c] \in Nat
      OBVIOUS
    <3>2. CASE c \in socket
      BY <2>1, <2>3, <3>1, <3>2 DEF AdvanceTime
    <3>3. CASE c \notin socket /\ status[c] = "connected"
      <4>1. silence[c] + behind <= quiet[c] + MaxStall
        BY <3>3
      <4>2. silence[c] < Timeout
        BY <2>1, <3>1, <4>1 DEF Patient
      <4>3. status'[c] = "connected" /\ silence'[c] = silence[c]
        BY <2>3, <3>1, <3>3, <4>2 DEF AdvanceTime
      <4> QED BY <4>1, <4>3
    <3>4. CASE c \notin socket /\ status[c] # "connected"
      BY <2>1, <2>3, <3>1, <3>4 DEF AdvanceTime
    <3> QED BY <3>2, <3>3, <3>4
  <2> QED BY <1>1, <2>2, <2>4
<1>3. CASE AddTick
  BY <1>1, <1>3 DEF AddTick
<1>4. CASE Pass
  BY <1>1, <1>4 DEF Pass
<1>5. ASSUME NEW c \in Clients, PacketArrives(c)
      PROVE  KeptInv'
  BY <1>1, <1>5 DEF PacketArrives, loopVars
<1>6. ASSUME NEW c \in Clients, ClientCrashes(c)
      PROVE  KeptInv'
  BY <1>1, <1>6 DEF ClientCrashes, loopVars
<1>7. ASSUME UNCHANGED <<behind, clientVars>>
      PROVE  KeptInv'
  BY <1>1, <1>7 DEF clientVars
<1>8. CASE UNCHANGED vars
  BY <1>7, <1>8 DEF vars, loopVars
<1> QED
  BY <1>2, <1>3, <1>4, <1>5, <1>6, <1>7, <1>8
     DEF Next, Loop, ReadClock, Sleep

(* A client that keeps sending is never dropped, although the server's     *)
(* time runs fast while it catches up after a stall.                       *)
THEOREM RunKeepsLiveClients ==
  ASSUME Quick, Patient
  PROVE  Spec => []LiveClientsKept
<1>1. Init => KeptInv
  BY LagStarts DEF Init, KeptInv, LiveClientsKept
<1>2. KeptInv /\ [Next]_vars => KeptInv'
  BY StepKeeps
<1>3. KeptInv => LiveClientsKept
  BY DEF KeptInv
<1> QED BY <1>1, <1>2, <1>3, PTL DEF Spec
=============================================================================
