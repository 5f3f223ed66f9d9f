--------------------------- MODULE GameClientProofs ---------------------------
(***************************************************************************)
(* Proofs about GameClient, for histories and batches of world states of   *)
(* every length.                                                           *)
(*                                                                         *)
(* The two loops of the client, the replay and the draining of its         *)
(* messages, are recursive functions of the number of turns.  Induction    *)
(* over that number is induction over a set: its least counterexample.     *)
(***************************************************************************)
EXTENDS GameClient, SequenceTheorems, WellFoundedInduction, TLAPS

-----------------------------------------------------------------------------
(* Induction and iteration.                                                *)

LEMMA LeastNatural ==
  ASSUME NEW T \in SUBSET Nat, T # {}
  PROVE  \E n \in T : \A m \in T : n <= m
<1> DEFINE R == OpToRel(<, Nat)
<1>1. \E n \in T : \A m \in T : ~(<<m, n>> \in R)
  <2>1. IsWellFoundedOn(R, Nat)
    BY NatLessThanWellFounded
  <2> HIDE DEF R
  <2> QED
    BY <2>1, WFMin
<1>2. \A m, n \in Nat : ~(<<m, n>> \in R) => n <= m
  BY DEF OpToRel
<1> QED
  BY <1>1, <1>2

(* Induction over 0 .. N, with the set of numbers for which it holds.      *)
LEMMA IndexInduction ==
  ASSUME NEW N \in Nat, NEW T, 0 \in T,
         \A n \in 1 .. N : n - 1 \in T => n \in T
  PROVE  0 .. N \subseteq T
<1> DEFINE U == (0 .. N) \ T
<1>1. SUFFICES ASSUME U # {} PROVE FALSE
  OBVIOUS
<1>2. PICK n \in U : \A m \in U : n <= m
  <2>1. U \in SUBSET Nat
    OBVIOUS
  <2> HIDE DEF U
  <2> QED
    BY <1>1, <2>1, LeastNatural
<1>3. n \in 1 .. N /\ n - 1 \in 0 .. N
  BY <1>2
<1>4. n - 1 \in T
  BY <1>2, <1>3
<1> QED
  BY <1>3, <1>4

(* The values a loop of N turns goes through.                              *)
Iterates(g, base, N, step) ==
  g[0] = base /\ \A n \in 1 .. N : g[n] = step[n][g[n - 1]]

(* A loop of N turns has a value after each of them.                       *)
LEMMA IterationExists ==
  ASSUME NEW S, NEW base \in S, NEW N \in Nat, NEW step \in [1 .. N -> [S -> S]]
  PROVE  \E g \in [0 .. N -> S] : Iterates(g, base, N, step)
<1> DEFINE Runs(g, n) == g[0] = base /\ \A i \in 1 .. n : g[i] = step[i][g[i - 1]]
           T == {n \in 0 .. N : \E g \in [0 .. n -> S] : Runs(g, n)}
<1>1. 0 \in T
  <2> DEFINE g == [i \in 0 .. 0 |-> base]
  <2>1. g \in [0 .. 0 -> S] /\ Runs(g, 0)
    OBVIOUS
  <2>2. \E f \in [0 .. 0 -> S] : Runs(f, 0)
    BY <2>1
  <2> QED
    BY <2>2
<1>2. ASSUME NEW n \in 1 .. N, n - 1 \in T PROVE n \in T
  <2>1. PICK g \in [0 .. n - 1 -> S] : Runs(g, n - 1)
    BY <1>2
  <2> DEFINE h == [i \in 0 .. n |-> IF i = n THEN step[n][g[n - 1]] ELSE g[i]]
  <2>2. step[n][g[n - 1]] \in S
    <3>1. n - 1 \in 0 .. n - 1 /\ g[n - 1] \in S
      BY <2>1
    <3> QED
      BY <3>1
  <2>3. h \in [0 .. n -> S]
    BY <2>2
  <2>4. Runs(h, n)
    <3>1. h[0] = base
      BY <2>1
    <3>2. ASSUME NEW i \in 1 .. n PROVE h[i] = step[i][h[i - 1]]
      <4>1. h[i - 1] = g[i - 1]
        OBVIOUS
      <4>2. i # n => i \in 1 .. n - 1
        OBVIOUS
      <4> QED
        BY <4>1, <4>2, <2>1
    <3> QED
      BY <3>1, <3>2
  <2>5. \E f \in [0 .. n -> S] : Runs(f, n)
    BY <2>3, <2>4
  <2> QED
    BY <2>5
<1>3. N \in T
  <2> HIDE DEF T
  <2>1. 0 .. N \subseteq T
    BY <1>1, <1>2, IndexInduction
  <2> QED
    BY <2>1
<1>4. PICK g \in [0 .. N -> S] : Runs(g, N)
  BY <1>3
<1>5. Iterates(g, base, N, step)
  BY <1>4 DEF Iterates
<1> QED
  BY <1>5

-----------------------------------------------------------------------------
(* Movement and its replay.                                                *)

LEMMA PredictTyped ==
  ASSUME NEW player \in PlayerState, NEW input, input.move \in Moves
  PROVE  /\ PredictMovement(player, input) \in PlayerState
         /\ PredictMovement(player, input).size = player.size
<1>1. /\ input.move.x \in {-1, 0, 1}
      /\ input.move.y \in {-1, 0, 1}
  BY ProtocolAssumption DEF KeyboardMoves
<1>2. /\ Displacement(input.move).x \in Int
      /\ Displacement(input.move).y \in Int
  BY <1>1, ProtocolAssumption DEF Displacement
<1>3. \A v \in Int, limit \in Nat : Clamp(v, limit) \in 0 .. limit
  BY DEF Clamp
<1>4. /\ player.position.x + Displacement(input.move).x \in Int
      /\ player.position.y + Displacement(input.move).y \in Int
  BY <1>2, ProtocolAssumption DEF PlayerState, Position
<1>5. /\ Clamp(player.position.x + Displacement(input.move).x, WORLD_WIDTH) \in 0 .. WORLD_WIDTH
      /\ Clamp(player.position.y + Displacement(input.move).y, WORLD_HEIGHT) \in 0 .. WORLD_HEIGHT
  BY <1>3, <1>4, ProtocolAssumption
<1> QED
  BY <1>5 DEF PredictMovement, PlayerState, Position

(* The replay is the last value of the loop over the history.              *)
LEMMA ReplayRuns ==
  ASSUME NEW player \in PlayerState, NEW history \in Seq(StoredInput)
  PROVE  \E g \in [0 .. Len(history) -> PlayerState] :
           /\ g[0] = player
           /\ \A n \in 1 .. Len(history) : g[n] = PredictMovement(g[n - 1], history[n])
           /\ Replay(player, history) = g[Len(history)]
<1> DEFINE N == Len(history)
           step == [n \in 1 .. N |-> [p \in PlayerState |-> PredictMovement(p, history[n])]]
           Body(g) == [n \in 0 .. N |-> IF n = 0 THEN player
                                        ELSE PredictMovement(g[n - 1], history[n])]
           after == CHOOSE g : g = Body(g)
<1>1. N \in Nat /\ \A n \in 1 .. N : history[n].move \in Moves
  <2>1. \A n \in 1 .. N : history[n] \in StoredInput
    OBVIOUS
  <2> QED
    BY <2>1 DEF StoredInput
<1>2. step \in [1 .. N -> [PlayerState -> PlayerState]]
  BY <1>1, PredictTyped
<1>3. PICK g \in [0 .. N -> PlayerState] :
        Iterates(g, player, N, step)
  <2>1. player \in PlayerState /\ N \in Nat
    BY <1>1
  <2> HIDE DEF N, step
  <2> QED
    BY <1>2, <2>1, IterationExists
<1>4. \A n \in 1 .. N : g[n] = PredictMovement(g[n - 1], history[n])
  <2> TAKE n \in 1 .. N
  <2>1. g[n - 1] \in PlayerState
    BY <1>1, <1>3
  <2> QED
    BY <1>3, <2>1 DEF Iterates
<1>5. g = Body(g)
  BY <1>1, <1>3, <1>4 DEF Iterates
<1>6. after = Body(after)
  <2> HIDE DEF Body
  <2> QED
    BY <1>5
<1>7. Replay(player, history) = after[N]
  BY DEF Replay
<1>8. /\ DOMAIN after = 0 .. N
      /\ after[0] = player
      /\ \A n \in 1 .. N : after[n] = PredictMovement(after[n - 1], history[n])
  <2> HIDE DEF after
  <2> QED
    BY <1>1, <1>6
<1> HIDE DEF after
<1>9. \A n \in 0 .. N : after[n] = g[n]
  <2> DEFINE T == {n \in 0 .. N : after[n] = g[n]}
  <2>1. 0 \in T
    BY <1>1, <1>3, <1>8 DEF Iterates
  <2>2. \A n \in 1 .. N : n - 1 \in T => n \in T
    BY <1>4, <1>8
  <2> HIDE DEF N
  <2>3. 0 .. N \subseteq T
    <3> HIDE DEF T
    <3> QED
      BY <1>1, <2>1, <2>2, IndexInduction
  <2> QED
    BY <2>3
<1> QED
  BY <1>1, <1>3, <1>4, <1>7, <1>9 DEF Iterates

(* Whatever goes through the same values as the loop ends where it ends.   *)
LEMMA ReplayIs ==
  ASSUME NEW player \in PlayerState, NEW history \in Seq(StoredInput), NEW g,
         g[0] = player,
         \A n \in 1 .. Len(history) : g[n] = PredictMovement(g[n - 1], history[n])
  PROVE  Replay(player, history) = g[Len(history)]
<1> DEFINE N == Len(history)
<1>1. PICK h \in [0 .. N -> PlayerState] :
        /\ h[0] = player
        /\ \A n \in 1 .. N : h[n] = PredictMovement(h[n - 1], history[n])
        /\ Replay(player, history) = h[N]
  BY ReplayRuns
<1> DEFINE T == {n \in 0 .. N : h[n] = g[n]}
<1>2. N \in Nat
  OBVIOUS
<1>3. 0 \in T
  BY <1>1, <1>2
<1>4. \A n \in 1 .. N : n - 1 \in T => n \in T
  BY <1>1, <1>2
<1> HIDE DEF N
<1>5. 0 .. N \subseteq T
  <2> HIDE DEF T
  <2> QED
    BY <1>2, <1>3, <1>4, IndexInduction
<1>6. h[N] = g[N]
  BY <1>2, <1>5
<1> QED
  BY <1>1, <1>6 DEF N

(* A replay without inputs changes nothing, one more input is one more     *)
(* movement.                                                               *)
LEMMA ReplayEmpty ==
  ASSUME NEW player \in PlayerState
  PROVE  Replay(player, <<>>) = player
<1> DEFINE history == <<>>
<1>1. history \in Seq(StoredInput) /\ Len(history) = 0
  BY EmptySeq
<1> HIDE DEF history
<1>2. PICK g \in [0 .. Len(history) -> PlayerState] :
        g[0] = player /\ Replay(player, history) = g[Len(history)]
  BY <1>1, ReplayRuns
<1>3. Replay(player, history) = player
  BY <1>1, <1>2
<1> QED
  BY <1>3 DEF history

LEMMA ReplayAppend ==
  ASSUME NEW player \in PlayerState, NEW history \in Seq(StoredInput),
         NEW input \in StoredInput
  PROVE  Replay(player, Append(history, input)) =
           PredictMovement(Replay(player, history), input)
<1> DEFINE longer == Append(history, input)
<1>1. /\ longer \in Seq(StoredInput)
      /\ Len(history) \in Nat
      /\ Len(longer) = Len(history) + 1
      /\ \A n \in 1 .. Len(history) : longer[n] = history[n]
      /\ longer[Len(history) + 1] = input
  BY AppendProperties
<1>2. PICK g \in [0 .. Len(longer) -> PlayerState] :
        /\ g[0] = player
        /\ \A n \in 1 .. Len(longer) : g[n] = PredictMovement(g[n - 1], longer[n])
        /\ Replay(player, longer) = g[Len(longer)]
  BY <1>1, ReplayRuns
<1> HIDE DEF longer
<1>3. \A n \in 1 .. Len(history) : g[n] = PredictMovement(g[n - 1], history[n])
  BY <1>1, <1>2
<1>4. Replay(player, history) = g[Len(history)]
  BY <1>2, <1>3, ReplayIs
<1>5. g[Len(history) + 1] = PredictMovement(g[Len(history)], input)
  BY <1>1, <1>2
<1> QED
  BY <1>1, <1>2, <1>4, <1>5 DEF longer

LEMMA ReplayTyped ==
  ASSUME NEW player \in PlayerState, NEW history \in Seq(StoredInput)
  PROVE  Replay(player, history) \in PlayerState
<1>1. Len(history) \in Nat
  OBVIOUS
<1> QED
  BY <1>1, ReplayRuns

(* So is what the client has become after the last of its messages.        *)
LEMMA WorldStatesRun ==
  ASSUME NEW S, NEW client \in S, NEW messages, Len(messages) \in Nat,
         \A r \in S, n \in 1 .. Len(messages) : ReceiveWorldState(r, messages[n]) \in S
  PROVE  \E g \in [0 .. Len(messages) -> S] :
           /\ g[0] = client
           /\ \A n \in 1 .. Len(messages) : g[n] = ReceiveWorldState(g[n - 1], messages[n])
           /\ ReceiveWorldStates(client, messages) = g[Len(messages)]
<1> DEFINE N == Len(messages)
           step == [n \in 1 .. N |-> [r \in S |-> ReceiveWorldState(r, messages[n])]]
           Body(g) == [n \in 0 .. N |-> IF n = 0 THEN client
                                        ELSE ReceiveWorldState(g[n - 1], messages[n])]
           after == CHOOSE g : g = Body(g)
<1>1. N \in Nat /\ client \in S /\ step \in [1 .. N -> [S -> S]]
  OBVIOUS
<1>2. PICK g \in [0 .. N -> S] : Iterates(g, client, N, step)
  <2> HIDE DEF N, step
  <2> QED
    BY <1>1, IterationExists
<1>3. \A n \in 1 .. N : g[n] = ReceiveWorldState(g[n - 1], messages[n])
  <2> TAKE n \in 1 .. N
  <2>1. g[n - 1] \in S
    BY <1>1, <1>2
  <2> QED
    BY <1>2, <2>1 DEF Iterates
<1>4. g = Body(g)
  BY <1>1, <1>2, <1>3 DEF Iterates
<1>5. after = Body(after)
  <2> HIDE DEF Body
  <2> QED
    BY <1>4
<1>6. ReceiveWorldStates(client, messages) = after[N]
  BY DEF ReceiveWorldStates
<1>7. /\ after[0] = client
      /\ \A n \in 1 .. N : after[n] = ReceiveWorldState(after[n - 1], messages[n])
  <2> HIDE DEF after
  <2> QED
    BY <1>1, <1>5
<1> DEFINE T == {n \in 0 .. N : after[n] = g[n]}
<1> HIDE DEF after
<1>8. 0 \in T /\ \A n \in 1 .. N : n - 1 \in T => n \in T
  BY <1>1, <1>2, <1>3, <1>7 DEF Iterates
<1>9. 0 .. N \subseteq T
  <2> HIDE DEF N, T
  <2> QED
    BY <1>1, <1>8, IndexInduction
<1>10. g[0] = client /\ ReceiveWorldStates(client, messages) = g[N]
  BY <1>1, <1>2, <1>6, <1>9 DEF Iterates
<1> HIDE DEF N
<1> QED
  BY <1>2, <1>3, <1>10 DEF N

(* What every world state preserves, any number of them preserves.         *)
LEMMA WorldStatesPreserve ==
  ASSUME NEW S, NEW client \in S, NEW messages, Len(messages) \in Nat,
         \A r \in S, n \in 1 .. Len(messages) : ReceiveWorldState(r, messages[n]) \in S
  PROVE  ReceiveWorldStates(client, messages) \in S
<1>1. PICK g \in [0 .. Len(messages) -> S] :
        ReceiveWorldStates(client, messages) = g[Len(messages)]
  BY WorldStatesRun
<1> QED
  BY <1>1

-----------------------------------------------------------------------------
(* The input history is a deque: inputs leave it at the front only.        *)

LEMMA KeepLastIsSuffix ==
  ASSUME NEW S, NEW deque \in Seq(S), NEW n \in Nat
  PROVE  LET kept == KeepLast(deque, n)
         IN  /\ kept \in Seq(S)
             /\ Len(deque) <= n => kept = deque
             /\ Len(deque) > n => Len(kept) = n
             /\ \A i \in 1 .. Len(kept) : kept[i] = deque[Len(deque) - Len(kept) + i]
<1>1. CASE Len(deque) <= n
  <2>1. Len(deque) \in Nat /\ ~(Len(deque) > n)
    BY <1>1
  <2>2. KeepLast(deque, n) = deque
    BY <2>1 DEF KeepLast
  <2> QED
    BY <2>1, <2>2
<1>2. CASE Len(deque) > n
  <2> DEFINE first == Len(deque) - n + 1
             kept  == SubSeq(deque, first, Len(deque))
  <2>1. /\ Len(deque) \in Nat
        /\ first \in Int
        /\ first >= 1
        /\ \A i \in first .. Len(deque) : deque[i] \in S
    BY <1>2
  <2>2. /\ kept \in Seq(S)
        /\ Len(kept) = IF first <= Len(deque) THEN Len(deque) - first + 1 ELSE 0
        /\ \A i \in 1 .. Len(deque) - first + 1 : kept[i] = deque[first + i - 1]
    <3> HIDE DEF first
    <3> QED
      BY <2>1, SubSeqProperties
  <2>3. Len(kept) = n
    BY <1>2, <2>1, <2>2
  <2>4. \A i \in 1 .. n : kept[i] = deque[Len(deque) - n + i]
    BY <2>1, <2>2
  <2>5. KeepLast(deque, n) = kept
    BY <1>2 DEF KeepLast
  <2> HIDE DEF kept, first
  <2> QED
    BY <1>2, <2>1, <2>2, <2>3, <2>4, <2>5
<1> QED
  BY <1>1, <1>2

(* A bounded set of numbers has a greatest element.                        *)
LEMMA MaxOfBounded ==
  ASSUME NEW N \in Nat, NEW T \in SUBSET (0 .. N), T # {}
  PROVE  Max(T) \in T /\ \A t \in T : t <= Max(T)
<1> DEFINE U == {N - t : t \in T}
<1>1. U \in SUBSET Nat /\ U # {}
  <2>1. \A t \in T : N - t \in Nat
    OBVIOUS
  <2>2. PICK t \in T : TRUE
    OBVIOUS
  <2>3. N - t \in U
    OBVIOUS
  <2> QED
    BY <2>1, <2>3
<1>2. PICK u \in U : \A m \in U : u <= m
  <2> HIDE DEF U
  <2> QED
    BY <1>1, LeastNatural
<1>3. N - u \in T /\ \A t \in T : N - u >= t
  BY <1>2
<1> QED
  BY <1>3 DEF Max

(* What reconciliation drops: the longest prefix the server has processed. *)
LEMMA UnacknowledgedIsSuffix ==
  ASSUME NEW history \in Seq(StoredInput), NEW ack \in Nat
  PROVE  LET pending == Unacknowledged(history, ack)
         IN  \E d \in 0 .. Len(history) :
               /\ \A i \in 1 .. d : history[i].sequenceNumber <= ack
               /\ d < Len(history) => ~(history[d + 1].sequenceNumber <= ack)
               /\ pending \in Seq(StoredInput)
               /\ Len(pending) = Len(history) - d
               /\ \A i \in 1 .. Len(pending) : pending[i] = history[d + i]
<1> DEFINE N == Len(history)
           T == {n \in 0 .. N : \A i \in 1 .. n : history[i].sequenceNumber <= ack}
           d == Max(T)
           pending == SubSeq(history, d + 1, N)
<1>1. N \in Nat /\ 0 \in T /\ T \in SUBSET (0 .. N)
  OBVIOUS
<1>2. d \in T /\ \A t \in T : t <= d
  <2> HIDE DEF N, T
  <2> QED
    BY <1>1, MaxOfBounded
<1>3. Unacknowledged(history, ack) = pending
  BY DEF Unacknowledged
<1> HIDE DEF d
<1>4. d \in 0 .. N /\ \A i \in 1 .. d : history[i].sequenceNumber <= ack
  BY <1>2
<1>5. ASSUME d < N PROVE ~(history[d + 1].sequenceNumber <= ack)
  <2>1. SUFFICES ASSUME history[d + 1].sequenceNumber <= ack PROVE FALSE
    OBVIOUS
  <2>2. \A i \in 1 .. d + 1 : history[i].sequenceNumber <= ack
    BY <1>4, <2>1
  <2>3. d + 1 \in T
    BY <1>4, <1>5, <2>2
  <2> QED
    BY <1>2, <1>4, <2>3
<1>6. /\ pending \in Seq(StoredInput)
      /\ Len(pending) = N - d
      /\ \A i \in 1 .. N - d : pending[i] = history[d + i]
  <2>1. \A i \in d + 1 .. N : history[i] \in StoredInput
    BY <1>4
  <2>2. /\ pending \in Seq(StoredInput)
        /\ Len(pending) = IF d + 1 <= N THEN N - (d + 1) + 1 ELSE 0
        /\ \A i \in 1 .. N - (d + 1) + 1 : pending[i] = history[(d + 1) + i - 1]
    <3> HIDE DEF N
    <3> QED
      BY <1>1, <1>4, <2>1, SubSeqProperties
  <2> HIDE DEF pending
  <2> QED
    BY <1>1, <1>4, <2>2
<1> QED
  BY <1>3, <1>4, <1>5, <1>6

-----------------------------------------------------------------------------
(* What the parts of an update do to a client.                             *)

(* A world state as the server makes it.                                   *)
WorldState ==
  [serverTick            : Nat,
   lastProcessedInputSeq : Nat,
   players               : SUBSET ShownPlayer,
   food                  : [FoodSlots -> [position : Position, tier : FoodTier]]]

(* SendInput does nothing, or makes one input.                             *)
LEMMA SendInputEffect ==
  ASSUME NEW client \in ClientState, NEW move \in Moves \cup {NoMove}
  PROVE  LET after == SendInput(client, move)
             input == [sequenceNumber |-> client.inputSequence + 1, move |-> move]
         IN  /\ after \in ClientState
             /\ after.status = client.status
             /\ after.clientIndex = client.clientIndex
             /\ after.isLocalPlayerCreated = client.isLocalPlayerCreated
             /\ after.localPlayer = client.localPlayer
             /\ \/ after = client
                \/ /\ client.isLocalPlayerCreated
                   /\ move \in Moves
                   /\ input \in StoredInput
                   /\ after.inputSequence = client.inputSequence + 1
                   /\ after.inputHistory =
                        KeepLast(Append(client.inputHistory, input), MAX_INPUT_HISTORY)
                   /\ after.predictedPlayer = PredictMovement(client.predictedPlayer, input)
<1> DEFINE after == SendInput(client, move)
           input == [sequenceNumber |-> client.inputSequence + 1, move |-> move]
<1>1. CASE ~client.isLocalPlayerCreated \/ move = NoMove
  BY <1>1 DEF SendInput
<1>2. CASE client.isLocalPlayerCreated /\ move # NoMove
  <2> DEFINE history == KeepLast(Append(client.inputHistory, input), MAX_INPUT_HISTORY)
             player  == PredictMovement(client.predictedPlayer, input)
             number  == client.inputSequence + 1
  <2>1. /\ client.inputSequence \in Nat
        /\ client.inputHistory \in Seq(StoredInput)
        /\ client.predictedPlayer \in PlayerState
    BY DEF ClientState
  <2>2. move \in Moves /\ input \in StoredInput /\ input.move = move
    BY <1>2, <2>1 DEF StoredInput
  <2>3. history \in Seq(StoredInput)
    <3>1. Append(client.inputHistory, input) \in Seq(StoredInput)
      BY <2>1, <2>2, AppendProperties
    <3> QED
      BY <3>1, KeepLastIsSuffix, ClientAssumption
  <2>4. player \in PlayerState
    BY <2>1, <2>2, PredictTyped
  <2>5. after = [client EXCEPT !.inputSequence   = number,
                               !.inputHistory    = history,
                               !.predictedPlayer = player]
    BY <1>2 DEF SendInput
  <2>a. number \in Nat
    BY <2>1
  <2> HIDE DEF after, history, player, number
  <2>6. /\ after \in ClientState
        /\ after.status = client.status
        /\ after.clientIndex = client.clientIndex
        /\ after.isLocalPlayerCreated = client.isLocalPlayerCreated
        /\ after.localPlayer = client.localPlayer
        /\ after.inputSequence = number
        /\ after.inputHistory = history
        /\ after.predictedPlayer = player
    BY <2>3, <2>4, <2>5, <2>a DEF ClientState
  <2> QED
    BY <1>2, <2>2, <2>6 DEF after, history, player, number
<1> QED
  BY <1>1, <1>2

(* A world state without the client's player leaves the player alone; one  *)
(* with it creates the local player or reconciles with it.                 *)
LEMMA ReceiveEffect ==
  ASSUME NEW client \in ClientState, NEW message \in WorldState
  PROVE  LET after   == ReceiveWorldState(client, message)
             pending == Unacknowledged(client.inputHistory, message.lastProcessedInputSeq)
         IN  /\ after \in ClientState
             /\ after.status = client.status
             /\ after.clientIndex = client.clientIndex
             /\ after.inputSequence = client.inputSequence
             /\ \/ /\ \A p \in message.players : p.id # client.clientIndex
                   /\ after.isLocalPlayerCreated = client.isLocalPlayerCreated
                   /\ after.localPlayer = client.localPlayer
                   /\ after.predictedPlayer = client.predictedPlayer
                   /\ after.inputHistory = client.inputHistory
                \/ \E p \in message.players :
                     /\ p.id = client.clientIndex
                     /\ after.isLocalPlayerCreated
                     /\ after.localPlayer = [position |-> p.position, size |-> p.size]
                     /\ after.localPlayer \in PlayerState
                     /\ \/ /\ ~client.isLocalPlayerCreated
                           /\ after.inputHistory = client.inputHistory
                           /\ after.predictedPlayer = after.localPlayer
                        \/ /\ client.isLocalPlayerCreated
                           /\ after.inputHistory = pending
                           /\ after.predictedPlayer = Replay(after.localPlayer, pending)
<1> DEFINE after   == ReceiveWorldState(client, message)
           pending == Unacknowledged(client.inputHistory, message.lastProcessedInputSeq)
           own     == {p \in message.players : p.id = client.clientIndex}
           me      == CHOOSE p \in own : TRUE
           player  == [position |-> me.position, size |-> me.size]
           shown   == KeepLast(Append(client.snapshotBuffer,
                                      [serverTick |-> message.serverTick,
                                       players    |-> message.players \ own]), MAX_SNAPSHOTS)
           food    == [j \in DOMAIN message.food |->
                         CreateFoodItemFromTier(message.food[j].position, message.food[j].tier)]
           seen    == [client EXCEPT !.snapshotBuffer = shown, !.foodItems = food]
<1>1. /\ client.snapshotBuffer \in Seq(Snapshot)
      /\ client.inputHistory \in Seq(StoredInput)
      /\ message.lastProcessedInputSeq \in Nat
  BY DEF ClientState, WorldState
<1>2. shown \in Seq(Snapshot)
  <2>1. [serverTick |-> message.serverTick, players |-> message.players \ own] \in Snapshot
    BY DEF WorldState, Snapshot
  <2>2. Append(client.snapshotBuffer,
               [serverTick |-> message.serverTick, players |-> message.players \ own])
          \in Seq(Snapshot)
    BY <1>1, <2>1, AppendProperties
  <2> QED
    BY <2>2, KeepLastIsSuffix, ClientAssumption
<1>3. food \in [FoodSlots -> ShownFood]
  <2>1. \A t \in FoodTier : FoodValue(t) \in Nat
    BY ProtocolAssumption DEF FoodTier, FoodValue
  <2>2. message.food \in [FoodSlots -> [position : Position, tier : FoodTier]]
    BY DEF WorldState
  <2> QED
    BY <2>1, <2>2 DEF CreateFoodItemFromTier, ShownFood
<1>4. /\ seen \in ClientState
      /\ seen.status = client.status
      /\ seen.clientIndex = client.clientIndex
      /\ seen.isLocalPlayerCreated = client.isLocalPlayerCreated
      /\ seen.localPlayer = client.localPlayer
      /\ seen.predictedPlayer = client.predictedPlayer
      /\ seen.inputSequence = client.inputSequence
      /\ seen.inputHistory = client.inputHistory
  <2> HIDE DEF shown, food
  <2> QED
    BY <1>2, <1>3 DEF ClientState
<1>5. after = IF own = {} THEN seen
              ELSE IF ~client.isLocalPlayerCreated THEN CreateLocalPlayer(seen, player)
              ELSE ReconcileWithServer(seen, player, message.lastProcessedInputSeq)
  BY DEF ReceiveWorldState
<1> HIDE DEF after, seen
<1>6. CASE own = {}
  <2>1. \A p \in message.players : p.id # client.clientIndex
    BY <1>6
  <2>2. after = seen
    BY <1>5, <1>6
  <2> QED
    BY <1>4, <2>1, <2>2 DEF after
<1>7. CASE own # {}
  <2>1. me \in own
    BY <1>7
  <2>2. me \in message.players /\ me.id = client.clientIndex
    BY <2>1
  <2>3. player \in PlayerState
    BY <2>2 DEF WorldState, ShownPlayer, PlayerState
  <2> HIDE DEF me, own
  <2>4. CASE ~client.isLocalPlayerCreated
    <3>1. after = [seen EXCEPT !.isLocalPlayerCreated = TRUE,
                               !.localPlayer          = player,
                               !.predictedPlayer      = player]
      BY <1>5, <1>7, <2>4 DEF CreateLocalPlayer
    <3> HIDE DEF player
    <3>2. /\ after \in ClientState
          /\ after.status = seen.status
          /\ after.clientIndex = seen.clientIndex
          /\ after.inputSequence = seen.inputSequence
          /\ after.isLocalPlayerCreated
          /\ after.localPlayer = player
          /\ after.predictedPlayer = player
          /\ after.inputHistory = seen.inputHistory
      BY <1>4, <2>3, <3>1 DEF ClientState
    <3>3. /\ me \in message.players
          /\ me.id = client.clientIndex
          /\ after.isLocalPlayerCreated
          /\ after.localPlayer = [position |-> me.position, size |-> me.size]
          /\ after.localPlayer \in PlayerState
          /\ ~client.isLocalPlayerCreated
          /\ after.inputHistory = client.inputHistory
          /\ after.predictedPlayer = after.localPlayer
      BY <1>4, <2>2, <2>3, <2>4, <3>2 DEF player
    <3> QED
      BY <1>4, <3>2, <3>3 DEF after
  <2>5. CASE client.isLocalPlayerCreated
    <3>1. pending \in Seq(StoredInput)
      BY <1>1, UnacknowledgedIsSuffix
    <3>2. Replay(player, pending) \in PlayerState
      BY <2>3, <3>1, ReplayTyped
    <3>3. after = [seen EXCEPT !.inputHistory    = pending,
                               !.localPlayer     = player,
                               !.predictedPlayer = Replay(player, pending)]
      BY <1>4, <1>5, <1>7, <2>5 DEF ReconcileWithServer
    <3> HIDE DEF player, pending
    <3>4. /\ after \in ClientState
          /\ after.status = seen.status
          /\ after.clientIndex = seen.clientIndex
          /\ after.inputSequence = seen.inputSequence
          /\ after.isLocalPlayerCreated = seen.isLocalPlayerCreated
          /\ after.localPlayer = player
          /\ after.predictedPlayer = Replay(player, pending)
          /\ after.inputHistory = pending
      BY <1>4, <2>3, <3>1, <3>2, <3>3 DEF ClientState
    <3>5. /\ me \in message.players
          /\ me.id = client.clientIndex
          /\ after.isLocalPlayerCreated
          /\ after.localPlayer = [position |-> me.position, size |-> me.size]
          /\ after.localPlayer \in PlayerState
          /\ client.isLocalPlayerCreated
          /\ after.inputHistory = pending
          /\ after.predictedPlayer = Replay(after.localPlayer, pending)
      BY <1>4, <2>2, <2>3, <2>5, <3>4 DEF player
    <3> QED
      BY <1>4, <3>4, <3>5 DEF after, pending
  <2> QED
    BY <2>4, <2>5
<1> QED
  BY <1>6, <1>7 DEF after

(* What is shown of the others is none of the client's own state.          *)
LEMMA RefreshEffect ==
  ASSUME NEW client \in ClientState
  PROVE  LET after == RefreshOtherPlayers(client)
         IN  /\ after \in ClientState
             /\ after.status = client.status
             /\ after.clientIndex = client.clientIndex
             /\ after.isLocalPlayerCreated = client.isLocalPlayerCreated
             /\ after.localPlayer = client.localPlayer
             /\ after.predictedPlayer = client.predictedPlayer
             /\ after.inputSequence = client.inputSequence
             /\ after.inputHistory = client.inputHistory
<1>1. CASE client.snapshotBuffer = <<>>
  BY <1>1 DEF RefreshOtherPlayers
<1>2. CASE client.snapshotBuffer # <<>>
  <2> DEFINE others == client.snapshotBuffer[Len(client.snapshotBuffer)].players
             after  == RefreshOtherPlayers(client)
  <2>1. client.snapshotBuffer \in Seq(Snapshot)
    BY DEF ClientState
  <2>2. Len(client.snapshotBuffer) \in 1 .. Len(client.snapshotBuffer)
    BY <1>2, <2>1, EmptySeq
  <2>3. others \in SUBSET ShownPlayer
    <3>1. client.snapshotBuffer[Len(client.snapshotBuffer)] \in Snapshot
      BY <2>1, <2>2, ElementOfSeq
    <3> QED
      BY <3>1 DEF Snapshot
  <2>4. after = [client EXCEPT !.otherPlayers = others]
    BY <1>2 DEF RefreshOtherPlayers, Last
  <2> HIDE DEF others, after
  <2>5. /\ after \in ClientState
        /\ after.status = client.status
        /\ after.clientIndex = client.clientIndex
        /\ after.isLocalPlayerCreated = client.isLocalPlayerCreated
        /\ after.localPlayer = client.localPlayer
        /\ after.predictedPlayer = client.predictedPlayer
        /\ after.inputSequence = client.inputSequence
        /\ after.inputHistory = client.inputHistory
    BY <2>3, <2>4 DEF ClientState
  <2> QED
    BY <2>5 DEF after
<1> QED
  BY <1>1, <1>2

-----------------------------------------------------------------------------
(* History and prediction of one client.                                   *)

(* The history is the run of the latest inputs.                            *)
Recent(client) ==
  LET history == client.inputHistory
      n       == Len(history)
  IN  /\ n <= MAX_INPUT_HISTORY
      /\ \A i \in 1 .. n : history[i].sequenceNumber = client.inputSequence - n + i

(* There are no inputs before there is a player to move.                   *)
Unmoved(client) ==
  ~client.isLocalPlayerCreated => client.inputHistory = <<>> /\ client.inputSequence = 0

(* The prediction is the replay of the history.                            *)
Replayed(client) ==
  client.isLocalPlayerCreated /\ Len(client.inputHistory) < MAX_INPUT_HISTORY =>
    client.predictedPlayer = Replay(client.localPlayer, client.inputHistory)

ClientInv(client) ==
  /\ client \in ClientState
  /\ Recent(client)
  /\ Unmoved(client)
  /\ Replayed(client)

(* Dropping inputs at the front leaves a run of the latest inputs.         *)
LEMMA RecentSuffix ==
  ASSUME NEW history \in Seq(StoredInput), NEW last \in Nat,
         Len(history) <= MAX_INPUT_HISTORY,
         \A i \in 1 .. Len(history) : history[i].sequenceNumber = last - Len(history) + i,
         NEW d \in 0 .. Len(history),
         NEW pending \in Seq(StoredInput), Len(pending) = Len(history) - d,
         \A i \in 1 .. Len(pending) : pending[i] = history[d + i]
  PROVE  /\ Len(pending) <= MAX_INPUT_HISTORY
         /\ \A i \in 1 .. Len(pending) :
              pending[i].sequenceNumber = last - Len(pending) + i
<1>1. Len(history) \in Nat /\ Len(pending) \in Nat /\ MAX_INPUT_HISTORY \in Nat
  BY ClientAssumption
<1>2. ASSUME NEW i \in 1 .. Len(pending)
      PROVE  pending[i].sequenceNumber = last - Len(pending) + i
  <2>1. d + i \in 1 .. Len(history) /\ pending[i] = history[d + i]
    BY <1>1
  <2>2. history[d + i].sequenceNumber = last - Len(history) + (d + i)
    BY <2>1
  <2> QED
    BY <1>1, <2>1, <2>2
<1> QED
  BY <1>1, <1>2

LEMMA ReceiveKeepsInv ==
  ASSUME NEW client, ClientInv(client), NEW message \in WorldState
  PROVE  ClientInv(ReceiveWorldState(client, message))
<1> DEFINE after   == ReceiveWorldState(client, message)
           pending == Unacknowledged(client.inputHistory, message.lastProcessedInputSeq)
<1>1. /\ client \in ClientState
      /\ client.inputHistory \in Seq(StoredInput)
      /\ client.inputSequence \in Nat
      /\ message.lastProcessedInputSeq \in Nat
  BY DEF ClientInv, ClientState, WorldState
<1>2. after \in ClientState /\ after.inputSequence = client.inputSequence
  BY <1>1, ReceiveEffect
<1>3. CASE \A p \in message.players : p.id # client.clientIndex
  <2>1. /\ after.isLocalPlayerCreated = client.isLocalPlayerCreated
        /\ after.localPlayer = client.localPlayer
        /\ after.predictedPlayer = client.predictedPlayer
        /\ after.inputHistory = client.inputHistory
    BY <1>1, <1>3, ReceiveEffect
  <2> HIDE DEF after
  <2>2. ClientInv(after)
    BY <1>2, <2>1 DEF ClientInv, Recent, Unmoved, Replayed
  <2> QED
    BY <2>2 DEF after
<1>4. CASE ~client.isLocalPlayerCreated /\ ~ \A p \in message.players : p.id # client.clientIndex
  <2>1. /\ after.isLocalPlayerCreated
        /\ after.localPlayer \in PlayerState
        /\ after.inputHistory = client.inputHistory
        /\ after.predictedPlayer = after.localPlayer
    BY <1>1, <1>4, ReceiveEffect
  <2>2. client.inputHistory = <<>>
    BY <1>4 DEF ClientInv, Unmoved
  <2> HIDE DEF after
  <2>3. Replay(after.localPlayer, after.inputHistory) = after.localPlayer
    BY <2>1, <2>2, ReplayEmpty
  <2>4. Recent(after)
    BY <1>2, <2>1 DEF ClientInv, Recent
  <2>5. ClientInv(after)
    BY <1>2, <2>1, <2>3, <2>4 DEF ClientInv, Unmoved, Replayed
  <2> QED
    BY <2>5 DEF after
<1>5. CASE client.isLocalPlayerCreated /\ ~ \A p \in message.players : p.id # client.clientIndex
  <2>1. /\ after.isLocalPlayerCreated
        /\ after.inputHistory = pending
        /\ after.predictedPlayer = Replay(after.localPlayer, pending)
    BY <1>1, <1>5, ReceiveEffect
  <2>2. PICK d \in 0 .. Len(client.inputHistory) :
          /\ pending \in Seq(StoredInput)
          /\ Len(pending) = Len(client.inputHistory) - d
          /\ \A i \in 1 .. Len(pending) : pending[i] = client.inputHistory[d + i]
    BY <1>1, UnacknowledgedIsSuffix
  <2> HIDE DEF after, pending
  <2>3. /\ Len(pending) <= MAX_INPUT_HISTORY
        /\ \A i \in 1 .. Len(pending) :
             pending[i].sequenceNumber = client.inputSequence - Len(pending) + i
    <3>1. /\ Len(client.inputHistory) <= MAX_INPUT_HISTORY
          /\ \A i \in 1 .. Len(client.inputHistory) :
               client.inputHistory[i].sequenceNumber
                 = client.inputSequence - Len(client.inputHistory) + i
      BY DEF ClientInv, Recent
    <3> QED
      BY <1>1, <2>2, <3>1, RecentSuffix
  <2>4. Recent(after)
    BY <1>2, <2>1, <2>3 DEF Recent
  <2>5. ClientInv(after)
    BY <1>2, <2>1, <2>4 DEF ClientInv, Unmoved, Replayed
  <2> QED
    BY <2>5 DEF after
<1> QED
  BY <1>3, <1>4, <1>5

LEMMA SendKeepsInv ==
  ASSUME NEW client, ClientInv(client), NEW move \in Moves \cup {NoMove}
  PROVE  ClientInv(SendInput(client, move))
<1> DEFINE after == SendInput(client, move)
           input == [sequenceNumber |-> client.inputSequence + 1, move |-> move]
           longer == Append(client.inputHistory, input)
           kept == KeepLast(longer, MAX_INPUT_HISTORY)
<1>1. /\ client \in ClientState
      /\ client.inputHistory \in Seq(StoredInput)
      /\ client.inputSequence \in Nat
      /\ client.localPlayer \in PlayerState
      /\ MAX_INPUT_HISTORY \in Nat \ {0}
      /\ Len(client.inputHistory) \in Nat
      /\ Len(client.inputHistory) <= MAX_INPUT_HISTORY
  BY ClientAssumption DEF ClientInv, Recent, ClientState
<1>2. CASE after = client
  BY <1>2
<1>3. CASE after # client
  <2>1. /\ after \in ClientState
        /\ after.isLocalPlayerCreated
        /\ client.isLocalPlayerCreated
        /\ after.localPlayer = client.localPlayer
        /\ input \in StoredInput
        /\ after.inputSequence = client.inputSequence + 1
        /\ after.inputHistory = kept
        /\ after.predictedPlayer = PredictMovement(client.predictedPlayer, input)
    BY <1>1, <1>3, SendInputEffect
  <2>2. /\ longer \in Seq(StoredInput)
        /\ Len(longer) = Len(client.inputHistory) + 1
        /\ \A i \in 1 .. Len(client.inputHistory) : longer[i] = client.inputHistory[i]
        /\ longer[Len(client.inputHistory) + 1] = input
    BY <1>1, <2>1, AppendProperties
  <2>3. input.sequenceNumber = client.inputSequence + 1
    OBVIOUS
  <2>4. Replay(client.localPlayer, longer) =
          PredictMovement(Replay(client.localPlayer, client.inputHistory), input)
    BY <1>1, <2>1, ReplayAppend
  <2> HIDE DEF longer, input
  <2>5. /\ kept \in Seq(StoredInput)
        /\ Len(longer) <= MAX_INPUT_HISTORY => kept = longer
        /\ Len(longer) > MAX_INPUT_HISTORY => Len(kept) = MAX_INPUT_HISTORY
        /\ \A i \in 1 .. Len(kept) : kept[i] = longer[Len(longer) - Len(kept) + i]
    BY <1>1, <2>2, KeepLastIsSuffix
  <2> HIDE DEF kept, after
  <2>6. ASSUME NEW i \in 1 .. Len(longer)
        PROVE  longer[i].sequenceNumber = client.inputSequence + 1 - Len(longer) + i
    <3>1. CASE i \in 1 .. Len(client.inputHistory)
      <4>1. client.inputHistory[i].sequenceNumber =
              client.inputSequence - Len(client.inputHistory) + i
        BY <3>1 DEF ClientInv, Recent
      <4> QED
        BY <1>1, <2>2, <3>1, <4>1
    <3>2. CASE i = Len(client.inputHistory) + 1
      BY <1>1, <2>2, <2>3, <3>2
    <3> QED
      BY <1>1, <2>2, <3>1, <3>2
  <2>7. /\ Len(kept) \in Nat
        /\ Len(kept) <= Len(longer)
        /\ Len(kept) <= MAX_INPUT_HISTORY
    BY <1>1, <2>2, <2>5
  <2>8. ASSUME NEW i \in 1 .. Len(kept)
        PROVE  kept[i].sequenceNumber = client.inputSequence + 1 - Len(kept) + i
    <3> DEFINE k == Len(longer) - Len(kept) + i
    <3>1. k \in 1 .. Len(longer)
      BY <1>1, <2>2, <2>7
    <3>2. kept[i] = longer[k]
      BY <2>5
    <3>3. client.inputSequence + 1 - Len(longer) + k = client.inputSequence + 1 - Len(kept) + i
      BY <1>1, <2>2, <2>7
    <3> HIDE DEF k
    <3>4. longer[k].sequenceNumber = client.inputSequence + 1 - Len(longer) + k
      BY <2>6, <3>1
    <3> QED
      BY <3>2, <3>3, <3>4
  <2>9. Recent(after)
    <3>1. ASSUME NEW i \in 1 .. Len(after.inputHistory)
          PROVE  after.inputHistory[i].sequenceNumber
                   = after.inputSequence - Len(after.inputHistory) + i
      <4>1. i \in 1 .. Len(kept)
        BY <2>1
      <4>2. kept[i].sequenceNumber = client.inputSequence + 1 - Len(kept) + i
        BY <2>8, <4>1
      <4>3. /\ after.inputHistory = kept
            /\ after.inputSequence = client.inputSequence + 1
        BY <2>1
      <4> QED
        BY <1>1, <2>7, <4>1, <4>2, <4>3
    <3>2. Len(after.inputHistory) <= MAX_INPUT_HISTORY
      BY <2>1, <2>7
    <3> QED
      BY <3>1, <3>2 DEF Recent
  <2>10. Replayed(after)
    <3>1. SUFFICES ASSUME Len(kept) < MAX_INPUT_HISTORY
                   PROVE  after.predictedPlayer = Replay(client.localPlayer, kept)
      BY <2>1 DEF Replayed
    <3>2. kept = longer /\ Len(client.inputHistory) < MAX_INPUT_HISTORY
      BY <1>1, <2>2, <2>5, <3>1
    <3>3. client.predictedPlayer = Replay(client.localPlayer, client.inputHistory)
      BY <2>1, <3>2 DEF ClientInv, Replayed
    <3> QED
      BY <2>1, <2>4, <3>2, <3>3
  <2>11. ClientInv(after)
    BY <2>1, <2>9, <2>10 DEF ClientInv, Unmoved
  <2> QED
    BY <2>11 DEF after
<1> QED
  BY <1>2, <1>3

(* An Update of a connected client keeps its connection, and makes at most *)
(* one input: none without a key down.                                     *)
LEMMA UpdateEffect ==
  ASSUME NEW client, ClientInv(client), NEW move \in Moves \cup {NoMove},
         NEW messages, Len(messages) \in Nat,
         \A n \in 1 .. Len(messages) : messages[n] \in WorldState
  PROVE  LET after == RefreshOtherPlayers(
                        SendInput(ReceiveWorldStates(client, messages), move))
         IN  /\ ClientInv(after)
             /\ after.status = client.status
             /\ after.clientIndex = client.clientIndex
             /\ \/ after.inputSequence = client.inputSequence
                \/ move \in Moves /\ after.inputSequence = client.inputSequence + 1
<1> DEFINE received == ReceiveWorldStates(client, messages)
           sent     == SendInput(received, move)
           after    == RefreshOtherPlayers(sent)
           Same(r)  == /\ r.status = client.status
                       /\ r.clientIndex = client.clientIndex
                       /\ r.inputSequence = client.inputSequence
           S        == {r \in ClientState : ClientInv(r) /\ Same(r)}
<1>1. received \in S
  <2>1. client \in S
    BY DEF ClientInv
  <2>2. ASSUME NEW r \in S, NEW n \in 1 .. Len(messages)
        PROVE  ReceiveWorldState(r, messages[n]) \in S
    <3>1. r \in ClientState /\ ClientInv(r) /\ Same(r) /\ messages[n] \in WorldState
      OBVIOUS
    <3>2. ClientInv(ReceiveWorldState(r, messages[n]))
      BY <3>1, ReceiveKeepsInv
    <3>3. /\ ReceiveWorldState(r, messages[n]) \in ClientState
          /\ ReceiveWorldState(r, messages[n]).status = r.status
          /\ ReceiveWorldState(r, messages[n]).clientIndex = r.clientIndex
          /\ ReceiveWorldState(r, messages[n]).inputSequence = r.inputSequence
      BY <3>1, ReceiveEffect
    <3> QED
      BY <3>1, <3>2, <3>3
  <2> HIDE DEF S
  <2> QED
    BY <2>1, <2>2, WorldStatesPreserve
<1>2. received \in ClientState /\ ClientInv(received) /\ Same(received)
  BY <1>1
<1> HIDE DEF received
<1>3. /\ ClientInv(sent)
      /\ sent.status = client.status
      /\ sent.clientIndex = client.clientIndex
      /\ \/ sent.inputSequence = client.inputSequence
         \/ move \in Moves /\ sent.inputSequence = client.inputSequence + 1
  <2>1. ClientInv(sent)
    BY <1>2, SendKeepsInv
  <2>2. /\ sent.status = received.status
        /\ sent.clientIndex = received.clientIndex
        /\ \/ sent = received
           \/ move \in Moves /\ sent.inputSequence = received.inputSequence + 1
    BY <1>2, SendInputEffect
  <2> HIDE DEF sent
  <2> QED
    BY <1>2, <2>1, <2>2
<1> HIDE DEF sent
<1>4. /\ after \in ClientState
      /\ after.status = sent.status
      /\ after.clientIndex = sent.clientIndex
      /\ after.isLocalPlayerCreated = sent.isLocalPlayerCreated
      /\ after.localPlayer = sent.localPlayer
      /\ after.predictedPlayer = sent.predictedPlayer
      /\ after.inputSequence = sent.inputSequence
      /\ after.inputHistory = sent.inputHistory
  BY <1>3, RefreshEffect DEF ClientInv
<1> HIDE DEF after
<1>5. ClientInv(after)
  BY <1>3, <1>4 DEF ClientInv, Recent, Unmoved, Replayed
<1>6. /\ ClientInv(after)
      /\ after.status = client.status
      /\ after.clientIndex = client.clientIndex
      /\ \/ after.inputSequence = client.inputSequence
         \/ move \in Moves /\ after.inputSequence = client.inputSequence + 1
  BY <1>3, <1>4, <1>5
<1> QED
  BY <1>6 DEF after, sent, received
=============================================================================
