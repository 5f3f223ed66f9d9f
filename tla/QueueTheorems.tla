---------------------------- MODULE QueueTheorems ----------------------------
(***************************************************************************)
(* The circular buffer of yojimbo_queue.h is a queue: whatever its size    *)
(* and wherever its entries start, Push appends to what it holds and Pop   *)
(* takes away the head.                                                    *)
(***************************************************************************)
EXTENDS Queue, Integers, SequenceTheorems, TLAPS

(* An index into the array is one turn around it at most.                  *)
LEMMA Wrap ==
  ASSUME NEW n \in Nat \ {0}, NEW k \in 0 .. 2 * n - 1
  PROVE  k % n = IF k < n THEN k ELSE k - n
<1>1. CASE k < n
  <2>1. k \in 0 .. n - 1
    BY <1>1
  <2> QED
    BY <1>1, <2>1, SMTT(30)
<1>2. CASE k >= n
  <2>1. k - n \in 0 .. n - 1
    BY <1>2
  <2>2. k = (k - n) + n * 1
    OBVIOUS
  <2>3. k % n = (k - n) % n
    BY <2>1, SMTT(30)
  <2> QED
    BY <1>2, <2>1, <2>3, SMTT(30)
<1> QED
  BY <1>1, <1>2

LEMMA Fields ==
  ASSUME NEW T, NEW n \in Nat \ {0}, NEW q \in Queues(T, n)
  PROVE  /\ q.entries \in [0 .. n - 1 -> T]
         /\ q.arraySize = n
         /\ q.startIndex \in 0 .. n - 1
         /\ q.numEntries \in 0 .. n
BY DEF Queues

(* Where an entry is, without the remainder.                               *)
LEMMA PlaceOf ==
  ASSUME NEW n \in Nat \ {0}, NEW q, q.arraySize = n, q.startIndex \in 0 .. n - 1,
         NEW i \in 0 .. n
  PROVE  /\ Place(q, i) = IF q.startIndex + i < n THEN q.startIndex + i
                          ELSE q.startIndex + i - n
         /\ Place(q, i) \in 0 .. n - 1
<1> DEFINE k == q.startIndex + i
<1>1. k \in 0 .. 2 * n - 1
  OBVIOUS
<1>2. Place(q, i) = k % n
  BY DEF Place
<1> HIDE DEF k
<1>3. k % n = IF k < n THEN k ELSE k - n
  BY <1>1, Wrap
<1>4. Place(q, i) = IF k < n THEN k ELSE k - n
  BY <1>2, <1>3
<1> USE DEF k
<1> QED
  BY <1>4

LEMMA NewQueueIsEmpty ==
  ASSUME NEW T, NULL \in T, NEW n \in Nat \ {0}
  PROVE  /\ NewQueue(n) \in Queues(T, n)
         /\ Contents(NewQueue(n)) = <<>>
BY DEF NewQueue, Queues, Contents

LEMMA ClearedIsEmpty ==
  ASSUME NEW T, NEW n \in Nat \ {0}, NEW q \in Queues(T, n)
  PROVE  /\ Cleared(q) \in Queues(T, n)
         /\ Contents(Cleared(q)) = <<>>
BY Fields DEF Cleared, Queues, Contents

LEMMA ContentsIsSeq ==
  ASSUME NEW T, NEW n \in Nat \ {0}, NEW q \in Queues(T, n)
  PROVE  /\ Contents(q) \in Seq(T)
         /\ Len(Contents(q)) = q.numEntries
         /\ IsEmpty(q) <=> Contents(q) = <<>>
<1>1. \A i \in 1 .. q.numEntries : At(q, i - 1) \in T
  <2> SUFFICES ASSUME NEW i \in 1 .. q.numEntries
               PROVE  At(q, i - 1) \in T
    OBVIOUS
  <2>1. i - 1 \in 0 .. n
    BY Fields
  <2>2. Place(q, i - 1) \in 0 .. n - 1
    BY <2>1, Fields, PlaceOf
  <2> QED
    BY <2>2, Fields DEF At
<1>2. q.numEntries \in Nat
  BY Fields
<1>3. Contents(q) \in Seq(T) /\ Len(Contents(q)) = q.numEntries
  BY <1>1, <1>2 DEF Contents
<1> QED
  BY <1>2, <1>3 DEF IsEmpty

(* Push appends.                                                           *)
THEOREM PushAppends ==
  ASSUME NEW T, NEW n \in Nat \ {0}, NEW q \in Queues(T, n), ~IsFull(q), NEW v \in T
  PROVE  /\ Pushed(q, v) \in Queues(T, n)
         /\ Contents(Pushed(q, v)) = Append(Contents(q), v)
<1> DEFINE p == Pushed(q, v)
<1>1. /\ q.arraySize = n
      /\ q.startIndex \in 0 .. n - 1
      /\ q.numEntries \in 0 .. n - 1
      /\ q.entries \in [0 .. n - 1 -> T]
  BY Fields DEF IsFull
<1>2. Place(q, q.numEntries) \in 0 .. n - 1
  <2>1. q.numEntries \in 0 .. n
    BY <1>1
  <2> QED
    BY <1>1, <2>1, PlaceOf
<1>3. /\ p.entries = [q.entries EXCEPT ![Place(q, q.numEntries)] = v]
      /\ p.arraySize = n
      /\ p.startIndex = q.startIndex
      /\ p.numEntries = q.numEntries + 1
      /\ p \in Queues(T, n)
  BY <1>1, <1>2 DEF Pushed, Queues
<1> HIDE DEF p
<1>4. \A i : Place(p, i) = Place(q, i)
  BY <1>1, <1>3 DEF Place
<1>5. \A i \in 0 .. q.numEntries - 1 : At(p, i) = At(q, i)
  <2> SUFFICES ASSUME NEW i \in 0 .. q.numEntries - 1
               PROVE  At(p, i) = At(q, i)
    OBVIOUS
  <2>1. i \in 0 .. n /\ q.numEntries \in 0 .. n
    BY <1>1
  <2>2. /\ Place(q, i) = IF q.startIndex + i < n THEN q.startIndex + i
                         ELSE q.startIndex + i - n
        /\ Place(q, i) \in 0 .. n - 1
    BY <1>1, <2>1, PlaceOf
  <2>3. Place(q, q.numEntries) = IF q.startIndex + q.numEntries < n
                                 THEN q.startIndex + q.numEntries
                                 ELSE q.startIndex + q.numEntries - n
    BY <1>1, <2>1, PlaceOf
  <2>4. Place(q, i) # Place(q, q.numEntries)
    BY <1>1, <2>2, <2>3
  <2> QED
    BY <1>1, <1>3, <1>4, <2>2, <2>4 DEF At
<1>6. At(p, q.numEntries) = v
  BY <1>1, <1>2, <1>3, <1>4 DEF At
<1>7. Contents(q) \in Seq(T) /\ Len(Contents(q)) = q.numEntries
  BY ContentsIsSeq
<1>8. Contents(p) \in Seq(T) /\ Len(Contents(p)) = q.numEntries + 1
  BY <1>3, ContentsIsSeq
<1>9. \A i \in 1 .. q.numEntries : Contents(p)[i] = Contents(q)[i]
  <2> SUFFICES ASSUME NEW i \in 1 .. q.numEntries
               PROVE  Contents(p)[i] = Contents(q)[i]
    OBVIOUS
  <2>1. At(p, i - 1) = At(q, i - 1)
    BY <1>1, <1>5
  <2> QED
    BY <1>1, <1>3, <2>1 DEF Contents
<1>10. Contents(p)[q.numEntries + 1] = v
  <2>1. q.numEntries + 1 \in 1 .. p.numEntries /\ (q.numEntries + 1) - 1 = q.numEntries
    BY <1>1, <1>3
  <2>2. Contents(p)[q.numEntries + 1] = At(p, (q.numEntries + 1) - 1)
    BY <2>1 DEF Contents
  <2> QED
    BY <1>6, <2>1, <2>2
<1>11. /\ Append(Contents(q), v) \in Seq(T)
       /\ Len(Append(Contents(q), v)) = q.numEntries + 1
       /\ \A i \in 1 .. q.numEntries : Append(Contents(q), v)[i] = Contents(q)[i]
       /\ Append(Contents(q), v)[q.numEntries + 1] = v
  BY <1>7, AppendProperties
<1>12. \A i \in 1 .. q.numEntries + 1 : Contents(p)[i] = Append(Contents(q), v)[i]
  BY <1>1, <1>9, <1>10, <1>11
<1>13. Contents(p) = Append(Contents(q), v)
  BY <1>8, <1>11, <1>12, SeqEqual
<1> QED
  BY <1>3, <1>13 DEF p

(* Pop takes away the head, and returns it.                                *)
THEOREM PopTakesHead ==
  ASSUME NEW T, NEW n \in Nat \ {0}, NEW q \in Queues(T, n), ~IsEmpty(q)
  PROVE  /\ Popped(q) \in Queues(T, n)
         /\ Contents(q) # <<>>
         /\ Oldest(q) = Head(Contents(q))
         /\ Contents(Popped(q)) = Tail(Contents(q))
<1> DEFINE p == Popped(q)
<1>1. /\ q.arraySize = n
      /\ q.startIndex \in 0 .. n - 1
      /\ q.numEntries \in 1 .. n
      /\ q.entries \in [0 .. n - 1 -> T]
  BY Fields DEF IsEmpty
<1>2. /\ Place(q, 1) = IF q.startIndex + 1 < n THEN q.startIndex + 1 ELSE q.startIndex + 1 - n
      /\ Place(q, 1) \in 0 .. n - 1
  BY <1>1, PlaceOf
<1>3. /\ p.entries = q.entries
      /\ p.arraySize = n
      /\ p.startIndex = Place(q, 1)
      /\ p.numEntries = q.numEntries - 1
      /\ p \in Queues(T, n)
  BY <1>1, <1>2 DEF Popped, Queues
<1> HIDE DEF p
<1>4. \A i \in 1 .. q.numEntries - 1 : At(p, i - 1) = At(q, i)
  <2> SUFFICES ASSUME NEW i \in 1 .. q.numEntries - 1
               PROVE  At(p, i - 1) = At(q, i)
    OBVIOUS
  <2>1. i \in 0 .. n /\ i - 1 \in 0 .. n
    BY <1>1
  <2>2. Place(q, i) = IF q.startIndex + i < n THEN q.startIndex + i
                      ELSE q.startIndex + i - n
    BY <1>1, <2>1, PlaceOf
  <2>3. Place(p, i - 1) = IF p.startIndex + (i - 1) < n THEN p.startIndex + (i - 1)
                          ELSE p.startIndex + (i - 1) - n
    BY <1>2, <1>3, <2>1, PlaceOf
  <2>4. Place(p, i - 1) = Place(q, i)
    BY <1>1, <1>2, <1>3, <2>2, <2>3
  <2> QED
    BY <1>3, <2>4 DEF At
<1>5. At(q, 0) = Oldest(q)
  <2>1. Place(q, 0) = q.startIndex
    BY <1>1, PlaceOf
  <2> QED
    BY <2>1 DEF At, Oldest
<1>6. Contents(q) \in Seq(T) /\ Len(Contents(q)) = q.numEntries /\ Contents(q) # <<>>
  BY <1>1, ContentsIsSeq
<1>7. Contents(q)[1] = Oldest(q)
  <2>1. 1 \in 1 .. q.numEntries /\ 1 - 1 = 0
    BY <1>1
  <2>2. Contents(q)[1] = At(q, 1 - 1)
    BY <2>1 DEF Contents
  <2> QED
    BY <1>5, <2>1, <2>2
<1>8. Contents(p) \in Seq(T) /\ Len(Contents(p)) = q.numEntries - 1
  BY <1>3, ContentsIsSeq
<1>9. \A i \in 1 .. q.numEntries - 1 : Contents(p)[i] = Contents(q)[i + 1]
  <2> SUFFICES ASSUME NEW i \in 1 .. q.numEntries - 1
               PROVE  Contents(p)[i] = Contents(q)[i + 1]
    OBVIOUS
  <2>1. i + 1 \in 1 .. q.numEntries /\ (i + 1) - 1 = i /\ i \in 1 .. p.numEntries
    BY <1>1, <1>3
  <2>2. Contents(q)[i + 1] = At(q, (i + 1) - 1)
    BY <2>1 DEF Contents
  <2>3. Contents(p)[i] = At(p, i - 1)
    BY <2>1 DEF Contents
  <2> QED
    BY <1>4, <2>1, <2>2, <2>3
<1>10. /\ Tail(Contents(q)) \in Seq(T)
       /\ Len(Tail(Contents(q))) = q.numEntries - 1
       /\ \A i \in 1 .. q.numEntries - 1 : Tail(Contents(q))[i] = Contents(q)[i + 1]
  BY <1>6, HeadTailProperties
<1>11. Contents(p) = Tail(Contents(q))
  BY <1>8, <1>9, <1>10, SeqEqual
<1> QED
  BY <1>3, <1>6, <1>7, <1>11, HeadTailProperties DEF p
=============================================================================
