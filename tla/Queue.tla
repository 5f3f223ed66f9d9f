-------------------------------- MODULE Queue --------------------------------
(***************************************************************************)
(* yojimbo::Queue, the circular buffer behind the unreliable channel.      *)
(* entries, arraySize, startIndex and numEntries are the fields of the     *)
(* class; nothing is moved or erased when an entry is popped.              *)
(***************************************************************************)
EXTENDS Naturals, Sequences

CONSTANT NULL

NewQueue(size) ==
  [entries    |-> [i \in 0 .. size - 1 |-> NULL],
   arraySize  |-> size,
   startIndex |-> 0,
   numEntries |-> 0]

IsFull(q)  == q.numEntries = q.arraySize
IsEmpty(q) == q.numEntries = 0

(* Where in the array entry i is, the oldest being entry 0. *)
Place(q, i) == (q.startIndex + i) % q.arraySize

(* operator[] *)
At(q, i) == q.entries[Place(q, i)]

(* What Pop returns. *)
Oldest(q) == q.entries[q.startIndex]

(* Mutant: the start runs off the end of the array.                        *)
PoppedBeyond(q) ==
  [q EXCEPT !.startIndex = q.startIndex + 1,
            !.numEntries = q.numEntries - 1]

Popped(q) ==
  [entries    |-> q.entries,
   arraySize  |-> q.arraySize,
   startIndex |-> Place(q, 1),
   numEntries |-> q.numEntries - 1]

(* Mutant: the next free entry is looked for from the start of the array.  *)
PushedFromZero(q, value) ==
  [q EXCEPT !.entries[q.numEntries % q.arraySize] = value,
            !.numEntries = q.numEntries + 1]

Pushed(q, value) ==
  [entries    |-> [q.entries EXCEPT ![Place(q, q.numEntries)] = value],
   arraySize  |-> q.arraySize,
   startIndex |-> q.startIndex,
   numEntries |-> q.numEntries + 1]

Cleared(q) ==
  [entries    |-> q.entries,
   arraySize  |-> q.arraySize,
   startIndex |-> 0,
   numEntries |-> 0]

-----------------------------------------------------------------------------
(* What the queue holds, oldest first. *)
Contents(q) == [i \in 1 .. q.numEntries |-> At(q, i - 1)]

Queues(T, size) ==
  [entries    : [0 .. size - 1 -> T],
   arraySize  : {size},
   startIndex : 0 .. size - 1,
   numEntries : 0 .. size]
=============================================================================
