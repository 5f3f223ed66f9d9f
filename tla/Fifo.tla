-------------------------------- MODULE Fifo ---------------------------------
(***************************************************************************)
(* What a message queue promises: messages come out in the order in which  *)
(* they went in, none is lost or made up, and there are never more than    *)
(* Capacity of them.                                                       *)
(***************************************************************************)
EXTENDS Naturals, Sequences

CONSTANTS Items, Capacity

VARIABLE contents

Init == contents = <<>>

Put ==
  /\ Len(contents) < Capacity
  /\ \E item \in Items : contents' = Append(contents, item)

Take ==
  /\ contents # <<>>
  /\ contents' = Tail(contents)

Clear == contents' = <<>>

Next == Put \/ Take \/ Clear

Spec == Init /\ [][Next]_contents
=============================================================================
