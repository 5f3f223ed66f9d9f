--------------------------- MODULE MCGameSession ---------------------------
(***************************************************************************)
(* Sessions on small instances: a corridor of three places, a stride from  *)
(* one to the next, and no food.  Players stay equal in size, so nobody is *)
(* eaten; what remains is movement, acknowledgement and prediction.        *)
(***************************************************************************)
EXTENDS GameSession

(* Newcomers appear in the middle.                                         *)
MCSpawnPoints == {[x |-> 1, y |-> 0]}

(* Or at the left end, where half of the moves are clamped.                *)
MCSpawnAtEnd == {[x |-> 0, y |-> 0]}

(* Or in the middle or at the right end, so that a player of one admission *)
(* may be told from that of the next.                                      *)
MCSpawnPair == {[x |-> 1, y |-> 0], [x |-> 2, y |-> 0]}

(* Left and right.                                                         *)
MCMoves == {[x |-> -1, y |-> 0], [x |-> 1, y |-> 0]}

(* Sessions from used slots, with the fairness of FairSessionSpec.         *)
UsedSlotsSpec ==
  UsedSlotsInit /\ [][SessionNext]_sessionVars /\ SessionFairness
=============================================================================
