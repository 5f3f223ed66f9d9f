----------------------------- MODULE Prediction -----------------------------
(***************************************************************************)
(* What client-side prediction promises to the player at the keyboard, and *)
(* what GameSession implements on an orderly network.                      *)
(*                                                                         *)
(* The player is shown one stride further at every key press and at no     *)
(* other moment: world states arriving, late as they are, move nothing.    *)
(* Meanwhile the server goes after it, one input at a time.                *)
(***************************************************************************)
EXTENDS Protocol

VARIABLES
  playing,      \* the client shows a player and still has its inputs
  shown,        \* where the client shows it
  truth,        \* where the server has it
  unprocessed   \* the moves the server has yet to process

predictionVars == <<playing, shown, truth, unprocessed>>

-----------------------------------------------------------------------------
Stepped(position, move) ==
  [x |-> Clamp(position.x + Displacement(move).x, WORLD_WIDTH),
   y |-> Clamp(position.y + Displacement(move).y, WORLD_HEIGHT)]

(* Where a position is after a number of moves.                            *)
Walked(position, moves) ==
  LET at[n \in 0 .. Len(moves)] ==
        IF n = 0 THEN position ELSE Stepped(at[n - 1], moves[n])
  IN  at[Len(moves)]

Init == playing = FALSE

(* The player appears where the server has it, or reappears there with     *)
(* what is still unprocessed.                                              *)
Start ==
  /\ ~playing
  /\ playing' = TRUE
  /\ shown' = Walked(truth', unprocessed')

(* A key press is seen at once.                                            *)
Press ==
  /\ playing /\ playing' = TRUE
  /\ \E move \in Moves :
       /\ shown' = Stepped(shown, move)
       /\ unprocessed' = Append(unprocessed, move)
  /\ truth' = truth

(* The server processes the oldest input; nothing is seen of that.         *)
Process ==
  /\ playing /\ playing' = TRUE
  /\ unprocessed # <<>>
  /\ truth' = Stepped(truth, Head(unprocessed))
  /\ unprocessed' = Tail(unprocessed)
  /\ shown' = shown

(* The connection ends, or the client has forgotten inputs.                *)
Finish == playing /\ playing' = FALSE

Next == Start \/ Press \/ Process \/ Finish

Spec == Init /\ [][Next]_predictionVars
=============================================================================
