------------------------------ MODULE MCPanel ------------------------------
(***************************************************************************)
(* A small instance of Panel: one detent to the revolution, the screens    *)
(* scaled to 1, 2 and 3.                                                   *)
(***************************************************************************)
EXTENDS Panel

McTwinCalls == {[op |-> "maxSpeed", arg |-> 30]}

McTimes == {[hour |-> 12, min |-> 1]}
=============================================================================
