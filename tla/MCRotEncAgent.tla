--------------------------- MODULE MCRotEncAgent ---------------------------
(***************************************************************************)
(* Small instances of RotEncAgent.                                         *)
(***************************************************************************)
EXTENDS RotEncAgent

\* Both sides of every limit of handleGPIO.
EdgeTimes == {0, 9, 10, 299, 300, 1500, 1501}
=============================================================================
