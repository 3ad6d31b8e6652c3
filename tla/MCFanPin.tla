------------------------------ MODULE MCFanPin ------------------------------
(***************************************************************************)
(* The small instances of MCFanControl, with the history of FanPin.        *)
(***************************************************************************)
EXTENDS FanPin, MCFanControl
=============================================================================
