--------------------------- MODULE MCDisplayAgent ---------------------------
(***************************************************************************)
(* Small instances of DisplayAgent: the screens scaled to 1, 2 and 3, so   *)
(* that the carousel turns and a menu lasts two quiet passes.              *)
(***************************************************************************)
EXTENDS DisplayAgent

\* A preset speed beyond the display's range, a temperature that puts the presets
\* in use, and a setting the menu shows.
McTwinCalls ==
  {[op |-> "preTemp", arg |-> 20, preset |-> 2, by |-> "copy"],
   [op |-> "preSpeed", arg |-> 255, preset |-> 2, by |-> "copy"],
   [op |-> "maxSpeed", arg |-> 30]}

\* Two minutes of the same hour: each update may count one.
McTimes == {[hour |-> 12, min |-> 0], [hour |-> 12, min |-> 1]}
=============================================================================
