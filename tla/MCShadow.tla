------------------------------ MODULE MCShadow ------------------------------
(***************************************************************************)
(* A small instance of Shadow: one setting of each kind, some of them out  *)
(* of range, and a clock at night and by day.                              *)
(***************************************************************************)
EXTENDS Shadow

McPanelCalls ==
  {[op |-> "on", arg |-> TRUE], [op |-> "on", arg |-> FALSE],
   [op |-> "override", arg |-> 1],
   [op |-> "preSpeed", arg |-> 40, preset |-> 0, by |-> "index"]}

\* A narrowed hour and a cap; a table with a speed above 100%; a bad temperature and
\* a narrowed cap above 100%, which change nothing.
McMessages ==
  {[days |-> 261, maxSpeed |-> 30],
   [preTemp |-> <<10, 20, 25>>, preSpeed |-> <<30, 60, 101>>],
   [preTemp |-> <<10, 256, 25>>, preSpeed |-> <<1, 2, 3>>, maxSpeed |-> 400]}

McTimes == {[hour |-> 6, min |-> 0], [hour |-> 22, min |-> 1]}
=============================================================================
