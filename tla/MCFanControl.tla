---------------------------- MODULE MCFanControl ----------------------------
(***************************************************************************)
(* Small instances of FanControl.  The hours lie on both sides of the      *)
(* default day window and on its edge; an hour has three minutes and the   *)
(* init task misses at most two of them.                                   *)
(***************************************************************************)
EXTENDS FanControl

McHours == {7, 12}
McTemps == {9, 25}

\* Two tasks that set the speed, and a cap: what a stale notification confuses.
SpeedMessages == {[maxSpeed |-> 30], [cSpeed |-> 356]}
SpeedEdits == {[item |-> 1, value |-> 0], [item |-> 1, value |-> 60]}

\* A legal preset table, a table in the wrong order with a speed above 100%,
\* and the panel editing one preset or asking for an override.
PresetMessages ==
  {[on |-> TRUE, preTemp |-> <<9, 20, 25>>, preSpeed |-> <<20, 60, 100>>],
   [preTemp |-> <<26, 20, 8>>, preSpeed |-> <<101, 300, 5>>],
   [preSpeed |-> <<70, 40, 101>>]}
PresetEdits == {[item |-> 101, value |-> 2], [item |-> 3, value |-> 25]}

\* Overrides set and cleared from the panel, a default one among them.
OverrideMessages == {[cSpeed |-> 40]}
OverrideEdits == {[item |-> 1, value |-> 60], [item |-> 101, value |-> 3]}
=============================================================================
