------------------------------ MODULE EditItems ------------------------------
(***************************************************************************)
(* The display's table of editable items: what entering an item loads,     *)
(* over which range the knob edits it, and which setters of FanState its   *)
(* confirmation calls.  Items 2 to 4 edit a preset in two stages: the      *)
(* temperature, then, as item + 100, the speed.  Item 1 edits the speed    *)
(* and then, as item 101, the minutes for which it overrides the presets.  *)
(***************************************************************************)
EXTENDS FanState

CONSTANTS
  DefaultOverride,  \* 10, the minutes a confirmed speed is first held for
  MaxOverride       \* 24 * 60 * 10, the longest override the knob can ask for

ASSUME OverrideAssumption ==
  /\ DefaultOverride \in Nat \ {0} /\ MaxOverride \in Nat
  /\ DefaultOverride <= MaxOverride /\ MaxOverride <= 14400

SecondStage == 100

FirstStageItems == 1..4
SecondStageItems == {SecondStage + i : i \in FirstStageItems}
EditableItems == (1..7) \cup SecondStageItems

\* The preset an item edits.
PresetOf(item) == IF item > SecondStage THEN item - SecondStage - 2 ELSE item - 2

\* What displaying the item in State mode puts into xEditValue.
LoadValue(s, item) ==
  CASE item = 1     -> CurrentSpeed(s)
    [] item \in 2..4 -> s.preTemp[PresetOf(item)]
    [] item = 5     -> s.mSpeed
    [] item = 6     -> s.dayStart
    [] item = 7     -> s.dayEnd

\* The range a turn of the knob edits over, and by how much.
EditRange(item) ==
  CASE item = 101    -> [min |-> 0, max |-> MaxOverride, inc |-> 10]
    [] item \in 2..4  -> [min |-> 10, max |-> 40, inc |-> 1]
    [] item \in {6, 7} -> [min |-> 0, max |-> 23, inc |-> 1]
    [] OTHER         -> [min |-> 0, max |-> 100, inc |-> 1]

\* doEdit on a clockwise and a counter-clockwise turn.  No value here is ever
\* negative, so \div rounds as C's division does.
Snap(v, inc) == (v \div inc) * inc

LateWrapTurnUp(v, r) == Snap(IF v > r.max THEN r.min ELSE v + r.inc, r.inc)

TurnUp(v, r) == Snap(IF v + r.inc > r.max THEN r.min ELSE v + r.inc, r.inc)

TurnDown(v, r) == Snap(IF v - r.inc < r.min THEN r.max ELSE v - r.inc, r.inc)

\* The setter calls of a confirmation; an int16 argument narrows to a byte.
\* A confirmed speed sets a first override if there is none.
SetSpeed(v) == <<[op |-> "cSpeed", arg |-> Truncated(v)], [op |-> "on", arg |-> v > 0]>>

UnprotectedSpeed(s, v) == SetSpeed(v)

ConfirmedSpeed(s, v) ==
  IF s.override < 1 THEN <<[op |-> "override", arg |-> DefaultOverride]>> \o SetSpeed(v)
  ELSE SetSpeed(v)

\* Plausible slip: the branch of DayStart copied to DayEnd and not adapted.
CopiedByteSetter(item) == IF item = 5 THEN "maxSpeed" ELSE "days"

ByteSetter(item) ==
  CASE item = 5 -> "maxSpeed" [] item = 6 -> "days" [] item = 7 -> "daye"

Confirmed(s, item, v) ==
  CASE item = 1 -> ConfirmedSpeed(s, v)
    [] item = 101 -> <<[op |-> "override", arg |-> v % (MaxWord + 1)]>>
    [] item \in 2..4 ->
         <<[op |-> "preTemp", arg |-> Truncated(v), preset |-> PresetOf(item), by |-> "index"]>>
    [] item \in 102..104 ->
         <<[op |-> "preSpeed", arg |-> Truncated(v), preset |-> PresetOf(item), by |-> "index"]>>
    [] item \in 5..7 -> <<[op |-> ByteSetter(item), arg |-> Truncated(v)]>>

=============================================================================
