------------------------------ MODULE FanState ------------------------------
(***************************************************************************)
(* The shared state object of the fan controller, FanState, as a record    *)
(* and the operators that change it.  The object has no thread of its own: *)
(* FanControl calls these operators from the tasks that call the methods.  *)
(*                                                                         *)
(* Widths: the bytes of the object are Byte, the override is a Word, and   *)
(* every narrowing the code performs is a % 2^8 or % 2^16.  A temperature  *)
(* is the floor of the sensor's float: the code only compares it with      *)
(* whole degrees.                                                          *)
(***************************************************************************)
EXTENDS Integers, Sequences, FiniteSetsExt

Byte == 0..255
MaxWord == 65535
Word == 0..MaxWord
MaxPercent == 100

FAN_PRESETS == 3
Presets == 0..(FAN_PRESETS - 1)

FanStateType ==
  [on : BOOLEAN, dayStart : Byte, dayEnd : Byte, day : BOOLEAN,
   cSpeed : Byte, mSpeed : Byte,
   preTemp : [Presets -> Byte], preSpeed : [Presets -> Byte],
   envTemp : Int, min : Byte, override : Word]

\* Field initialisers and the two memsets of the constructor.
InitFanState ==
  [on |-> FALSE, dayStart |-> 7, dayEnd |-> 21, day |-> TRUE,
   cSpeed |-> 100, mSpeed |-> 100,
   preTemp |-> [i \in Presets |-> 0], preSpeed |-> [i \in Presets |-> 0],
   envTemp |-> 0, min |-> 0, override |-> 0]

-----------------------------------------------------------------------------
(***************************************************************************)
(* Setter calls.  A call is a value, so that a task can hold the calls it  *)
(* has still to make.  The array setters copy their three bytes without a  *)
(* lock: each byte is a call of its own, by "copy", and only the last one  *)
(* notifies; the setter of one preset is a call by "index".                *)
(***************************************************************************)
Calls ==
       [op : {"on", "day"}, arg : BOOLEAN]
  \cup [op : {"days", "daye", "cSpeed", "maxSpeed"}, arg : Byte]
  \cup [op : {"preTemp", "preSpeed"}, arg : Byte, preset : Presets,
        by : {"index", "copy"}]
  \cup [op : {"override"}, arg : Word]

\* A speed above 100% is refused by the two setters that check; a plausible
\* slip checks neither.
AcceptsAnySpeed(c) == TRUE
Accepts(c) == c.op \in {"cSpeed", "maxSpeed"} => c.arg <= MaxPercent

\* What an accepted call leaves in the object.
Store(s, c) ==
  CASE c.op = "on"       -> [s EXCEPT !.on = c.arg]
    [] c.op = "day"      -> [s EXCEPT !.day = c.arg]
    [] c.op = "days"     -> [s EXCEPT !.dayStart = c.arg]
    [] c.op = "daye"     -> [s EXCEPT !.dayEnd = c.arg]
    [] c.op = "cSpeed"   -> [s EXCEPT !.cSpeed = c.arg]
    [] c.op = "maxSpeed" -> [s EXCEPT !.mSpeed = c.arg]
    [] c.op = "preTemp"  -> [s EXCEPT !.preTemp[c.preset] = c.arg]
    [] c.op = "preSpeed" -> [s EXCEPT !.preSpeed[c.preset] = c.arg]
    [] OTHER             -> [s EXCEPT !.override = c.arg]

Apply(s, c) == IF Accepts(c) THEN Store(s, c) ELSE s

\* Plausible slip: only the setter of the whole table marks it.
MarksTableDirty(c) ==
  /\ Accepts(c)
  /\ c.op \in {"preTemp", "preSpeed"} =>
       c.by = "copy" /\ c.preset = FAN_PRESETS - 1

\* Plausible slip: a new night cap is stored and nobody told.
MarksAllButCap(c) ==
  /\ Accepts(c) /\ c.op # "maxSpeed"
  /\ c.op \in {"preTemp", "preSpeed"} /\ c.by = "copy" => c.preset = FAN_PRESETS - 1

\* setDirty runs at the end of an accepted setter, not between copied bytes.
MarksDirty(c) ==
  /\ Accepts(c)
  /\ c.op \in {"preTemp", "preSpeed"} /\ c.by = "copy" => c.preset = FAN_PRESETS - 1

-----------------------------------------------------------------------------
(***************************************************************************)
(* The speed the fan should run at: off, capped at night, or as set.  The  *)
(* getter first decides which, then reads the value again to return it.    *)
(***************************************************************************)
\* Plausible slip: the cap that applies by day and not by night.
SwappedSpeedRule(s) ==
  CASE ~s.on                             -> "off"
    [] s.on /\ s.day /\ s.cSpeed > s.mSpeed -> "cap"
    [] OTHER                             -> "own"

SpeedRule(s) ==
  CASE ~s.on                              -> "off"
    [] s.on /\ ~s.day /\ s.cSpeed > s.mSpeed -> "cap"
    [] OTHER                              -> "own"

SpeedBy(s, rule) ==
  CASE rule = "off" -> 0
    [] rule = "cap" -> s.mSpeed
    [] OTHER        -> s.cSpeed

CurrentSpeed(s) == SpeedBy(s, SpeedRule(s))

(***************************************************************************)
(* The PWM level of a speed: a fifth of the 16-bit range is the slowest    *)
(* running level, the rest is divided into a hundred steps.                *)
(***************************************************************************)
MinLevel == (MaxWord \div 100) * 20
LevelStep == (MaxWord - MinLevel) \div 100

Level(speed) == IF speed = 0 THEN 0 ELSE (speed * LevelStep + MinLevel) % (MaxWord + 1)

-----------------------------------------------------------------------------
(***************************************************************************)
(* The speed the presets ask for.                                          *)
(***************************************************************************)
PresetsInUse(s) == s.preTemp[FAN_PRESETS - 1] # 0

Reached(s) == {i \in Presets : s.envTemp >= s.preTemp[i]}

PresetSpeed(s) ==
  IF s.envTemp < s.preTemp[0] THEN 0 ELSE s.preSpeed[Max(Reached(s))]

\* Plausible slip: the presets applied over a running override.
OverrideIgnoredCalcSpeed(s) ==
  IF ~PresetsInUse(s) THEN s
  ELSE Apply(s, [op |-> "cSpeed", arg |-> PresetSpeed(s)])

CalcSpeed(s) ==
  IF ~PresetsInUse(s) \/ s.override > 0 THEN s
  ELSE Apply(s, [op |-> "cSpeed", arg |-> PresetSpeed(s)])

-----------------------------------------------------------------------------
(***************************************************************************)
(* updateClock: day or night, the minute and the override, the             *)
(* temperature, then the presets, in that order.                           *)
(***************************************************************************)
InDay(s, hour) == s.dayStart < hour /\ hour < s.dayEnd

UpdateDay(s, hour) == [s EXCEPT !.day = InDay(s, hour)]

\* Plausible slips: no guard on zero, in 16 bits or as a signed number, and a
\* guard that is off by one.
UnguardedCountMinute(s, min) ==
  IF min = s.min THEN s
  ELSE [s EXCEPT !.min = min, !.override = (@ - 1) % (MaxWord + 1)]

SignedCountMinute(s, min) ==
  IF min = s.min THEN s
  ELSE [s EXCEPT !.min = min, !.override = @ - 1]

OffByOneCountMinute(s, min) ==
  IF min = s.min THEN s
  ELSE [s EXCEPT !.min = min, !.override = IF @ > 1 THEN @ - 1 ELSE @]

CountMinute(s, min) ==
  IF min = s.min THEN s
  ELSE [s EXCEPT !.min = min, !.override = IF @ > 0 THEN @ - 1 ELSE @]

\* Plausible slip: the presets applied before the minute is counted.
EarlyClockUpdate(s, time, temp) ==
  CountMinute(CalcSpeed([UpdateDay(s, time.hour) EXCEPT !.envTemp = temp]), time.min)

ClockUpdate(s, time, temp) ==
  CalcSpeed([CountMinute(UpdateDay(s, time.hour), time.min) EXCEPT !.envTemp = temp])

\* The slots an updateClock marks dirty; the clock's own slot always.
ClockDirty(s, time, temp) ==
  LET t == ClockUpdate(s, time, temp)
  IN  {"clock"} \cup {f \in {"day", "override", "envTemp"} : t[f] # s[f]}
                \cup {f \in {"cSpeed"} : PresetsInUse(t) /\ t.override = 0
                                          /\ PresetSpeed(t) <= MaxPercent}

(***************************************************************************)
(* Slot codes, and the controller's test of the dirty code.  It ORs the    *)
(* bit of the dirty slot with the speed slot's number; an OR is zero only  *)
(* when both operands are, so no notification is ever ignored.             *)
(***************************************************************************)
Slot == [on |-> 3, daye |-> 4, days |-> 5, day |-> 6, clock |-> 7, cSpeed |-> 8,
         maxSpeed |-> 9, preTemp |-> 10, preSpeed |-> 11, envTemp |-> 12, override |-> 13]

\* Plausible slip, or the comparison that was perhaps meant.
MatchesSpeedSlot(slot) == Slot[slot] = Slot["cSpeed"]

ActsOn(slot) == 2^Slot[slot] > 0 \/ Slot["cSpeed"] > 0

-----------------------------------------------------------------------------
(***************************************************************************)
(* updateFromJson: the calls a message turns into, in the code's order.  A *)
(* message is a record of the fields present with the right JSON type; a   *)
(* field of another type is one the code skips.  In an array an element    *)
(* outside Byte also stands for one that is missing or not an integer.     *)
(***************************************************************************)
\* Plausible slip: a number kept at its full width.
Wide(n) == n

Truncated(n) == n % 256

SetArray(op, bytes) ==
  [k \in 1..FAN_PRESETS |->
     [op |-> op, arg |-> bytes[k], preset |-> k - 1, by |-> "copy"]]

Has(m, field) == field \in DOMAIN m

\* An element is the int that its 64 bit number was narrowed to before the test:
\* 2^32 + 5 in a message is the element 5.
BytesOk(m, field) == Has(m, field) => \A k \in 1..FAN_PRESETS : m[field][k] \in Byte

\* The types the JSON parser gives the fields.
WellFormed(m) ==
  /\ \A f \in {"on", "day"} : Has(m, f) => m[f] \in BOOLEAN
  /\ \A f \in {"days", "daye", "cSpeed", "maxSpeed"} : Has(m, f) => m[f] \in Int
  /\ \A f \in {"preTemp", "preSpeed"} :
       Has(m, f) => \A k \in 1..FAN_PRESETS : m[f][k] \in Int

\* One presetsOk serves both arrays: a bad preTemp also drops preSpeed.
FromJson(m) ==
     (IF Has(m, "on")       THEN <<[op |-> "on", arg |-> m.on]>> ELSE <<>>)
  \o (IF Has(m, "days")     THEN <<[op |-> "days", arg |-> Truncated(m.days)]>> ELSE <<>>)
  \o (IF Has(m, "daye")     THEN <<[op |-> "daye", arg |-> Truncated(m.daye)]>> ELSE <<>>)
  \o (IF Has(m, "day")      THEN <<[op |-> "day", arg |-> m.day]>> ELSE <<>>)
  \o (IF Has(m, "cSpeed")   THEN <<[op |-> "cSpeed", arg |-> Truncated(m.cSpeed)]>> ELSE <<>>)
  \o (IF Has(m, "maxSpeed") THEN <<[op |-> "maxSpeed", arg |-> Truncated(m.maxSpeed)]>> ELSE <<>>)
  \o (IF Has(m, "preTemp") /\ BytesOk(m, "preTemp")
      THEN SetArray("preTemp", m.preTemp) ELSE <<>>)
  \o (IF Has(m, "preSpeed") /\ BytesOk(m, "preTemp") /\ BytesOk(m, "preSpeed")
      THEN SetArray("preSpeed", m.preSpeed) ELSE <<>>)

=============================================================================
