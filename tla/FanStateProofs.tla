--------------------------- MODULE FanStateProofs ---------------------------
(***************************************************************************)
(* What the operators of FanState and EditItems preserve and bound, for    *)
(* every state, call, message and edit.  FanControlProofs builds on these. *)
(***************************************************************************)
EXTENDS EditItems, SequenceTheorems, TLAPS

\* The range of a 16-bit word, without its members.
LEMMA WordBound == MaxWord \in Nat /\ MaxWord >= 65535
BY DEF MaxWord

\* A speed a setter stores is a percentage, and stays one.
SpeedsArePercent(s) == s.cSpeed <= MaxPercent /\ s.mSpeed <= MaxPercent

\* The object is constructed well typed, at a legal speed.
LEMMA InitFanStateType ==
  InitFanState \in FanStateType /\ SpeedsArePercent(InitFanState)
<1>1. 0 \in Word
  BY WordBound DEF Word
<1>2. [i \in Presets |-> 0] \in [Presets -> Byte]
  BY DEF Byte
<1> QED BY <1>1, <1>2 DEF InitFanState, FanStateType, SpeedsArePercent, Byte, MaxPercent

\* Whatever call is made, the object keeps its type and its two speeds stay
\* percentages: setCurrentSpeed and setMaxNightSpeed refuse the rest.
LEMMA ApplyType ==
  ASSUME NEW s \in FanStateType, NEW c \in Calls, SpeedsArePercent(s)
  PROVE  Apply(s, c) \in FanStateType /\ SpeedsArePercent(Apply(s, c))
<1>1. CASE c.op = "on"
  <2>1. c.arg \in BOOLEAN
    BY <1>1 DEF Calls
  <2>2. Store(s, c) = [s EXCEPT !.on = c.arg]
    BY <1>1 DEF Store
  <2> QED BY <2>1, <2>2 DEF Apply, FanStateType, SpeedsArePercent
<1>2. CASE c.op = "day"
  <2>1. c.arg \in BOOLEAN
    BY <1>2 DEF Calls
  <2>2. Store(s, c) = [s EXCEPT !.day = c.arg]
    BY <1>2 DEF Store
  <2> QED BY <2>1, <2>2 DEF Apply, FanStateType, SpeedsArePercent
<1>3. CASE c.op \in {"days", "daye", "cSpeed", "maxSpeed"}
  <2>1. c.arg \in Byte
    BY <1>3 DEF Calls
  <2>2. CASE c.op = "days"
    <3>1. Store(s, c) = [s EXCEPT !.dayStart = c.arg]
      BY <2>2 DEF Store
    <3> QED BY <2>1, <3>1 DEF Apply, FanStateType, SpeedsArePercent
  <2>3. CASE c.op = "daye"
    <3>1. Store(s, c) = [s EXCEPT !.dayEnd = c.arg]
      BY <2>3 DEF Store
    <3> QED BY <2>1, <3>1 DEF Apply, FanStateType, SpeedsArePercent
  <2>4. CASE c.op = "cSpeed"
    <3>1. Store(s, c) = [s EXCEPT !.cSpeed = c.arg]
      BY <2>4 DEF Store
    <3> QED BY <2>1, <2>4, <3>1 DEF Apply, Accepts, FanStateType, SpeedsArePercent
  <2>5. CASE c.op = "maxSpeed"
    <3>1. Store(s, c) = [s EXCEPT !.mSpeed = c.arg]
      BY <2>5 DEF Store
    <3> QED BY <2>1, <2>5, <3>1 DEF Apply, Accepts, FanStateType, SpeedsArePercent
  <2> QED BY <1>3, <2>2, <2>3, <2>4, <2>5
<1>4. CASE c.op \in {"preTemp", "preSpeed"}
  <2>1. c.arg \in Byte /\ c.preset \in Presets
    BY <1>4 DEF Calls
  <2> QED BY <1>4, <2>1 DEF Apply, Accepts, Store, FanStateType, SpeedsArePercent
<1>5. CASE c.op = "override"
  <2>1. c.arg \in Word
    BY <1>5 DEF Calls
  <2>2. Store(s, c) = [s EXCEPT !.override = c.arg]
    BY <1>5 DEF Store
  <2> QED BY <2>1, <2>2 DEF Apply, FanStateType, SpeedsArePercent
<1> QED BY <1>1, <1>2, <1>3, <1>4, <1>5 DEF Calls

\* The largest preset reached exists when the first one is, and is a preset.
LEMMA ReachedMax ==
  ASSUME NEW s \in FanStateType, s.envTemp >= s.preTemp[0]
  PROVE  /\ Max(Reached(s)) \in Reached(s)
         /\ \A i \in Reached(s) : Max(Reached(s)) >= i
<1>1. 0 \in Reached(s) /\ Reached(s) \subseteq {0, 1, 2}
  BY DEF Reached, Presets, FAN_PRESETS
<1>2. \E x \in Reached(s) : \A y \in Reached(s) : x >= y
  BY <1>1
<1> QED BY <1>2 DEF Max

\* A preset speed is a byte: one of the table, or zero.
LEMMA PresetSpeedType ==
  ASSUME NEW s \in FanStateType
  PROVE  PresetSpeed(s) \in Byte
<1>1. s.preTemp[0] \in Int /\ s.envTemp \in Int
  BY DEF FanStateType, Presets, FAN_PRESETS, Byte
<1>2. CASE s.envTemp < s.preTemp[0]
  BY <1>2 DEF PresetSpeed, Byte
<1>3. CASE s.envTemp >= s.preTemp[0]
  <2>1. Max(Reached(s)) \in Presets
    BY <1>3, ReachedMax DEF Reached
  <2> QED BY <1>1, <1>3, <2>1 DEF PresetSpeed, FanStateType
<1> QED BY <1>1, <1>2, <1>3

\* calcSpeed keeps the types, and a speed within 100%.
LEMMA CalcSpeedType ==
  ASSUME NEW s \in FanStateType, SpeedsArePercent(s)
  PROVE  CalcSpeed(s) \in FanStateType /\ SpeedsArePercent(CalcSpeed(s))
<1> DEFINE c == [op |-> "cSpeed", arg |-> PresetSpeed(s)]
<1>1. c \in Calls
  BY PresetSpeedType DEF Calls
<1>2. Apply(s, c) \in FanStateType /\ SpeedsArePercent(Apply(s, c))
  BY <1>1, ApplyType
<1> QED BY <1>2 DEF CalcSpeed

\* What updateClock does before it applies the presets.
ClockedState(s, time, temp) ==
  [CountMinute(UpdateDay(s, time.hour), time.min) EXCEPT !.envTemp = temp]

\* So do the day, the minute, the override and the temperature.
LEMMA ClockedStateType ==
  ASSUME NEW s \in FanStateType, SpeedsArePercent(s),
         NEW time, time.hour \in Byte, time.min \in Byte, NEW temp \in Int
  PROVE  /\ ClockedState(s, time, temp) \in FanStateType
         /\ SpeedsArePercent(ClockedState(s, time, temp))
         /\ ClockedState(s, time, temp).cSpeed = s.cSpeed
         /\ ClockedState(s, time, temp).min = time.min
         /\ ClockedState(s, time, temp).override =
              IF time.min # s.min /\ s.override > 0 THEN s.override - 1 ELSE s.override
<1>1. UpdateDay(s, time.hour) \in FanStateType
  BY DEF UpdateDay, InDay, FanStateType
<1>2. \A r \in FanStateType : CountMinute(r, time.min) \in FanStateType
  <2> SUFFICES ASSUME NEW r \in FanStateType
               PROVE  CountMinute(r, time.min) \in FanStateType
    OBVIOUS
  <2> DEFINE left == IF r.override > 0 THEN r.override - 1 ELSE r.override
  <2>1. left \in Word
    BY WordBound DEF FanStateType, Word
  <2>2. CountMinute(r, time.min) =
          IF time.min = r.min THEN r ELSE [r EXCEPT !.min = time.min, !.override = left]
    BY DEF CountMinute
  <2> HIDE DEF left
  <2> QED BY <2>1, <2>2 DEF FanStateType
<1> QED BY <1>1, <1>2 DEF ClockedState, UpdateDay, CountMinute, FanStateType, SpeedsArePercent

\* So does the whole of updateClock.
LEMMA ClockUpdateType ==
  ASSUME NEW s \in FanStateType, SpeedsArePercent(s),
         NEW time, time.hour \in Byte, time.min \in Byte, NEW temp \in Int
  PROVE  /\ ClockUpdate(s, time, temp) \in FanStateType
         /\ SpeedsArePercent(ClockUpdate(s, time, temp))
BY ClockedStateType, CalcSpeedType DEF ClockUpdate, ClockedState

\* Only the speed is left to the presets.
LEMMA CalcSpeedFrame ==
  ASSUME NEW s \in FanStateType
  PROVE  /\ CalcSpeed(s).override = s.override
         /\ s.override > 0 => CalcSpeed(s) = s
BY DEF CalcSpeed, Apply, Store, FanStateType

-----------------------------------------------------------------------------
\* A speed returned by the getter, decided on one state and fetched from
\* another, is a percentage.
LEMMA SpeedByPercent ==
  ASSUME NEW s \in FanStateType, SpeedsArePercent(s), NEW rule \in {"off", "cap", "own"}
  PROVE  SpeedBy(s, rule) \in 0..MaxPercent
BY SMTT(30) DEF SpeedBy, SpeedsArePercent, FanStateType, Byte, MaxPercent

\* getCurrentSpeed takes one of its three branches.
LEMMA SpeedRuleType ==
  ASSUME NEW s
  PROVE  SpeedRule(s) \in {"off", "cap", "own"}
BY DEF SpeedRule

\* The level of a percentage is zero or within the fan's running range: the
\* sixteen bits are never exceeded.
LEMMA LevelRange ==
  ASSUME NEW p \in 0..MaxPercent
  PROVE  /\ Level(p) = 0 \/ Level(p) \in (MinLevel + LevelStep)..(MinLevel + 100 * LevelStep)
         /\ Level(p) \in Word
<1>1. MinLevel = 13100 /\ LevelStep = 524
  BY DEF MinLevel, LevelStep, MaxWord
<1> DEFINE l == p * LevelStep + MinLevel
<1>2. l \in Int /\ l >= MinLevel /\ l <= 65500
  BY <1>1 DEF MaxPercent
<1>3. l % (MaxWord + 1) = l
  BY <1>1, <1>2, WordBound
<1>4. p # 0 => l >= MinLevel + LevelStep
  BY <1>1 DEF MaxPercent
<1>5. Level(p) = IF p = 0 THEN 0 ELSE l
  BY <1>3 DEF Level
<1> HIDE DEF l
<1> QED BY <1>1, <1>2, <1>4, <1>5, WordBound, SMTT(30) DEF Word

-----------------------------------------------------------------------------
\* A narrowed integer is a byte.
LEMMA TruncatedType ==
  ASSUME NEW n \in Int
  PROVE  Truncated(n) \in Byte
BY DEF Truncated, Byte

\* An array of bytes is copied by well-formed calls.
LEMMA SetArrayType ==
  ASSUME NEW op \in {"preTemp", "preSpeed"}, NEW bytes,
         \A k \in 1..FAN_PRESETS : bytes[k] \in Byte
  PROVE  SetArray(op, bytes) \in Seq(Calls)
<1>1. \A k \in 1..FAN_PRESETS :
        [op |-> op, arg |-> bytes[k], preset |-> k - 1, by |-> "copy"] \in Calls
  BY DEF Calls, Presets, FAN_PRESETS
<1>2. FAN_PRESETS \in Nat
  BY DEF FAN_PRESETS
<1> QED BY <1>1, <1>2, IsASeq DEF SetArray

\* A message is a sequence put together from single calls and whole tables,
\* whatever numbers it holds: what these have and sequences put one after the
\* other keep, its calls have.
LEMMA FromJsonParts ==
  ASSUME NEW m, WellFormed(m), NEW X,
         <<>> \in X,
         \A c \in Calls : c.op \notin {"preTemp", "preSpeed"} => <<c>> \in X,
         \A op \in {"preTemp", "preSpeed"} : \A bytes :
           (\A k \in 1..FAN_PRESETS : bytes[k] \in Byte) => SetArray(op, bytes) \in X,
         \A a, b \in X : a \o b \in X
  PROVE  FromJson(m) \in X
<1> DEFINE One(f, v) == IF Has(m, f) THEN <<[op |-> f, arg |-> v]>> ELSE <<>>
           temps  == IF Has(m, "preTemp") /\ BytesOk(m, "preTemp")
                     THEN SetArray("preTemp", m.preTemp) ELSE <<>>
           speeds == IF Has(m, "preSpeed") /\ BytesOk(m, "preTemp") /\ BytesOk(m, "preSpeed")
                     THEN SetArray("preSpeed", m.preSpeed) ELSE <<>>
<1>1. \A f \in {"on", "day"} : One(f, m[f]) \in X
  <2> SUFFICES ASSUME NEW f \in {"on", "day"}, Has(m, f)
               PROVE  One(f, m[f]) \in X
    OBVIOUS
  <2> DEFINE c == [op |-> f, arg |-> m[f]]
  <2>1. m[f] \in BOOLEAN
    BY DEF WellFormed
  <2>2. c \in [op : {"on", "day"}, arg : BOOLEAN]
    BY <2>1
  <2>3. c.op \notin {"preTemp", "preSpeed"}
    OBVIOUS
  <2>4. One(f, m[f]) = <<c>>
    OBVIOUS
  <2> HIDE DEF c
  <2> QED BY <2>2, <2>3, <2>4 DEF Calls
<1>2. \A f \in {"days", "daye", "cSpeed", "maxSpeed"} : One(f, Truncated(m[f])) \in X
  <2> SUFFICES ASSUME NEW f \in {"days", "daye", "cSpeed", "maxSpeed"}, Has(m, f)
               PROVE  One(f, Truncated(m[f])) \in X
    OBVIOUS
  <2> DEFINE c == [op |-> f, arg |-> Truncated(m[f])]
  <2>1. Truncated(m[f]) \in Byte
    BY TruncatedType DEF WellFormed
  <2>2. c \in Calls /\ c.op \notin {"preTemp", "preSpeed"}
    BY <2>1 DEF Calls
  <2>3. One(f, Truncated(m[f])) = <<c>>
    OBVIOUS
  <2> HIDE DEF c
  <2> QED BY <2>2, <2>3
<1>3. temps \in X
  <2>1. CASE Has(m, "preTemp") /\ BytesOk(m, "preTemp")
    <3>1. SetArray("preTemp", m["preTemp"]) \in X
      BY <2>1 DEF BytesOk
    <3> QED BY <2>1, <3>1
  <2> QED BY <2>1
<1>4. speeds \in X
  <2>1. CASE Has(m, "preSpeed") /\ BytesOk(m, "preTemp") /\ BytesOk(m, "preSpeed")
    <3>1. SetArray("preSpeed", m["preSpeed"]) \in X
      BY <2>1 DEF BytesOk
    <3> QED BY <2>1, <3>1
  <2> QED BY <2>1
<1>5. FromJson(m) = One("on", m["on"]) \o One("days", Truncated(m["days"]))
                    \o One("daye", Truncated(m["daye"])) \o One("day", m["day"])
                    \o One("cSpeed", Truncated(m["cSpeed"]))
                    \o One("maxSpeed", Truncated(m["maxSpeed"])) \o temps \o speeds
  BY DEF FromJson
<1>6. \A a, b, c \in X : a \o b \o c \in X
  OBVIOUS
<1> HIDE DEF One, temps, speeds
<1>7. One("on", m["on"]) \o One("days", Truncated(m["days"]))
        \o One("daye", Truncated(m["daye"])) \in X
  BY <1>1, <1>2, <1>6
<1>8. One("on", m["on"]) \o One("days", Truncated(m["days"]))
        \o One("daye", Truncated(m["daye"])) \o One("day", m["day"])
        \o One("cSpeed", Truncated(m["cSpeed"])) \in X
  BY <1>1, <1>2, <1>6, <1>7
<1>9. One("on", m["on"]) \o One("days", Truncated(m["days"]))
        \o One("daye", Truncated(m["daye"])) \o One("day", m["day"])
        \o One("cSpeed", Truncated(m["cSpeed"]))
        \o One("maxSpeed", Truncated(m["maxSpeed"])) \o temps \in X
  BY <1>2, <1>3, <1>6, <1>8
<1> QED BY <1>4, <1>5, <1>9

\* So a message turns into well-formed calls.
LEMMA FromJsonType ==
  ASSUME NEW m, WellFormed(m)
  PROVE  FromJson(m) \in Seq(Calls)
<1>1. /\ <<>> \in Seq(Calls)
      /\ \A c \in Calls : <<c>> \in Seq(Calls)
      /\ \A a, b \in Seq(Calls) : a \o b \in Seq(Calls)
  BY ConcatProperties
<1>2. \A op \in {"preTemp", "preSpeed"} : \A bytes :
        (\A k \in 1..FAN_PRESETS : bytes[k] \in Byte) => SetArray(op, bytes) \in Seq(Calls)
  BY SetArrayType
<1> QED BY <1>1, <1>2, FromJsonParts

\* So does a confirmation, from whatever value the knob has reached.
LEMMA ConfirmedType ==
  ASSUME NEW s, NEW item \in EditableItems, NEW v \in Int
  PROVE  Confirmed(s, item, v) \in Seq(Calls)
<1> DEFINE byte(op)  == [op |-> op, arg |-> Truncated(v)]
           preset(op) == [op |-> op, arg |-> Truncated(v),
                          preset |-> PresetOf(item), by |-> "index"]
           hold(n)   == [op |-> "override", arg |-> n]
           switch    == [op |-> "on", arg |-> v > 0]
<1>1. Truncated(v) \in Byte /\ v % (MaxWord + 1) \in Word /\ DefaultOverride \in Word
  BY TruncatedType, OverrideAssumption, WordBound DEF Word
<1>2. \A op \in {"cSpeed", "maxSpeed", "days", "daye"} : byte(op) \in Calls
  BY <1>1 DEF Calls
<1>3. hold(DefaultOverride) \in Calls /\ hold(v % (MaxWord + 1)) \in Calls /\ switch \in Calls
  BY <1>1 DEF Calls
<1>4. \A op \in {"preTemp", "preSpeed"} :
        item \in (2..4) \cup (102..104) => preset(op) \in Calls
  <2>1. item \in (2..4) \cup (102..104) => PresetOf(item) \in Presets
    BY DEF PresetOf, Presets, SecondStage, FAN_PRESETS
  <2> QED BY <1>1, <2>1 DEF Calls
<1>5. CASE item = 1
  <2>1. SetSpeed(v) = <<byte("cSpeed"), switch>>
    BY DEF SetSpeed
  <2>2. \/ Confirmed(s, item, v) = <<hold(DefaultOverride)>> \o SetSpeed(v)
        \/ Confirmed(s, item, v) = SetSpeed(v)
    BY <1>5 DEF Confirmed, ConfirmedSpeed
  <2> HIDE DEF hold, byte, switch
  <2>3. <<hold(DefaultOverride)>> \in Seq(Calls)
    BY <1>3
  <2>4. SetSpeed(v) \in Seq(Calls)
    BY <1>2, <1>3, <2>1
  <2> QED BY <2>2, <2>3, <2>4, ConcatProperties
<1>6. CASE item = 101
  <2>1. Confirmed(s, item, v) = <<hold(v % (MaxWord + 1))>>
    BY <1>6 DEF Confirmed
  <2> HIDE DEF hold
  <2> QED BY <1>3, <2>1
<1>7. CASE item \in (2..4) \cup (102..104)
  <2>1. preset("preTemp") \in Calls /\ preset("preSpeed") \in Calls
    BY <1>4, <1>7
  <2>2. CASE item \in 2..4
    <3>1. Confirmed(s, item, v) = <<preset("preTemp")>>
      BY <2>2 DEF Confirmed
    <3> HIDE DEF preset
    <3> QED BY <2>1, <3>1
  <2>3. CASE item \in 102..104
    <3>1. Confirmed(s, item, v) = <<preset("preSpeed")>>
      BY <2>3 DEF Confirmed
    <3> HIDE DEF preset
    <3> QED BY <2>1, <3>1
  <2> QED BY <1>7, <2>2, <2>3
<1>8. CASE item \in 5..7
  <2>1. \E op \in {"maxSpeed", "days", "daye"} : Confirmed(s, item, v) = <<byte(op)>>
    BY <1>8 DEF Confirmed, ByteSetter
  <2> HIDE DEF byte
  <2> QED BY <1>2, <2>1
<1> QED BY <1>5, <1>6, <1>7, <1>8
        DEF EditableItems, SecondStageItems, FirstStageItems, SecondStage

=============================================================================
