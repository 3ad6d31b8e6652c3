-------------------------- MODULE FanControlProofs --------------------------
(***************************************************************************)
(* Theorems about FanControl for every set of messages, edits and          *)
(* temperatures, and every length of the hour.                             *)
(*                                                                         *)
(* PwmInRange alone is not inductive: the level is computed from a speed   *)
(* a task fetched some steps before, from a state that has changed since.  *)
(* Inv adds that the stored speeds and the fetched ones are percentages.   *)
(***************************************************************************)
EXTENDS FanPin, FanStateProofs

PercentInv ==
  /\ SpeedsArePercent(fs)
  /\ \A t \in Tasks : ctx[t].speed <= MaxPercent

Inv == TypeOK /\ PercentInv /\ PwmInRange

\* A time of the clock is an hour and a minute that fit a byte.
LEMMA TimesBytes ==
  ASSUME NEW time \in Times
  PROVE  time.hour \in Byte /\ time.min \in Byte
<1>1. time.hour \in 0..23
  BY TimeAssumption DEF Times
<1>2. MinutesPerHour \in 2..60 /\ time.min \in 0..(MinutesPerHour - 1)
  BY TimeAssumption DEF Times
<1> QED BY <1>1, <1>2 DEF Byte

\* The percentages, as bytes.
LEMMA PercentBytes == \A b : b \in 0..MaxPercent <=> b \in Byte /\ b <= MaxPercent
BY DEF Byte, MaxPercent

\* An idle task is well typed.
LEMMA IdleType ==
  Idle \in CtxType /\ Idle.speed <= MaxPercent
BY EmptySeq DEF Idle, CtxType, Byte, MaxPercent

\* The initial state, and the one after a reboot.
LEMMA InitInv == Init => Inv
<1> SUFFICES ASSUME Init PROVE Inv
  OBVIOUS
<1>1. fs \in FanStateType /\ SpeedsArePercent(fs)
  BY InitFanStateType DEF Init
<1>2. pwm \in Word /\ PwmInRange
  BY WordBound DEF Init, PwmInRange, Word
<1>3. lag \in 0..MaxLag /\ resyncs \in 0..MaxResyncs
  BY LagAssumption, ResyncAssumption DEF Init
<1>4. ctx \in [Tasks -> CtxType] /\ \A t \in Tasks : ctx[t].speed <= MaxPercent
  BY IdleType DEF Init
<1> QED BY <1>1, <1>2, <1>3, <1>4 DEF Init, Inv, TypeOK, PercentInv

\* A step of one task that replaces its context by a typed one, with a
\* percentage, keeps the contexts typed and their speeds percentages.
LEMMA CtxStep ==
  ASSUME Inv, NEW t \in Tasks, NEW c \in CtxType, c.speed <= MaxPercent,
         ctx' = [ctx EXCEPT ![t] = c]
  PROVE  ctx' \in [Tasks -> CtxType] /\ \A u \in Tasks : ctx'[u].speed <= MaxPercent
BY DEF Inv, TypeOK, PercentInv

\* Confirming an edit queues well-formed calls.
LEMMA ConfirmInv ==
  ASSUME Inv, NEW e \in Edits, Confirm(e)
  PROVE  Inv'
<1> DEFINE c == [ctx["display"] EXCEPT !.todo = Confirmed(fs, e.item, e.value)]
<1>1. Confirmed(fs, e.item, e.value) \in Seq(Calls)
  BY EditsAssumption, ConfirmedType
<1>2. c \in CtxType /\ c.speed <= MaxPercent
  BY <1>1 DEF Inv, TypeOK, PercentInv, CtxType, Tasks
<1>3. ctx' = [ctx EXCEPT !["display"] = c]
  BY DEF Confirm
<1>4. ctx' \in [Tasks -> CtxType] /\ \A u \in Tasks : ctx'[u].speed <= MaxPercent
  BY <1>2, <1>3, CtxStep DEF Tasks
<1> QED BY <1>4 DEF Confirm, Inv, TypeOK, PercentInv, PwmInRange

\* So does taking a message.
LEMMA ReceiveInv ==
  ASSUME Inv, NEW m \in Messages, Receive(m)
  PROVE  Inv'
<1> DEFINE c == [ctx["twin"] EXCEPT !.todo = FromJson(m)]
<1>1. FromJson(m) \in Seq(Calls)
  BY MessagesAssumption, FromJsonType
<1>2. c \in CtxType /\ c.speed <= MaxPercent
  BY <1>1 DEF Inv, TypeOK, PercentInv, CtxType, Tasks
<1>3. ctx' = [ctx EXCEPT !["twin"] = c]
  BY DEF Receive
<1>4. ctx' \in [Tasks -> CtxType] /\ \A u \in Tasks : ctx'[u].speed <= MaxPercent
  BY <1>2, <1>3, CtxStep DEF Tasks
<1> QED BY <1>4 DEF Receive, Inv, TypeOK, PercentInv, PwmInRange

\* The setters keep the stored speeds percentages (ApplyType).
LEMMA CallInv ==
  ASSUME Inv, NEW t \in Tasks, Call(t)
  PROVE  Inv'
<1> DEFINE h == Head(ctx[t].todo)
           p == IF MarksDirty(h) /\ ActsOn(h.op) THEN "decide" ELSE "call"
           c == [ctx[t] EXCEPT !.todo = Tail(ctx[t].todo), !.phase = p]
<1>1. ctx[t] \in CtxType /\ ctx[t].todo \in Seq(Calls) /\ ctx[t].todo # <<>>
  BY DEF Call, Inv, TypeOK, CtxType
<1>2. h \in Calls /\ Tail(ctx[t].todo) \in Seq(Calls)
  BY <1>1, HeadTailProperties
<1>3. fs' \in FanStateType /\ SpeedsArePercent(fs')
  BY <1>2, ApplyType DEF Call, Inv, TypeOK, PercentInv
<1>4. ctx' = [ctx EXCEPT ![t] = c]
  BY DEF Call, Inv, TypeOK
<1>5. p \in {"decide", "call"}
  OBVIOUS
<1>6. c \in CtxType /\ c.speed <= MaxPercent
  <2> HIDE DEF p, h
  <2> QED BY <1>1, <1>2, <1>5 DEF CtxType, Inv, PercentInv
<1>7. ctx' \in [Tasks -> CtxType] /\ \A u \in Tasks : ctx'[u].speed <= MaxPercent
  <2> HIDE DEF c
  <2> QED BY <1>4, <1>6, CtxStep
<1> QED BY <1>3, <1>7 DEF Call, Inv, TypeOK, PercentInv, PwmInRange

\* Deciding a rule changes only the task.
LEMMA DecideInv ==
  ASSUME Inv, NEW t \in Tasks, Decide(t)
  PROVE  Inv'
<1> DEFINE c == [ctx[t] EXCEPT !.phase = "fetch", !.rule = SpeedRule(fs)]
<1>1. c \in CtxType /\ c.speed <= MaxPercent
  BY SpeedRuleType DEF Inv, TypeOK, PercentInv, CtxType
<1>2. ctx' = [ctx EXCEPT ![t] = c]
  BY DEF Decide, Inv, TypeOK
<1>3. ctx' \in [Tasks -> CtxType] /\ \A u \in Tasks : ctx'[u].speed <= MaxPercent
  BY <1>1, <1>2, CtxStep
<1> QED BY <1>3 DEF Decide, Inv, TypeOK, PercentInv, PwmInRange

\* The rule may be older than the state it is used on; the speed fetched is a
\* percentage all the same (SpeedByPercent).
LEMMA FetchInv ==
  ASSUME Inv, NEW t \in Tasks, Fetch(t)
  PROVE  Inv'
<1> DEFINE v == SpeedBy(fs, ctx[t].rule)
           c == [ctx[t] EXCEPT !.phase = "gate", !.speed = v]
<1>1. ctx[t] \in CtxType /\ ctx[t].rule \in {"off", "cap", "own"}
  BY DEF Inv, TypeOK, CtxType
<1>2. v \in 0..MaxPercent
  BY <1>1, SpeedByPercent DEF Inv, TypeOK, PercentInv
<1>3. c \in CtxType /\ c.speed <= MaxPercent
  <2> HIDE DEF v
  <2>1. v \in Byte /\ v <= MaxPercent
    BY <1>2, PercentBytes
  <2> QED BY <1>1, <2>1 DEF CtxType
<1>4. ctx' = [ctx EXCEPT ![t] = c]
  BY DEF Fetch, Inv, TypeOK
<1>5. ctx' \in [Tasks -> CtxType] /\ \A u \in Tasks : ctx'[u].speed <= MaxPercent
  <2> HIDE DEF c
  <2> QED BY <1>3, <1>4, CtxStep
<1> QED BY <1>5 DEF Fetch, Inv, TypeOK, PercentInv, PwmInRange

\* The second reading of `on' keeps the speed or makes it zero.
LEMMA GateInv ==
  ASSUME Inv, NEW t \in Tasks, Gate(t)
  PROVE  Inv'
<1> DEFINE v == IF fs.on THEN ctx[t].speed ELSE 0
           c == [ctx[t] EXCEPT !.phase = "level", !.speed = v]
<1>1. ctx[t] \in CtxType /\ ctx[t].speed \in 0..MaxPercent
  BY PercentBytes DEF Inv, TypeOK, PercentInv, CtxType
<1>2. v \in 0..MaxPercent
  BY <1>1 DEF MaxPercent
<1>3. c \in CtxType /\ c.speed <= MaxPercent
  <2> HIDE DEF v
  <2>1. v \in Byte /\ v <= MaxPercent
    BY <1>2, PercentBytes
  <2> QED BY <1>1, <2>1 DEF CtxType
<1>4. ctx' = [ctx EXCEPT ![t] = c]
  BY DEF Gate, Inv, TypeOK
<1>5. ctx' \in [Tasks -> CtxType] /\ \A u \in Tasks : ctx'[u].speed <= MaxPercent
  <2> HIDE DEF c
  <2> QED BY <1>3, <1>4, CtxStep
<1> QED BY <1>5 DEF Gate, Inv, TypeOK, PercentInv, PwmInRange

\* The only write of a priority-1 task to the pin, from its fetched speed.
LEMMA SetLevelInv ==
  ASSUME Inv, NEW t \in Tasks, SetLevel(t)
  PROVE  Inv'
<1> DEFINE c == [Idle EXCEPT !.todo = ctx[t].todo]
<1>1. ctx[t].speed \in 0..MaxPercent /\ ctx[t].todo \in Seq(Calls)
  BY PercentBytes DEF Inv, TypeOK, PercentInv, CtxType
<1>2. pwm' \in Word /\ PwmInRange'
  BY <1>1, LevelRange DEF SetLevel, PwmInRange
<1>3. c \in CtxType /\ c.speed <= MaxPercent
  BY <1>1, IdleType DEF CtxType, Idle
<1>4. ctx' = [ctx EXCEPT ![t] = c]
  BY DEF SetLevel
<1>5. ctx' \in [Tasks -> CtxType] /\ \A u \in Tasks : ctx'[u].speed <= MaxPercent
  <2> HIDE DEF c
  <2> QED BY <1>3, <1>4, CtxStep
<1> QED BY <1>2, <1>5 DEF SetLevel, Inv, TypeOK, PercentInv

\* The clock writes the object and the pin in one step of the init task.
LEMMA UpdateClockInv ==
  ASSUME Inv, UpdateClock
  PROVE  Inv'
<1>1. PICK temp \in Temps :
        /\ fs' = ClockUpdate(fs, rtc, temp)
        /\ pwm' = IF \E slot \in ClockDirty(fs, rtc, temp) : ActsOn(slot)
                  THEN Level(CurrentSpeed(fs')) ELSE pwm
  BY DEF UpdateClock
<1>2. rtc.hour \in Byte /\ rtc.min \in Byte /\ temp \in Int
  BY TimesBytes, TempsAssumption DEF Inv, TypeOK
<1>3. fs' \in FanStateType /\ SpeedsArePercent(fs')
  BY <1>1, <1>2, ClockUpdateType DEF Inv, TypeOK, PercentInv
<1>4. CurrentSpeed(fs') \in 0..MaxPercent
  BY <1>3, SpeedRuleType, SpeedByPercent DEF CurrentSpeed
<1>5. pwm' \in Word /\ PwmInRange'
  BY <1>1, <1>4, LevelRange DEF PwmInRange, Inv, TypeOK
<1>6. lag' \in 0..MaxLag
  BY LagAssumption DEF UpdateClock
<1> QED BY <1>3, <1>5, <1>6 DEF UpdateClock, Inv, TypeOK, PercentInv

\* The steps that touch neither the object, nor the pin, nor a context.
LEMMA TimeInv ==
  ASSUME Inv, StartMqtt \/ Resync \/ Minute
  PROVE  Inv'
<1>1. rtc' \in Times
  <2>1. CASE StartMqtt \/ Resync
    BY <2>1 DEF StartMqtt, Resync
  <2>2. CASE Minute
    <3>1. rtc \in Times /\ MinutesPerHour \in Nat
      BY TimeAssumption DEF Inv, TypeOK
    <3>2. CASE rtc.min + 1 < MinutesPerHour
      BY <2>2, <3>1, <3>2 DEF Minute, Times
    <3>3. CASE ~(rtc.min + 1 < MinutesPerHour)
      BY <2>2, <3>1, <3>3, TimeAssumption DEF Minute, Times
    <3> QED BY <3>2, <3>3
  <2> QED BY <2>1, <2>2
<1>2. lag' \in 0..MaxLag
  BY LagAssumption DEF StartMqtt, Resync, Minute, Inv, TypeOK
<1>3. resyncs' \in 0..MaxResyncs
  BY ResyncAssumption DEF StartMqtt, Resync, Minute, Inv, TypeOK
<1> QED BY <1>1, <1>2, <1>3
        DEF StartMqtt, Resync, Minute, Inv, TypeOK, PercentInv, PwmInRange

\* A reboot is a new beginning.
LEMMA RebootInv ==
  ASSUME Inv, Reboot
  PROVE  Inv'
<1>1. fs' \in FanStateType /\ SpeedsArePercent(fs')
  BY InitFanStateType DEF Reboot
<1>2. pwm' \in Word /\ PwmInRange'
  BY WordBound DEF Reboot, PwmInRange, Word
<1>3. lag' \in 0..MaxLag
  BY LagAssumption DEF Reboot
<1>4. ctx' \in [Tasks -> CtxType] /\ \A t \in Tasks : ctx'[t].speed <= MaxPercent
  BY IdleType DEF Reboot
<1> QED BY <1>1, <1>2, <1>3, <1>4 DEF Reboot, Inv, TypeOK, PercentInv

\* The invariant is inductive.
LEMMA NextInv == Inv /\ [Next]_vars => Inv'
<1> SUFFICES ASSUME Inv, [Next]_vars PROVE Inv'
  OBVIOUS
<1>1. CASE UNCHANGED vars
  BY <1>1 DEF vars, Inv, TypeOK, PercentInv, PwmInRange
<1>2. CASE \E e \in Edits : Confirm(e)
  BY <1>2, ConfirmInv
<1>3. CASE \E m \in Messages : Receive(m)
  BY <1>3, ReceiveInv
<1>4. CASE \E t \in Tasks : Call(t) \/ Decide(t) \/ Fetch(t) \/ Gate(t) \/ SetLevel(t)
  BY <1>4, CallInv, DecideInv, FetchInv, GateInv, SetLevelInv
<1>5. CASE UpdateClock
  BY <1>5, UpdateClockInv
<1>6. CASE StartMqtt \/ Resync \/ Minute
  BY <1>6, TimeInv
<1>7. CASE Reboot
  BY <1>7, RebootInv
<1> QED BY <1>1, <1>2, <1>3, <1>4, <1>5, <1>6, <1>7 DEF Next

\* Inv: the inductive invariant of the shared state and its tasks.
THEOREM Invariance == Spec => []Inv
BY InitInv, NextInv, PTL DEF Spec

\* The object, the pin and the contexts keep their C types.
THEOREM TypeCorrect == Spec => []TypeOK
<1>1. Inv => TypeOK
  BY DEF Inv
<1> QED BY <1>1, Invariance, PTL

\* The pin never carries a wrapped or an impossible level, however the two
\* tasks and the clock interleave and whatever the messages ask for.
THEOREM PwmStaysInRange == Spec => []PwmInRange
<1>1. Inv => PwmInRange
  BY DEF Inv
<1> QED BY <1>1, Invariance, PTL

-----------------------------------------------------------------------------
(***************************************************************************)
(* Action properties.                                                      *)
(***************************************************************************)

\* What one updateClock does to the fields the properties speak about.
LEMMA UpdateClockStep ==
  ASSUME Inv, UpdateClock
  PROVE  \E temp \in Temps :
           LET r == ClockedState(fs, rtc, temp)
           IN  /\ r \in FanStateType /\ SpeedsArePercent(r)
               /\ r.cSpeed = fs.cSpeed
               /\ r.override = IF rtc.min # fs.min /\ fs.override > 0
                               THEN fs.override - 1 ELSE fs.override
               /\ r.day = InDay(r, rtc.hour)
               /\ fs' = CalcSpeed(r)
               /\ pwm' = Level(CurrentSpeed(fs'))
<1>1. PICK temp \in Temps :
        /\ fs' = ClockUpdate(fs, rtc, temp)
        /\ pwm' = IF \E slot \in ClockDirty(fs, rtc, temp) : ActsOn(slot)
                  THEN Level(CurrentSpeed(fs')) ELSE pwm
  BY DEF UpdateClock
<1> DEFINE r == ClockedState(fs, rtc, temp)
<1>2. rtc.hour \in Byte /\ rtc.min \in Byte /\ temp \in Int
  BY TimesBytes, TempsAssumption DEF Inv, TypeOK
<1>3. /\ r \in FanStateType /\ SpeedsArePercent(r)
      /\ r.cSpeed = fs.cSpeed
      /\ r.override = IF rtc.min # fs.min /\ fs.override > 0
                      THEN fs.override - 1 ELSE fs.override
  BY <1>2, ClockedStateType DEF Inv, TypeOK, PercentInv
<1>4. fs' = CalcSpeed(r)
  BY <1>1 DEF ClockUpdate, ClockedState
<1>5. r.day = InDay(r, rtc.hour)
  BY <1>2 DEF ClockedState, UpdateDay, CountMinute, InDay, Inv, TypeOK, FanStateType
<1>6. "clock" \in ClockDirty(fs, rtc, temp) /\ ActsOn("clock")
  <2>1. "clock" \in ClockDirty(fs, rtc, temp)
    BY DEF ClockDirty
  <2>2. Slot["cSpeed"] > 0
    BY DEF Slot
  <2> QED BY <2>1, <2>2 DEF ActsOn
<1>7. pwm' = Level(CurrentSpeed(fs'))
  BY <1>1, <1>6
<1> HIDE DEF r
<1> QED BY <1>3, <1>4, <1>5, <1>7 DEF r

\* A call changes no field but its own.
LEMMA ApplyFrame ==
  ASSUME NEW s \in FanStateType, NEW c \in Calls
  PROVE  /\ c.op # "cSpeed" => Apply(s, c).cSpeed = s.cSpeed
         /\ c.op # "override" => Apply(s, c).override = s.override
BY DEF Apply, Store, FanStateType, Calls

\* The steps other than a call, an updateClock and a reboot leave the object.
LEMMA OtherStep ==
  ASSUME [Next]_vars, ~(\E t \in Tasks : Call(t)), ~UpdateClock, ~Reboot
  PROVE  fs' = fs
BY DEF Next, vars, Confirm, Receive, Decide, Fetch, Gate, SetLevel, StartMqtt, Resync, Minute

\* A call applies the head of what its task has to do.
LEMMA CallStep ==
  ASSUME Inv, NEW t \in Tasks, Call(t)
  PROVE  /\ ctx[t].phase = "call" /\ ctx[t].todo # <<>>
         /\ ctx'[t] # ctx[t]
         /\ Head(ctx[t].todo) \in Calls
         /\ fs' = Apply(fs, Head(ctx[t].todo))
<1>1. ctx[t].todo \in Seq(Calls) /\ ctx[t].todo # <<>>
  BY DEF Call, Inv, TypeOK, CtxType
<1>2. Len(Tail(ctx[t].todo)) = Len(ctx[t].todo) - 1 /\ Head(ctx[t].todo) \in Calls
  BY <1>1, HeadTailProperties
<1>3. Len(ctx[t].todo) \in Nat
  BY <1>1, LenProperties
<1>4. ctx'[t].todo = Tail(ctx[t].todo)
  BY DEF Call, Inv, TypeOK, CtxType
<1>5. ctx'[t].todo # ctx[t].todo
  <2>1. Len(ctx'[t].todo) # Len(ctx[t].todo)
    BY <1>2, <1>3, <1>4
  <2> QED BY <2>1
<1> QED BY <1>2, <1>5 DEF Call

\* No preset moves the speed while an override runs.
THEOREM OverrideIsKept == Spec => OverrideKeepsSpeed
<1>1. Inv /\ [Next]_vars =>
        [fs'.cSpeed # fs.cSpeed => fs'.override = 0 \/ SpeedCommand]_vars
  <2> SUFFICES ASSUME Inv, [Next]_vars, fs'.cSpeed # fs.cSpeed
               PROVE  fs'.override = 0 \/ SpeedCommand
    OBVIOUS
  <2>1. CASE \E t \in Tasks : Call(t)
    <3>1. PICK t \in Tasks : Call(t)
      BY <2>1
    <3>2. Head(ctx[t].todo).op = "cSpeed"
      BY <3>1, CallStep, ApplyFrame DEF Inv, TypeOK
    <3> QED BY <3>1, <3>2, CallStep DEF SpeedCommand
  <2>2. CASE UpdateClock
    <3>1. PICK temp \in Temps :
            LET r == ClockedState(fs, rtc, temp)
            IN  r \in FanStateType /\ r.cSpeed = fs.cSpeed /\ fs' = CalcSpeed(r)
      BY <2>2, UpdateClockStep
    <3> DEFINE r == ClockedState(fs, rtc, temp)
    <3>2. ~(r.override > 0)
      BY <3>1, CalcSpeedFrame
    <3>3. r.override \in Nat
      BY <3>1, WordBound DEF FanStateType, Word
    <3> QED BY <3>1, <3>2, <3>3, CalcSpeedFrame
  <2>3. CASE Reboot
    BY <2>3 DEF Reboot, InitFanState
  <2> QED BY <2>1, <2>2, <2>3, OtherStep
<1> QED BY <1>1, Invariance, PTL DEF Spec, OverrideKeepsSpeed

\* The override runs down by one per changed minute and never below zero.
THEOREM OverrideIsCounted == Spec => OverrideRunsDown
<1>1. Inv /\ [Next]_vars =>
        [fs'.override # fs.override =>
           \/ fs'.override = fs.override - 1 /\ rtc.min # fs.min
           \/ OverrideCommand
           \/ fs' = InitFanState]_vars
  <2> SUFFICES ASSUME Inv, [Next]_vars, fs'.override # fs.override
               PROVE  \/ fs'.override = fs.override - 1 /\ rtc.min # fs.min
                      \/ OverrideCommand
                      \/ fs' = InitFanState
    OBVIOUS
  <2>1. CASE \E t \in Tasks : Call(t)
    <3>1. PICK t \in Tasks : Call(t)
      BY <2>1
    <3>2. Head(ctx[t].todo).op = "override"
      BY <3>1, CallStep, ApplyFrame DEF Inv, TypeOK
    <3> QED BY <3>1, <3>2, CallStep DEF OverrideCommand
  <2>2. CASE UpdateClock
    <3>1. PICK temp \in Temps :
            LET r == ClockedState(fs, rtc, temp)
            IN  /\ r \in FanStateType
                /\ r.override = IF rtc.min # fs.min /\ fs.override > 0
                                THEN fs.override - 1 ELSE fs.override
                /\ fs' = CalcSpeed(r)
      BY <2>2, UpdateClockStep
    <3>2. fs'.override = ClockedState(fs, rtc, temp).override
      BY <3>1, CalcSpeedFrame
    <3> QED BY <3>1, <3>2
  <2>3. CASE Reboot
    BY <2>3 DEF Reboot
  <2> QED BY <2>1, <2>2, <2>3, OtherStep
<1> QED BY <1>1, Invariance, PTL DEF Spec, OverrideRunsDown

\* On an ordered table the downward search finds the documented entry.
LEMMA PresetSpeedDocumented ==
  ASSUME NEW s \in FanStateType, LegalPresets(s)
  PROVE  PresetSpeed(s) = DocumentedSpeed(s)
<1>1. /\ s.preTemp[0] \in Int /\ s.preTemp[1] \in Int /\ s.preTemp[2] \in Int
      /\ s.envTemp \in Int
  BY DEF FanStateType, Presets, FAN_PRESETS, Byte
<1>2. CASE s.envTemp < s.preTemp[0]
  <2>1. /\ ~(s.preTemp[0] <= s.envTemp) /\ ~(s.preTemp[1] <= s.envTemp)
        /\ ~(s.preTemp[2] <= s.envTemp)
    BY <1>1, <1>2 DEF LegalPresets
  <2> QED BY <1>2, <2>1 DEF PresetSpeed, DocumentedSpeed
<1>3. CASE s.envTemp >= s.preTemp[0]
  <2> DEFINE m == Max(Reached(s))
  <2>1. m \in Reached(s) /\ \A i \in Reached(s) : m >= i
    BY <1>3, ReachedMax
  <2>2. \A i \in {0, 1, 2} : i \in Reached(s) <=> s.envTemp >= s.preTemp[i]
    BY DEF Reached, Presets, FAN_PRESETS
  <2>3. m \in {0, 1, 2}
    BY <2>1 DEF Reached, Presets, FAN_PRESETS
  <2>4. PresetSpeed(s) = s.preSpeed[m]
    BY <1>1, <1>3 DEF PresetSpeed
  <2> HIDE DEF m
  <2>5. CASE s.envTemp >= s.preTemp[2]
    <3>1. m = 2
      BY <2>1, <2>2, <2>3, <2>5
    <3> QED BY <1>1, <2>4, <2>5, <3>1 DEF DocumentedSpeed, LegalPresets
  <2>6. CASE s.envTemp < s.preTemp[2] /\ s.envTemp >= s.preTemp[1]
    <3>1. m = 1
      BY <1>1, <2>1, <2>2, <2>3, <2>6
    <3> QED BY <1>1, <2>4, <2>6, <3>1 DEF DocumentedSpeed, LegalPresets
  <2>7. CASE s.envTemp < s.preTemp[1]
    <3>1. m = 0
      BY <1>1, <2>1, <2>2, <2>3, <2>7 DEF LegalPresets
    <3> QED BY <1>1, <1>3, <2>4, <2>7, <3>1 DEF DocumentedSpeed, LegalPresets
  <2> QED BY <1>1, <2>5, <2>6, <2>7
<1> QED BY <1>1, <1>2, <1>3

\* calcSpeed then stores it: a legal table holds no speed to refuse.
LEMMA CalcSpeedDocumented ==
  ASSUME NEW s \in FanStateType, LegalPresets(CalcSpeed(s)), CalcSpeed(s).override = 0
  PROVE  CalcSpeed(s).cSpeed = DocumentedSpeed(CalcSpeed(s))
<1> DEFINE c == [op |-> "cSpeed", arg |-> PresetSpeed(s)]
           r == CalcSpeed(s)
<1>1. r = s \/ r = [s EXCEPT !.cSpeed = PresetSpeed(s)]
  BY DEF CalcSpeed, Apply, Store
<1>2. /\ r.preTemp = s.preTemp /\ r.preSpeed = s.preSpeed
      /\ r.envTemp = s.envTemp /\ r.override = s.override
  BY <1>1 DEF FanStateType
<1>3. LegalPresets(s) /\ s.override = 0 /\ DocumentedSpeed(r) = DocumentedSpeed(s)
  BY <1>2 DEF LegalPresets, DocumentedSpeed
<1>4. PresetSpeed(s) <= MaxPercent
  <2>1. \/ PresetSpeed(s) = 0
        \/ s.envTemp >= s.preTemp[0] /\ PresetSpeed(s) = s.preSpeed[Max(Reached(s))]
    BY DEF PresetSpeed, FanStateType, Presets, FAN_PRESETS, Byte
  <2>2. s.envTemp >= s.preTemp[0] => Max(Reached(s)) \in Presets
    BY ReachedMax DEF Reached
  <2> QED BY <1>3, <2>1, <2>2 DEF LegalPresets, MaxPercent
<1>5. PresetsInUse(s)
  BY <1>3 DEF LegalPresets, PresetsInUse, FAN_PRESETS
<1>6. r = [s EXCEPT !.cSpeed = PresetSpeed(s)]
  BY <1>3, <1>4, <1>5 DEF CalcSpeed, Apply, Accepts, Store
<1>7. r.cSpeed = PresetSpeed(s)
  BY <1>6 DEF FanStateType
<1> QED BY <1>3, <1>7, PresetSpeedDocumented

\* A legal table is applied as its comment documents it, at every updateClock.
THEOREM PresetsAreApplied == Spec => SpeedFollowsPresets
<1>1. Inv /\ [Next]_vars =>
        [UpdateClock /\ LegalPresets(fs') /\ fs'.override = 0
           => fs'.cSpeed = DocumentedSpeed(fs')]_vars
  <2> SUFFICES ASSUME Inv, UpdateClock, LegalPresets(fs'), fs'.override = 0
               PROVE  fs'.cSpeed = DocumentedSpeed(fs')
    OBVIOUS
  <2>1. PICK temp \in Temps :
          LET r == ClockedState(fs, rtc, temp)
          IN  r \in FanStateType /\ fs' = CalcSpeed(r)
    BY UpdateClockStep
  <2> QED BY <2>1, CalcSpeedDocumented
<1> QED BY <1>1, Invariance, PTL DEF Spec, SpeedFollowsPresets

\* More speed is more level, up to full speed.
LEMMA LevelMonotone ==
  ASSUME NEW p \in 0..MaxPercent, NEW q \in 0..MaxPercent, p <= q
  PROVE  Level(p) <= Level(q)
<1>1. MinLevel = 13100 /\ LevelStep = 524
  BY DEF MinLevel, LevelStep, MaxWord
<1>2. \A n \in 0..MaxPercent : Level(n) = IF n = 0 THEN 0 ELSE n * 524 + 13100
  <2> SUFFICES ASSUME NEW n \in 0..MaxPercent
               PROVE  Level(n) = IF n = 0 THEN 0 ELSE n * 524 + 13100
    OBVIOUS
  <2> DEFINE l == n * 524 + 13100
  <2>1. l \in Int /\ l >= 0 /\ l <= 65500
    BY DEF MaxPercent
  <2>2. l % (MaxWord + 1) = l
    BY <2>1, WordBound
  <2> QED BY <1>1, <2>2 DEF Level
<1> QED BY <1>2 DEF MaxPercent

\* At night every updateClock brings the fan under the cap.
THEOREM NightIsKept == Spec => NightIsCapped
<1>1. Inv /\ [Next]_vars =>
        [UpdateClock /\ ~InDay(fs', rtc.hour) => pwm' <= Level(fs'.mSpeed)]_vars
  <2> SUFFICES ASSUME Inv, UpdateClock, ~InDay(fs', rtc.hour)
               PROVE  pwm' <= Level(fs'.mSpeed)
    OBVIOUS
  <2>1. PICK temp \in Temps :
          LET r == ClockedState(fs, rtc, temp)
          IN  /\ r \in FanStateType /\ SpeedsArePercent(r)
              /\ r.day = InDay(r, rtc.hour)
              /\ fs' = CalcSpeed(r)
              /\ pwm' = Level(CurrentSpeed(fs'))
    BY UpdateClockStep
  <2> DEFINE r == ClockedState(fs, rtc, temp)
  <2>2. fs' \in FanStateType /\ SpeedsArePercent(fs')
    BY <2>1, CalcSpeedType
  <2>3. fs' = r \/ fs' = [r EXCEPT !.cSpeed = PresetSpeed(r)]
    BY <2>1 DEF CalcSpeed, Apply, Store
  <2>4. fs'.day = r.day /\ fs'.dayStart = r.dayStart /\ fs'.dayEnd = r.dayEnd
    BY <2>1, <2>3 DEF FanStateType
  <2>5. ~fs'.day
    BY <2>1, <2>4 DEF InDay
  <2>6. CurrentSpeed(fs') <= fs'.mSpeed
    <3>1. fs'.cSpeed \in Byte /\ fs'.mSpeed \in Byte /\ fs'.on \in BOOLEAN
      BY <2>2 DEF FanStateType
    <3>2. CASE ~fs'.on
      BY <3>1, <3>2 DEF CurrentSpeed, SpeedBy, SpeedRule, Byte
    <3>3. CASE fs'.on /\ fs'.cSpeed > fs'.mSpeed
      BY <2>5, <3>1, <3>3 DEF CurrentSpeed, SpeedBy, SpeedRule, Byte
    <3>4. CASE fs'.on /\ ~(fs'.cSpeed > fs'.mSpeed)
      <4>1. CurrentSpeed(fs') = fs'.cSpeed
        BY <3>4 DEF CurrentSpeed, SpeedBy, SpeedRule
      <4>2. \A a, b \in Byte : ~(a > b) => a <= b
        BY DEF Byte
      <4> QED BY <3>1, <3>4, <4>1, <4>2
    <3> QED BY <3>2, <3>3, <3>4
  <2>7. CurrentSpeed(fs') \in 0..MaxPercent /\ fs'.mSpeed \in 0..MaxPercent
    BY <2>2, SpeedRuleType, SpeedByPercent, PercentBytes
       DEF CurrentSpeed, SpeedsArePercent, FanStateType
  <2> QED BY <2>1, <2>6, <2>7, LevelMonotone
<1> QED BY <1>1, Invariance, PTL DEF Spec, NightIsCapped

-----------------------------------------------------------------------------
(***************************************************************************)
(* The pin at rest (FanPin).  As long as nothing has been overtaken, every *)
(* decision a task has made stands: what it will write is the level of the *)
(* present state.                                                          *)
(***************************************************************************)
DecisionStands(t) ==
  /\ ctx[t].phase = "fetch" => ctx[t].rule = SpeedRule(fs)
  /\ ctx[t].phase \in {"gate", "level"} => ctx[t].speed = CurrentSpeed(fs)

AtRest == \A t \in Tasks : ctx[t].phase = "call"

PinInv ==
  ~overtaken => /\ \A t \in Tasks : DecisionStands(t)
                /\ AtRest => PwmAgrees

\* The object is constructed switched off, as the pin is.
LEMMA OffAtFirst == CurrentSpeed(InitFanState) = 0 /\ Level(0) = 0
BY DEF CurrentSpeed, SpeedBy, SpeedRule, InitFanState, Level

LEMMA InitPin == PinInit => PinInv
<1> SUFFICES ASSUME PinInit
             PROVE  PinInv
  OBVIOUS
<1>1. \A t \in Tasks : ctx[t].phase = "call"
  BY DEF PinInit, Init, Idle
<1>2. fs = InitFanState /\ pwm = 0
  BY DEF PinInit, Init
<1> QED BY <1>1, <1>2, OffAtFirst DEF PinInv, DecisionStands, PwmAgrees

\* The clock's notification cannot be cut into, and leaves the pin right.
LEMMA ClockPin ==
  ASSUME Inv, PinInv, UpdateClock, PinNext
  PROVE  PinInv'
<1>1. pwm' = Level(CurrentSpeed(fs')) /\ ctx' = ctx
  BY UpdateClockStep DEF UpdateClock
<1>2. PwmAgrees'
  BY <1>1 DEF PwmAgrees
<1>3. CASE \E t \in Tasks : Deciding(t) /\ ctx'[t] = ctx[t]
  <2>1. ~overtaken' => ~overtaken /\ fs' = fs
    BY <1>3 DEF PinNext
  <2> QED BY <1>1, <1>2, <2>1 DEF PinInv, DecisionStands
<1>4. CASE ~ \E t \in Tasks : Deciding(t) /\ ctx'[t] = ctx[t]
  <2>1. \A t \in Tasks : ctx'[t].phase \notin {"fetch", "gate", "level"}
    BY <1>1, <1>4 DEF Deciding
  <2> QED BY <1>2, <2>1 DEF PinInv, DecisionStands
<1> QED BY <1>3, <1>4

LEMMA RebootPin ==
  ASSUME Reboot
  PROVE  PinInv'
<1>1. \A t \in Tasks : ctx'[t].phase = "call"
  BY DEF Reboot, Idle
<1>2. fs' = InitFanState /\ pwm' = 0
  BY DEF Reboot
<1> QED BY <1>1, <1>2, OffAtFirst DEF PinInv, DecisionStands, PwmAgrees

\* A decision is one on the present state; if it is the only one, all stand.
LEMMA DecidePin ==
  ASSUME Inv, PinInv, NEW t \in Tasks, Decide(t), PinNext
  PROVE  PinInv'
<1>1. /\ fs' = fs
      /\ ctx'[t].phase = "fetch" /\ ctx'[t].rule = SpeedRule(fs)
      /\ \A u \in Tasks : u # t => ctx'[u] = ctx[u]
  BY DEF Decide, Inv, TypeOK, CtxType
<1>2. ~AtRest'
  BY <1>1 DEF AtRest
<1>3. DecisionStands(t)'
  BY <1>1 DEF DecisionStands
<1>4. ASSUME ~overtaken', NEW u \in Tasks, u # t
      PROVE  DecisionStands(u)'
  <2>1. CASE Deciding(u)
    <3>1. ~overtaken
      BY <1>1, <1>4, <2>1 DEF PinNext
    <3> QED BY <1>1, <1>4, <3>1 DEF PinInv, DecisionStands
  <2>2. CASE ~Deciding(u)
    BY <1>1, <1>4, <2>2 DEF Deciding, DecisionStands
  <2> QED BY <2>1, <2>2
<1> QED BY <1>2, <1>3, <1>4 DEF PinInv

\* The other steps forget nothing.
LEMMA NotRenewed ==
  ASSUME PinNext, ~Renewed, ~overtaken'
  PROVE  /\ ~overtaken
         /\ fs' = fs \/ \A t \in Tasks : Deciding(t) => ctx'[t] # ctx[t]
BY DEF PinNext

\* A table in the middle of its copy has no part in the speed in force.
LEMMA UnmarkedCall ==
  ASSUME NEW s \in FanStateType, NEW c \in Calls, ~MarksDirty(c)
  PROVE  CurrentSpeed(Apply(s, c)) = CurrentSpeed(s)
<1>1. CASE ~Accepts(c)
  BY <1>1 DEF Apply
<1>2. CASE Accepts(c)
  <2>1. c.op \in {"preTemp", "preSpeed"}
    BY <1>2 DEF MarksDirty
  <2>2. LET r == Apply(s, c)
        IN  r.on = s.on /\ r.day = s.day /\ r.cSpeed = s.cSpeed /\ r.mSpeed = s.mSpeed
    BY <1>2, <2>1 DEF Apply, Store, FanStateType
  <2> QED BY <2>2 DEF CurrentSpeed, SpeedBy, SpeedRule
<1> QED BY <1>1, <1>2

\* A setter that changes the object notifies, or changed a part of a table only.
LEMMA CallPin ==
  ASSUME Inv, PinInv, NEW t \in Tasks, Call(t), PinNext, ~Renewed
  PROVE  PinInv'
<1> SUFFICES ASSUME ~overtaken'
             PROVE  (\A u \in Tasks : DecisionStands(u)') /\ (AtRest' => PwmAgrees')
  BY DEF PinInv
<1> DEFINE c == Head(ctx[t].todo)
<1>1. c \in Calls /\ fs \in FanStateType
  BY HeadTailProperties DEF Call, Inv, TypeOK, CtxType
<1>2. /\ fs' = Apply(fs, c) /\ pwm' = pwm /\ ctx[t].phase = "call"
      /\ ctx'[t].phase = IF MarksDirty(c) /\ ActsOn(c.op) THEN "decide" ELSE "call"
      /\ \A u \in Tasks : u # t => ctx'[u] = ctx[u]
  BY DEF Call, Inv, TypeOK, CtxType
<1>3. ActsOn(c.op)
  BY DEF ActsOn, Slot
<1> HIDE DEF c
<1>4. ~overtaken /\ (fs' = fs \/ \A u \in Tasks : Deciding(u) => ctx'[u] # ctx[u])
  BY NotRenewed
<1>5. \A u \in Tasks : DecisionStands(u)'
  <2> TAKE u \in Tasks
  <2>1. CASE u = t
    BY <1>2, <2>1 DEF DecisionStands
  <2>2. CASE u # t /\ fs' = fs
    BY <1>2, <1>4, <2>2 DEF PinInv, DecisionStands
  <2>3. CASE u # t /\ fs' # fs
    BY <1>2, <1>4, <2>3 DEF Deciding, DecisionStands
  <2> QED BY <2>1, <2>2, <2>3
<1>6. ASSUME AtRest'
      PROVE  PwmAgrees'
  <2>1. ~MarksDirty(c)
    BY <1>2, <1>3, <1>6 DEF AtRest
  <2>2. AtRest
    BY <1>2, <1>6 DEF AtRest
  <2>3. CurrentSpeed(fs') = CurrentSpeed(fs)
    BY <1>1, <1>2, <2>1, UnmarkedCall
  <2> QED BY <1>2, <1>4, <2>2, <2>3 DEF PinInv, PwmAgrees
<1> QED BY <1>5, <1>6

\* The value fetched for a decision that stands is the speed in force, ...
LEMMA FetchPin ==
  ASSUME Inv, PinInv, NEW t \in Tasks, Fetch(t), PinNext, ~Renewed
  PROVE  PinInv'
<1> SUFFICES ASSUME ~overtaken'
             PROVE  (\A u \in Tasks : DecisionStands(u)') /\ ~AtRest'
  BY DEF PinInv
<1>1. /\ fs' = fs /\ ctx[t].phase = "fetch"
      /\ ctx'[t].phase = "gate" /\ ctx'[t].speed = SpeedBy(fs, ctx[t].rule)
      /\ \A u \in Tasks : u # t => ctx'[u] = ctx[u]
  BY DEF Fetch, Inv, TypeOK, CtxType
<1>2. ~overtaken /\ \A u \in Tasks : DecisionStands(u)
  BY NotRenewed DEF PinInv
<1>3. ctx'[t].speed = CurrentSpeed(fs)
  BY <1>1, <1>2 DEF DecisionStands, CurrentSpeed
<1>4. DecisionStands(t)'
  BY <1>1, <1>3 DEF DecisionStands
<1>5. \A u \in Tasks : u # t => DecisionStands(u)'
  BY <1>1, <1>2 DEF DecisionStands
<1>6. ~AtRest'
  BY <1>1 DEF AtRest
<1> QED BY <1>4, <1>5, <1>6

\* ... the second test of the switch agrees with the first, ...
LEMMA GatePin ==
  ASSUME Inv, PinInv, NEW t \in Tasks, Gate(t), PinNext, ~Renewed
  PROVE  PinInv'
<1> SUFFICES ASSUME ~overtaken'
             PROVE  (\A u \in Tasks : DecisionStands(u)') /\ ~AtRest'
  BY DEF PinInv
<1>1. /\ fs' = fs /\ ctx[t].phase = "gate"
      /\ ctx'[t].phase = "level"
      /\ ctx'[t].speed = IF fs.on THEN ctx[t].speed ELSE 0
      /\ \A u \in Tasks : u # t => ctx'[u] = ctx[u]
  BY DEF Gate, Inv, TypeOK, CtxType
<1>2. ~overtaken /\ \A u \in Tasks : DecisionStands(u)
  BY NotRenewed DEF PinInv
<1>3. ~fs.on => CurrentSpeed(fs) = 0
  BY DEF CurrentSpeed, SpeedBy, SpeedRule
<1>4. ctx'[t].speed = CurrentSpeed(fs)
  BY <1>1, <1>2, <1>3 DEF DecisionStands
<1>5. DecisionStands(t)'
  BY <1>1, <1>4 DEF DecisionStands
<1>6. \A u \in Tasks : u # t => DecisionStands(u)'
  BY <1>1, <1>2 DEF DecisionStands
<1>7. ~AtRest'
  BY <1>1 DEF AtRest
<1> QED BY <1>5, <1>6, <1>7

\* ... and what is written is its level.
LEMMA SetLevelPin ==
  ASSUME Inv, PinInv, NEW t \in Tasks, SetLevel(t), PinNext, ~Renewed
  PROVE  PinInv'
<1> SUFFICES ASSUME ~overtaken'
             PROVE  (\A u \in Tasks : DecisionStands(u)') /\ PwmAgrees'
  BY DEF PinInv
<1>1. /\ fs' = fs /\ ctx[t].phase = "level" /\ pwm' = Level(ctx[t].speed)
      /\ ctx'[t].phase = "call"
      /\ \A u \in Tasks : u # t => ctx'[u] = ctx[u]
  BY DEF SetLevel, Idle, Inv, TypeOK, CtxType
<1>2. ~overtaken /\ \A u \in Tasks : DecisionStands(u)
  BY NotRenewed DEF PinInv
<1>3. PwmAgrees'
  BY <1>1, <1>2 DEF DecisionStands, PwmAgrees
<1>4. DecisionStands(t)'
  BY <1>1 DEF DecisionStands
<1>5. \A u \in Tasks : u # t => DecisionStands(u)'
  BY <1>1, <1>2 DEF DecisionStands
<1> QED BY <1>3, <1>4, <1>5

\* The steps that change neither the object nor the pin nor a phase.
LEMMA OtherPin ==
  ASSUME Inv, PinInv, PinNext, ~Renewed,
         fs' = fs /\ pwm' = pwm,
         \A t \in Tasks : /\ ctx'[t].phase = ctx[t].phase
                          /\ ctx'[t].rule = ctx[t].rule /\ ctx'[t].speed = ctx[t].speed
  PROVE  PinInv'
<1> SUFFICES ASSUME ~overtaken'
             PROVE  (\A u \in Tasks : DecisionStands(u)') /\ (AtRest' => PwmAgrees')
  BY DEF PinInv
<1>1. ~overtaken
  BY NotRenewed
<1>2. \A u \in Tasks : DecisionStands(u)'
  BY <1>1 DEF PinInv, DecisionStands
<1>3. AtRest' => PwmAgrees'
  BY <1>1 DEF PinInv, AtRest, PwmAgrees
<1> QED BY <1>2, <1>3

LEMMA NextPin == Inv /\ PinInv /\ [PinNext]_pinVars => PinInv'
<1> SUFFICES ASSUME Inv, PinInv, [PinNext]_pinVars
             PROVE  PinInv'
  OBVIOUS
<1>1. CASE UNCHANGED pinVars
  BY <1>1 DEF pinVars, vars, PinInv, DecisionStands, AtRest, PwmAgrees
<1>2. CASE PinNext /\ UpdateClock
  BY <1>2, ClockPin
<1>3. CASE PinNext /\ Reboot
  BY <1>3, RebootPin
<1>4. CASE PinNext /\ \E t \in Tasks : Decide(t)
  BY <1>4, DecidePin
<1>5. CASE PinNext /\ ~Renewed
  <2>1. CASE \E t \in Tasks : Call(t) \/ Fetch(t) \/ Gate(t) \/ SetLevel(t)
    BY <1>5, <2>1, CallPin, FetchPin, GatePin, SetLevelPin
  <2>2. CASE (\E e \in Edits : Confirm(e)) \/ (\E m \in Messages : Receive(m))
    <3>1. \A t \in Tasks : /\ ctx'[t].phase = ctx[t].phase
                           /\ ctx'[t].rule = ctx[t].rule /\ ctx'[t].speed = ctx[t].speed
      BY <2>2 DEF Confirm, Receive, Tasks, Inv, TypeOK, CtxType
    <3>2. fs' = fs /\ pwm' = pwm
      BY <2>2 DEF Confirm, Receive
    <3> QED BY <1>5, <3>1, <3>2, OtherPin
  <2>3. CASE StartMqtt \/ Resync \/ Minute
    <3>1. fs' = fs /\ pwm' = pwm /\ ctx' = ctx
      BY <2>3 DEF StartMqtt, Resync, Minute
    <3> QED BY <1>5, <3>1, OtherPin
  <2> QED BY <1>5, <2>1, <2>2, <2>3 DEF PinNext, Next, Renewed
<1> QED BY <1>1, <1>2, <1>3, <1>4, <1>5 DEF Renewed

\* A pin at rest that disagrees with the state has been overtaken, for every set
\* of messages, edits and readings: nothing else leaves it behind.
THEOREM StaleOnlyIfOvertaken == PinSpec => []OnlyOvertakenIsStale
<1>1. PinInit => Inv /\ PinInv
  BY InitInv, InitPin DEF PinInit
<1>2. Inv /\ PinInv /\ [PinNext]_pinVars => Inv' /\ PinInv'
  <2>1. [PinNext]_pinVars => [Next]_vars
    BY DEF PinNext, pinVars
  <2> QED BY <2>1, NextInv, NextPin
<1>3. PinInv => OnlyOvertakenIsStale
  BY DEF PinInv, AtRest, OnlyOvertakenIsStale
<1> QED BY <1>1, <1>2, <1>3, PTL DEF PinSpec

=============================================================================
