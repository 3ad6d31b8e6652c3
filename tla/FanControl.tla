----------------------------- MODULE FanControl -----------------------------
(***************************************************************************)
(* FanState shared by the tasks that run it, and the PWM output that       *)
(* FanController drives from its notifications.                            *)
(*                                                                         *)
(* Three tasks call FanState.  The display and the twin task run at        *)
(* priority 1 and can be switched between any two steps of a setter and    *)
(* of the notification it ends with: nothing locks the object.  The init   *)
(* task runs at priority 8, so its updateClock is one step for them, but   *)
(* it can come between any two of theirs.                                  *)
(*                                                                         *)
(* A notification runs in the notifying task: decide which speed applies,  *)
(* fetch it, read `on' again, write the level.                             *)
(***************************************************************************)
EXTENDS EditItems

CONSTANTS
  Messages,        \* twin messages, see FromJson
  Edits,           \* confirmations of the display: records of item and value
  Temps,           \* readings of the temperature sensor, whole degrees
  Hours,           \* hours the RTC shows
  MinutesPerHour,  \* 60; smaller to scale a run
  MaxLag,          \* minutes that may pass between two updateClock calls
  MaxResyncs       \* bound: SNTP corrections of a running clock

Tasks == {"display", "twin"}
Times == [hour : Hours, min : 0..(MinutesPerHour - 1)]

ASSUME MessagesAssumption == \A m \in Messages : WellFormed(m)
ASSUME EditsAssumption ==
  \A e \in Edits : e.item \in EditableItems /\ e.value \in Int
ASSUME TempsAssumption == Temps \subseteq Int /\ Temps # {}
ASSUME TimeAssumption ==
  /\ Hours \subseteq 0..23 /\ Hours # {}
  /\ MinutesPerHour \in 2..60
ASSUME LagAssumption == MaxLag \in 1..(MinutesPerHour - 1)
ASSUME ResyncAssumption == MaxResyncs \in Nat

VARIABLES
  fs,       \* the FanState object
  pwm,      \* level last written to the fan's PWM pin
  rtc,      \* the real-time clock, hour and minute
  ready,    \* the init task is past its network start-up
  lag,      \* minutes since the last updateClock
  resyncs,  \* SNTP corrections so far
  ctx       \* what each priority-1 task is doing

vars == <<fs, pwm, rtc, ready, lag, resyncs, ctx>>

Idle == [todo |-> <<>>, phase |-> "call", rule |-> "off", speed |-> 0]

Init ==
  /\ fs = InitFanState
  /\ pwm = 0
  /\ rtc \in Times
  /\ ready = FALSE
  /\ lag = 0
  /\ resyncs = 0
  /\ ctx = [t \in Tasks |-> Idle]

Free(t) == ctx[t] = Idle

-----------------------------------------------------------------------------
(***************************************************************************)
(* What the tasks are asked to do.                                         *)
(***************************************************************************)

\* The user confirms an item.  The override is tested now, the calls follow.
Confirm(e) ==
  /\ Free("display")
  /\ ctx' = [ctx EXCEPT !["display"].todo = Confirmed(fs, e.item, e.value)]
  /\ UNCHANGED <<fs, pwm, rtc, ready, lag, resyncs>>

\* The twin task takes a message; doMQTT has started it.
Receive(m) ==
  /\ ready
  /\ Free("twin")
  /\ FromJson(m) # <<>>
  /\ ctx' = [ctx EXCEPT !["twin"].todo = FromJson(m)]
  /\ UNCHANGED <<fs, pwm, rtc, ready, lag, resyncs>>

-----------------------------------------------------------------------------
(***************************************************************************)
(* The steps of a setter call and of the notification it ends with.        *)
(***************************************************************************)

\* The setter stores its argument; setDirty then notifies the controller.
Call(t) ==
  LET c == Head(ctx[t].todo)
  IN  /\ ctx[t].phase = "call" /\ ctx[t].todo # <<>>
      /\ fs' = Apply(fs, c)
      /\ ctx' = [ctx EXCEPT ![t].todo = Tail(@),
                            ![t].phase = IF MarksDirty(c) /\ ActsOn(c.op)
                                         THEN "decide" ELSE "call"]
      /\ UNCHANGED <<pwm, rtc, ready, lag, resyncs>>

\* getCurrentSpeed decides; its loads up to the comparison count as one.
Decide(t) ==
  /\ ctx[t].phase = "decide"
  /\ ctx' = [ctx EXCEPT ![t].phase = "fetch", ![t].rule = SpeedRule(fs)]
  /\ UNCHANGED <<fs, pwm, rtc, ready, lag, resyncs>>

\* ... and loads the value it returns.
Fetch(t) ==
  /\ ctx[t].phase = "fetch"
  /\ ctx' = [ctx EXCEPT ![t].phase = "gate", ![t].speed = SpeedBy(fs, ctx[t].rule)]
  /\ UNCHANGED <<fs, pwm, rtc, ready, lag, resyncs>>

\* notifyState reads `on' a second time.
Gate(t) ==
  /\ ctx[t].phase = "gate"
  /\ ctx' = [ctx EXCEPT ![t].phase = "level", ![t].speed = IF fs.on THEN @ ELSE 0]
  /\ UNCHANGED <<fs, pwm, rtc, ready, lag, resyncs>>

SetLevel(t) ==
  /\ ctx[t].phase = "level"
  /\ pwm' = Level(ctx[t].speed)
  /\ ctx' = [ctx EXCEPT ![t] = [Idle EXCEPT !.todo = ctx[t].todo]]
  /\ UNCHANGED <<fs, rtc, ready, lag, resyncs>>

-----------------------------------------------------------------------------
(***************************************************************************)
(* The init task and the clock.                                            *)
(***************************************************************************)

\* The first DHCP and SNTP rounds return, whatever their result, and doMQTT runs.
StartMqtt ==
  /\ ~ready
  /\ ready' = TRUE
  /\ rtc' \in Times
  /\ UNCHANGED <<fs, pwm, lag, resyncs, ctx>>

\* Every tenth second: the whole of updateClock, notifications included.
UpdateClock ==
  /\ ready
  /\ \E temp \in Temps :
       /\ fs' = ClockUpdate(fs, rtc, temp)
       /\ pwm' = IF \E slot \in ClockDirty(fs, rtc, temp) : ActsOn(slot)
                 THEN Level(CurrentSpeed(fs')) ELSE pwm
  /\ lag' = 0
  /\ UNCHANGED <<rtc, ready, resyncs, ctx>>

\* The daily SNTP round corrects the clock to any time.
Resync ==
  /\ ready
  /\ resyncs < MaxResyncs
  /\ resyncs' = resyncs + 1
  /\ rtc' \in Times
  /\ UNCHANGED <<fs, pwm, ready, lag, ctx>>

\* A minute passes.  The hour after a full one is any of Hours.
Minute ==
  /\ ready => lag < MaxLag
  /\ lag' = IF ready THEN lag + 1 ELSE 0
  /\ IF rtc.min + 1 < MinutesPerHour
     THEN rtc' = [rtc EXCEPT !.min = @ + 1]
     ELSE \E h \in Hours : rtc' = [hour |-> h, min |-> 0]
  /\ UNCHANGED <<fs, pwm, ready, resyncs, ctx>>

\* Power loss or watchdog: nothing is kept but the correction bound.
Reboot ==
  /\ fs' = InitFanState
  /\ pwm' = 0
  /\ rtc' \in Times
  /\ ready' = FALSE
  /\ lag' = 0
  /\ ctx' = [t \in Tasks |-> Idle]
  /\ UNCHANGED resyncs

Next ==
  \/ \E e \in Edits : Confirm(e)
  \/ \E m \in Messages : Receive(m)
  \/ \E t \in Tasks : Call(t) \/ Decide(t) \/ Fetch(t) \/ Gate(t) \/ SetLevel(t)
  \/ StartMqtt \/ UpdateClock \/ Resync \/ Minute \/ Reboot

(***************************************************************************)
(* Time passes, the init task is at the top of the priorities and its      *)
(* calls return after their timeouts; a priority-1 task is not starved.    *)
(* The user, the network and the power owe nothing.                        *)
(***************************************************************************)
Fairness ==
  /\ WF_vars(StartMqtt) /\ WF_vars(UpdateClock) /\ WF_vars(Minute)
  /\ \A t \in Tasks :
       WF_vars(Call(t) \/ Decide(t) \/ Fetch(t) \/ Gate(t) \/ SetLevel(t))

Spec == Init /\ [][Next]_vars
FairSpec == Spec /\ Fairness

-----------------------------------------------------------------------------
(***************************************************************************)
(* Properties.                                                             *)
(***************************************************************************)

CtxType ==
  [todo : Seq(Calls), phase : {"call", "decide", "fetch", "gate", "level"},
   rule : {"off", "cap", "own"}, speed : Byte]

\* The object, the pin and the contexts of the tasks keep their C types.
TypeOK ==
  /\ fs \in FanStateType
  /\ pwm \in Word
  /\ rtc \in Times
  /\ ready \in BOOLEAN
  /\ lag \in 0..MaxLag
  /\ resyncs \in 0..MaxResyncs
  /\ ctx \in [Tasks -> CtxType]

\* Whatever the messages ask for and however the tasks interleave, the pin is
\* either off or between the slowest and the full running level: no speed that
\* reaches it is above 100%, so the 16-bit level never wraps round.
PwmInRange == pwm = 0 \/ pwm \in (MinLevel + LevelStep)..(MinLevel + 100 * LevelStep)

\* While an override runs no preset moves the speed: the speed changes only
\* when no override is left, or because somebody calls setCurrentSpeed.
SpeedCommand == \E t \in Tasks :
  /\ ctx[t].phase = "call" /\ ctx[t].todo # <<>> /\ Head(ctx[t].todo).op = "cSpeed"
  /\ ctx'[t] # ctx[t]
OverrideKeepsSpeed ==
  [][fs'.cSpeed # fs.cSpeed => fs'.override = 0 \/ SpeedCommand]_vars

\* The override runs down by one when the minute has changed and not below
\* zero; otherwise only a reboot or a call of setOverrideMinutes touches it.
OverrideCommand == \E t \in Tasks :
  /\ ctx[t].phase = "call" /\ ctx[t].todo # <<>> /\ Head(ctx[t].todo).op = "override"
  /\ ctx'[t] # ctx[t]
OverrideRunsDown ==
  [][fs'.override # fs.override =>
       \/ fs'.override = fs.override - 1 /\ rtc.min # fs.min
       \/ OverrideCommand
       \/ fs' = InitFanState]_vars

\* The comment of setPreSpeed: below t[0] the fan is at zero, from t[i] up to
\* t[i+1] at speed[i], from the last temperature on at the last speed.  When
\* the presets are a legal, ordered table and nothing overrides them, every
\* updateClock leaves the stored speed as documented, also when it cuts into
\* an edit or a message half way.
LegalPresets(s) ==
  /\ s.preTemp[2] # 0 /\ s.preTemp[0] <= s.preTemp[1] /\ s.preTemp[1] <= s.preTemp[2]
  /\ \A i \in Presets : s.preSpeed[i] <= MaxPercent
DocumentedSpeed(s) ==
  CASE s.envTemp < s.preTemp[0] -> 0
    [] s.preTemp[0] <= s.envTemp /\ s.envTemp < s.preTemp[1] -> s.preSpeed[0]
    [] s.preTemp[1] <= s.envTemp /\ s.envTemp < s.preTemp[2] -> s.preSpeed[1]
    [] s.preTemp[2] <= s.envTemp -> s.preSpeed[2]
SpeedFollowsPresets ==
  [][UpdateClock /\ LegalPresets(fs') /\ fs'.override = 0
       => fs'.cSpeed = DocumentedSpeed(fs')]_vars

\* No updateClock outside the day hours leaves the fan above the night cap,
\* whatever a task it interrupted has decided or fetched.
NightIsCapped ==
  [][UpdateClock /\ ~InDay(fs', rtc.hour) => pwm' <= Level(fs'.mSpeed)]_vars

\* A task overtaken inside a notification writes a stale level.  It does not
\* last: again and again the pin shows the speed the state calls for.
PwmAgrees == pwm = Level(CurrentSpeed(fs))
PwmSettles == []<>PwmAgrees

\* An override ends, unless somebody sets it again: no blocking of the init
\* task below an hour and no correction of the clock keeps it for ever.
OverrideExpires ==
  fs.override > 0 ~>
    (fs.override = 0 \/ \E t \in Tasks : ctx[t].todo # <<>> /\ Head(ctx[t].todo).op = "override")

=============================================================================
