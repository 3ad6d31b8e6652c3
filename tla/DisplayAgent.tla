---------------------------- MODULE DisplayAgent ----------------------------
(***************************************************************************)
(* The display task: a carousel of screens, and a menu the knob drives.    *)
(*                                                                         *)
(* One pass of its loop takes at most one knob event off the queue, moves  *)
(* the menu, draws, and then delays 100 ms.  A pass touches FanState in    *)
(* one place, which loads a value, and is one step; a pass that confirms   *)
(* an item is several: the tests that choose its setter calls, each call,  *)
(* and the load that opens what comes next.  Between any two steps         *)
(* init_thread, of higher priority, may update the clock, and the twin and *)
(* the knob's task, of the same priority, may have their turn.             *)
(***************************************************************************)
EXTENDS EditItems

CONSTANTS
  QueueLength,    \* 10
  CarouselEnd,    \* 60: the screen number after which the carousel restarts
  StateScreen,    \* 80: the screen number of a menu just used
  ScreenTimeout,  \* 200: the last screen number of the menu
  TwinCalls,      \* setter calls the twin task may make
  Times,          \* hour and minute of the clock
  Temps,          \* temperatures
  MaxEvents       \* bound: knob events in a behaviour

ASSUME QueueAssumption == QueueLength \in Nat \ {0}
ASSUME ScreenAssumption ==
  /\ {CarouselEnd, StateScreen, ScreenTimeout} \subseteq Nat
  /\ 0 < CarouselEnd /\ CarouselEnd < StateScreen /\ StateScreen < ScreenTimeout
ASSUME TwinAssumption == TwinCalls \subseteq {c \in Calls : c.op # "override"}
ASSUME ClockAssumption ==
  /\ Times \subseteq [hour : 0..23, min : 0..59]
  /\ Temps \subseteq Int
ASSUME MenuAssumption == MaxOverride >= 255
ASSUME EventsAssumption == MaxEvents \in Nat

Events == {"short", "long", "cw", "ccw"}
LastItem == 9

VARIABLES
  queue,       \* xRotEnc, knob events not yet taken
  ui,          \* xDAState, xStateItem, xEditValue and the loop's screen
  fs,          \* the FanState object
  confirming,  \* the task is inside the confirmation of ui.item
  calls,       \* the setter calls it has still to make there
  events       \* knob events so far

vars == <<queue, ui, fs, confirming, calls, events>>

Init ==
  /\ queue = <<>>
  /\ ui = [mode |-> "carousel", item |-> 0, edit |-> 0, screen |-> 0]
  /\ fs = InitFanState
  /\ confirming = FALSE
  /\ calls = <<>>
  /\ events = 0

-----------------------------------------------------------------------------
(***************************************************************************)
(* A pass, in the order of the loop body.                                  *)
(***************************************************************************)

\* An event wakes the menu; in State mode a turn moves along the items and a
\* short press starts editing.  The item is a ring of 0 to LastItem, but one
\* left above it by an unfinished edit leaves the ring only downwards.
NextItem(item) == IF item + 1 > LastItem THEN 0 ELSE item + 1
BarePreviousItem(item) == item - 1
PreviousItem(item) == IF item - 1 < 0 THEN LastItem ELSE item - 1

Navigate(u, event) ==
  CASE event = "cw"    -> [u EXCEPT !.item = NextItem(@)]
    [] event = "ccw"   -> [u EXCEPT !.item = PreviousItem(@)]
    [] event = "short" -> [u EXCEPT !.mode = "edit"]
    [] OTHER           -> u

\* Plausible slip: an event that does not restart the time the menu stays.
UntimedTakeEvent(u, event) ==
  IF u.mode = "edit" THEN u
  ELSE Navigate([u EXCEPT !.mode = "state"], event)

TakeEvent(u, event) ==
  IF u.mode = "edit" THEN [u EXCEPT !.screen = StateScreen]
  ELSE Navigate([u EXCEPT !.mode = "state", !.screen = StateScreen], event)

\* The event that is left for the edit: State mode uses up its own.
EditEvent(u, event) == IF u.mode = "edit" THEN event ELSE "none"

\* doEdit
Edited(u, event) ==
  CASE event = "cw"  -> [u EXCEPT !.edit = TurnUp(@, EditRange(u.item))]
    [] event = "ccw" -> [u EXCEPT !.edit = TurnDown(@, EditRange(u.item))]
    [] OTHER         -> u

IsConfirm(event) == event \in {"short", "long"}

\* Where a confirmation leads: the second stage, with its value loaded from
\* the state s the confirmation has left, or back to State mode.
AfterConfirm(u, s) ==
  CASE u.item = 1 ->
         [u EXCEPT !.item = @ + SecondStage,
                   !.edit = IF s.override = 0 THEN DefaultOverride ELSE s.override]
    [] u.item \in 2..4 ->
         [u EXCEPT !.item = @ + SecondStage, !.edit = s.preSpeed[PresetOf(u.item)]]
    [] u.item \in SecondStageItems ->
         [u EXCEPT !.item = @ - SecondStage, !.mode = "state"]
    [] OTHER -> [u EXCEPT !.mode = "state"]

Confirms(u, event) == u.mode = "edit" /\ u.item \in EditableItems /\ IsConfirm(event)

\* displayState, when nothing is confirmed: what it leaves in the menu.
ShownMenu(u, s, event) ==
  CASE u.mode = "state" /\ u.item \in 1..7 -> [u EXCEPT !.edit = LoadValue(s, u.item)]
    [] u.mode = "state" /\ u.item \notin 1..7 -> u
    [] u.mode # "state" /\ u.item \notin EditableItems -> [u EXCEPT !.mode = "state"]
    [] OTHER -> Edited(u, event)

\* The end of the pass: a menu left alone gives way to the carousel.
\* Plausible slip: the screens start again, the mode stays.
ModelessTimeout(u) == IF u.screen > ScreenTimeout THEN [u EXCEPT !.screen = 0] ELSE u

Timeout(u) ==
  IF u.screen > ScreenTimeout THEN [u EXCEPT !.screen = 0, !.mode = "carousel"] ELSE u

\* screen counts the pass; the carousel goes round; from StateScreen on the
\* menu is drawn instead.
Drawn(u) == [u EXCEPT !.screen = IF @ = CarouselEnd THEN 0 ELSE @]

\* displayState tests the override and so decides which setters to call.
Confirm(u, event) ==
  /\ u.screen >= StateScreen /\ Confirms(u, event)
  /\ ui' = u
  /\ confirming' = TRUE
  /\ calls' = Confirmed(fs, u.item, u.edit)

Show(u, event) ==
  /\ ~(u.screen >= StateScreen /\ Confirms(u, event))
  /\ ui' = Timeout(IF u.screen >= StateScreen THEN ShownMenu(u, fs, event) ELSE u)
  /\ UNCHANGED <<confirming, calls>>

Pass(u, event) ==
  /\ ~confirming
  /\ Confirm(Drawn(u), event) \/ Show(Drawn(u), event)
  /\ UNCHANGED <<fs, events>>

\* Plausible slip: a pass empties the queue.
PassDraining ==
  /\ queue # <<>>
  /\ Pass(TakeEvent(ui, Head(queue)), EditEvent(ui, Head(queue)))
  /\ queue' = <<>>

PassEvent ==
  /\ queue # <<>>
  /\ Pass(TakeEvent(ui, Head(queue)), EditEvent(ui, Head(queue)))
  /\ queue' = Tail(queue)

PassQuiet ==
  /\ queue = <<>>
  /\ Pass([ui EXCEPT !.screen = @ + 1], "none")
  /\ UNCHANGED queue

\* The next setter of a confirmation.
MakeCall ==
  /\ confirming /\ calls # <<>>
  /\ fs' = Apply(fs, Head(calls))
  /\ calls' = Tail(calls)
  /\ UNCHANGED <<queue, ui, confirming, events>>

\* The setters are called: the second stage loads its value, the pass ends.
EndConfirm ==
  /\ confirming /\ calls = <<>>
  /\ ui' = Timeout(AfterConfirm(ui, fs))
  /\ confirming' = FALSE
  /\ UNCHANGED <<queue, fs, calls, events>>

Display == PassEvent \/ PassQuiet \/ MakeCall \/ EndConfirm

-----------------------------------------------------------------------------
(***************************************************************************)
(* The rest of the system.                                                 *)
(***************************************************************************)

\* shortPress, longPress and rotate: an event that finds the queue full, and
\* still full after ten ticks, is dropped.
Post(event) ==
  /\ events < MaxEvents
  /\ events' = events + 1
  /\ queue' = IF Len(queue) < QueueLength THEN Append(queue, event) ELSE queue
  /\ UNCHANGED <<ui, fs, confirming, calls>>

\* A setter called by the twin task.
TwinCall(c) ==
  /\ fs' = Apply(fs, c)
  /\ UNCHANGED <<queue, ui, confirming, calls, events>>

\* updateClock, which no task here can interrupt.
UpdateClock(time, temp) ==
  /\ fs' = ClockUpdate(fs, time, temp)
  /\ UNCHANGED <<queue, ui, confirming, calls, events>>

Next ==
  \/ Display
  \/ \E event \in Events : Post(event)
  \/ \E c \in TwinCalls : TwinCall(c)
  \/ \E time \in Times, temp \in Temps : UpdateClock(time, temp)

\* The display task is scheduled; the user and the others owe nothing.
Spec == Init /\ [][Next]_vars
FairSpec == Spec /\ WF_vars(Display)

-----------------------------------------------------------------------------
(***************************************************************************)
(* Properties.                                                             *)
(***************************************************************************)

ItemType == 0..(SecondStage + LastItem)
MaxInt16 == 32767

\* The menu keeps to its modes; the item fits its int8 and the edited value
\* its int16 whatever is turned, pressed, left half done or changed meanwhile.
TypeOK ==
  /\ queue \in Seq(Events) /\ Len(queue) <= QueueLength
  /\ ui.mode \in {"carousel", "state", "edit"}
  /\ ui.item \in ItemType
  /\ ui.edit \in 0..MaxInt16
  /\ ui.screen \in 0..ScreenTimeout
  /\ fs \in FanStateType
  /\ confirming \in BOOLEAN
  /\ calls \in Seq(Calls)
  /\ events \in 0..MaxEvents

\* The two things that say what the display shows agree between two steps:
\* the screen number is in the menu's range exactly when the menu is open.
ScreenMatchesMode == ui.mode = "carousel" <=> ui.screen < StateScreen

\* The knob cannot make an override longer than the ten days of the menu,
\* although xEditValue is shared by all items and survives between edits.
OverrideBounded == fs.override <= MaxOverride

\* The setter that protects a confirmed speed is behind the display task and no
\* override is running: the presets may take the speed back at the next update.
Unprotected ==
  /\ confirming /\ ui.item = 1
  /\ fs.override = 0
  /\ calls = <<>> \/ Head(calls).op # "override"

\* "If no override in place then protect fan speed while we set override"
\* (DisplayAgent.cpp:325).  The test reads the override before the speed is set,
\* and the code does not look again: the speed is set under a running override,
\* and stays under it till the second stage opens, unless the clock ends the
\* override's last minute after the test.  Nothing else leaves it unprotected: no
\* call of the twin, no order of the setters, no override left by an earlier edit.
SpeedIsProtected ==
  [][(~Unprotected /\ Unprotected')
       => (confirming /\ fs.override = 1 /\ fs'.min # fs.min)]_vars

\* What was confirmed is what the item shows next: for an item that loads and
\* stores one field, the call of a confirmation leaves a value in its range as
\* what the item loads, whatever the clock and the twin have changed since the
\* knob was pressed.
InRange(v, r) == r.min <= v /\ v <= r.max
ConfirmedIsShown ==
  [][(MakeCall /\ ui.item \in 2..7 /\ InRange(ui.edit, EditRange(ui.item)))
       => LoadValue(fs', ui.item) = ui.edit]_vars

\* A knob left alone: the menu gives way to the carousel, from any item, mode
\* and half-finished edit.
ReturnsToCarousel == <>[](ui.mode = "carousel")

=============================================================================
