------------------------- MODULE DisplayAgentProofs -------------------------
(***************************************************************************)
(* For any queue, screens, longest override, twin and number of events:    *)
(* the menu keeps its types, its screen and mode agree, the override it    *)
(* asks for is bounded, a confirmed value is what is stored, and a         *)
(* confirmed speed loses its protection to the clock only.                 *)
(***************************************************************************)
EXTENDS DisplayAgent, FanStateProofs

\* What the operators of a pass keep: the menu's types, where the edited value,
\* shared by all items, stays within the bound of the override; the object's
\* types and bounds; and the calls that respect them.
Menus == [mode : {"carousel", "state", "edit"}, item : ItemType,
          edit : 0..MaxOverride, screen : Nat]
States == {s \in FanStateType : SpeedsArePercent(s) /\ s.override <= MaxOverride}
SafeCalls == {c \in Calls : c.op = "override" => c.arg <= MaxOverride}

\* The carousel turns before it reaches the screens of the menu, which is
\* closed once it has left them.
Placed(u) ==
  /\ u.mode = "carousel" => u.screen < CarouselEnd
  /\ u.mode # "carousel" => StateScreen <= u.screen /\ u.screen <= ScreenTimeout

\* The call that stores the value v of an item with one field.
ItemCall(item, v) ==
  IF item \in 2..4
  THEN [op |-> "preTemp", arg |-> Truncated(v), preset |-> PresetOf(item), by |-> "index"]
  ELSE [op |-> ByteSetter(item), arg |-> Truncated(v)]

\* What a confirmation may still call: for a speed, an override only to start
\* one; for an item with one field, the call that stores it.
CallsOf(item, v) ==
  {c \in SafeCalls : /\ (item = 1 /\ c.op = "override") => c.arg = DefaultOverride
                     /\ item \in 2..7 => c = ItemCall(item, v)}

\* A confirmation under way belongs to the item being edited.
Midway ==
  /\ confirming \in BOOLEAN /\ calls \in Seq(SafeCalls)
  /\ confirming => /\ ui.mode = "edit" /\ ui.item \in EditableItems
                   /\ calls \in Seq(CallsOf(ui.item, ui.edit))

Inv ==
  /\ queue \in Seq(Events) /\ Len(queue) <= QueueLength /\ events \in 0..MaxEvents
  /\ fs \in States
  /\ ui \in Menus /\ Placed(ui)
  /\ Midway

-----------------------------------------------------------------------------
\* Numbers of the menu.
LEMMA Bounds ==
  /\ MaxOverride \in Nat /\ MaxOverride >= 255 /\ MaxOverride <= 14400
  /\ DefaultOverride \in Nat /\ 0 < DefaultOverride /\ DefaultOverride <= MaxOverride
  /\ ItemType = 0..109
BY OverrideAssumption, MenuAssumption DEF ItemType, SecondStage, LastItem

\* Screens, in their order.
LEMMA Screens ==
  /\ CarouselEnd \in Nat /\ StateScreen \in Nat /\ ScreenTimeout \in Nat
  /\ 0 < CarouselEnd /\ CarouselEnd < StateScreen /\ StateScreen < ScreenTimeout
BY ScreenAssumption

\* Every edit range lies within what an override may be.
LEMMA Ranges ==
  ASSUME NEW item \in ItemType
  PROVE  /\ EditRange(item).min \in 0..10 /\ EditRange(item).inc \in {1, 10}
         /\ EditRange(item).max \in 0..MaxOverride
BY Bounds DEF EditRange

\* A value taken back to a multiple of the increment does not grow.
LEMMA Snapped ==
  ASSUME NEW v \in Nat, NEW inc \in {1, 10}
  PROVE  Snap(v, inc) \in Nat /\ Snap(v, inc) <= v
<1>1. CASE inc = 1
  BY <1>1 DEF Snap
<1>2. CASE inc = 10
  BY <1>2 DEF Snap
<1> QED BY <1>1, <1>2

\* No turn of the knob leaves the common bound of the edited values.
LEMMA TurnsBounded ==
  ASSUME NEW v \in 0..MaxOverride, NEW item \in ItemType
  PROVE  /\ TurnUp(v, EditRange(item)) \in 0..MaxOverride
         /\ TurnDown(v, EditRange(item)) \in 0..MaxOverride
<1> DEFINE r == EditRange(item)
<1>1. r.min \in 0..10 /\ r.inc \in {1, 10} /\ r.max \in 0..MaxOverride
  BY Ranges
<1> HIDE DEF r
<1>2. /\ (IF v + r.inc > r.max THEN r.min ELSE v + r.inc) \in 0..MaxOverride
      /\ (IF v - r.inc < r.min THEN r.max ELSE v - r.inc) \in 0..MaxOverride
  BY <1>1, Bounds
<1>3. \A n \in 0..MaxOverride : Snap(n, r.inc) \in 0..MaxOverride
  BY <1>1, Snapped, Bounds
<1>4. TurnUp(v, r) \in 0..MaxOverride
  BY <1>2, <1>3 DEF TurnUp
<1>5. TurnDown(v, r) \in 0..MaxOverride
  BY <1>2, <1>3 DEF TurnDown
<1> QED BY <1>4, <1>5 DEF r

\* A call keeps the object and its bound, unless it sets an override beyond it.
LEMMA ApplyBounded ==
  ASSUME NEW s \in States, NEW c \in SafeCalls
  PROVE  Apply(s, c) \in States
<1>1. Apply(s, c) \in FanStateType /\ SpeedsArePercent(Apply(s, c))
  BY ApplyType DEF States, SafeCalls
<1>2. CASE c.op = "override"
  <2>1. Apply(s, c) = [s EXCEPT !.override = c.arg]
    BY <1>2 DEF Apply, Accepts, Store
  <2> QED BY <1>1, <1>2, <2>1 DEF States, FanStateType, SafeCalls
<1>3. CASE c.op # "override"
  <2>1. Apply(s, c).override = s.override
    BY <1>3 DEF Apply, Store, FanStateType, Calls, States, SafeCalls
  <2> QED BY <1>1, <2>1 DEF States
<1> QED BY <1>2, <1>3

\* The calls of a confirmation are its item's, and ask for no longer override
\* than the knob can.
LEMMA ConfirmedBounded ==
  ASSUME NEW s, NEW item \in EditableItems, NEW v \in 0..MaxOverride
  PROVE  Confirmed(s, item, v) \in Seq(CallsOf(item, v))
<1> DEFINE byte(op)  == [op |-> op, arg |-> Truncated(v)]
           preset(op) == [op |-> op, arg |-> Truncated(v),
                          preset |-> PresetOf(item), by |-> "index"]
           hold(n)   == [op |-> "override", arg |-> n]
           switch    == [op |-> "on", arg |-> v > 0]
<1>1. v \in Int /\ v % (MaxWord + 1) = v /\ v \in Word /\ DefaultOverride \in Word
  BY Bounds, WordBound DEF Word
<1>2. \A op \in {"cSpeed", "maxSpeed", "days", "daye"} : byte(op) \in SafeCalls
  BY <1>1, TruncatedType DEF Calls, SafeCalls
<1>3. \A n \in {v, DefaultOverride} : hold(n) \in SafeCalls
  <2>1. \A n \in {v, DefaultOverride} : n \in Word /\ n <= MaxOverride
    BY <1>1, Bounds
  <2> QED BY <2>1 DEF Calls, SafeCalls
<1>4. switch \in SafeCalls
  BY DEF Calls, SafeCalls
<1>5. \A op \in {"preTemp", "preSpeed"} :
        item \in (2..4) \cup (102..104) => preset(op) \in SafeCalls
  <2>1. item \in (2..4) \cup (102..104) => PresetOf(item) \in Presets
    BY DEF PresetOf, Presets, SecondStage, FAN_PRESETS
  <2> QED BY <1>1, <2>1, TruncatedType DEF Calls, SafeCalls
<1>6. CASE item = 1
  <2>1. SetSpeed(v) = <<byte("cSpeed"), switch>>
    BY DEF SetSpeed
  <2>2. \/ Confirmed(s, item, v) = <<hold(DefaultOverride)>> \o SetSpeed(v)
        \/ Confirmed(s, item, v) = SetSpeed(v)
    BY <1>6 DEF Confirmed, ConfirmedSpeed
  <2>3. {hold(DefaultOverride), byte("cSpeed"), switch} \subseteq CallsOf(item, v)
    BY <1>2, <1>3, <1>4, <1>6 DEF CallsOf
  <2> HIDE DEF hold, byte, switch
  <2>4. <<hold(DefaultOverride)>> \in Seq(CallsOf(item, v))
    BY <2>3
  <2>5. SetSpeed(v) \in Seq(CallsOf(item, v))
    BY <2>1, <2>3
  <2> QED BY <2>2, <2>4, <2>5, ConcatProperties
<1>7. CASE item = 101
  <2>1. Confirmed(s, item, v) = <<hold(v)>>
    BY <1>1, <1>7 DEF Confirmed
  <2>2. hold(v) \in CallsOf(item, v)
    BY <1>3, <1>7 DEF CallsOf
  <2> HIDE DEF hold
  <2> QED BY <2>1, <2>2
<1>8. CASE item \in 2..4
  <2>1. Confirmed(s, item, v) = <<preset("preTemp")>>
    BY <1>8 DEF Confirmed
  <2>2. preset("preTemp") \in CallsOf(item, v)
    BY <1>5, <1>8 DEF CallsOf, ItemCall
  <2> HIDE DEF preset
  <2> QED BY <2>1, <2>2
<1>9. CASE item \in 102..104
  <2>1. Confirmed(s, item, v) = <<preset("preSpeed")>>
    BY <1>9 DEF Confirmed
  <2>2. preset("preSpeed") \in CallsOf(item, v)
    BY <1>5, <1>9 DEF CallsOf
  <2> HIDE DEF preset
  <2> QED BY <2>1, <2>2
<1>10. CASE item \in 5..7
  <2>1. Confirmed(s, item, v) = <<byte(ByteSetter(item))>>
    BY <1>10 DEF Confirmed
  <2>2. ByteSetter(item) \in {"maxSpeed", "days", "daye"}
    BY <1>10 DEF ByteSetter
  <2>3. byte(ByteSetter(item)) \in CallsOf(item, v)
    BY <1>2, <1>10, <2>2 DEF CallsOf, ItemCall
  <2> HIDE DEF byte
  <2> QED BY <2>1, <2>3
<1> QED BY <1>6, <1>7, <1>8, <1>9, <1>10
        DEF EditableItems, SecondStageItems, FirstStageItems, SecondStage

-----------------------------------------------------------------------------
\* An item loads a byte, or the speed.
LEMMA LoadValueType ==
  ASSUME NEW s \in States, NEW item \in 1..7
  PROVE  LoadValue(s, item) \in 0..MaxOverride
<1>1. s \in FanStateType /\ SpeedsArePercent(s) /\ Byte \subseteq 0..MaxOverride
  BY Bounds DEF States, Byte
<1>2. CASE item = 1
  <2>1. LoadValue(s, item) \in 0..MaxPercent
    BY <1>1, <1>2, SpeedRuleType, SpeedByPercent DEF LoadValue, CurrentSpeed
  <2> QED BY <2>1, Bounds DEF MaxPercent
<1>3. CASE item \in 2..4
  <2>1. PresetOf(item) \in Presets
    BY <1>3 DEF PresetOf, Presets, SecondStage, FAN_PRESETS
  <2>2. LoadValue(s, item) = s.preTemp[PresetOf(item)]
    BY <1>3 DEF LoadValue
  <2> QED BY <1>1, <2>1, <2>2 DEF FanStateType
<1>4. CASE item \in 5..7
  <2>1. LoadValue(s, item) \in {s.mSpeed, s.dayStart, s.dayEnd}
    BY <1>4 DEF LoadValue
  <2> QED BY <1>1, <2>1 DEF FanStateType
<1> QED BY <1>2, <1>3, <1>4

\* A record of the menu with some of its fields changed.
LEMMA MenuChanged ==
  ASSUME NEW u \in Menus
  PROVE  /\ \A m \in {"carousel", "state", "edit"} : [u EXCEPT !.mode = m] \in Menus
         /\ \A i \in ItemType : [u EXCEPT !.item = i] \in Menus
         /\ \A e \in 0..MaxOverride : [u EXCEPT !.edit = e] \in Menus
         /\ \A n \in Nat : [u EXCEPT !.screen = n] \in Menus
BY DEF Menus

\* A turn of the knob leaves the edit in its bounds and the rest alone.
LEMMA EditedType ==
  ASSUME NEW u \in Menus, NEW event
  PROVE  /\ Edited(u, event) \in Menus
         /\ Edited(u, event).mode = u.mode /\ Edited(u, event).screen = u.screen
<1>1. u.edit \in 0..MaxOverride /\ u.item \in ItemType
  BY DEF Menus
<1>2. CASE event = "cw"
  <2>1. Edited(u, event) = [u EXCEPT !.edit = TurnUp(u.edit, EditRange(u.item))]
    BY <1>2 DEF Edited
  <2> QED BY <1>1, <2>1, TurnsBounded DEF Menus
<1>3. CASE event = "ccw"
  <2>1. Edited(u, event) = [u EXCEPT !.edit = TurnDown(u.edit, EditRange(u.item))]
    BY <1>3 DEF Edited
  <2> QED BY <1>1, <2>1, TurnsBounded DEF Menus
<1>4. CASE event \notin {"cw", "ccw"}
  BY <1>4 DEF Edited
<1> QED BY <1>2, <1>3, <1>4

\* A confirmation leads to an item that exists, with a value in bounds.
LEMMA AfterConfirmType ==
  ASSUME NEW u \in Menus, NEW s \in States, u.item \in EditableItems, u.mode = "edit"
  PROVE  /\ AfterConfirm(u, s) \in Menus
         /\ AfterConfirm(u, s).mode \in {"state", "edit"}
         /\ AfterConfirm(u, s).screen = u.screen
<1>1. u.item \in ItemType /\ u.screen \in Nat /\ u.edit \in 0..MaxOverride
  BY DEF Menus
<1>2. SecondStageItems \subseteq 101..104
  BY DEF SecondStageItems, SecondStage, FirstStageItems
<1>3. CASE u.item = 1
  <2> DEFINE e == IF s.override = 0 THEN DefaultOverride ELSE s.override
  <2>1. s.override \in Nat /\ s.override <= MaxOverride
    BY WordBound DEF States, FanStateType, Word
  <2>2. e \in 0..MaxOverride
    BY <2>1, Bounds
  <2>3. AfterConfirm(u, s) = [u EXCEPT !.item = 101, !.edit = e]
    BY <1>1, <1>3, <1>2 DEF AfterConfirm, SecondStage
  <2> HIDE DEF e
  <2>4. 101 \in ItemType
    BY Bounds
  <2> QED BY <2>2, <2>3, <2>4 DEF Menus
<1>4. CASE u.item \in 2..4
  <2> DEFINE e == s.preSpeed[PresetOf(u.item)]
  <2>1. PresetOf(u.item) \in Presets
    BY <1>4 DEF PresetOf, Presets, SecondStage, FAN_PRESETS
  <2>2. e \in 0..MaxOverride
    BY <2>1, Bounds DEF States, FanStateType, Byte
  <2>3. AfterConfirm(u, s) = [u EXCEPT !.item = u.item + 100, !.edit = e]
    BY <1>1, <1>4, <1>2 DEF AfterConfirm, SecondStage
  <2> HIDE DEF e
  <2>4. u.item + 100 \in ItemType
    BY <1>4, Bounds
  <2> QED BY <2>2, <2>3, <2>4 DEF Menus
<1>5. CASE u.item \in SecondStageItems
  <2>1. u.item \in 101..104
    BY <1>2, <1>5
  <2>2. AfterConfirm(u, s) = [u EXCEPT !.item = u.item - 100, !.mode = "state"]
    BY <1>5, <2>1 DEF AfterConfirm, SecondStage
  <2>3. u.item - 100 \in ItemType
    BY <2>1, Bounds
  <2> QED BY <2>2, <2>3 DEF Menus
<1>6. CASE u.item \notin 1..4 /\ u.item \notin SecondStageItems
  <2>1. AfterConfirm(u, s) = [u EXCEPT !.mode = "state"]
    BY <1>6 DEF AfterConfirm
  <2> QED BY <2>1 DEF Menus
<1> QED BY <1>3, <1>4, <1>5, <1>6

\* displayState keeps an open menu open, and its screen number.
LEMMA ShownMenuType ==
  ASSUME NEW u \in Menus, NEW s \in States, NEW event, u.mode # "carousel"
  PROVE  /\ ShownMenu(u, s, event) \in Menus
         /\ ShownMenu(u, s, event).mode # "carousel"
         /\ ShownMenu(u, s, event).screen = u.screen
<1>1. u.mode \in {"state", "edit"}
  BY DEF Menus
<1>2. CASE u.mode = "state" /\ u.item \in 1..7
  <2>1. ShownMenu(u, s, event) = [u EXCEPT !.edit = LoadValue(s, u.item)]
    BY <1>1, <1>2 DEF ShownMenu
  <2> QED BY <1>2, <2>1, LoadValueType DEF Menus
<1>3. CASE u.mode = "state" /\ u.item \notin 1..7
  <2>1. ShownMenu(u, s, event) = u
    BY <1>1, <1>3 DEF ShownMenu
  <2> QED BY <1>3, <2>1
<1>4. CASE u.mode # "state" /\ u.item \notin EditableItems
  <2>1. ShownMenu(u, s, event) = [u EXCEPT !.mode = "state"]
    BY <1>1, <1>4 DEF ShownMenu
  <2> QED BY <2>1 DEF Menus
<1>5. CASE u.mode # "state" /\ u.item \in EditableItems
  <2>1. ShownMenu(u, s, event) = Edited(u, event)
    BY <1>5 DEF ShownMenu
  <2> QED BY <1>5, <2>1, EditedType
<1> QED BY <1>2, <1>3, <1>4, <1>5

-----------------------------------------------------------------------------
\* The end of a pass puts a menu that is at most one screen on where it belongs.
LEMMA TimeoutPlaces ==
  ASSUME NEW u \in Menus,
         u.mode = "carousel" => u.screen < CarouselEnd,
         u.mode # "carousel" => StateScreen <= u.screen
  PROVE  Timeout(u) \in Menus /\ Placed(Timeout(u))
<1>1. u.screen \in Nat
  BY DEF Menus
<1>2. CASE u.screen > ScreenTimeout
  <2>1. Timeout(u) = [u EXCEPT !.screen = 0, !.mode = "carousel"]
    BY <1>2 DEF Timeout
  <2> DEFINE w == [u EXCEPT !.screen = 0, !.mode = "carousel"]
  <2>2. w \in Menus /\ w.screen = 0 /\ w.mode = "carousel"
    BY DEF Menus
  <2> HIDE DEF w
  <2>3. Timeout(u) = w
    BY <2>1 DEF w
  <2> QED BY <2>2, <2>3, Screens DEF Placed
<1>3. CASE ~(u.screen > ScreenTimeout)
  <2>1. Timeout(u) = u
    BY <1>3 DEF Timeout
  <2> QED BY <1>1, <1>3, <2>1, Screens DEF Placed
<1> QED BY <1>2, <1>3

\* What a pass draws is the menu, or the carousel going round.
LEMMA DrawnType ==
  ASSUME NEW u \in Menus,
         u.mode = "carousel" => u.screen <= CarouselEnd,
         u.mode # "carousel" => StateScreen <= u.screen
  PROVE  /\ Drawn(u) \in Menus
         /\ Drawn(u).mode = u.mode /\ Drawn(u).item = u.item /\ Drawn(u).edit = u.edit
         /\ Drawn(u).mode = "carousel" => Drawn(u).screen < CarouselEnd
         /\ Drawn(u).mode # "carousel" => Drawn(u).screen = u.screen
         /\ Drawn(u).mode # "carousel" <=> Drawn(u).screen >= StateScreen
<1> DEFINE n == IF u.screen = CarouselEnd THEN 0 ELSE u.screen
<1>1. u.screen \in Nat /\ n \in Nat
  BY DEF Menus
<1>2. Drawn(u) = [u EXCEPT !.screen = n]
  BY DEF Drawn
<1>3. /\ u.mode = "carousel" => n < CarouselEnd
      /\ u.mode # "carousel" => n = u.screen
  BY <1>1, Screens
<1> HIDE DEF n
<1>4. /\ Drawn(u) \in Menus /\ Drawn(u).screen = n
      /\ Drawn(u).mode = u.mode /\ Drawn(u).item = u.item /\ Drawn(u).edit = u.edit
  BY <1>1, <1>2 DEF Menus
<1> QED BY <1>1, <1>3, <1>4, Screens

\* A pass over a menu that is at most one screen on keeps it in its place, and
\* a confirmation begins with the calls of its item.
LEMMA PassKeeps ==
  ASSUME NEW u \in Menus, NEW event, fs \in States, Midway, Pass(u, event),
         u.mode = "carousel" => u.screen <= CarouselEnd,
         u.mode # "carousel" => StateScreen <= u.screen,
         IsConfirm(event) => u.screen <= ScreenTimeout
  PROVE  fs' = fs /\ ui' \in Menus /\ Placed(ui') /\ Midway'
<1> DEFINE d == Drawn(u)
<1>1. /\ d \in Menus /\ d.mode = u.mode
      /\ d.mode = "carousel" => d.screen < CarouselEnd
      /\ d.mode # "carousel" <=> d.screen >= StateScreen
      /\ d.mode # "carousel" => d.screen = u.screen
      /\ d.item \in ItemType /\ d.edit \in 0..MaxOverride /\ d.screen \in Nat
  BY DrawnType DEF Menus
<1>2. Confirm(d, event) \/ Show(d, event)
  BY DEF Pass
<1>3. fs' = fs /\ ~confirming
  BY DEF Pass
<1> HIDE DEF d
<1>4. CASE Confirm(d, event)
  <2>1. /\ ui' = d /\ confirming' = TRUE /\ calls' = Confirmed(fs, d.item, d.edit)
        /\ d.mode = "edit" /\ d.item \in EditableItems
    BY <1>4 DEF Confirm, Confirms
  <2>2. calls' \in Seq(CallsOf(d.item, d.edit))
    BY <1>1, <2>1, ConfirmedBounded
  <2>3. CallsOf(d.item, d.edit) \subseteq SafeCalls
    BY DEF CallsOf
  <2>4. calls' \in Seq(SafeCalls)
    BY <2>2, <2>3
  <2>5. StateScreen <= d.screen /\ d.screen <= ScreenTimeout
    BY <1>1, <1>4, <2>1 DEF Confirm, Confirms
  <2> QED BY <1>1, <1>3, <2>1, <2>2, <2>4, <2>5 DEF Midway, Placed
<1>5. CASE Show(d, event)
  <2> DEFINE menu == IF d.screen >= StateScreen THEN ShownMenu(d, fs, event) ELSE d
  <2>1. ui' = Timeout(menu) /\ UNCHANGED <<confirming, calls>>
    BY <1>5 DEF Show
  <2>2. /\ menu \in Menus
        /\ menu.mode = "carousel" => menu.screen < CarouselEnd
        /\ menu.mode # "carousel" => StateScreen <= menu.screen
    BY <1>1, ShownMenuType
  <2> HIDE DEF menu
  <2> QED BY <1>3, <2>1, <2>2, TimeoutPlaces DEF Midway
<1> QED BY <1>2, <1>4, <1>5

\* An event opens the menu, at its first screen.
LEMMA TakeEventType ==
  ASSUME NEW u \in Menus, NEW event
  PROVE  /\ TakeEvent(u, event) \in Menus
         /\ TakeEvent(u, event).mode # "carousel"
         /\ TakeEvent(u, event).screen = StateScreen
<1>1. CASE u.mode = "edit"
  BY <1>1, Screens DEF TakeEvent, Menus
<1>2. CASE u.mode # "edit"
  <2> DEFINE w == [u EXCEPT !.mode = "state", !.screen = StateScreen]
  <2>1. w \in Menus /\ w.mode = "state" /\ w.screen = StateScreen /\ w.item \in ItemType
    BY Screens DEF Menus
  <2>2. TakeEvent(u, event) = Navigate(w, event)
    BY <1>2 DEF TakeEvent
  <2> HIDE DEF w
  <2>3. NextItem(w.item) \in ItemType /\ PreviousItem(w.item) \in ItemType
    BY <2>1, Bounds DEF NextItem, PreviousItem, LastItem
  <2>4. Navigate(w, event) \in {w, [w EXCEPT !.item = NextItem(w.item)],
                                [w EXCEPT !.item = PreviousItem(w.item)],
                                [w EXCEPT !.mode = "edit"]}
    BY DEF Navigate
  <2> QED BY <2>1, <2>2, <2>3, <2>4 DEF Menus
<1> QED BY <1>1, <1>2

\* An update of the clock counts at most one minute of the override.
LEMMA ClockBounded ==
  ASSUME NEW s \in States, NEW time \in Times, NEW temp \in Temps
  PROVE  /\ ClockUpdate(s, time, temp) \in States
         /\ ClockUpdate(s, time, temp).min = time.min
         /\ ClockUpdate(s, time, temp).override =
              IF time.min # s.min /\ s.override > 0 THEN s.override - 1 ELSE s.override
<1> DEFINE t == ClockedState(s, time, temp)
<1>1. time.hour \in Byte /\ time.min \in Byte /\ temp \in Int
  BY ClockAssumption DEF Byte
<1>2. s \in FanStateType /\ SpeedsArePercent(s) /\ s.override \in Nat /\ s.override <= MaxOverride
  BY WordBound DEF States, FanStateType, Word
<1>3. /\ t \in FanStateType /\ t.min = time.min
      /\ t.override = IF time.min # s.min /\ s.override > 0 THEN s.override - 1 ELSE s.override
  BY <1>1, <1>2, ClockedStateType
<1>4. ClockUpdate(s, time, temp) = CalcSpeed(t)
  BY DEF ClockUpdate, ClockedState
<1> HIDE DEF t
<1>5. CalcSpeed(t).override = t.override
  BY <1>3, CalcSpeedFrame
<1>6. CalcSpeed(t).min = t.min
  BY <1>3 DEF CalcSpeed, Apply, Store, FanStateType
<1>7. ClockUpdate(s, time, temp) \in FanStateType /\ SpeedsArePercent(ClockUpdate(s, time, temp))
  BY <1>1, <1>2, ClockUpdateType
<1>8. CalcSpeed(t).override <= MaxOverride
  BY <1>2, <1>3, <1>5, Bounds
<1> QED BY <1>3, <1>4, <1>5, <1>6, <1>7, <1>8 DEF States

-----------------------------------------------------------------------------
\* The menu starts in the carousel, the object as constructed.
LEMMA InitInv == Init => Inv
<1> SUFFICES ASSUME Init
             PROVE  Inv
  OBVIOUS
<1>1. InitFanState \in States
  BY InitFanStateType, Bounds DEF States, InitFanState
<1>2. ui \in Menus /\ Placed(ui)
  BY Bounds, Screens DEF Init, Menus, Placed
<1>3. calls \in Seq(SafeCalls) /\ queue \in Seq(Events) /\ Len(queue) = 0
  BY DEF Init
<1>4. Midway
  BY <1>3 DEF Init, Midway
<1> QED BY <1>1, <1>2, <1>3, <1>4, QueueAssumption, EventsAssumption DEF Init, Inv

\* Every step keeps the invariant.
LEMMA NextInv == Inv /\ [Next]_vars => Inv'
<1> SUFFICES ASSUME Inv, [Next]_vars
             PROVE  Inv'
  OBVIOUS
<1>1. /\ queue \in Seq(Events) /\ Len(queue) <= QueueLength /\ events \in 0..MaxEvents
      /\ fs \in States /\ ui \in Menus /\ Placed(ui) /\ Midway
  BY DEF Inv
<1>2. CASE PassEvent
  <2> DEFINE u == TakeEvent(ui, Head(queue))
  <2>1. u \in Menus /\ u.mode # "carousel" /\ u.screen = StateScreen
    BY <1>1, TakeEventType
  <2>2. Pass(u, EditEvent(ui, Head(queue)))
    BY <1>2 DEF PassEvent
  <2> HIDE DEF u
  <2>3. fs' = fs /\ ui' \in Menus /\ Placed(ui') /\ Midway'
    BY <1>1, <2>1, <2>2, PassKeeps, Screens
  <2>4. queue' \in Seq(Events) /\ Len(queue') <= QueueLength /\ events' = events
    BY <1>1, <1>2, QueueAssumption DEF PassEvent, Pass
  <2> QED BY <1>1, <2>3, <2>4 DEF Inv
<1>3. CASE PassQuiet
  <2> DEFINE u == [ui EXCEPT !.screen = @ + 1]
  <2>1. u \in Menus /\ u.mode = ui.mode /\ u.screen = ui.screen + 1 /\ ui.screen \in Nat
    BY <1>1 DEF Menus
  <2>2. Pass(u, "none") /\ ~IsConfirm("none")
    BY <1>3 DEF PassQuiet, IsConfirm
  <2> HIDE DEF u
  <2>3. fs' = fs /\ ui' \in Menus /\ Placed(ui') /\ Midway'
    BY <1>1, <2>1, <2>2, PassKeeps, Screens DEF Placed
  <2>4. queue' = queue /\ events' = events
    BY <1>3 DEF PassQuiet, Pass
  <2> QED BY <1>1, <2>3, <2>4 DEF Inv
<1>4. CASE MakeCall
  <2>1. confirming /\ calls # <<>> /\ calls' = Tail(calls) /\ UNCHANGED <<queue, ui, confirming, events>>
    BY <1>4 DEF MakeCall
  <2>2. Head(calls) \in SafeCalls /\ Tail(calls) \in Seq(SafeCalls)
    BY <1>1, <2>1 DEF Midway
  <2>3. Tail(calls) \in Seq(CallsOf(ui.item, ui.edit))
    <3>1. calls \in Seq(CallsOf(ui.item, ui.edit))
      BY <1>1, <2>1 DEF Midway
    <3> QED BY <2>1, <3>1
  <2>4. fs' \in States
    BY <1>1, <1>4, <2>2, ApplyBounded DEF MakeCall
  <2>5. Midway'
    BY <1>1, <2>1, <2>2, <2>3 DEF Midway
  <2> QED BY <1>1, <2>1, <2>4, <2>5 DEF Inv
<1>5. CASE EndConfirm
  <2> DEFINE u == AfterConfirm(ui, fs)
  <2>1. confirming /\ ui.mode = "edit" /\ ui.item \in EditableItems
    BY <1>1, <1>5 DEF EndConfirm, Midway
  <2>2. u \in Menus /\ u.mode # "carousel" /\ u.screen = ui.screen
    BY <1>1, <2>1, AfterConfirmType
  <2>3. ui' = Timeout(u)
    BY <1>5 DEF EndConfirm
  <2> HIDE DEF u
  <2>4. ui' \in Menus /\ Placed(ui')
    BY <1>1, <2>1, <2>2, <2>3, TimeoutPlaces DEF Placed
  <2>5. confirming' = FALSE /\ UNCHANGED <<queue, fs, calls, events>>
    BY <1>5 DEF EndConfirm
  <2>6. Midway'
    BY <1>1, <2>5 DEF Midway
  <2> QED BY <1>1, <2>4, <2>5, <2>6 DEF Inv
<1>6. ASSUME NEW event \in Events, Post(event)
      PROVE  Inv'
  <2>1. queue' \in Seq(Events) /\ Len(queue') <= QueueLength
    BY <1>1, <1>6, QueueAssumption DEF Post
  <2>2. events' \in 0..MaxEvents
    BY <1>1, <1>6, EventsAssumption DEF Post
  <2> QED BY <1>1, <1>6, <2>1, <2>2 DEF Post, Inv, Midway
<1>7. ASSUME NEW c \in TwinCalls, TwinCall(c)
      PROVE  Inv'
  <2>1. c \in SafeCalls
    BY TwinAssumption DEF SafeCalls
  <2>2. fs' \in States
    BY <1>1, <1>7, <2>1, ApplyBounded DEF TwinCall
  <2> QED BY <1>1, <1>7, <2>2 DEF TwinCall, Inv, Midway
<1>8. ASSUME NEW time \in Times, NEW temp \in Temps, UpdateClock(time, temp)
      PROVE  Inv'
  <2>1. fs' \in States
    BY <1>1, <1>8, ClockBounded DEF UpdateClock
  <2> QED BY <1>1, <1>8, <2>1 DEF UpdateClock, Inv, Midway
<1>9. CASE UNCHANGED vars
  BY <1>1, <1>9 DEF vars, Inv, Midway
<1> QED BY <1>2, <1>3, <1>4, <1>5, <1>6, <1>7, <1>8, <1>9 DEF Next, Display

\* The invariant holds throughout.
THEOREM Invariance == Spec => []Inv
<1>1. Init => Inv
  BY InitInv
<1>2. Inv /\ [Next]_vars => Inv'
  BY NextInv
<1> QED BY <1>1, <1>2, PTL DEF Spec

\* The item fits its int8 and the edited value its int16, whatever is turned,
\* pressed, left half done or changed by the twin meanwhile.
THEOREM TypeCorrect == Spec => []TypeOK
<1>1. Inv => TypeOK
  <2> SUFFICES ASSUME Inv
               PROVE  TypeOK
    OBVIOUS
  <2>1. /\ ui.mode \in {"carousel", "state", "edit"} /\ ui.item \in ItemType
        /\ ui.edit \in 0..MaxOverride /\ ui.screen \in Nat
    BY DEF Inv, Menus
  <2>2. ui.screen \in 0..ScreenTimeout
    BY <2>1, Screens DEF Inv, Placed
  <2>3. MaxInt16 \in Nat /\ MaxInt16 >= 14400
    BY DEF MaxInt16
  <2>4. ui.edit \in 0..MaxInt16
    BY <2>1, <2>3, Bounds
  <2>5. confirming \in BOOLEAN /\ calls \in Seq(Calls)
    <3>1. calls \in Seq(SafeCalls) /\ SafeCalls \subseteq Calls
      BY DEF Inv, Midway, SafeCalls
    <3> QED BY <3>1 DEF Inv, Midway
  <2> QED BY <2>1, <2>2, <2>4, <2>5 DEF Inv, States, TypeOK
<1> QED BY <1>1, Invariance, PTL

\* Between two steps the screen number is in the menu's range exactly when
\* the menu is open: the two variables that say what is drawn never disagree.
THEOREM ScreenAndModeAgree == Spec => []ScreenMatchesMode
<1>1. Inv => ScreenMatchesMode
  <2> SUFFICES ASSUME Inv
               PROVE  ScreenMatchesMode
    OBVIOUS
  <2>1. ui.screen \in Nat /\ Placed(ui)
    BY DEF Inv, Menus
  <2> QED BY <2>1, Screens DEF Placed, ScreenMatchesMode
<1> QED BY <1>1, Invariance, PTL

\* No sequence of turns, presses and half-finished edits makes an override
\* longer than the ten days of the menu.
THEOREM OverrideStaysBounded == Spec => []OverrideBounded
<1>1. Inv => OverrideBounded
  BY DEF Inv, States, OverrideBounded
<1> QED BY <1>1, Invariance, PTL

-----------------------------------------------------------------------------
\* Only a setter of the override changes it.
LEMMA OverrideKept ==
  ASSUME NEW s \in States, NEW c \in Calls, c.op # "override"
  PROVE  Apply(s, c).override = s.override
BY DEF Apply, Store, FanStateType, Calls, States

\* A confirmed speed is first protected: without an override the first call
\* starts one.
LEMMA ProtectedFirst ==
  ASSUME NEW s \in States, NEW v, s.override = 0
  PROVE  /\ Confirmed(s, 1, v) # <<>>
         /\ Head(Confirmed(s, 1, v)).op = "override"
<1> DEFINE hold == [op |-> "override", arg |-> DefaultOverride]
<1>1. Confirmed(s, 1, v) = <<hold>> \o SetSpeed(v)
  BY DEF Confirmed, ConfirmedSpeed
<1>2. SetSpeed(v) = <<[op |-> "cSpeed", arg |-> Truncated(v)], [op |-> "on", arg |-> v > 0]>>
  BY DEF SetSpeed
<1> QED BY <1>1, <1>2

\* A pass does not leave a speed unprotected: it may begin a confirmation, with
\* the call that protects it at the head if there is no override.
LEMMA PassProtects ==
  ASSUME Inv, NEW u, NEW event, Pass(u, event), Unprotected'
  PROVE  FALSE
<1> DEFINE d == Drawn(u)
<1>1. fs \in States /\ fs' = fs /\ ~confirming
  BY DEF Inv, Pass
<1>2. Confirm(d, event)
  BY <1>1 DEF Pass, Show, Unprotected
<1> HIDE DEF d
<1>3. ui' = d /\ calls' = Confirmed(fs, d.item, d.edit)
  BY <1>2 DEF Confirm
<1>4. d.item = 1 /\ fs.override = 0 /\ (calls' = <<>> \/ Head(calls').op # "override")
  BY <1>1, <1>3 DEF Unprotected
<1> QED BY <1>1, <1>3, <1>4, ProtectedFirst

\* Nor does a setter of the confirmation: the one that protects starts an
\* override, the others leave it alone.
LEMMA CallProtects ==
  ASSUME Inv, MakeCall, ~Unprotected, Unprotected'
  PROVE  FALSE
<1> DEFINE c == Head(calls)
<1>1. /\ confirming /\ calls # <<>> /\ fs' = Apply(fs, c)
      /\ ui' = ui /\ fs \in States /\ Midway
  BY DEF Inv, MakeCall
<1>2. c \in CallsOf(ui.item, ui.edit)
  BY <1>1 DEF Midway
<1> HIDE DEF c
<1>3. c \in Calls /\ ui.item = 1 /\ fs'.override = 0
  BY <1>1, <1>2 DEF Unprotected, CallsOf, SafeCalls
<1>4. CASE c.op = "override"
  <2>1. fs' = [fs EXCEPT !.override = DefaultOverride]
    BY <1>1, <1>2, <1>3, <1>4 DEF CallsOf, Apply, Accepts, Store
  <2>2. fs'.override = DefaultOverride
    BY <1>1, <2>1 DEF States, FanStateType
  <2> QED BY <1>3, <2>2, Bounds
<1>5. CASE c.op # "override"
  <2>1. fs.override = 0
    BY <1>1, <1>3, <1>5, OverrideKept
  <2> QED BY <1>1, <1>3, <1>5, <2>1 DEF Unprotected, c
<1> QED BY <1>4, <1>5

\* What the twin does never ends an override.
LEMMA TwinProtects ==
  ASSUME Inv, NEW c \in TwinCalls, TwinCall(c), ~Unprotected, Unprotected'
  PROVE  FALSE
<1>1. c \in Calls /\ c.op # "override"
  BY TwinAssumption
<1>2. fs'.override = fs.override
  BY <1>1, OverrideKept DEF Inv, TwinCall
<1> QED BY <1>2 DEF TwinCall, Unprotected

\* The clock may: it counts the last minute while the confirmation is under way.
LEMMA ClockUnprotects ==
  ASSUME Inv, NEW time \in Times, NEW temp \in Temps, UpdateClock(time, temp),
         ~Unprotected, Unprotected'
  PROVE  confirming /\ fs.override = 1 /\ fs'.min # fs.min
<1>1. /\ fs'.min = time.min
      /\ fs'.override = IF time.min # fs.min /\ fs.override > 0
                        THEN fs.override - 1 ELSE fs.override
  BY ClockBounded DEF Inv, UpdateClock
<1>2. confirming /\ fs'.override = 0 /\ fs.override # 0
  BY DEF UpdateClock, Unprotected
<1>3. fs.override \in Nat
  BY WordBound DEF Inv, States, FanStateType, Word
<1> QED BY <1>1, <1>2, <1>3

\* "protect fan speed while we set override": whatever the twin and the knob
\* did before, a speed just confirmed loses its override only to a minute that
\* ends it after the test.
THEOREM SpeedProtected == Spec => SpeedIsProtected
<1>1. ASSUME Inv, [Next]_vars, ~Unprotected, Unprotected'
      PROVE  confirming /\ fs.override = 1 /\ fs'.min # fs.min
  <2>1. ~PassEvent /\ ~PassQuiet
    BY <1>1, PassProtects DEF PassEvent, PassQuiet
  <2>2. ~MakeCall
    BY <1>1, CallProtects
  <2>3. ~EndConfirm
    BY <1>1 DEF EndConfirm, Unprotected
  <2>4. \A event \in Events : ~Post(event)
    BY <1>1 DEF Post, Unprotected
  <2>5. \A c \in TwinCalls : ~TwinCall(c)
    BY <1>1, TwinProtects
  <2>6. ~UNCHANGED vars
    BY <1>1 DEF vars, Unprotected
  <2>7. PICK time \in Times, temp \in Temps : UpdateClock(time, temp)
    BY <1>1, <2>1, <2>2, <2>3, <2>4, <2>5, <2>6 DEF Next, Display
  <2> QED BY <1>1, <2>7, ClockUnprotects
<1>2. Inv /\ [Next]_vars =>
        [(~Unprotected /\ Unprotected')
           => (confirming /\ fs.override = 1 /\ fs'.min # fs.min)]_vars
  BY <1>1
<1> QED BY <1>2, Invariance, PTL DEF Spec, SpeedIsProtected

\* A value in its item's range is stored unchanged, in the field the item loads.
LEMMA StoredIsLoaded ==
  ASSUME NEW s \in States, NEW item \in 2..7, NEW v \in 0..MaxOverride,
         InRange(v, EditRange(item))
  PROVE  LoadValue(Apply(s, ItemCall(item, v)), item) = v
<1>1. v \in 0..100
  BY Bounds DEF InRange, EditRange
<1>2. Truncated(v) = v
  BY <1>1 DEF Truncated
<1>3. CASE item \in 2..4
  <2> DEFINE p == PresetOf(item)
             c == [op |-> "preTemp", arg |-> v, preset |-> p, by |-> "index"]
  <2>1. ItemCall(item, v) = c
    BY <1>2, <1>3 DEF ItemCall
  <2>2. p \in Presets
    BY <1>3 DEF PresetOf, Presets, SecondStage, FAN_PRESETS
  <2>3. Apply(s, c) = [s EXCEPT !.preTemp[p] = v]
    BY DEF Apply, Accepts, Store
  <2> HIDE DEF p, c
  <2>4. Apply(s, c).preTemp[p] = v
    BY <2>2, <2>3 DEF States, FanStateType
  <2>5. \A r : LoadValue(r, item) = r.preTemp[p]
    BY <1>3 DEF LoadValue, p
  <2> QED BY <2>1, <2>4, <2>5
<1>4. CASE item \in 5..7
  <2> DEFINE c == [op |-> ByteSetter(item), arg |-> v]
  <2>1. ItemCall(item, v) = c
    BY <1>2, <1>4 DEF ItemCall
  <2>2. CASE item = 5
    <3>1. Apply(s, c) = [s EXCEPT !.mSpeed = v]
      BY <1>1, <2>2 DEF ByteSetter, Apply, Accepts, Store, MaxPercent
    <3>2. \A r : LoadValue(r, item) = r.mSpeed
      BY <2>2 DEF LoadValue
    <3> HIDE DEF c
    <3>3. Apply(s, c).mSpeed = v
      BY <3>1 DEF States, FanStateType
    <3> QED BY <2>1, <3>2, <3>3
  <2>3. CASE item = 6
    <3>1. Apply(s, c) = [s EXCEPT !.dayStart = v]
      BY <2>3 DEF ByteSetter, Apply, Accepts, Store
    <3>2. \A r : LoadValue(r, item) = r.dayStart
      BY <2>3 DEF LoadValue
    <3> HIDE DEF c
    <3>3. Apply(s, c).dayStart = v
      BY <3>1 DEF States, FanStateType
    <3> QED BY <2>1, <3>2, <3>3
  <2>4. CASE item = 7
    <3>1. Apply(s, c) = [s EXCEPT !.dayEnd = v]
      BY <2>4 DEF ByteSetter, Apply, Accepts, Store
    <3>2. \A r : LoadValue(r, item) = r.dayEnd
      BY <2>4 DEF LoadValue
    <3> HIDE DEF c
    <3>3. Apply(s, c).dayEnd = v
      BY <3>1 DEF States, FanStateType
    <3> QED BY <2>1, <3>2, <3>3
  <2> QED BY <1>4, <2>2, <2>3, <2>4
<1> QED BY <1>3, <1>4

\* What the knob confirmed is what the item shows next, for every item that
\* edits one field: no edit is stored into a neighbour's, or truncated, and
\* neither the clock nor the twin changes what the confirmation stores.
THEOREM ConfirmedShown == Spec => ConfirmedIsShown
<1>1. ASSUME Inv, MakeCall, ui.item \in 2..7, InRange(ui.edit, EditRange(ui.item))
      PROVE  LoadValue(fs', ui.item) = ui.edit
  <2>1. confirming /\ calls # <<>> /\ fs' = Apply(fs, Head(calls)) /\ Midway
    BY <1>1 DEF Inv, MakeCall
  <2>2. Head(calls) \in CallsOf(ui.item, ui.edit)
    BY <2>1 DEF Midway
  <2>3. fs' = Apply(fs, ItemCall(ui.item, ui.edit))
    BY <1>1, <2>1, <2>2 DEF CallsOf
  <2>4. fs \in States /\ ui.edit \in 0..MaxOverride
    BY <1>1 DEF Inv, Menus
  <2> QED BY <1>1, <2>3, <2>4, StoredIsLoaded
<1>2. Inv /\ [Next]_vars =>
        [(MakeCall /\ ui.item \in 2..7 /\ InRange(ui.edit, EditRange(ui.item)))
           => LoadValue(fs', ui.item) = ui.edit]_vars
  BY <1>1
<1> QED BY <1>2, Invariance, PTL DEF Spec, ConfirmedIsShown

=============================================================================
