------------------------------- MODULE Shadow -------------------------------
(***************************************************************************)
(* What the device reports of FanState and what it gets back.  Nothing is  *)
(* kept in flash: the twin publishes the parts that are dirty, the MQTT    *)
(* shadow service stores the last of each, and after a restart it sends    *)
(* the whole record back to updateFromJson.                                *)
(*                                                                         *)
(* External, from their use: the twin publishes every dirty part with its  *)
(* JSON method and clears the code of it; it reports only while attached;  *)
(* the service merges reports and sends its record once per attachment;    *)
(* MQTT delivers.  FanControl cuts the calls of a message, which are one   *)
(* step here: the twin task that makes them also publishes.                *)
(***************************************************************************)
EXTENDS FanState

CONSTANTS
  PanelCalls,  \* setter calls of the display
  Messages,    \* messages of other clients of the twin
  Times,       \* hour and minute of the clock
  Temps        \* temperatures

\* The display changes the presets one at a time (DisplayAgent.cpp:356 to 411).
ASSUME CallsAssumption ==
  /\ PanelCalls \subseteq Calls
  /\ \A c \in PanelCalls : c.op \in {"preTemp", "preSpeed"} => c.by = "index"
ASSUME MessagesAssumption == \A m \in Messages : WellFormed(m)
ASSUME ClockAssumption ==
  /\ Times \subseteq [hour : 0..23, min : 0..59]
  /\ Temps \subseteq Int

VARIABLES
  fs,        \* the FanState object
  dirty,     \* parts changed since the last report
  shadow,    \* the record of the shadow service
  attached   \* the service has sent its record since the last restart

vars == <<fs, dirty, shadow, attached>>

-----------------------------------------------------------------------------
(***************************************************************************)
(* The JSON methods.  jsonClock is left out: nothing depends on it.        *)
(***************************************************************************)
Array(preset) == [k \in 1..FAN_PRESETS |-> preset[k - 1]]

\* A slip: the speed in force under the name of the cap.
ToJsonNamedMax(s) ==
  [on |-> s.on, days |-> s.dayStart, daye |-> s.dayEnd, day |-> s.day,
   cSpeed |-> CurrentSpeed(s), maxSpeed |-> CurrentSpeed(s),
   preTemp |-> Array(s.preTemp), preSpeed |-> Array(s.preSpeed),
   envTemp |-> s.envTemp, override |-> s.override]

\* jsonCSpeed writes what getCurrentSpeed returns.
ToJson(s) ==
  [on |-> s.on, days |-> s.dayStart, daye |-> s.dayEnd, day |-> s.day,
   cSpeed |-> CurrentSpeed(s), maxSpeed |-> s.mSpeed,
   preTemp |-> Array(s.preTemp), preSpeed |-> Array(s.preSpeed),
   envTemp |-> s.envTemp, override |-> s.override]

Parts == DOMAIN ToJson(InitFanState)

Init ==
  /\ fs = InitFanState
  /\ dirty = {}
  /\ shadow = ToJson(InitFanState)
  /\ attached = FALSE

-----------------------------------------------------------------------------
(***************************************************************************)
(* The device.                                                             *)
(***************************************************************************)
ApplyCalls(s, calls) ==
  LET after[n \in 0..Len(calls)] ==
        IF n = 0 THEN s ELSE Apply(after[n - 1], calls[n])
  IN  after[Len(calls)]

DirtyParts(calls) == {calls[i].op : i \in {j \in DOMAIN calls : MarksDirty(calls[j])}}

Make(calls) ==
  /\ fs' = ApplyCalls(fs, calls)
  /\ dirty' = dirty \cup DirtyParts(calls)

PanelCall(c) ==
  /\ Make(<<c>>)
  /\ UNCHANGED <<shadow, attached>>

Clock(time, temp) ==
  /\ fs' = ClockUpdate(fs, time, temp)
  /\ dirty' = dirty \cup (ClockDirty(fs, time, temp) \ {"clock"})
  /\ UNCHANGED <<shadow, attached>>

Message(m) ==
  /\ attached
  /\ Make(FromJson(m))
  /\ UNCHANGED <<shadow, attached>>

Restart ==
  /\ fs' = InitFanState
  /\ dirty' = {}
  /\ attached' = FALSE
  /\ UNCHANGED shadow

-----------------------------------------------------------------------------
(***************************************************************************)
(* The twin and the shadow service.                                        *)
(***************************************************************************)
Report ==
  /\ attached /\ dirty # {}
  /\ shadow' = [p \in Parts |-> IF p \in dirty THEN ToJson(fs)[p] ELSE shadow[p]]
  /\ dirty' = {}
  /\ UNCHANGED <<fs, attached>>

Attach ==
  /\ ~attached
  /\ Make(FromJson(shadow))
  /\ attached' = TRUE
  /\ UNCHANGED shadow

Next ==
  \/ \E c \in PanelCalls : PanelCall(c)
  \/ \E time \in Times, temp \in Temps : Clock(time, temp)
  \/ \E m \in Messages : Message(m)
  \/ Restart
  \/ Report
  \/ Attach

Spec == Init /\ [][Next]_vars

-----------------------------------------------------------------------------
(***************************************************************************)
(* Properties.                                                             *)
(***************************************************************************)
Configuration == {"on", "days", "daye", "maxSpeed", "preTemp", "preSpeed"}

TypeOK ==
  /\ fs \in FanStateType
  /\ dirty \subseteq Parts
  /\ DOMAIN shadow = Parts /\ WellFormed(shadow)
  /\ attached \in BOOLEAN

\* While attached, what of the configuration is not about to be reported is what
\* the service has, whichever of panel, clock and messages changed it: no setter of
\* FanState.cpp forgets setDirty, and the record the device was sent leaves nothing
\* in between, whether a call of it takes effect or not.  The override, the
\* temperature and the part of the day do not come back from the record, which
\* keeps what they were before the restart.
ReportIsTrue ==
  attached => \A p \in Configuration : p \in dirty \/ shadow[p] = ToJson(fs)[p]

\* The configuration comes back: what the restarted device, its clock and its
\* panel have made of the initial state meanwhile, the attachment sets each part
\* as the record has it (FanState.cpp:371 to 520 against 530 to 636).
ConfigurationReturns ==
  [][(~attached /\ attached') => \A p \in Configuration : ToJson(fs')[p] = shadow[p]]_vars

=============================================================================
