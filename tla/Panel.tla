------------------------------- MODULE Panel -------------------------------
(***************************************************************************)
(* The panel: RotEncAgent and DisplayAgent joined by the queue of knob     *)
(* events.  main.cpp:252 makes the display the listener of the encoder, so *)
(* a handler call of the poll is an xQueueSend of the display; both tasks  *)
(* have priority 1 and the interrupt comes at any time.                    *)
(*                                                                         *)
(* This module extends the encoder with the display, which takes the place *)
(* of Take.  Each step is one of RotEncAgent's or of DisplayAgent's, with  *)
(* the rest left alone; only the queue is in both.  That what one task     *)
(* does to it is something the other's module allows is what the           *)
(* properties say.                                                         *)
(***************************************************************************)
EXTENDS RotEncAgent

CONSTANTS
  CarouselEnd, StateScreen, ScreenTimeout,     \* of DisplayAgent
  TwinCalls, Times, Temps, DefaultOverride, MaxOverride, MaxEvents,
  MaxInputs  \* bound: quarter steps and presses in a behaviour

VARIABLES
  ui, fs, confirming, calls, events,  \* of DisplayAgent
  inputs                              \* quarter steps and presses so far

encoder == <<knob, flag, pc, job, c, dec, origin, owed>>
display == <<ui, fs, confirming, calls, events>>
panel == <<encoder, display, queue, inputs>>

DA == INSTANCE DisplayAgent

\* Every event takes an input, so the bound on events never holds the poll up.
ASSUME InputsAssumption == MaxEvents \in Nat /\ MaxInputs \in 0..MaxEvents

PanelInit == Init /\ DA!Init /\ inputs = 0

-----------------------------------------------------------------------------
(***************************************************************************)
(* The user and the interrupt.                                             *)
(***************************************************************************)
Input ==
  /\ inputs < MaxInputs
  /\ inputs' = inputs + 1
  /\ (\E d \in {1, -1} : Turn(d)) \/ (\E t \in PressTimes : Release(t))
  /\ UNCHANGED display

(***************************************************************************)
(* The poll.  Its calls reach shortPress, longPress and rotate.            *)
(***************************************************************************)
Sample ==
  /\ ReadA \/ ReadB \/ Test \/ Clear \/ Decode
  /\ UNCHANGED <<display, inputs>>

\* An event that is in the queue or dropped has been posted; one whose call
\* waits has not.
Call ==
  /\ Send \/ Wait
  /\ events' = IF pc' = "wait" THEN events ELSE events + 1
  /\ UNCHANGED <<ui, fs, confirming, calls, inputs>>

PanelPoll == Sample \/ Call

(***************************************************************************)
(* The display and those who change FanState meanwhile.                    *)
(***************************************************************************)
Pass ==
  /\ DA!Display
  /\ UNCHANGED <<encoder, inputs>>

Elsewhere ==
  /\ \/ \E time \in Times, temp \in Temps : DA!UpdateClock(time, temp)
     \/ \E call \in TwinCalls : DA!TwinCall(call)
  /\ UNCHANGED <<encoder, inputs>>

PanelNext == Input \/ PanelPoll \/ Pass \/ Elsewhere

\* Neither task waits for ever: the poll's calls end after ten ticks, the
\* display's delay after 100 ms.
PanelSpec == PanelInit /\ [][PanelNext]_panel /\ WF_panel(PanelPoll) /\ WF_panel(Pass)

-----------------------------------------------------------------------------
(***************************************************************************)
(* Properties.                                                             *)
(***************************************************************************)

\* Each task is for the other what the other's module takes its environment to
\* be.  The display sees posted events that are dropped only with the queue full,
\* however long the poll waited (DisplayAgent.cpp:192-230).
DisplaySpec == DA!Spec

\* The encoder sees its events leave the queue one by one and in order, and what
\* the display does with them changes nothing else of it (DisplayAgent.cpp:85).
EncoderSpec == Spec

\* The two tasks share the queue and nothing else goes wrong between them: what is
\* true of each in its own module is true of it in the panel.
PartsImplemented == DisplaySpec /\ EncoderSpec

\* No event comes from nothing: each takes a press or a quarter step of its own, so
\* a press is not handled twice however its interrupt falls between test, clear and
\* call, a long press is no short one too, and a knob that shakes over one edge
\* while the poll reads the phases makes no turns (RotEncAgent.cpp:113-227).
NoPhantomEvent == events <= inputs

\* From the edge of the switch to the screen: every press is followed by an open
\* menu, also when its own event is dropped, for then the queue is full of others
\* that open it.  The flag, the poll, the queue and the display's pass all have a
\* part in it
\* (RotEncAgent.cpp:118-199, DisplayAgent.cpp:83-107).
PressOpensMenu == \A k \in Presses : owed[k] ~> ui.mode # "carousel"

=============================================================================
