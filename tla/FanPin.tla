------------------------------- MODULE FanPin -------------------------------
(***************************************************************************)
(* What the fan's pin shows between the notifications.  Nothing locks the  *)
(* object, so a task can write a level it decided on before another actor  *)
(* changed the object: FanControl with a history of whether that happened  *)
(* since the speed was last decided on by somebody nobody cut into.        *)
(***************************************************************************)
EXTENDS FanControl

VARIABLE overtaken  \* a decision on the speed has been overtaken by a change

pinVars == <<vars, overtaken>>

\* The task has decided on a speed in notifyState and not yet written it.
Deciding(t) == ctx[t].phase \in {"fetch", "gate", "level"}

\* Whoever is not cut into reads the object afresh.
Renewed == UpdateClock \/ Reboot \/ \E t \in Tasks : Decide(t)

PinInit == Init /\ overtaken = FALSE

PinNext ==
  /\ Next
  /\ overtaken' = IF \E t \in Tasks : Deciding(t) /\ ctx'[t] = ctx[t]
                  THEN overtaken \/ fs' # fs
                  ELSE overtaken /\ ~Renewed

PinSpec == PinInit /\ [][PinNext]_pinVars
FairPinSpec == PinSpec /\ Fairness

-----------------------------------------------------------------------------
\* The other half of PwmSettles: a pin that disagrees with the state, when no task
\* is about to write it, has one cause only, a change of the object between
\* decision and write of a notification (FanController.cpp:45 to 59), and that is
\* over with the next updateClock or notification that nothing cuts into.  No
\* setter, copy of a table, clock or reboot leaves the pin behind by itself.
OnlyOvertakenIsStale ==
  (\A t \in Tasks : ctx[t].phase = "call") /\ ~overtaken => PwmAgrees

=============================================================================
