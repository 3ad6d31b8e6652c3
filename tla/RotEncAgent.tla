---------------------------- MODULE RotEncAgent ----------------------------
(***************************************************************************)
(* The rotary encoder: an interrupt handler for the push switch, and a     *)
(* task that polls the two phases of the knob and hands presses and turns  *)
(* to the display's queue.                                                 *)
(*                                                                         *)
(* The handler cannot use the queue, so it leaves a press in a flag that   *)
(* the poll tests and clears.  Every read of a pin, test, clear and call   *)
(* is a step: the interrupt comes between any two, the knob turns on, and  *)
(* a call blocks for up to ten ticks while the queue is full.  The         *)
(* decoder's variables belong to the poll alone, so decoding is one step.  *)
(***************************************************************************)
EXTENDS Integers, Sequences

CONSTANTS
  NumTicks,     \* 20: turns in a full revolution
  QueueLength,  \* 10
  PressTimes,   \* milliseconds between the edges of a press; 0: one interrupt for both
  MaxMoves      \* quarter steps the knob makes from one sample to the next

ASSUME TicksAssumption == NumTicks \in Nat \ {0}
ASSUME QueueAssumption == QueueLength \in Nat \ {0}
ASSUME PressAssumption == PressTimes \subseteq Nat
ASSUME MovesAssumption == MaxMoves \in Nat

MINSHORTPRESSMSEC == 10
LONGPRESSMSEC == 300

Presses == {"short", "long"}
Turns == {"cw", "ccw"}
Events == Presses \cup Turns

VARIABLES
  phys,     \* where the knob is, in quarter steps of a revolution
  moves,    \* quarter steps since phase A was read for the last sample
  late,     \* quarter steps since phase A was read for the sample under way
  slow,     \* history: never more than one quarter step in moves
  flag,     \* xShort and xLong
  pc, job,  \* where the poll is, and the event it is handling
  c,        \* the sample: phases A and B as 2 * A + B
  dec,      \* the decoder: xLast, xCount, xPos
  queue,    \* the display's queue
  origin,   \* history: where the knob was when the agent was constructed
  owed      \* history: presses for which no handler call has started yet

knob == <<phys, moves, late, slow>>
vars == <<knob, flag, pc, job, c, dec, queue, origin, owed>>

-----------------------------------------------------------------------------
(***************************************************************************)
(* The phases of a knob position, and the two tables that give the phases  *)
(* one quarter step clockwise and counter-clockwise of given ones.         *)
(***************************************************************************)
Revolution == 4 * NumTicks

Phase(p) == CASE p % 4 = 0 -> 0 [] p % 4 = 1 -> 2 [] p % 4 = 2 -> 3 [] p % 4 = 3 -> 1

\* Plausible slip: two entries of the table exchanged.
MistypedCW(last) == CASE last = 0 -> 2 [] last = 1 -> 0 [] last = 2 -> 1 [] last = 3 -> 3
xCW(last)  == CASE last = 0 -> 2 [] last = 1 -> 0 [] last = 2 -> 3 [] last = 3 -> 1
xCCW(last) == CASE last = 0 -> 1 [] last = 1 -> 3 [] last = 2 -> 0 [] last = 3 -> 2

DecoderType == [last : 0..3, count : -3..3, pos : 0..(NumTicks - 1)]

Init ==
  /\ origin \in 0..3
  /\ phys = origin /\ moves = 0 /\ late = 0 /\ slow = TRUE
  /\ flag = [k \in Presses |-> FALSE]
  /\ owed = [k \in Presses |-> FALSE]
  /\ pc = "A" /\ job = "short" /\ c = 0
  /\ dec = [last |-> Phase(origin), count |-> 0, pos |-> 0]
  /\ queue = <<>>

-----------------------------------------------------------------------------
(***************************************************************************)
(* The user, the interrupt and the display task.                           *)
(***************************************************************************)

Turn(d) ==
  /\ moves < MaxMoves
  /\ phys' = (phys + d) % Revolution
  /\ moves' = moves + 1
  /\ late' = IF pc = "B" THEN late + 1 ELSE late
  /\ slow' = (slow /\ moves = 0)
  /\ UNCHANGED <<flag, pc, job, c, dec, queue, origin, owed>>

\* handleGPIO on the rising edge.  Plausible slip: a long press that is also a short
\* one.
OverlappingReleased(k, t) ==
  IF k = "short" THEN MINSHORTPRESSMSEC <= t
  ELSE LONGPRESSMSEC <= t /\ t <= LONGPRESSMSEC * 5
Released(k, t) ==
  IF k = "short" THEN MINSHORTPRESSMSEC <= t /\ t < LONGPRESSMSEC
  ELSE LONGPRESSMSEC <= t /\ t <= LONGPRESSMSEC * 5

Release(t) ==
  /\ flag' = [k \in Presses |-> flag[k] \/ Released(k, t)]
  /\ owed' = [k \in Presses |-> owed[k] \/ Released(k, t)]
  /\ UNCHANGED <<knob, pc, job, c, dec, queue, origin>>

Take ==
  /\ queue # <<>>
  /\ queue' = Tail(queue)
  /\ UNCHANGED <<knob, flag, pc, job, c, dec, origin, owed>>

-----------------------------------------------------------------------------
(***************************************************************************)
(* The poll, from the end of one delay to the end of the next.             *)
(***************************************************************************)

ReadA ==
  /\ pc = "A"
  /\ c' = 2 * (Phase(phys) \div 2)
  /\ late' = 0
  /\ pc' = "B"
  /\ UNCHANGED <<phys, moves, slow, flag, job, dec, queue, origin, owed>>

ReadB ==
  /\ pc = "B"
  /\ c' = c + (Phase(phys) % 2)
  /\ moves' = late
  /\ late' = 0
  /\ pc' = "test" /\ job' = "short"
  /\ UNCHANGED <<phys, slow, flag, dec, queue, origin, owed>>

\* What the poll does with a press: test, clear, call; and then?  Plausible
\* slip: the flag cleared when the handler has returned.
LateClearAfter(step) ==
  CASE step = "test" -> "send" [] step = "send" -> "clear" [] step = "clear" -> "next"
After(step) ==
  CASE step = "test" -> "clear" [] step = "clear" -> "send" [] step = "send" -> "next"

\* The poll goes on at a step; "next" stands for what follows the whole job.
GoTo(step) ==
  CASE step # "next" -> pc' = step /\ job' = job
    [] step = "next" /\ job = "short" -> pc' = "test" /\ job' = "long"
    [] step = "next" /\ job = "long" -> pc' = "decode" /\ job' = job
    [] step = "next" /\ job \in Turns -> pc' = "A" /\ job' = job

Test ==
  /\ pc = "test"
  /\ GoTo(IF flag[job] THEN After("test") ELSE "next")
  /\ UNCHANGED <<knob, flag, c, dec, queue, origin, owed>>

Clear ==
  /\ pc = "clear"
  /\ flag' = [flag EXCEPT ![job] = FALSE]
  /\ GoTo(After("clear"))
  /\ UNCHANGED <<knob, c, dec, queue, origin, owed>>

\* Where the poll goes on after a handler has returned.
Returned == IF job \in Turns THEN "next" ELSE After("send")

\* The handler calls the listener, which sends: at once, or after a wait.
Send ==
  /\ pc = "send"
  /\ owed' = [k \in Presses |-> owed[k] /\ k # job]
  /\ IF Len(queue) < QueueLength
     THEN queue' = Append(queue, job) /\ GoTo(Returned)
     ELSE queue' = queue /\ GoTo("wait")
  /\ UNCHANGED <<knob, flag, c, dec, origin>>

\* Plausible slip: the oldest event makes room for the new one.
WaitOverwriting ==
  /\ pc = "wait"
  /\ queue' = Append(IF Len(queue) < QueueLength THEN queue ELSE Tail(queue), job)
  /\ GoTo(Returned)
  /\ UNCHANGED <<knob, flag, c, dec, origin, owed>>

\* There is room in time, or the event is dropped.
Wait ==
  /\ pc = "wait"
  /\ queue' = IF Len(queue) < QueueLength THEN Append(queue, job) ELSE queue
  /\ GoTo(Returned)
  /\ UNCHANGED <<knob, flag, c, dec, origin, owed>>

\* The decoder: a quarter step moves the count, the fourth makes a turn.
Clockwise(d) ==
  IF d.count + 1 > 3
  THEN [d EXCEPT !.count = 0, !.pos = IF @ + 1 = NumTicks THEN 0 ELSE @ + 1]
  ELSE [d EXCEPT !.count = @ + 1]

\* Plausible slip: the position goes round one late.
LateRoundWithershins(d) ==
  IF d.count - 1 < -3
  THEN [d EXCEPT !.count = 0, !.pos = IF @ - 1 < -1 THEN NumTicks - 1 ELSE @ - 1]
  ELSE [d EXCEPT !.count = @ - 1]

Withershins(d) ==
  IF d.count - 1 < -3
  THEN [d EXCEPT !.count = 0, !.pos = IF @ - 1 = -1 THEN NumTicks - 1 ELSE @ - 1]
  ELSE [d EXCEPT !.count = @ - 1]

Decoded(d, x) ==
  CASE xCW(d.last) = x -> [Clockwise(d) EXCEPT !.last = x]
    [] xCCW(d.last) = x /\ xCW(d.last) # x -> [Withershins(d) EXCEPT !.last = x]
    [] OTHER -> d

Decode ==
  /\ pc = "decode"
  /\ dec' = Decoded(dec, c)
  /\ IF dec.count \in {3, -3} /\ dec'.count = 0
     THEN pc' = "send" /\ job' = IF dec.count > 0 THEN "cw" ELSE "ccw"
     ELSE pc' = "A" /\ job' = job
  /\ UNCHANGED <<knob, flag, c, queue, origin, owed>>

Poll == ReadA \/ ReadB \/ Test \/ Clear \/ Send \/ Wait \/ Decode

Next ==
  \/ \E d \in {1, -1} : Turn(d)
  \/ \E t \in PressTimes : Release(t)
  \/ Take
  \/ Poll

Spec == Init /\ [][Next]_vars

-----------------------------------------------------------------------------
(***************************************************************************)
(* Properties.                                                             *)
(***************************************************************************)

\* The bytes of the decoder stay within their ranges and the position within
\* one revolution, whatever the knob does between two samples.
TypeOK ==
  /\ phys \in 0..(Revolution - 1)
  /\ moves \in 0..MaxMoves /\ late \in 0..moves /\ slow \in BOOLEAN
  /\ flag \in [Presses -> BOOLEAN] /\ owed \in [Presses -> BOOLEAN]
  /\ pc \in {"A", "B", "test", "clear", "send", "wait", "decode"}
  /\ job \in Events
  /\ c \in 0..3
  /\ dec \in DecoderType
  /\ queue \in Seq(Events) /\ Len(queue) <= QueueLength
  /\ origin \in 0..3

\* Quarter steps may be missed, but what was counted always fits the phases
\* last decoded: a turn is never reported between two detents.
PhaseLocked == dec.last = Phase(origin + dec.count)

\* As long as the knob makes at most one quarter step from the reading of phase
\* A for a sample to the end of the next sample, whenever the poll has slept the
\* decoder is where the knob is, give or take that step, however the two reads
\* of a sample and the step are ordered and across the end of the revolution.
Counted == origin + 4 * dec.pos + dec.count
Offset == (phys - Counted) % Revolution
DecoderTracksKnob == slow /\ pc = "A" => Offset \in {0, 1, Revolution - 1}

\* A press is in its flag or in the poll's hands until the call to its handler
\* has begun: none that falls between test, clear and call is overlooked.
NoPressForgotten ==
  \A k \in Presses : owed[k] => flag[k] \/ (job = k /\ pc \in {"clear", "send"})

=============================================================================
