---------------------------- MODULE PanelProofs ----------------------------
(***************************************************************************)
(* The encoder, for any revolution, queue and knob speed, and presses of   *)
(* any lengths: the decoder keeps its ranges, counts in phase, follows a   *)
(* slow knob and overlooks no press.  Then the panel: encoder and display  *)
(* are each for the other what the other's module allows.                  *)
(***************************************************************************)
EXTENDS Panel, TLAPS

-----------------------------------------------------------------------------
(***************************************************************************)
(* The encoder's invariant.                                                *)
(***************************************************************************)

\* The three invariants hold together, with one that none of them states: half
\* a sample has its low bit free for phase B.
HalfSample == pc = "B" => c \in {0, 2}
Inv == TypeOK /\ PhaseLocked /\ NoPressForgotten /\ HalfSample

USE DEF Presses, Turns, Events, HalfSample

\* A position stays within the revolution.
LEMMA OnTheRing ==
  ASSUME NEW p \in Int
  PROVE  Revolution \in Nat \ {0} /\ p % Revolution \in 0..(Revolution - 1)
<1>1. Revolution \in Nat \ {0}
  BY TicksAssumption DEF Revolution
<1> QED BY <1>1

\* The phases are two bits, read one by one.
LEMMA PhaseBits ==
  ASSUME NEW p \in Int
  PROVE  /\ Phase(p) \in 0..3
         /\ 2 * (Phase(p) \div 2) \in {0, 2}
         /\ Phase(p) % 2 \in {0, 1}
<1>1. p % 4 \in 0..3
  OBVIOUS
<1>2. Phase(p) \in 0..3
  BY <1>1 DEF Phase
<1> QED BY <1>2

\* A clockwise quarter step: the table names the phases one step on, so a
\* count in phase stays in phase, four steps making a whole cycle.
LEMMA CountsUp ==
  ASSUME NEW o \in 0..3, NEW n \in -3..3
  PROVE  /\ xCW(Phase(o + n)) = Phase(o + n + 1)
         /\ xCCW(Phase(o + n)) = Phase(o + n - 1)
         /\ n = 3 => Phase(o + n + 1) = Phase(o)
         /\ n = -3 => Phase(o + n - 1) = Phase(o)
<1>1. o + n \in -3..6
  OBVIOUS
<1> QED BY <1>1 DEF xCW, xCCW, Phase

\* Decoding keeps the ranges and the phase.
LEMMA DecodedInPhase ==
  ASSUME NEW d \in DecoderType,
         NEW x \in 0..3, NEW o \in 0..3, d.last = Phase(o + d.count)
  PROVE  /\ Decoded(d, x) \in DecoderType
         /\ Decoded(d, x).last = Phase(o + Decoded(d, x).count)
<1> USE TicksAssumption
<1>0. d.count \in -3..3 /\ d.last \in 0..3
  BY DEF DecoderType
<1>1. CASE xCW(d.last) = x
  <2>1. Decoded(d, x) = [Clockwise(d) EXCEPT !.last = x]
    BY <1>1 DEF Decoded
  <2>2. x = Phase(o + d.count + 1) /\ (d.count = 3 => x = Phase(o))
    BY <1>0, <1>1, CountsUp
  <2>3. /\ Clockwise(d) \in DecoderType
        /\ Clockwise(d).count = IF d.count = 3 THEN 0 ELSE d.count + 1
    <3> DEFINE round == IF d.pos + 1 = NumTicks THEN 0 ELSE d.pos + 1
    <3>1. d.pos \in 0..(NumTicks - 1) /\ round \in 0..(NumTicks - 1)
      BY DEF DecoderType
    <3>2. CASE d.count = 3
      <4>1. Clockwise(d) = [d EXCEPT !.count = 0, !.pos = round]
        BY <3>2 DEF Clockwise
      <4>2. round \in 0..(NumTicks - 1) /\ 0 \in -3..3
        BY <3>1
      <4> HIDE DEF round
      <4> QED BY <3>2, <4>1, <4>2 DEF DecoderType
    <3>3. CASE d.count # 3
      <4>1. Clockwise(d) = [d EXCEPT !.count = d.count + 1]
        BY <1>0, <3>3 DEF Clockwise
      <4>2. d.count + 1 \in -3..3
        BY <1>0, <3>3
      <4> QED BY <3>3, <4>1, <4>2 DEF DecoderType
    <3> QED BY <3>2, <3>3
  <2>4. Phase(o + Clockwise(d).count) = x
    <3>1. o + 0 = o /\ o + (d.count + 1) = o + d.count + 1
      BY <1>0
    <3> QED BY <2>2, <2>3, <3>1
  <2>5. Decoded(d, x).count = Clockwise(d).count
    BY <2>1, <2>3 DEF DecoderType
  <2>6. Decoded(d, x) \in DecoderType /\ Decoded(d, x).last = x
    BY <2>1, <2>3 DEF DecoderType
  <2> QED BY <2>4, <2>5, <2>6
<1>2. CASE xCCW(d.last) = x /\ xCW(d.last) # x
  <2>1. Decoded(d, x) = [Withershins(d) EXCEPT !.last = x]
    BY <1>2 DEF Decoded
  <2>2. x = Phase(o + d.count - 1) /\ (d.count = -3 => x = Phase(o))
    BY <1>0, <1>2, CountsUp
  <2>3. /\ Withershins(d) \in DecoderType
        /\ Withershins(d).count = IF d.count = -3 THEN 0 ELSE d.count - 1
    <3> DEFINE round == IF d.pos - 1 = -1 THEN NumTicks - 1 ELSE d.pos - 1
    <3>1. d.pos \in 0..(NumTicks - 1) /\ round \in 0..(NumTicks - 1)
      BY DEF DecoderType
    <3>2. CASE d.count = -3
      <4>1. Withershins(d) = [d EXCEPT !.count = 0, !.pos = round]
        BY <3>2 DEF Withershins
      <4>2. round \in 0..(NumTicks - 1) /\ 0 \in -3..3
        BY <3>1
      <4> HIDE DEF round
      <4> QED BY <3>2, <4>1, <4>2 DEF DecoderType
    <3>3. CASE d.count # -3
      <4>1. Withershins(d) = [d EXCEPT !.count = d.count - 1]
        BY <1>0, <3>3 DEF Withershins
      <4>2. d.count - 1 \in -3..3
        BY <1>0, <3>3
      <4> QED BY <3>3, <4>1, <4>2 DEF DecoderType
    <3> QED BY <3>2, <3>3
  <2>4. Phase(o + Withershins(d).count) = x
    <3>1. o + 0 = o /\ o + (d.count - 1) = o + d.count - 1
      BY <1>0
    <3> QED BY <2>2, <2>3, <3>1
  <2>5. Decoded(d, x).count = Withershins(d).count
    BY <2>1, <2>3 DEF DecoderType
  <2>6. Decoded(d, x) \in DecoderType /\ Decoded(d, x).last = x
    BY <2>1, <2>3 DEF DecoderType
  <2> QED BY <2>4, <2>5, <2>6
<1>3. CASE xCW(d.last) # x /\ xCCW(d.last) # x
  BY <1>3 DEF Decoded
<1> QED BY <1>1, <1>2, <1>3

\* The knob stands where the agent was constructed, and nothing is pending.
LEMMA InitInv == Init => Inv
<1> SUFFICES ASSUME Init PROVE Inv
  OBVIOUS
<1> USE DEF Init
<1>1. phys \in 0..(Revolution - 1)
  BY TicksAssumption DEF Revolution
<1>2. Phase(origin) \in 0..3 /\ Phase(origin + 0) = Phase(origin)
  BY PhaseBits
<1>3. queue \in Seq(Events) /\ Len(queue) <= QueueLength
  BY QueueAssumption
<1>4. TypeOK
  <2>1. dec \in DecoderType
    BY <1>2, TicksAssumption DEF DecoderType
  <2>2. moves \in 0..MaxMoves /\ late \in 0..moves
    BY MovesAssumption
  <2>3. flag \in [Presses -> BOOLEAN] /\ owed \in [Presses -> BOOLEAN]
    OBVIOUS
  <2> QED BY <1>1, <1>3, <2>1, <2>2, <2>3 DEF TypeOK
<1> QED BY <1>2, <1>4 DEF Inv, PhaseLocked, NoPressForgotten

\* A quarter step of the knob.
LEMMA TurnInv == ASSUME Inv, NEW d \in {1, -1}, Turn(d) PROVE Inv'
<1> USE DEF Inv, Turn
<1>1. phys' \in 0..(Revolution - 1)
  BY OnTheRing DEF TypeOK
<1>2. moves' \in 0..MaxMoves
  BY MovesAssumption DEF TypeOK
<1>3. late' \in 0..moves'
  BY <1>2 DEF TypeOK
<1>4. TypeOK'
  BY <1>1, <1>2, <1>3 DEF TypeOK
<1> QED BY <1>4 DEF PhaseLocked, NoPressForgotten

\* The interrupt owes a press and sets its flag together.
LEMMA ReleaseInv == ASSUME Inv, NEW t \in PressTimes, Release(t) PROVE Inv'
<1> USE DEF Inv, Release
<1>1. \A k \in Presses : Released(k, t) \in BOOLEAN
  BY DEF Released
<1>2. TypeOK'
  <2>1. flag' \in [Presses -> BOOLEAN]
    BY <1>1, Zenon DEF TypeOK
  <2>2. owed' \in [Presses -> BOOLEAN]
    BY <1>1, Zenon DEF TypeOK
  <2> HIDE DEF Presses
  <2> QED BY <2>1, <2>2 DEF TypeOK, knob
<1>3. NoPressForgotten'
  BY DEF TypeOK, NoPressForgotten
<1> QED BY <1>2, <1>3 DEF PhaseLocked

\* A queue stays one of events, and short enough, when its head goes.
LEMMA TakenQueue ==
  ASSUME NEW q \in Seq(Events), q # <<>>, Len(q) <= QueueLength
  PROVE  Tail(q) \in Seq(Events) /\ Len(Tail(q)) <= QueueLength
<1> DEFINE E == Events
<1> SUFFICES Tail(q) \in Seq(E) /\ Len(Tail(q)) <= QueueLength
  OBVIOUS
<1>1. q \in Seq(E) /\ Len(q) \in Nat
  OBVIOUS
<1> HIDE DEF E
<1> QED BY <1>1, QueueAssumption

\* The display takes an event.
LEMMA TakeInv == ASSUME Inv, Take PROVE Inv'
<1> USE DEF Inv, Take
<1>1. queue' \in Seq(Events) /\ Len(queue') <= QueueLength
  BY TakenQueue DEF TypeOK
<1>2. TypeOK'
  BY <1>1 DEF TypeOK, knob
<1> QED BY <1>2 DEF PhaseLocked, NoPressForgotten

\* The two reads of a sample.
LEMMA ReadInv == ASSUME Inv, ReadA \/ ReadB PROVE Inv'
<1> USE DEF Inv
<1>0. phys \in Int
  BY TicksAssumption DEF TypeOK, Revolution
<1>1. CASE ReadA
  <2>1. c' \in {0, 2}
    BY <1>0, <1>1, PhaseBits DEF ReadA
  <2>2. moves' \in 0..MaxMoves /\ late' \in 0..moves'
    BY <1>1, MovesAssumption DEF TypeOK, ReadA
  <2>3. TypeOK'
    BY <1>1, <2>1, <2>2 DEF TypeOK, ReadA
  <2> QED BY <1>1, <2>1, <2>3 DEF ReadA, PhaseLocked, NoPressForgotten
<1>2. CASE ReadB
  <2>1. c' \in 0..3
    <3>1. c \in {0, 2} /\ Phase(phys) % 2 \in {0, 1}
      BY <1>0, <1>2, PhaseBits DEF ReadB
    <3> QED BY <1>2, <3>1 DEF ReadB
  <2>2. moves' \in 0..MaxMoves /\ late' \in 0..moves'
    <3>1. late \in Int /\ 0 <= late /\ late <= MaxMoves
      <4>1. moves \in Int /\ moves <= MaxMoves /\ late \in 0..moves
        BY MovesAssumption DEF TypeOK
      <4> QED BY <4>1, MovesAssumption
    <3>2. moves' = late /\ late' = 0
      BY <1>2 DEF ReadB
    <3> QED BY <3>1, <3>2, MovesAssumption
  <2>3. TypeOK'
    BY <1>2, <2>1, <2>2 DEF TypeOK, ReadB
  <2> QED BY <1>2, <2>3 DEF ReadB, PhaseLocked, NoPressForgotten
<1> QED BY <1>1, <1>2

\* What follows a job is the other press, the decoder or the next sample.
LEMMA GoToNext ==
  ASSUME job \in Events, GoTo("next")
  PROVE  pc' \in {"test", "decode", "A"} /\ job' \in Events
BY DEF GoTo

\* A named step leaves the job in hand.
LEMMA GoToStep ==
  ASSUME NEW step, step # "next", GoTo(step)
  PROVE  pc' = step /\ job' = job
BY DEF GoTo

\* A flag found set leads to its clearing, and the clearing to the call.
LEMMA TestInv == ASSUME Inv, Test PROVE Inv'
<1> USE DEF Inv, Test
<1>1. CASE flag[job]
  <2>1. pc' = "clear" /\ job' = job
    BY <1>1, GoToStep DEF After
  <2>2. TypeOK'
    BY <2>1 DEF TypeOK, knob
  <2> QED BY <2>1, <2>2 DEF PhaseLocked, NoPressForgotten
<1>2. CASE ~flag[job]
  <2>1. pc' \in {"test", "decode", "A"} /\ job' \in Events
    BY <1>2, GoToNext DEF TypeOK
  <2>2. TypeOK'
    BY <2>1 DEF TypeOK, knob
  <2> QED BY <2>1, <2>2 DEF PhaseLocked, NoPressForgotten
<1> QED BY <1>1, <1>2

\* The clearing keeps the event in hand until the call.
LEMMA ClearInv == ASSUME Inv, Clear PROVE Inv'
<1> USE DEF Inv, Clear
<1>1. pc' = "send" /\ job' = job
  BY GoToStep DEF After
<1>2. TypeOK'
  BY <1>1 DEF TypeOK, knob
<1>3. NoPressForgotten'
  BY <1>1 DEF TypeOK, NoPressForgotten
<1> QED BY <1>1, <1>2, <1>3 DEF PhaseLocked

\* The call begins, and with it the debt ends, whatever the queue does.
LEMMA SendInv == ASSUME Inv, Send \/ Wait PROVE Inv'
<1> USE DEF Inv
<1>1. Returned = "next"
  BY DEF Returned, After
<1>2. pc' \in {"test", "decode", "A", "wait"} /\ job' \in Events
  <2>1. CASE GoTo("wait")
    BY <2>1, GoToStep DEF TypeOK
  <2>2. CASE GoTo("next")
    BY <2>2, GoToNext DEF TypeOK
  <2> QED BY <1>1, <2>1, <2>2 DEF Send, Wait
<1>3. queue' \in Seq(Events) /\ Len(queue') <= QueueLength
  <2>1. queue \in Seq(Events) /\ job \in Events /\ Len(queue) <= QueueLength
    BY DEF TypeOK
  <2>2. (queue' = Append(queue, job) /\ Len(queue) < QueueLength) \/ queue' = queue
    BY DEF Send, Wait
  <2> HIDE DEF Events
  <2> QED BY <2>1, <2>2, QueueAssumption
<1>4. owed' \in [Presses -> BOOLEAN] /\ UNCHANGED <<knob, flag, c, dec, origin>>
  BY DEF TypeOK, Send, Wait
<1>5. TypeOK'
  BY <1>2, <1>3, <1>4 DEF TypeOK, knob
<1>6. \A k \in Presses : owed'[k] => flag'[k]
  BY DEF TypeOK, NoPressForgotten, Send, Wait
<1> QED BY <1>2, <1>4, <1>5, <1>6 DEF PhaseLocked, NoPressForgotten

\* The decoder.
LEMMA DecodeInv == ASSUME Inv, Decode PROVE Inv'
<1> USE DEF Inv, Decode
<1>1. /\ dec' \in DecoderType
      /\ dec'.last = Phase(origin + dec'.count)
  BY DecodedInPhase DEF TypeOK, PhaseLocked
<1>2. pc' \in {"send", "A"} /\ (pc' = "send" => job' \in Turns) /\ job' \in Events
  BY DEF TypeOK
<1>3. TypeOK'
  BY <1>1, <1>2 DEF TypeOK, knob
<1>4. NoPressForgotten'
  BY DEF NoPressForgotten
<1> QED BY <1>1, <1>3, <1>4 DEF PhaseLocked

\* The invariant is inductive.
LEMMA NextInv == Inv /\ [Next]_vars => Inv'
<1> SUFFICES ASSUME Inv, [Next]_vars PROVE Inv'
  OBVIOUS
<1>1. CASE \E d \in {1, -1} : Turn(d)
  BY <1>1, TurnInv
<1>2. CASE \E t \in PressTimes : Release(t)
  BY <1>2, ReleaseInv
<1>3. CASE Take
  BY <1>3, TakeInv
<1>4. CASE Poll
  BY <1>4, ReadInv, TestInv, ClearInv, SendInv, DecodeInv DEF Poll
<1>5. CASE UNCHANGED vars
  BY <1>5 DEF vars, knob, Inv, TypeOK, PhaseLocked, NoPressForgotten
<1> QED BY <1>1, <1>2, <1>3, <1>4, <1>5 DEF Next

\* Inv: the inductive invariant of the encoder's task and interrupt.
THEOREM Invariance == Spec => []Inv
BY InitInv, NextInv, PTL DEF Spec

\* TypeOK: the ranges of the decoder and of the poll.
THEOREM TypeCorrect == Spec => []TypeOK
<1>1. Inv => TypeOK
  BY DEF Inv
<1> QED BY <1>1, Invariance, PTL

\* PhaseLocked: what was counted fits the phases last decoded, at any speed of
\* the knob and with any quarter steps missed.
THEOREM CountStaysInPhase == Spec => []PhaseLocked
<1>1. Inv => PhaseLocked
  BY DEF Inv
<1> QED BY <1>1, Invariance, PTL

\* NoPressForgotten: no interrupt is lost between test, clear and call.
THEOREM PressesAreKept == Spec => []NoPressForgotten
<1>1. Inv => NoPressForgotten
  BY DEF Inv
<1> QED BY <1>1, Invariance, PTL

-----------------------------------------------------------------------------
(***************************************************************************)
(* The decoder against the knob.                                           *)
(***************************************************************************)

\* The knob is x quarter steps on from a position that is e on from the decoder's,
\* give or take revolutions; and how far x can be while the knob is slow.
Apart(e, x) == \E k \in -2..2 : phys = Counted + e + x + k * Revolution
Moved == {x \in {-1, 0, 1} : -moves <= x /\ x <= moves}

\* Before the next sample is read, and with a sample not yet decoded.
Idle == pc = "A" \/ (pc \in {"send", "wait"} /\ job \in Turns)
Sampled == ~Idle /\ pc # "B"
PressesFirst == pc \in {"test", "clear", "decode"} => job \in Presses

\* A slow knob has moved as often as moves says since phase A was read: that is how
\* far an idle decoder is behind; while phase B is still to come, the step is after
\* the reading of A or before it; and a sample not yet decoded names a position next
\* to the decoder's, from which the knob has moved no more than that.
IdleTracks == Idle => \E x \in Moved : Apart(0, x)
SamplingTracks ==
  pc = "B" => \E x \in Moved :
    /\ Apart(0, x)
    /\ late = 0 => c = 2 * (Phase(Counted + x) \div 2)
    /\ late # 0 => x # 0 /\ c = 2 * (Phase(Counted) \div 2)
SampleTracks ==
  Sampled => \E e \in {-1, 0, 1}, x \in Moved : Apart(e, x) /\ c = Phase(Counted + e)

Tracking ==
  /\ PressesFirst
  /\ slow => moves <= 1 /\ IdleTracks /\ SamplingTracks /\ SampleTracks

\* The ring has room for the four quarter steps of a turn.
LEMMA Ring == Revolution \in Nat /\ Revolution >= 4
  BY TicksAssumption DEF Revolution

\* Going round the ring leaves the phases what they were.
LEMMA PhasePeriodic ==
  ASSUME NEW p \in Int, NEW k \in -2..2
  PROVE  Phase(p + k * Revolution) = Phase(p)
<1>1. k * Revolution = 4 * (k * NumTicks) /\ k * NumTicks \in Int
  BY TicksAssumption DEF Revolution
<1> DEFINE m == k * NumTicks
<1>2. m \in Int /\ k * Revolution = 4 * m
  BY <1>1
<1> HIDE DEF m
<1>3. (p + 4 * m) % 4 = p % 4
  BY <1>2
<1> QED BY <1>2, <1>3 DEF Phase

\* A quarter step along the ring, past its end or not.
LEMMA QuarterStep ==
  ASSUME NEW p \in 0..(Revolution - 1), NEW d \in {1, -1}
  PROVE  \E j \in -1..1 : (p + d) % Revolution = p + d + j * Revolution
<1> DEFINE R == Revolution
<1>1. R \in Nat /\ R >= 4 /\ p \in 0..(R - 1)
  BY Ring
<1> HIDE DEF R
<1>2. \A a \in 0..(R - 1) : a % R = a
  BY <1>1
<1>3. CASE p + d \in 0..(R - 1)
  BY <1>1, <1>2, <1>3 DEF R
<1>4. CASE p + d = R
  <2>1. R % R = 0
    BY <1>1
  <2> QED BY <1>1, <1>4, <2>1 DEF R
<1>5. CASE p + d = -1
  <2>1. (-1) % R = R - 1
    BY <1>1
  <2> QED BY <1>1, <1>5, <2>1 DEF R
<1> QED BY <1>1, <1>3, <1>4, <1>5

\* What the decoder counted is at most a detent off the ring.
LEMMA CountRange ==
  ASSUME NEW d \in DecoderType, NEW o \in 0..3
  PROVE  o + 4 * d.pos + d.count \in -3..(Revolution + 2)
<1> USE TicksAssumption
<1>1. d.pos \in 0..(NumTicks - 1) /\ d.count \in -3..3
  BY DEF DecoderType
<1> QED BY <1>1 DEF Revolution

\* So is what this decoder counted.
LEMMA CountedRange ==
  ASSUME TypeOK
  PROVE  Counted \in -3..(Revolution + 2)
BY CountRange DEF TypeOK, Counted

\* Nearby positions are fewer than three revolutions apart as numbers.
LEMMA FewRounds ==
  ASSUME NEW p \in 0..(Revolution - 1), NEW n \in -3..(Revolution + 2),
         NEW y \in -3..3, NEW k \in -4..4, p = n + y + k * Revolution
  PROVE  k \in -2..2
<1> DEFINE R == Revolution
<1>1. R \in Nat /\ R >= 4 /\ p \in 0..(R - 1) /\ n \in -3..(R + 2) /\ p = n + y + k * R
  BY Ring
<1> HIDE DEF R
<1>2. /\ k = -4 => k * R = -4 * R
      /\ k = -3 => k * R = -3 * R
      /\ k = 3 => k * R = 3 * R
      /\ k = 4 => k * R = 4 * R
  BY <1>1
<1> QED BY <1>1, <1>2

\* The agent starts at rest.
LEMMA InitTracking == Init => Tracking
<1> SUFFICES ASSUME Init PROVE Tracking
  OBVIOUS
<1>1. phys = origin /\ origin \in 0..3 /\ moves = 0 /\ pc = "A" /\ job = "short"
  BY DEF Init
<1>2. Counted = origin
  BY <1>1 DEF Init, Counted
<1>3. Apart(0, 0)
  <2>1. phys = Counted + 0 + 0 + 0 * Revolution
    BY <1>1, <1>2, Ring
  <2> QED BY <2>1 DEF Apart
<1>4. 0 \in Moved
  BY <1>1 DEF Moved
<1> QED BY <1>1, <1>3, <1>4 DEF Tracking, PressesFirst, IdleTracks, SamplingTracks,
                                SampleTracks, Sampled, Idle

\* A quarter step after none leaves the knob one step from where it was.
LEMMA TurnApart ==
  ASSUME TypeOK, NEW d \in {1, -1}, Turn(d), NEW e \in {-1, 0, 1}, Apart(e, 0)
  PROVE  Apart(e, d)'
<1>1. PICK k \in -2..2 : phys = Counted + e + 0 + k * Revolution
  BY DEF Apart
<1>2. PICK j \in -1..1 : phys' = phys + d + j * Revolution
  BY QuarterStep DEF TypeOK, Turn
<1>3. Counted' = Counted /\ Counted \in -3..(Revolution + 2)
  BY CountedRange DEF Turn, Counted
<1>4. phys' = Counted + (e + d) + (k + j) * Revolution
  <2>1. (k + j) * Revolution = k * Revolution + j * Revolution
    BY Ring
  <2> QED BY <1>1, <1>2, <1>3, <2>1, Ring
<1>5. phys' \in 0..(Revolution - 1)
  <2>1. phys + d \in Int
    BY Ring DEF TypeOK
  <2> QED BY <2>1, OnTheRing DEF Turn
<1>6. k + j \in -2..2
  <2>1. e + d \in -3..3 /\ k + j \in -4..4
    OBVIOUS
  <2> QED BY <1>3, <1>4, <1>5, <2>1, FewRounds
<1>7. phys' = Counted' + e + d + (k + j) * Revolution
  BY <1>3, <1>4, Ring
<1> QED BY <1>6, <1>7 DEF Apart

\* Where the poll is, and with what sample, decides what is asked of the knob: a
\* step that leaves knob, sample and decoder alone, and the poll in the same part
\* of its loop, keeps it.
LEMMA SameTracking ==
  ASSUME Tracking, UNCHANGED <<knob, c, dec, origin>>, PressesFirst',
         Idle' => Idle, Sampled' => Sampled, (pc' = "B") => pc = "B"
  PROVE  Tracking'
<1>1. \A e, x : Apart(e, x)' <=> Apart(e, x)
  BY DEF Apart, Counted, knob
<1>2. Moved' = Moved /\ Counted' = Counted
  BY DEF Moved, Counted, knob
<1>3. slow => IdleTracks'
  BY <1>1, <1>2 DEF Tracking, IdleTracks
<1>4. slow => SamplingTracks'
  BY <1>1, <1>2 DEF Tracking, SamplingTracks, knob
<1>5. slow => SampleTracks'
  BY <1>1, <1>2 DEF Tracking, SampleTracks
<1> QED BY <1>3, <1>4, <1>5 DEF Tracking, knob

\* The knob turns: while it is slow, from rest.
LEMMA TurnTracking ==
  ASSUME TypeOK, Tracking, NEW d \in {1, -1}, Turn(d)
  PROVE  Tracking'
<1>1. PressesFirst'
  BY DEF Turn, Tracking, PressesFirst
<1>2. SUFFICES ASSUME slow' PROVE (moves <= 1 /\ IdleTracks /\ SamplingTracks /\ SampleTracks)'
  BY <1>1 DEF Tracking
<1>3. slow /\ moves = 0 /\ moves' = 1 /\ late = 0 /\ (pc = "B" => late' # 0)
  <2>1. slow /\ moves = 0
    BY <1>2, Zenon DEF Turn
  <2>2. late = 0
    BY <2>1 DEF TypeOK
  <2> QED BY <2>1, <2>2 DEF Turn
<1>4. \A x \in Moved : x = 0
  BY <1>3 DEF Moved
<1>5. d \in Moved'
  BY <1>3 DEF Moved
<1>6. Counted' = Counted /\ UNCHANGED <<pc, job, c>>
  BY DEF Turn, Counted
<1>7. IdleTracks'
  BY <1>3, <1>4, <1>5, <1>6, TurnApart DEF Tracking, IdleTracks, Idle
<1>8. SamplingTracks'
  <2> SUFFICES ASSUME pc = "B"
               PROVE  d # 0 /\ Apart(0, d)' /\ late' # 0 /\ c = 2 * (Phase(Counted) \div 2)
    BY <1>5, <1>6 DEF SamplingTracks
  <2>1. Apart(0, 0) /\ c = 2 * (Phase(Counted + 0) \div 2)
    BY <1>3, <1>4 DEF Tracking, SamplingTracks
  <2>2. Counted + 0 = Counted
    BY CountedRange
  <2>3. Apart(0, d)'
    <3>1. d = 0 + d
      OBVIOUS
    <3> QED BY <2>1, TurnApart
  <2> QED BY <1>3, <2>1, <2>2, <2>3
<1>9. SampleTracks'
  <2> SUFFICES ASSUME Sampled
               PROVE  \E e \in {-1, 0, 1} : Apart(e, d)' /\ c = Phase(Counted + e)
    BY <1>5, <1>6 DEF SampleTracks, Sampled, Idle
  <2>1. PICK e \in {-1, 0, 1} : Apart(e, 0) /\ c = Phase(Counted + e)
    BY <1>3, <1>4 DEF Tracking, SampleTracks
  <2> QED BY <2>1, TurnApart
<1> QED BY <1>3, <1>7, <1>8, <1>9

\* Two positions a quarter step apart differ in one phase: the sample of both is
\* the phases of one.
LEMMA OnePhase ==
  ASSUME NEW p \in Int, NEW x \in {-1, 1}
  PROVE  2 * (Phase(p) \div 2) + (Phase(p + x) % 2) \in {Phase(p), Phase(p + x)}
<1>1. p % 4 \in 0..3 /\ (p + x) % 4 = IF x = 1 THEN (IF p % 4 = 3 THEN 0 ELSE (p % 4) + 1)
                                       ELSE (IF p % 4 = 0 THEN 3 ELSE (p % 4) - 1)
  OBVIOUS
<1>2. CASE p % 4 = 0
  <2>1. Phase(p) = 0 /\ Phase(p + x) = IF x = 1 THEN 2 ELSE 1
    BY <1>1, <1>2 DEF Phase
  <2> QED BY <2>1
<1>3. CASE p % 4 = 1
  <2>1. Phase(p) = 2 /\ Phase(p + x) = IF x = 1 THEN 3 ELSE 0
    BY <1>1, <1>3 DEF Phase
  <2> QED BY <2>1
<1>4. CASE p % 4 = 2
  <2>1. Phase(p) = 3 /\ Phase(p + x) = IF x = 1 THEN 1 ELSE 2
    BY <1>1, <1>4 DEF Phase
  <2> QED BY <2>1
<1>5. CASE p % 4 = 3
  <2>1. Phase(p) = 1 /\ Phase(p + x) = IF x = 1 THEN 0 ELSE 3
    BY <1>1, <1>5 DEF Phase
  <2> QED BY <2>1
<1> QED BY <1>1, <1>2, <1>3, <1>4, <1>5

\* The phases of the knob are those of the position it is at by the count.
LEMMA ApartPhase ==
  ASSUME TypeOK, NEW e \in {-1, 0, 1}, NEW x \in {-1, 0, 1}, Apart(e, x)
  PROVE  Phase(phys) = Phase(Counted + e + x)
<1>1. PICK k \in -2..2 : phys = Counted + e + x + k * Revolution
  BY DEF Apart
<1>2. Counted + e + x \in Int
  BY CountedRange
<1> QED BY <1>1, <1>2, PhasePeriodic

\* Phase A is read from where an idle decoder is followed to.
LEMMA ReadATracking == ASSUME TypeOK, Tracking, ReadA PROVE Tracking'
<1>1. PressesFirst' /\ ~Idle' /\ ~Sampled'
  BY DEF ReadA, PressesFirst, Idle, Sampled
<1> SUFFICES ASSUME slow PROVE SamplingTracks'
  BY <1>1 DEF Tracking, IdleTracks, SampleTracks, ReadA
<1>2. PICK x \in Moved : Apart(0, x)
  BY DEF Tracking, IdleTracks, Idle, ReadA
<1>3. Phase(phys) = Phase(Counted + 0 + x) /\ Counted + 0 + x = Counted + x
  BY <1>2, ApartPhase, CountedRange DEF Moved
<1>4. Counted' = Counted /\ Moved' = Moved /\ Apart(0, x)' /\ late' = 0
  BY <1>2 DEF ReadA, Counted, Moved, Apart
<1> QED BY <1>3, <1>4 DEF ReadA, SamplingTracks

\* The sample is the phases of where the knob was or of where it is.
LEMMA ReadBTracking == ASSUME TypeOK, Tracking, ReadB PROVE Tracking'
<1>1. PressesFirst' /\ ~Idle'
  BY DEF ReadB, PressesFirst, Idle, Presses
<1> SUFFICES ASSUME slow PROVE (moves <= 1 /\ SampleTracks)'
  BY <1>1 DEF Tracking, IdleTracks, SamplingTracks, ReadB
<1>2. PICK x \in Moved :
        /\ Apart(0, x)
        /\ late = 0 => c = 2 * (Phase(Counted + x) \div 2)
        /\ late # 0 => x # 0 /\ c = 2 * (Phase(Counted) \div 2)
  BY DEF Tracking, SamplingTracks, ReadB
<1>3. x \in {-1, 0, 1} /\ Counted \in Int
  BY CountedRange DEF Moved
<1>4. Phase(phys) = Phase(Counted + x) /\ Counted + 0 + x = Counted + x
  BY <1>2, <1>3, ApartPhase
<1>5. Counted' = Counted /\ moves' = late /\ moves' \in 0..1
  BY DEF Tracking, TypeOK, ReadB, Counted
<1>6. CASE late = 0
  <2>1. c' = Phase(Counted + x)
    <3>1. Phase(Counted + x) \in 0..3
      BY <1>3, PhaseBits
    <3> QED BY <1>2, <1>4, <1>6, <3>1 DEF ReadB
  <2>2. Apart(x, 0)' /\ 0 \in Moved'
    BY <1>2, <1>3, <1>5, <1>6 DEF Apart, Moved, ReadB
  <2> QED BY <1>3, <1>5, <2>1, <2>2 DEF SampleTracks
<1>7. CASE late = 1
  <2>1. x \in {-1, 1} /\ c' = 2 * (Phase(Counted) \div 2) + (Phase(Counted + x) % 2)
    BY <1>2, <1>3, <1>4, <1>7 DEF ReadB
  <2>2. c' \in {Phase(Counted), Phase(Counted + x)}
    BY <1>3, <2>1, OnePhase
  <2>3. Apart(x, 0)' /\ Apart(0, x)' /\ {0, x} \subseteq Moved'
    BY <1>2, <1>3, <1>5, <1>7 DEF Apart, Moved, ReadB
  <2>4. Counted + 0 = Counted
    BY <1>3
  <2> QED BY <1>3, <1>5, <2>2, <2>3, <2>4 DEF SampleTracks
<1> QED BY <1>5, <1>6, <1>7

\* A press is followed by the other one or the decoder, a turn by the next sample.
LEMMA JobDone ==
  ASSUME job \in Events, GoTo("next")
  PROVE  /\ job \in Presses => pc' \in {"test", "decode"} /\ job' \in Presses
         /\ job \in Turns => pc' = "A" /\ job' = job
BY DEF GoTo

\* Handling presses and turns stays in its part of the poll.
LEMMA HandlingTracking ==
  ASSUME Inv, Tracking, Test \/ Clear \/ Send \/ Wait PROVE Tracking'
<1>1. /\ UNCHANGED <<knob, c, dec, origin>>
      /\ job \in Events
      /\ pc \in {"test", "clear"} => job \in Presses
      /\ pc \in {"test", "clear", "send", "wait"}
  BY DEF Inv, TypeOK, Tracking, PressesFirst, Test, Clear, Send, Wait
<1>2. \/ pc' = "clear" /\ job' = job /\ pc = "test"
      \/ pc' \in {"send", "wait"} /\ job' = job
      \/ GoTo("next")
  <2>1. CASE Test /\ flag[job]
    BY <2>1, GoToStep DEF Test, After
  <2>2. CASE Test /\ ~flag[job]
    BY <2>2 DEF Test
  <2>3. CASE Clear
    BY <2>3, GoToStep DEF Clear, After
  <2>4. CASE Send \/ Wait
    <3>1. Returned = "next"
      BY DEF Returned, After
    <3> QED BY <2>4, <3>1, GoToStep DEF Send, Wait
  <2> QED BY <2>1, <2>2, <2>3, <2>4
<1>3. PressesFirst' /\ (Idle' => Idle) /\ (Sampled' => Sampled) /\ pc' # "B"
  BY <1>1, <1>2, JobDone DEF PressesFirst, Idle, Sampled
<1> QED BY <1>1, <1>3, SameTracking

\* The phases of the neighbours of a position differ from its own and each other's.
LEMMA Neighbours ==
  ASSUME NEW last \in 0..3
  PROVE  xCW(last) # last /\ xCCW(last) # last /\ xCW(last) # xCCW(last)
BY DEF xCW, xCCW

\* Decoding the phases of a position a quarter step on counts that step.
LEMMA DecodedCounts ==
  ASSUME NEW d \in DecoderType, NEW o \in 0..3, NEW e \in {-1, 0, 1},
         d.last = Phase(o + d.count),
         NEW x, x = Phase(o + 4 * d.pos + d.count + e)
  PROVE  \E j \in -1..1 :
           o + 4 * Decoded(d, x).pos + Decoded(d, x).count
             = o + 4 * d.pos + d.count + e + j * Revolution
<1> USE TicksAssumption
<1>1. d.last \in 0..3 /\ d.count \in -3..3 /\ d.pos \in 0..(NumTicks - 1)
  BY DEF DecoderType
<1>2. x = Phase(o + d.count + e)
  <2>1. (o + 4 * d.pos + d.count + e) % 4 = (o + d.count + e) % 4
    BY <1>1
  <2> QED BY <2>1 DEF Phase
<1>3. CASE e = 0
  <2>1. x = d.last
    <3>1. o + d.count + 0 = o + d.count
      BY <1>1
    <3> QED BY <1>2, <1>3, <3>1
  <2>2. Decoded(d, x) = d
    BY <1>1, <2>1, Neighbours DEF Decoded
  <2>3. o + 4 * d.pos + d.count = o + 4 * d.pos + d.count + e + 0 * Revolution
    BY <1>1, <1>3, Ring
  <2> QED BY <2>2, <2>3
<1>4. CASE e = 1
  <2>1. xCW(d.last) = x
    BY <1>1, <1>2, <1>4, CountsUp
  <2>2. Decoded(d, x) = [Clockwise(d) EXCEPT !.last = x]
    BY <2>1 DEF Decoded
  <2>3. CASE d.count = 3
    <3> DEFINE round == IF d.pos + 1 = NumTicks THEN 0 ELSE d.pos + 1
    <3>1. Clockwise(d) = [d EXCEPT !.count = 0, !.pos = round]
      BY <2>3 DEF Clockwise
    <3> HIDE DEF round
    <3>2. Decoded(d, x).pos = round /\ Decoded(d, x).count = 0
      BY <2>2, <3>1 DEF DecoderType
    <3>3. \E j \in -1..1 : 4 * round = 4 * d.pos + 4 + j * Revolution
      BY <1>1 DEF round, Revolution
    <3> QED BY <1>1, <1>4, <2>3, <3>2, <3>3, Ring
  <2>4. CASE d.count # 3
    <3>1. Clockwise(d) = [d EXCEPT !.count = d.count + 1]
      BY <1>1, <2>4 DEF Clockwise
    <3>2. Decoded(d, x).pos = d.pos /\ Decoded(d, x).count = d.count + 1
      BY <2>2, <3>1 DEF DecoderType
    <3>3. o + 4 * d.pos + (d.count + 1) = o + 4 * d.pos + d.count + e + 0 * Revolution
      BY <1>1, <1>4, Ring
    <3> QED BY <3>2, <3>3
  <2> QED BY <2>3, <2>4
<1>5. CASE e = -1
  <2>1. xCCW(d.last) = x /\ xCW(d.last) # x
    <3>1. o + d.count + e = o + d.count - 1
      BY <1>1, <1>5
    <3> QED BY <1>1, <1>2, <3>1, CountsUp, Neighbours
  <2>2. Decoded(d, x) = [Withershins(d) EXCEPT !.last = x]
    BY <2>1 DEF Decoded
  <2>3. CASE d.count = -3
    <3> DEFINE round == IF d.pos - 1 = -1 THEN NumTicks - 1 ELSE d.pos - 1
    <3>1. Withershins(d) = [d EXCEPT !.count = 0, !.pos = round]
      BY <2>3 DEF Withershins
    <3> HIDE DEF round
    <3>2. Decoded(d, x).pos = round /\ Decoded(d, x).count = 0
      BY <2>2, <3>1 DEF DecoderType
    <3>3. \E j \in -1..1 : 4 * round = 4 * d.pos - 4 + j * Revolution
      BY <1>1 DEF round, Revolution
    <3> QED BY <1>1, <1>5, <2>3, <3>2, <3>3, Ring
  <2>4. CASE d.count # -3
    <3>1. Withershins(d) = [d EXCEPT !.count = d.count - 1]
      BY <1>1, <2>4 DEF Withershins
    <3>2. Decoded(d, x).pos = d.pos /\ Decoded(d, x).count = d.count - 1
      BY <2>2, <3>1 DEF DecoderType
    <3>3. o + 4 * d.pos + (d.count - 1) = o + 4 * d.pos + d.count + e + 0 * Revolution
      BY <1>1, <1>5, Ring
    <3> QED BY <3>2, <3>3
  <2> QED BY <2>3, <2>4
<1> QED BY <1>3, <1>4, <1>5

\* The decoder takes over the position its sample names; the knob is as far from
\* there as it was.
LEMMA DecodeTracking == ASSUME Inv, Tracking, Decode PROVE Tracking'
<1>0. TypeOK /\ TypeOK' /\ PhaseLocked
  BY DecodeInv DEF Inv
<1>1. PressesFirst' /\ Idle' /\ pc' # "B" /\ ~Sampled' /\ Sampled
  BY DEF Decode, Tracking, PressesFirst, Idle, Sampled
<1> SUFFICES ASSUME slow PROVE IdleTracks'
  BY <1>1 DEF Tracking, SamplingTracks, SampleTracks, Decode, knob
<1>2. PICK e \in {-1, 0, 1}, x \in Moved : Apart(e, x) /\ c = Phase(Counted + e)
  BY <1>1 DEF Tracking, SampleTracks
<1>3. PICK k \in -2..2 : phys = Counted + e + x + k * Revolution
  BY <1>2 DEF Apart
<1>4. PICK j \in -1..1 : Counted' = Counted + e + j * Revolution
  <2>1. dec \in DecoderType /\ origin \in 0..3 /\ dec.last = Phase(origin + dec.count)
    BY <1>0 DEF TypeOK, PhaseLocked
  <2>2. c = Phase(origin + 4 * dec.pos + dec.count + e)
    BY <1>2 DEF Counted
  <2>3. origin' = origin /\ dec' = Decoded(dec, c)
    BY DEF Decode
  <2> QED BY <2>1, <2>2, <2>3, DecodedCounts DEF Counted
<1>5. /\ phys' \in 0..(Revolution - 1) /\ phys' = phys
      /\ Counted' \in -3..(Revolution + 2) /\ Counted \in Int
      /\ x \in -1..1
  <2>1. Counted' \in -3..(Revolution + 2)
    BY <1>0, CountRange DEF TypeOK, Counted
  <2>2. Counted \in Int
    BY <1>0, CountedRange, Ring
  <2> QED BY <1>0, <2>1, <2>2 DEF Decode, knob, TypeOK, Moved
<1>6. phys' = Counted' + x + (k - j) * Revolution
  <2>1. (k - j) * Revolution = k * Revolution - j * Revolution
    BY Ring
  <2> QED BY <1>3, <1>4, <1>5, <2>1, Ring
<1>7. k - j \in -2..2
  <2>1. x \in -3..3 /\ k - j \in -4..4
    BY <1>5
  <2> QED BY <1>5, <1>6, <2>1, FewRounds
<1>8. phys' = Counted' + 0 + x + (k - j) * Revolution
  BY <1>5, <1>6, Ring
<1>9. Apart(0, x)' /\ x \in Moved'
  BY <1>2, <1>7, <1>8 DEF Apart, Moved, Decode, knob
<1> QED BY <1>9 DEF IdleTracks

\* The knob, whatever the poll is doing.
LEMMA NextTracking == Inv /\ Tracking /\ [Next]_vars => Tracking'
<1> SUFFICES ASSUME Inv, Tracking, [Next]_vars PROVE Tracking'
  OBVIOUS
<1>0. TypeOK
  BY DEF Inv
<1>1. CASE \E d \in {1, -1} : Turn(d)
  BY <1>0, <1>1, TurnTracking
<1>2. CASE (\E t \in PressTimes : Release(t)) \/ Take \/ UNCHANGED vars
  <2>1. UNCHANGED <<knob, pc, job, c, dec, origin>>
    BY <1>2 DEF Release, Take, vars
  <2>2. PressesFirst' /\ (Idle' => Idle) /\ (Sampled' => Sampled)
    BY <2>1 DEF Tracking, PressesFirst, Idle, Sampled
  <2> QED BY <2>1, <2>2, SameTracking
<1>3. CASE Poll
  BY <1>0, <1>3, ReadATracking, ReadBTracking, HandlingTracking, DecodeTracking DEF Poll
<1> QED BY <1>1, <1>2, <1>3 DEF Next

\* A position that many revolutions and at most one quarter step away.
LEMMA OneStepOff ==
  ASSUME NEW x \in {-1, 0, 1}, NEW k \in -2..2
  PROVE  (x + k * Revolution) % Revolution \in {0, 1, Revolution - 1}
<1> DEFINE R == Revolution
<1>1. R \in Nat /\ R >= 4
  BY Ring
<1> HIDE DEF R
<1>2. ASSUME NEW r \in 0..(R - 1) PROVE (r + k * R) % R = r
  BY <1>1, <1>2
<1>3. ASSUME NEW r \in 0..(R - 1) PROVE (r - R + k * R) % R = r
  BY <1>1, <1>3
<1> QED BY <1>1, <1>2, <1>3 DEF R

\* DecoderTracksKnob: with a slow knob the decoder is never more than the last
\* quarter step behind, however the reads and the step are ordered.
THEOREM DecoderFollows == Spec => []DecoderTracksKnob
<1>1. Init => Tracking
  BY InitTracking
<1>2. Inv /\ Tracking /\ [Next]_vars => Tracking'
  BY NextTracking
<1>3. Inv /\ Tracking => DecoderTracksKnob
  <2> SUFFICES ASSUME Inv, Tracking, slow, pc = "A"
               PROVE  Offset \in {0, 1, Revolution - 1}
    BY DEF DecoderTracksKnob
  <2>1. PICK x \in Moved : Apart(0, x)
    BY DEF Tracking, IdleTracks, Idle
  <2>2. PICK k \in -2..2 : phys = Counted + 0 + x + k * Revolution
    BY <2>1 DEF Apart
  <2>3. phys - Counted = x + k * Revolution /\ x \in {-1, 0, 1}
    BY <2>2, CountedRange, Ring DEF Inv, Moved
  <2> QED BY <2>3, OneStepOff DEF Offset
<1> QED BY <1>1, <1>2, <1>3, Invariance, PTL DEF Spec
-----------------------------------------------------------------------------
(***************************************************************************)
(* The panel: every step of it is one of the encoder's or leaves the       *)
(* encoder alone.                                                          *)
(***************************************************************************)

\* Reading, handling and decoding.
LEMMA SampleStep == Sample => Next
  BY DEF Sample, Next, Poll

\* A call to the display is the encoder's send.
LEMMA CallStep == Call => Next
  BY DEF Call, Next, Poll

\* The user's inputs are the encoder's, counted.
LEMMA InputStep == Input => Next
  BY DEF Input, Next

\* A pass with an event takes it from the queue; one without leaves the queue, and
\* so do the further steps of a confirmation.
LEMMA PassStep == Pass => Next \/ UNCHANGED vars
<1> SUFFICES ASSUME Pass PROVE Next \/ UNCHANGED vars
  OBVIOUS
<1>1. CASE DA!PassEvent
  <2>1. Take
    BY <1>1 DEF Pass, DA!PassEvent, DA!Pass, Take, encoder, knob
  <2> QED
    BY <2>1 DEF Next
<1>2. CASE DA!PassQuiet \/ DA!MakeCall \/ DA!EndConfirm
  BY <1>2 DEF Pass, DA!PassQuiet, DA!MakeCall, DA!EndConfirm, encoder, vars, knob
<1> QED
  BY <1>1, <1>2 DEF Pass, DA!Display

\* Those who change FanState do not touch the encoder.
LEMMA ElsewhereStep == Elsewhere => UNCHANGED vars
  BY DEF Elsewhere, DA!UpdateClock, DA!TwinCall, encoder, vars, knob

\* No step of the panel is foreign to the encoder.
LEMMA PanelStep == [PanelNext]_panel => [Next]_vars
<1> SUFFICES ASSUME [PanelNext]_panel PROVE Next \/ UNCHANGED vars
  OBVIOUS
<1>1. CASE Input BY <1>1, InputStep
<1>2. CASE PanelPoll BY <1>2, SampleStep, CallStep DEF PanelPoll
<1>3. CASE Pass BY <1>3, PassStep
<1>4. CASE Elsewhere BY <1>4, ElsewhereStep
<1>5. CASE UNCHANGED panel
  BY <1>5 DEF panel, encoder, vars, knob
<1> QED
  BY <1>1, <1>2, <1>3, <1>4, <1>5 DEF PanelNext

\* Together with the display, whatever it does with the events and when, the
\* encoder behaves as its own module says (DisplayAgent.cpp:85): what
\* is proved of it above holds in the panel.
THEOREM EncoderImplemented == PanelSpec => EncoderSpec
<1>1. PanelInit => Init
  BY DEF PanelInit
<1>2. [PanelNext]_panel => [Next]_vars
  BY PanelStep
<1> QED
  BY <1>1, <1>2, PTL DEF PanelSpec, EncoderSpec, Spec

-----------------------------------------------------------------------------
(***************************************************************************)
(* What the inputs pay for: events sent, presses in their flags or in hand *)
(* and phases that changed since they were read or decoded.                *)
(***************************************************************************)
One(b) == IF b THEN 1 ELSE 0
BitA(x) == x \div 2
BitB(x) == x % 2
Way(from, by, to) == One(from # by) + One(by # to)

\* The last reading of each phase, which follows the knob until there is one.
ReadingA == IF Idle THEN BitA(Phase(phys)) ELSE BitA(c)
ReadingB == IF Sampled THEN BitB(c) ELSE BitB(Phase(phys))
\* Presses and turns not yet sent.
InHand == One(flag["short"]) + One(flag["long"]) + One(pc \in {"send", "wait"})
\* Changes of a phase since the decoder's, on the way over its last reading.
FlipsA == Way(BitA(dec.last), ReadingA, BitA(Phase(phys)))
FlipsB == Way(BitB(dec.last), ReadingB, BitB(Phase(phys)))

\* A flag about to be cleared is set, and the inputs cover it all.
ClearsSet == pc = "clear" => flag[job]
Paid ==
  /\ ClearsSet
  /\ events \in Nat /\ inputs \in Nat /\ inputs <= MaxInputs
  /\ events + InHand + FlipsA + FlipsB <= inputs

\* A quarter step changes one phase.
LEMMA OneFlip ==
  ASSUME NEW p \in Int, NEW x \in {-1, 1}
  PROVE  One(BitA(Phase(p)) # BitA(Phase(p + x))) + One(BitB(Phase(p)) # BitB(Phase(p + x))) = 1
<1>1. p % 4 \in 0..3 /\ (p + x) % 4 = IF x = 1 THEN (IF p % 4 = 3 THEN 0 ELSE (p % 4) + 1)
                                       ELSE (IF p % 4 = 0 THEN 3 ELSE (p % 4) - 1)
  OBVIOUS
<1> USE DEF One, BitA, BitB
<1>2. CASE p % 4 = 0
  <2>1. Phase(p) = 0 /\ Phase(p + x) = IF x = 1 THEN 2 ELSE 1
    BY <1>1, <1>2 DEF Phase
  <2> QED BY <2>1
<1>3. CASE p % 4 = 1
  <2>1. Phase(p) = 2 /\ Phase(p + x) = IF x = 1 THEN 3 ELSE 0
    BY <1>1, <1>3 DEF Phase
  <2> QED BY <2>1
<1>4. CASE p % 4 = 2
  <2>1. Phase(p) = 3 /\ Phase(p + x) = IF x = 1 THEN 1 ELSE 2
    BY <1>1, <1>4 DEF Phase
  <2> QED BY <2>1
<1>5. CASE p % 4 = 3
  <2>1. Phase(p) = 1 /\ Phase(p + x) = IF x = 1 THEN 0 ELSE 3
    BY <1>1, <1>5 DEF Phase
  <2> QED BY <2>1
<1> QED BY <1>1, <1>2, <1>3, <1>4, <1>5

\* So does a step the decoder counts.
LEMMA OneDecoded ==
  ASSUME NEW last \in 0..3, NEW x \in {xCW(last), xCCW(last)}
  PROVE  One(BitA(last) # BitA(x)) + One(BitB(last) # BitB(x)) = 1
BY DEF xCW, xCCW, One, BitA, BitB

\* The values the accounts are kept in.
LEMMA AccountTypes ==
  ASSUME TypeOK
  PROVE  /\ InHand \in 0..3 /\ FlipsA \in 0..2 /\ FlipsB \in 0..2
BY DEF InHand, FlipsA, FlipsB, Way, One

\* An account is at most lengthened by a change of its end, and not by leaving out
\* its middle.
LEMMA Detour ==
  ASSUME NEW from, NEW by, NEW to
  PROVE  /\ \A end : Way(from, by, end) <= Way(from, by, to) + One(to # end)
         /\ \A end : Way(from, end, end) <= Way(from, to, to) + One(to # end)
         /\ Way(from, to, to) <= Way(from, by, to)
         /\ Way(by, to, to) + One(from # by) = Way(from, by, to)
BY DEF Way, One

\* A quarter step pays for one change of phase, a press for one flag.
LEMMA InputPaid == ASSUME Inv, Tracking, Paid, Input PROVE Paid'
<1>0. TypeOK
  BY DEF Inv
<1>1. events' = events /\ inputs' = inputs + 1 /\ inputs' \in Nat /\ inputs' <= MaxInputs
  BY InputsAssumption DEF Input, display, Paid
<1>2. CASE \E d \in {1, -1} : Turn(d)
  <2>1. PICK d \in {1, -1} : Turn(d)
    BY <1>2
  <2>2. ClearsSet' /\ InHand' = InHand
    BY <2>1 DEF Turn, Paid, ClearsSet, InHand
  <2>3. Phase(phys') = Phase(phys + d) /\ phys \in Int
    <3>1. phys \in 0..(Revolution - 1) /\ phys' = (phys + d) % Revolution
      BY <1>0, <2>1 DEF TypeOK, Turn
    <3>2. phys + d \in Int /\ phys \in Int
      BY <3>1, Ring
    <3>3. PICK j \in -1..1 : phys' = phys + d + j * Revolution
      BY <3>1, QuarterStep
    <3>4. j \in -2..2
      OBVIOUS
    <3> QED BY <3>2, <3>3, <3>4, PhasePeriodic
  <2> DEFINE a == One(BitA(Phase(phys)) # BitA(Phase(phys')))
             b == One(BitB(Phase(phys)) # BitB(Phase(phys')))
  <2>4. a + b = 1 /\ a \in 0..1 /\ b \in 0..1
    <3>1. a + b = 1
      BY <2>3, OneFlip
    <3> QED BY <3>1 DEF One
  <2>5. FlipsA' <= FlipsA + a /\ FlipsB' <= FlipsB + b
    <3>1. Idle' = Idle /\ Sampled' = Sampled /\ UNCHANGED <<dec, c>>
      BY <2>1 DEF Turn, Idle, Sampled
    <3> QED BY <3>1, Detour DEF FlipsA, FlipsB, ReadingA, ReadingB
  <2> HIDE DEF a, b
  <2>6. FlipsA' \in 0..2 /\ FlipsB' \in 0..2
    BY DEF FlipsA, FlipsB, Way, One
  <2> QED BY <1>0, <1>1, <2>2, <2>4, <2>5, <2>6, AccountTypes DEF Paid
<1>3. CASE \E t \in PressTimes : Release(t)
  <2>1. PICK t \in PressTimes : Release(t)
    BY <1>3
  <2>2. ~(Released("short", t) /\ Released("long", t))
    BY PressAssumption DEF Released, LONGPRESSMSEC, MINSHORTPRESSMSEC
  <2>3. /\ flag'["short"] = (flag["short"] \/ Released("short", t))
        /\ flag'["long"] = (flag["long"] \/ Released("long", t))
        /\ UNCHANGED <<knob, pc, job, c, dec>>
    BY <2>1 DEF Release
  <2>4. InHand' <= InHand + 1
    <3>1. /\ ~Released("short", t) => flag'["short"] = flag["short"]
          /\ ~Released("long", t) => flag'["long"] = flag["long"]
      BY <1>0, <2>3, Zenon DEF TypeOK
    <3>2. \A k \in Presses : One(flag[k]) \in 0..1 /\ One(flag'[k]) \in 0..1
      BY DEF One
    <3>3. One(pc' \in {"send", "wait"}) = One(pc \in {"send", "wait"})
      BY <2>3
    <3>4. One(pc \in {"send", "wait"}) \in 0..1
      BY DEF One
    <3> QED BY <2>2, <3>1, <3>2, <3>3, <3>4 DEF InHand
  <2>5. FlipsA' = FlipsA /\ FlipsB' = FlipsB
    BY <2>3 DEF FlipsA, FlipsB, ReadingA, ReadingB, Idle, Sampled, knob
  <2>6. ClearsSet'
    <3>1. ASSUME pc = "clear" PROVE flag'[job]
      <4>1. flag[job] /\ job \in Presses
        BY <3>1 DEF Paid, ClearsSet, Tracking, PressesFirst
      <4> QED BY <2>3, <4>1, Zenon
    <3> QED BY <2>3, <3>1 DEF ClearsSet
  <2>7. InHand' \in 0..3
    BY DEF InHand, One
  <2> QED BY <1>0, <1>1, <2>4, <2>5, <2>6, <2>7, AccountTypes DEF Paid
<1> QED BY <1>2, <1>3 DEF Input

\* Reading a phase leaves its account as it was: the reading is the phase.
LEMMA ReadsPaid == ASSUME Inv, Paid, Sample, ReadA \/ ReadB PROVE Paid'
<1>0. TypeOK /\ phys \in Int
  BY TicksAssumption DEF Inv, TypeOK, Revolution
<1>1. UNCHANGED <<phys, flag, dec, events, inputs>>
  BY DEF Sample, ReadA, ReadB, display
<1>2. CASE ReadA
  <2>1. Idle /\ ~Sampled /\ ~Idle' /\ ~Sampled' /\ pc' = "B" /\ pc = "A"
    BY <1>2 DEF ReadA, Idle, Sampled
  <2>2. BitA(c') = BitA(Phase(phys))
    <3>1. Phase(phys) \in 0..3 /\ c' = 2 * (Phase(phys) \div 2)
      BY <1>0, <1>2, PhaseBits DEF ReadA
    <3> QED BY <3>1 DEF BitA
  <2>3. InHand' = InHand /\ FlipsA' = FlipsA /\ FlipsB' = FlipsB
    BY <1>1, <2>1, <2>2 DEF InHand, FlipsA, FlipsB, ReadingA, ReadingB
  <2> QED BY <1>1, <2>1, <2>3 DEF Paid, ClearsSet
<1>3. CASE ReadB
  <2>1. ~Idle /\ ~Sampled /\ ~Idle' /\ Sampled' /\ pc' = "test" /\ pc = "B"
    BY <1>3 DEF ReadB, Idle, Sampled
  <2>2. BitA(c') = BitA(c) /\ BitB(c') = BitB(Phase(phys))
    <3>1. c \in {0, 2} /\ c' = c + (Phase(phys) % 2) /\ Phase(phys) % 2 \in {0, 1}
      BY <1>0, <1>3, PhaseBits DEF Inv, ReadB
    <3>2. c' \div 2 = c \div 2 /\ c' % 2 = Phase(phys) % 2
      BY <3>1
    <3> QED BY <3>2 DEF BitA, BitB
  <2>3. InHand' = InHand /\ FlipsA' = FlipsA /\ FlipsB' = FlipsB
    BY <1>1, <2>1, <2>2 DEF InHand, FlipsA, FlipsB, ReadingA, ReadingB
  <2> QED BY <1>1, <2>1, <2>3 DEF Paid, ClearsSet
<1> QED BY <1>2, <1>3

\* A step of the handling leaves the accounts of the phases alone when the poll
\* stays in its part of the loop.
LEMMA SameFlips ==
  ASSUME UNCHANGED <<phys, c, dec>>, Idle' <=> Idle, Sampled' <=> Sampled
  PROVE  FlipsA' = FlipsA /\ FlipsB' = FlipsB
BY DEF FlipsA, FlipsB, ReadingA, ReadingB

\* A flag found set is still set when it is cleared.
LEMMA TestPaid == ASSUME Inv, Tracking, Paid, Sample, Test PROVE Paid'
<1>0. TypeOK /\ pc = "test" /\ job \in Presses
  BY DEF Inv, Tracking, PressesFirst, Test
<1>1. UNCHANGED <<phys, flag, c, dec, events, inputs>>
  BY DEF Sample, Test, display, knob
<1>2. (pc' = "clear" /\ job' = job /\ flag[job]) \/ pc' \in {"test", "decode"}
  <2>1. CASE flag[job]
    BY <2>1, GoToStep DEF Test, After
  <2>2. CASE ~flag[job]
    BY <1>0, <2>2, JobDone DEF Test
  <2> QED BY <2>1, <2>2
<1>3. ~Idle /\ Sampled /\ ~Idle' /\ Sampled'
  BY <1>0, <1>2 DEF Idle, Sampled
<1>4. FlipsA' = FlipsA /\ FlipsB' = FlipsB
  BY <1>1, <1>3, SameFlips
<1>5. InHand' = InHand
  BY <1>0, <1>1, <1>2 DEF InHand
<1> QED BY <1>1, <1>2, <1>4, <1>5 DEF Paid, ClearsSet

\* The press goes from its flag into the poll's hands.
LEMMA ClearPaid == ASSUME Inv, Tracking, Paid, Sample, Clear PROVE Paid'
<1>0. TypeOK /\ pc = "clear" /\ job \in Presses /\ flag[job]
  BY DEF Inv, Tracking, PressesFirst, Paid, ClearsSet, Clear
<1>1. UNCHANGED <<phys, c, dec, events, inputs>> /\ pc' = "send" /\ job' = job
  BY GoToStep DEF Sample, Clear, display, knob, After
<1>2. ~Idle /\ Sampled /\ ~Idle' /\ Sampled'
  BY <1>0, <1>1 DEF Idle, Sampled
<1>3. FlipsA' = FlipsA /\ FlipsB' = FlipsB
  BY <1>1, <1>2, SameFlips
<1>4. InHand' = InHand
  <2>1. flag' = [flag EXCEPT ![job] = FALSE] /\ flag \in [Presses -> BOOLEAN]
    BY <1>0 DEF Clear, TypeOK
  <2>2. ~flag'[job] /\ \A k \in Presses : k # job => flag'[k] = flag[k]
    BY <1>0, <2>1
  <2>3. CASE job = "short"
    BY <1>0, <1>1, <2>2, <2>3 DEF InHand, One
  <2>4. CASE job = "long"
    BY <1>0, <1>1, <2>2, <2>4 DEF InHand, One
  <2> QED BY <1>0, <2>3, <2>4
<1> QED BY <1>1, <1>3, <1>4 DEF Paid, ClearsSet

\* The books balance when no account grows, or the press or turn taken in hand is
\* paid for by a phase.
LEMMA Balance ==
  ASSUME Paid, UNCHANGED <<events, inputs>>, ClearsSet',
         InHand' \in 0..3, FlipsA' \in 0..2, FlipsB' \in 0..2,
         InHand \in 0..3, FlipsA \in 0..2, FlipsB \in 0..2,
         NEW a \in 0..1, NEW b \in 0..1,
         InHand' <= InHand + a + b, FlipsA' + a <= FlipsA, FlipsB' + b <= FlipsB
  PROVE  Paid'
<1> DEFINE h == InHand'
           fa == FlipsA'
           fb == FlipsB'
           h0 == InHand
           fa0 == FlipsA
           fb0 == FlipsB
<1>1. /\ h \in 0..3 /\ fa \in 0..2 /\ fb \in 0..2
      /\ h0 \in 0..3 /\ fa0 \in 0..2 /\ fb0 \in 0..2
      /\ h <= h0 + a + b /\ fa + a <= fa0 /\ fb + b <= fb0
  OBVIOUS
<1>2. events + h0 + fa0 + fb0 <= inputs /\ events \in Nat /\ inputs \in Nat
  BY DEF Paid
<1> HIDE DEF h, fa, fb, h0, fa0, fb0
<1>3. events + h + fa + fb <= inputs
  BY <1>1, <1>2
<1> QED BY <1>3 DEF Paid, h, fa, fb

\* A turn is paid for by the change of phase that is its last quarter step.
LEMMA DecodePaid == ASSUME Inv, Tracking, Paid, Sample, Decode PROVE Paid'
<1>0. /\ TypeOK /\ pc = "decode" /\ ~Idle /\ Sampled
      /\ dec \in DecoderType /\ dec.last \in 0..3 /\ c \in 0..3
  BY DEF Inv, TypeOK, DecoderType, Tracking, PressesFirst, Decode, Idle, Sampled
<1>1. UNCHANGED <<phys, flag, c, events, inputs>> /\ dec' = Decoded(dec, c)
  BY DEF Sample, Decode, display, knob
<1>2. Idle' /\ ~Sampled' /\ pc' \in {"A", "send"}
  BY DEF Decode, Idle, Sampled
<1> DEFINE a == One(BitA(dec.last) # BitA(c))
           b == One(BitB(dec.last) # BitB(c))
<1>3. ClearsSet'
  BY <1>2 DEF ClearsSet
<1>4. /\ InHand' \in 0..3 /\ FlipsA' \in 0..2 /\ FlipsB' \in 0..2
      /\ InHand \in 0..3 /\ FlipsA \in 0..2 /\ FlipsB \in 0..2
  BY DEF InHand, FlipsA, FlipsB, Way, One
<1>6. CASE c \in {xCW(dec.last), xCCW(dec.last)}
  <2>1. dec'.last = c
    <3>1. \/ dec' = [Clockwise(dec) EXCEPT !.last = c]
          \/ dec' = [Withershins(dec) EXCEPT !.last = c]
      BY <1>1, <1>6 DEF Decoded
    <3>2. "last" \in DOMAIN Clockwise(dec) /\ "last" \in DOMAIN Withershins(dec)
      BY <1>0 DEF DecoderType, Clockwise, Withershins
    <3> QED BY <3>1, <3>2
  <2>2. a + b = 1 /\ a \in 0..1 /\ b \in 0..1
    <3>1. a + b = 1
      BY <1>0, <1>6, OneDecoded
    <3> QED BY <3>1 DEF One
  <2>3. FlipsA' + a <= FlipsA /\ FlipsB' + b <= FlipsB
    BY <1>0, <1>1, <1>2, <2>1, Detour DEF FlipsA, FlipsB, ReadingA, ReadingB, Way, One
  <2>4. InHand' <= InHand + a + b
    <3>1. One(flag["short"]) \in 0..1 /\ One(flag["long"]) \in 0..1
      BY DEF One
    <3>2. InHand + a + b = InHand + 1
      BY <1>4, <2>2
    <3> HIDE DEF a, b
    <3>3. InHand' <= InHand + 1
      BY <1>0, <1>1, <3>1 DEF InHand, One
    <3> QED BY <3>2, <3>3
  <2> HIDE DEF a, b
  <2> QED BY <1>1, <1>3, <1>4, <2>2, <2>3, <2>4, Balance
<1>7. CASE c \notin {xCW(dec.last), xCCW(dec.last)}
  <2>1. dec' = dec /\ pc' = "A"
    <3>1. dec' = dec
      BY <1>1, <1>7 DEF Decoded
    <3> QED BY <3>1 DEF Decode
  <2>2. FlipsA' + 0 <= FlipsA /\ FlipsB' + 0 <= FlipsB
    BY <1>0, <1>1, <1>2, <2>1, Detour DEF FlipsA, FlipsB, ReadingA, ReadingB, Way, One
  <2>3. InHand' <= InHand + 0 + 0
    BY <1>0, <1>1, <2>1 DEF InHand, One
  <2>4. 0 \in 0..1
    OBVIOUS
  <2> QED BY <1>1, <1>3, <1>4, <2>2, <2>3, <2>4, Balance
<1> QED BY <1>6, <1>7

\* An event leaves the poll's hands when it is sent or dropped.
LEMMA CallPaid == ASSUME Inv, Paid, Call PROVE Paid'
<1>0. TypeOK /\ pc \in {"send", "wait"} /\ job \in Events
  BY DEF Inv, TypeOK, Call, Send, Wait
<1>1. UNCHANGED <<phys, flag, c, dec, inputs>>
  BY DEF Call, Send, Wait, knob
<1>2. \/ pc' = "wait" /\ job' = job
      \/ GoTo("next")
  <2>1. Returned = "next"
    BY DEF Returned, After
  <2> QED BY <2>1, GoToStep DEF Call, Send, Wait
<1>3. (Idle' <=> Idle) /\ (Sampled' <=> Sampled) /\ pc' \in {"wait", "test", "decode", "A"}
  BY <1>0, <1>2, JobDone DEF Idle, Sampled
<1>4. FlipsA' = FlipsA /\ FlipsB' = FlipsB
  BY <1>1, <1>3, SameFlips
<1>5. events' + InHand' = events + InHand
  <2>1. One(flag["short"]) \in 0..1 /\ One(flag["long"]) \in 0..1 /\ events \in Nat
    BY DEF One, Paid
  <2> QED BY <1>0, <1>1, <1>3, <2>1 DEF InHand, One, Call
<1>6. events' \in Nat /\ ClearsSet'
  BY <1>3 DEF Call, Paid, ClearsSet
<1> QED BY <1>0, <1>1, <1>4, <1>5, <1>6, AccountTypes DEF Paid

\* At rest nothing is owed.
LEMMA InitPaid == PanelInit => Paid
<1> SUFFICES ASSUME PanelInit PROVE Paid
  OBVIOUS
<1> USE DEF PanelInit, Init, DA!Init
<1>1. events = 0 /\ inputs = 0 /\ 0 <= MaxInputs
  BY InputsAssumption
<1>2. InHand = 0
  BY DEF InHand, One
<1>3. FlipsA = 0 /\ FlipsB = 0
  BY DEF FlipsA, FlipsB, ReadingA, ReadingB, Idle, Sampled, Way, One
<1>4. ClearsSet
  BY DEF ClearsSet
<1> QED BY <1>1, <1>2, <1>3, <1>4 DEF Paid

\* Every step of the panel is paid for.
LEMMA NextPaid == Inv /\ Tracking /\ Paid /\ [PanelNext]_panel => Paid'
<1> SUFFICES ASSUME Inv, Tracking, Paid, [PanelNext]_panel PROVE Paid'
  OBVIOUS
<1>1. CASE Input
  BY <1>1, InputPaid
<1>2. CASE Sample
  BY <1>2, ReadsPaid, TestPaid, ClearPaid, DecodePaid DEF Sample
<1>3. CASE Call
  BY <1>3, CallPaid
<1>4. CASE Pass \/ Elsewhere \/ UNCHANGED panel
  <2>1. UNCHANGED <<encoder, inputs, events>>
    BY <1>4 DEF Pass, Elsewhere, DA!Display, DA!PassEvent, DA!PassQuiet, DA!Pass, DA!MakeCall,
                DA!EndConfirm, DA!UpdateClock, DA!TwinCall, panel, display
  <2> QED BY <2>1 DEF Paid, ClearsSet, InHand, FlipsA, FlipsB, ReadingA, ReadingB, Idle,
                      Sampled, encoder, knob
<1> QED BY <1>1, <1>2, <1>3, <1>4 DEF PanelNext, PanelPoll

\* Inv, Tracking and Paid: the encoder's invariants hold in the panel, and every
\* event, press in hand and phase to be decoded has an input that paid for it.
THEOREM EveryEventIsPaid == PanelSpec => [](Inv /\ Tracking /\ Paid)
<1>1. PanelInit => Inv /\ Tracking /\ Paid
  BY InitInv, InitTracking, InitPaid DEF PanelInit
<1>2. Inv /\ Tracking /\ Paid /\ [PanelNext]_panel => (Inv /\ Tracking /\ Paid)'
  BY PanelStep, NextInv, NextTracking, NextPaid
<1> QED BY <1>1, <1>2, PTL DEF PanelSpec

\* NoPhantomEvent: no press is handled twice, and no shaking edge makes a turn.
THEOREM NoPhantoms == PanelSpec => []NoPhantomEvent
<1>1. Inv /\ Tracking /\ Paid => NoPhantomEvent
  <2> SUFFICES ASSUME TypeOK, Paid PROVE events <= inputs
    BY DEF Inv, NoPhantomEvent
  <2> QED BY AccountTypes DEF Paid
<1> QED BY <1>1, EveryEventIsPaid, PTL

\* A call that ends is one of the display's Post, and has an input left to pay for
\* it; one that waits leaves the display alone.
LEMMA CallPosts ==
  ASSUME TypeOK, Paid, Call
  PROVE  DA!Next \/ UNCHANGED DA!vars
<1>1. job \in DA!Events /\ pc \in {"send", "wait"}
  BY DEF TypeOK, DA!Events, Call, Send, Wait
<1>2. Returned = "next"
  BY DEF Returned, After
<1>3. CASE Send /\ Len(queue) >= QueueLength
  <2>1. pc' = "wait" /\ queue' = queue
    BY <1>3, GoToStep, QueueAssumption DEF TypeOK, Send
  <2> QED BY <2>1 DEF Call, DA!vars
<1>4. CASE ~(Send /\ Len(queue) >= QueueLength)
  <2>1. GoTo("next") /\ queue' = IF Len(queue) < QueueLength THEN Append(queue, job) ELSE queue
    BY <1>2, <1>4, QueueAssumption DEF TypeOK, Call, Send, Wait
  <2>2. pc' # "wait"
    BY <2>1, GoToNext DEF TypeOK
  <2>3. events' = events + 1 /\ UNCHANGED <<ui, fs, confirming, calls>>
    BY <2>2 DEF Call
  <2>4. events < MaxEvents
    <3>1. One(pc \in {"send", "wait"}) = 1
      BY <1>1 DEF One
    <3>2. InHand >= 1
      BY <3>1 DEF InHand, One
    <3> QED BY <3>2, AccountTypes, InputsAssumption DEF Paid
  <2>5. DA!Post(job)
    BY <2>1, <2>3, <2>4 DEF DA!Post
  <2> QED BY <1>1, <2>5 DEF DA!Next
<1> QED BY <1>3, <1>4

\* The inputs, the samples and the rest of the system, as the display sees them.
LEMMA OtherDisplaySteps ==
  ASSUME Input \/ Sample \/ Pass \/ Elsewhere \/ UNCHANGED panel
  PROVE  DA!Next \/ UNCHANGED DA!vars
<1>1. CASE Input \/ Sample \/ UNCHANGED panel
  BY <1>1 DEF Input, Turn, Release, Sample, ReadA, ReadB, Test, Clear, Decode, panel, display,
              DA!vars
<1>2. CASE Pass \/ Elsewhere
  BY <1>2 DEF Pass, Elsewhere, DA!Next
<1> QED BY <1>1, <1>2

\* The display, too, behaves in the panel as its own module says: the encoder posts
\* events one by one, drops one only with the queue full, and never more than the
\* user made (DisplayAgent.cpp:192-230).
THEOREM DisplayImplemented == PanelSpec => DisplaySpec
<1>1. PanelInit => DA!Init
  BY DEF PanelInit
<1>2. (Inv /\ Tracking /\ Paid) /\ [PanelNext]_panel => [DA!Next]_(DA!vars)
  <2> SUFFICES ASSUME TypeOK, Paid, [PanelNext]_panel PROVE DA!Next \/ UNCHANGED DA!vars
    BY DEF Inv
  <2>1. CASE Call
    BY <2>1, CallPosts
  <2>2. CASE Input \/ Sample \/ Pass \/ Elsewhere \/ UNCHANGED panel
    BY <2>2, OtherDisplaySteps
  <2> QED BY <2>1, <2>2 DEF PanelNext, PanelPoll
<1> QED BY <1>1, <1>2, EveryEventIsPaid, PTL DEF PanelSpec, DisplaySpec, DA!Spec

\* Encoder and display, joined by their queue (main.cpp:252), are what their modules
\* say, so every theorem about one of them holds in the panel.
THEOREM BothImplemented == PanelSpec => PartsImplemented
BY EncoderImplemented, DisplayImplemented DEF PartsImplemented

=============================================================================
