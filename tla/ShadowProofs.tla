---------------------------- MODULE ShadowProofs ----------------------------
(***************************************************************************)
(* Theorems about Shadow: its types, what the service knows of the device  *)
(* while it is attached, and what comes back after a restart.  The model   *)
(* applies the calls of a message in one step, by a function defined by    *)
(* recursion on their number; the first part of the proof is what such a   *)
(* sequence of calls does, by induction on its length.                     *)
(***************************************************************************)
EXTENDS Shadow, FanStateProofs, WellFoundedInduction

-----------------------------------------------------------------------------
\* Induction over the naturals as a fact about sets: the least number outside
\* the set would not be 0 and would not be a successor.
LEMMA SetInduction ==
  ASSUME NEW S, 0 \in S, \A n \in Nat : n \in S => n + 1 \in S
  PROVE  \A n \in Nat : n \in S
<1> DEFINE T == {n \in Nat : n \notin S}
<1> SUFFICES ASSUME T # {}
             PROVE  FALSE
  OBVIOUS
<1>1. T \subseteq Nat
  OBVIOUS
<1>2. PICK x \in T : \A y \in T : ~(<<y, x>> \in OpToRel(<, Nat))
  <2> HIDE DEF T
  <2> QED BY <1>1, NatLessThanWellFounded, WFMin
<1>3. \A y \in Nat : y < x => <<y, x>> \in OpToRel(<, Nat)
  BY DEF OpToRel
<1>4. x \in Nat /\ x # 0
  OBVIOUS
<1>5. x - 1 \in Nat /\ x - 1 < x /\ (x - 1) + 1 = x
  BY <1>4
<1>6. x - 1 \in T
  BY <1>5
<1> QED BY <1>2, <1>3, <1>5, <1>6

\* The states a sequence of calls goes through, as a function of how many of
\* them have been made.
IsRun(f, s, calls) ==
  f = [n \in 0..Len(calls) |->
         IF n = 0 THEN s ELSE Apply(f[n - 1], calls[n])]

\* There is one ...
LEMMA RunExists ==
  ASSUME NEW s, NEW S, NEW calls \in Seq(S)
  PROVE  \E f : IsRun(f, s, calls)
<1> DEFINE L == Len(calls)
           RunTo(f, m) == f = [n \in 0..m |->
                                 IF n = 0 THEN s ELSE Apply(f[n - 1], calls[n])]
           N == {m \in Nat : \E f : RunTo(f, m)}
<1>1. 0 \in N
  <2>1. RunTo([n \in 0..0 |-> s], 0)
    OBVIOUS
  <2> QED BY <2>1
<1>2. \A m \in Nat : m \in N => m + 1 \in N
  <2> HIDE DEF RunTo
  <2> SUFFICES ASSUME NEW m \in Nat, NEW f, RunTo(f, m)
               PROVE  \E g : RunTo(g, m + 1)
    OBVIOUS
  <2> DEFINE g == [n \in 0..(m + 1) |->
                     IF n = m + 1 THEN Apply(f[m], calls[m + 1]) ELSE f[n]]
  <2>1. \A n \in 0..(m + 1) : g[n] = IF n = 0 THEN s ELSE Apply(g[n - 1], calls[n])
    <3> TAKE n \in 0..(m + 1)
    <3>1. CASE n = m + 1
      BY <3>1
    <3>2. CASE n = 0
      BY <3>2 DEF RunTo
    <3>3. CASE n # 0 /\ n # m + 1
      <4>1. n \in 0..m /\ n - 1 \in 0..m /\ n - 1 # m + 1
        BY <3>3
      <4>2. g[n] = f[n] /\ g[n - 1] = f[n - 1]
        BY <3>3, <4>1
      <4>3. f[n] = Apply(f[n - 1], calls[n])
        BY <3>3, <4>1 DEF RunTo
      <4> HIDE DEF g
      <4> QED BY <3>3, <4>2, <4>3
    <3> QED BY <3>1, <3>2, <3>3
  <2>2. g = [n \in 0..(m + 1) |-> g[n]]
    OBVIOUS
  <2> HIDE DEF g
  <2>3. RunTo(g, m + 1)
    BY <2>1, <2>2 DEF RunTo
  <2> QED BY <2>3
<1>3. L \in Nat
  OBVIOUS
<1> HIDE DEF N
<1>4. L \in N
  BY <1>1, <1>2, <1>3, SetInduction
<1> QED BY <1>4 DEF N, IsRun

\* ... and ApplyCalls is where it ends.
LEMMA ApplyCallsRun ==
  ASSUME NEW s, NEW S, NEW calls \in Seq(S)
  PROVE  \E f : IsRun(f, s, calls) /\ ApplyCalls(s, calls) = f[Len(calls)]
<1> DEFINE after == CHOOSE f : f = [n \in 0..Len(calls) |->
                       IF n = 0 THEN s ELSE Apply(f[n - 1], calls[n])]
<1>1. \E f : f = [n \in 0..Len(calls) |->
                       IF n = 0 THEN s ELSE Apply(f[n - 1], calls[n])]
  <2>1. PICK f : IsRun(f, s, calls)
    BY RunExists
  <2> QED BY <2>1 DEF IsRun
<1>2. after = [n \in 0..Len(calls) |->
                  IF n = 0 THEN s ELSE Apply(after[n - 1], calls[n])]
  BY <1>1
<1>3. ApplyCalls(s, calls) = after[Len(calls)]
  BY DEF ApplyCalls
<1> HIDE DEF after
<1> QED BY <1>2, <1>3 DEF IsRun

\* No calls, no change.
LEMMA ApplyNone ==
  ASSUME NEW s
  PROVE  ApplyCalls(s, <<>>) = s
<1>1. <<>> \in Seq({}) /\ Len(<<>>) = 0
  OBVIOUS
<1>2. PICK f : IsRun(f, s, <<>>) /\ ApplyCalls(s, <<>>) = f[0]
  BY <1>1, ApplyCallsRun
<1> QED BY <1>1, <1>2 DEF IsRun

\* One more call is applied to what the calls before it leave.
LEMMA ApplyOneMore ==
  ASSUME NEW s, NEW S, NEW calls \in Seq(S), NEW c \in S
  PROVE  ApplyCalls(s, Append(calls, c)) = Apply(ApplyCalls(s, calls), c)
<1> DEFINE more == Append(calls, c)
           L == Len(calls)
<1>1. /\ more \in Seq(S) /\ Len(more) = L + 1 /\ L \in Nat
      /\ more[L + 1] = c
      /\ \A n \in 1..L : more[n] = calls[n]
  OBVIOUS
<1> HIDE DEF more, L
<1>2. PICK f : IsRun(f, s, calls) /\ ApplyCalls(s, calls) = f[L]
  BY ApplyCallsRun DEF L
<1>3. PICK g : IsRun(g, s, more) /\ ApplyCalls(s, more) = g[L + 1]
  BY <1>1, ApplyCallsRun
<1>4. \A n \in 0..L : f[n] = IF n = 0 THEN s ELSE Apply(f[n - 1], calls[n])
  BY <1>2 DEF IsRun, L
<1>5. \A n \in 0..(L + 1) : g[n] = IF n = 0 THEN s ELSE Apply(g[n - 1], more[n])
  BY <1>1, <1>3 DEF IsRun
<1> DEFINE N == {n \in Nat : n <= L => f[n] = g[n]}
<1>6. 0 \in N
  BY <1>1, <1>4, <1>5
<1>7. \A n \in Nat : n \in N => n + 1 \in N
  <2> SUFFICES ASSUME NEW n \in Nat, n \in N, n + 1 <= L
               PROVE  f[n + 1] = g[n + 1]
    OBVIOUS
  <2>1. n + 1 \in 1..L /\ n + 1 # 0 /\ (n + 1) - 1 = n
    BY <1>1
  <2>2. n + 1 \in 0..L /\ n + 1 \in 0..(L + 1)
    BY <1>1
  <2>3. f[n] = g[n]
    BY <1>1
  <2> HIDE DEF N
  <2>4. f[n + 1] = Apply(f[n], calls[n + 1])
    BY <1>4, <2>1, <2>2
  <2>5. g[n + 1] = Apply(g[n], more[n + 1])
    BY <1>5, <2>1, <2>2
  <2> QED BY <1>1, <2>1, <2>3, <2>4, <2>5
<1> HIDE DEF N
<1>8. L \in N
  BY <1>1, <1>6, <1>7, SetInduction
<1>9. f[L] = g[L]
  BY <1>1, <1>8 DEF N
<1>10. g[L + 1] = Apply(g[L], more[L + 1])
  <2>1. L + 1 \in 0..(L + 1) /\ L + 1 # 0 /\ (L + 1) - 1 = L
    BY <1>1
  <2> QED BY <1>5, <2>1
<1> QED BY <1>1, <1>2, <1>3, <1>9, <1>10 DEF more

-----------------------------------------------------------------------------
\* Whatever calls are made, the object keeps its type and its speeds stay
\* percentages.
LEMMA ApplyCallsType ==
  ASSUME NEW s \in FanStateType, SpeedsArePercent(s), NEW calls \in Seq(Calls)
  PROVE  ApplyCalls(s, calls) \in FanStateType /\ SpeedsArePercent(ApplyCalls(s, calls))
<1> DEFINE L == Len(calls)
<1>1. PICK f : IsRun(f, s, calls) /\ ApplyCalls(s, calls) = f[L]
  BY ApplyCallsRun
<1>2. L \in Nat /\ \A n \in 1..L : calls[n] \in Calls
  OBVIOUS
<1>3. \A n \in 0..L : f[n] = IF n = 0 THEN s ELSE Apply(f[n - 1], calls[n])
  BY <1>1 DEF IsRun
<1> HIDE DEF L
<1> DEFINE N == {n \in Nat : n <= L => f[n] \in FanStateType /\ SpeedsArePercent(f[n])}
<1>4. 0 \in N
  BY <1>2, <1>3
<1>5. \A n \in Nat : n \in N => n + 1 \in N
  <2> SUFFICES ASSUME NEW n \in Nat, n \in N, n + 1 <= L
               PROVE  f[n + 1] \in FanStateType /\ SpeedsArePercent(f[n + 1])
    OBVIOUS
  <2>1. f[n] \in FanStateType /\ SpeedsArePercent(f[n])
    BY <1>2
  <2>2. n + 1 \in 0..L /\ n + 1 \in 1..L /\ n + 1 # 0 /\ (n + 1) - 1 = n
    BY <1>2
  <2>3. f[n + 1] = Apply(f[n], calls[n + 1]) /\ calls[n + 1] \in Calls
    BY <1>2, <1>3, <2>2
  <2> QED BY <2>1, <2>3, ApplyType
<1> HIDE DEF N
<1>6. L \in N
  BY <1>2, <1>4, <1>5, SetInduction
<1> QED BY <1>1, <1>2, <1>6 DEF N

\* A call changes no part of the configuration but its own.
LEMMA ApplyKeeps ==
  ASSUME NEW s \in FanStateType, NEW c \in Calls, NEW p \in Configuration, c.op # p
  PROVE  ToJson(Apply(s, c))[p] = ToJson(s)[p]
<1> DEFINE Same(t) == /\ p = "on" => t.on = s.on
                      /\ p = "days" => t.dayStart = s.dayStart
                      /\ p = "daye" => t.dayEnd = s.dayEnd
                      /\ p = "maxSpeed" => t.mSpeed = s.mSpeed
                      /\ p = "preTemp" => t.preTemp = s.preTemp
                      /\ p = "preSpeed" => t.preSpeed = s.preSpeed
<1>1. \A t : Same(t) => ToJson(t)[p] = ToJson(s)[p]
  BY DEF ToJson, Configuration
<1>2. Same(s)
  OBVIOUS
<1>3. Same(Store(s, c))
  <2>1. CASE c.op = "on"
    BY <2>1 DEF Store, FanStateType
  <2>2. CASE c.op = "day"
    BY <2>2 DEF Store, FanStateType
  <2>3. CASE c.op = "days"
    BY <2>3 DEF Store, FanStateType
  <2>4. CASE c.op = "daye"
    BY <2>4 DEF Store, FanStateType
  <2>5. CASE c.op = "cSpeed"
    BY <2>5 DEF Store, FanStateType
  <2>6. CASE c.op = "maxSpeed"
    BY <2>6 DEF Store, FanStateType
  <2>7. CASE c.op = "preTemp"
    BY <2>7 DEF Store, FanStateType
  <2>8. CASE c.op = "preSpeed"
    BY <2>8 DEF Store, FanStateType
  <2>9. CASE c.op = "override"
    BY <2>9 DEF Store, FanStateType
  <2> QED BY <2>1, <2>2, <2>3, <2>4, <2>5, <2>6, <2>7, <2>8, <2>9 DEF Calls
<1> HIDE DEF Same
<1> QED BY <1>1, <1>2, <1>3 DEF Apply

\* So a part that no accepted call of a sequence is about stays what it is.
LEMMA ApplyCallsKeep ==
  ASSUME NEW s \in FanStateType, SpeedsArePercent(s), NEW calls \in Seq(Calls),
         NEW p \in Configuration,
         \A n \in DOMAIN calls : Accepts(calls[n]) => calls[n].op # p
  PROVE  ToJson(ApplyCalls(s, calls))[p] = ToJson(s)[p]
<1> DEFINE L == Len(calls)
           Good(t) == /\ t \in FanStateType /\ SpeedsArePercent(t)
                      /\ ToJson(t)[p] = ToJson(s)[p]
<1>1. PICK f : IsRun(f, s, calls) /\ ApplyCalls(s, calls) = f[L]
  BY ApplyCallsRun
<1>2. L \in Nat /\ \A n \in 1..L : /\ calls[n] \in Calls
                                   /\ Accepts(calls[n]) => calls[n].op # p
  OBVIOUS
<1>3. \A n \in 0..L : f[n] = IF n = 0 THEN s ELSE Apply(f[n - 1], calls[n])
  BY <1>1 DEF IsRun
<1>4. \A t, c : Good(t) /\ c \in Calls /\ (Accepts(c) => c.op # p) => Good(Apply(t, c))
  <2> SUFFICES ASSUME NEW t, NEW c \in Calls, Good(t), Accepts(c) => c.op # p
               PROVE  Good(Apply(t, c))
    OBVIOUS
  <2>1. Apply(t, c) \in FanStateType /\ SpeedsArePercent(Apply(t, c))
    BY ApplyType
  <2>2. CASE Accepts(c)
    BY <2>1, <2>2, ApplyKeeps
  <2>3. CASE ~Accepts(c)
    BY <2>1, <2>3 DEF Apply
  <2> QED BY <2>2, <2>3
<1>5. Good(s)
  OBVIOUS
<1> HIDE DEF L, Good
<1> DEFINE N == {n \in Nat : n <= L => Good(f[n])}
<1>6. 0 \in N
  BY <1>2, <1>3, <1>5
<1>7. \A n \in Nat : n \in N => n + 1 \in N
  <2> SUFFICES ASSUME NEW n \in Nat, n \in N, n + 1 <= L
               PROVE  Good(f[n + 1])
    OBVIOUS
  <2>1. Good(f[n])
    BY <1>2
  <2>2. n + 1 \in 0..L /\ n + 1 \in 1..L /\ n + 1 # 0 /\ (n + 1) - 1 = n
    BY <1>2
  <2>3. f[n + 1] = Apply(f[n], calls[n + 1])
    BY <1>3, <2>2
  <2> QED BY <1>2, <1>4, <2>1, <2>2, <2>3
<1> HIDE DEF N
<1>8. L \in N
  BY <1>2, <1>6, <1>7, SetInduction
<1>9. Good(f[L])
  BY <1>2, <1>8 DEF N
<1> QED BY <1>1, <1>9 DEF Good

-----------------------------------------------------------------------------
\* No setter of a sequence forgets the others: every part it changes is marked
\* before it ends, a table by the last of its bytes.
Notifies(calls) ==
  \A n \in DOMAIN calls : Accepts(calls[n]) =>
    \E k \in DOMAIN calls : MarksDirty(calls[k]) /\ calls[k].op = calls[n].op

\* Nothing is lost where one sequence follows another.
LEMMA NotifiesBoth ==
  ASSUME NEW a \in Seq(Calls), NEW b \in Seq(Calls), Notifies(a), Notifies(b)
  PROVE  Notifies(a \o b)
<1>1. /\ \A n \in DOMAIN (a \o b) :
            \/ n \in DOMAIN a /\ (a \o b)[n] = a[n]
            \/ n - Len(a) \in DOMAIN b /\ (a \o b)[n] = b[n - Len(a)]
      /\ \A n \in DOMAIN a : n \in DOMAIN (a \o b) /\ (a \o b)[n] = a[n]
      /\ \A n \in DOMAIN b : /\ n + Len(a) \in DOMAIN (a \o b)
                             /\ (a \o b)[n + Len(a)] = b[n]
  OBVIOUS
<1> DEFINE both == a \o b
<1>2. ASSUME NEW n \in DOMAIN both, Accepts(both[n])
      PROVE  \E k \in DOMAIN both : MarksDirty(both[k]) /\ both[k].op = both[n].op
  <2>1. CASE n \in DOMAIN a /\ both[n] = a[n]
    <3>1. PICK k \in DOMAIN a : MarksDirty(a[k]) /\ a[k].op = a[n].op
      BY <1>2, <2>1 DEF Notifies
    <3>2. k \in DOMAIN both /\ both[k] = a[k]
      BY <1>1
    <3> HIDE DEF both
    <3> QED BY <2>1, <3>1, <3>2
  <2>2. CASE n - Len(a) \in DOMAIN b /\ both[n] = b[n - Len(a)]
    <3>1. PICK k \in DOMAIN b : MarksDirty(b[k]) /\ b[k].op = b[n - Len(a)].op
      BY <1>2, <2>2 DEF Notifies
    <3>2. k + Len(a) \in DOMAIN both /\ both[k + Len(a)] = b[k]
      BY <1>1
    <3> HIDE DEF both
    <3> QED BY <2>2, <3>1, <3>2
  <2> QED BY <1>1, <1>2, <2>1, <2>2
<1> HIDE DEF both
<1>3. Notifies(both)
  BY <1>2 DEF Notifies
<1> QED BY <1>3 DEF both

\* A call on its own marks its part, unless it is a byte of a table.
LEMMA NotifiesOne ==
  ASSUME NEW c, c.op \in {"preTemp", "preSpeed"} => c.by # "copy"
  PROVE  Notifies(<<c>>)
<1>1. DOMAIN <<c>> = {1} /\ <<c>>[1] = c
  OBVIOUS
<1>2. Accepts(c) => MarksDirty(c)
  BY DEF MarksDirty
<1> QED BY <1>1, <1>2 DEF Notifies

LEMMA NotifiesNone == Notifies(<<>>)
BY DEF Notifies

\* The last byte of a table marks it.
LEMMA NotifiesTable ==
  ASSUME NEW op \in {"preTemp", "preSpeed"}, NEW bytes
  PROVE  Notifies(SetArray(op, bytes))
<1> DEFINE table == SetArray(op, bytes)
<1>1. FAN_PRESETS = 3 /\ DOMAIN table = 1..3
  BY DEF SetArray, FAN_PRESETS
<1>2. /\ \A n \in 1..3 : table[n].op = op
      /\ table[3].preset = 2
  BY <1>1 DEF SetArray
<1> HIDE DEF table
<1>3. MarksDirty(table[3])
  BY <1>1, <1>2 DEF MarksDirty, Accepts
<1>4. Notifies(table)
  BY <1>1, <1>2, <1>3 DEF Notifies
<1> QED BY <1>4 DEF table

\* A message leaves no changed part unmarked, whichever of its fields are there
\* and whichever of them are refused.
LEMMA FromJsonNotifies ==
  ASSUME NEW m, WellFormed(m)
  PROVE  Notifies(FromJson(m))
<1> DEFINE Fine == {a \in Seq(Calls) : Notifies(a)}
<1>1. <<>> \in Fine
  BY NotifiesNone
<1>2. \A c \in Calls : c.op \notin {"preTemp", "preSpeed"} => <<c>> \in Fine
  BY NotifiesOne
<1>3. \A op \in {"preTemp", "preSpeed"} : \A bytes :
        (\A k \in 1..FAN_PRESETS : bytes[k] \in Byte) => SetArray(op, bytes) \in Fine
  BY SetArrayType, NotifiesTable
<1>4. \A a, b \in Fine : a \o b \in Fine
  BY ConcatProperties, NotifiesBoth
<1> HIDE DEF Fine
<1>5. FromJson(m) \in Fine
  BY <1>1, <1>2, <1>3, <1>4, FromJsonParts
<1> QED BY <1>5 DEF Fine

-----------------------------------------------------------------------------
(***************************************************************************)
(* The record of the service.                                              *)
(***************************************************************************)
Record ==
  [on : BOOLEAN, days : Byte, daye : Byte, day : BOOLEAN,
   cSpeed : 0..MaxPercent, maxSpeed : 0..MaxPercent,
   preTemp : [1..FAN_PRESETS -> Byte], preSpeed : [1..FAN_PRESETS -> Byte],
   envTemp : Int, override : Word]

LEMMA PartsAre ==
  Parts = {"on", "days", "daye", "day", "cSpeed", "maxSpeed", "preTemp", "preSpeed",
           "envTemp", "override"}
BY DEF Parts, ToJson

\* A report of any state of the object is one.
LEMMA ToJsonType ==
  ASSUME NEW s \in FanStateType, SpeedsArePercent(s)
  PROVE  ToJson(s) \in Record
<1>1. CurrentSpeed(s) \in 0..MaxPercent
  BY SpeedByPercent, SpeedRuleType DEF CurrentSpeed
<1>2. s.mSpeed \in 0..MaxPercent
  BY DEF FanStateType, SpeedsArePercent, Byte, MaxPercent
<1>3. Array(s.preTemp) \in [1..FAN_PRESETS -> Byte] /\ Array(s.preSpeed) \in [1..FAN_PRESETS -> Byte]
  BY DEF Array, FanStateType, Presets, FAN_PRESETS
<1> QED BY <1>1, <1>2, <1>3 DEF ToJson, Record, FanStateType

\* The service keeps the last of each part.
LEMMA MergeType ==
  ASSUME NEW old \in Record, NEW new \in Record, NEW D
  PROVE  [p \in Parts |-> IF p \in D THEN new[p] ELSE old[p]] \in Record
<1> DEFINE r == [p \in Parts |-> IF p \in D THEN new[p] ELSE old[p]]
           field(f) == IF f \in D THEN new[f] ELSE old[f]
<1>1. r = [on |-> field("on"), days |-> field("days"), daye |-> field("daye"),
           day |-> field("day"), cSpeed |-> field("cSpeed"), maxSpeed |-> field("maxSpeed"),
           preTemp |-> field("preTemp"), preSpeed |-> field("preSpeed"),
           envTemp |-> field("envTemp"), override |-> field("override")]
  BY PartsAre
<1>2. /\ field("on") \in BOOLEAN /\ field("day") \in BOOLEAN
      /\ field("days") \in Byte /\ field("daye") \in Byte
      /\ field("cSpeed") \in 0..MaxPercent /\ field("maxSpeed") \in 0..MaxPercent
      /\ field("preTemp") \in [1..FAN_PRESETS -> Byte]
      /\ field("preSpeed") \in [1..FAN_PRESETS -> Byte]
      /\ field("envTemp") \in Int /\ field("override") \in Word
  BY DEF Record
<1> HIDE DEF field
<1> QED BY <1>1, <1>2 DEF Record

\* So what it sends is a well-formed message with every part in it.
LEMMA RecordIsMessage ==
  ASSUME NEW r \in Record
  PROVE  /\ DOMAIN r = Parts /\ WellFormed(r)
         /\ \A p \in Parts : Has(r, p)
         /\ BytesOk(r, "preTemp") /\ BytesOk(r, "preSpeed")
<1>1. DOMAIN r = Parts
  BY PartsAre DEF Record
<1>2. /\ r.on \in BOOLEAN /\ r.day \in BOOLEAN
      /\ r.days \in Byte /\ r.daye \in Byte
      /\ r.cSpeed \in Byte /\ r.maxSpeed \in Byte
  BY DEF Record, Byte, MaxPercent
<1>3. \A f \in {"preTemp", "preSpeed"} : \A k \in 1..FAN_PRESETS : r[f][k] \in Byte
  BY DEF Record
<1>4. Byte \subseteq Int
  BY DEF Byte
<1> QED BY <1>1, <1>2, <1>3, <1>4 DEF WellFormed, Has, BytesOk

-----------------------------------------------------------------------------
\* An accepted call about a part makes the report of it what it says.
LEMMA ApplySets ==
  ASSUME NEW s \in FanStateType, NEW p \in {"on", "days", "daye", "maxSpeed"},
         NEW v, Accepts([op |-> p, arg |-> v])
  PROVE  ToJson(Apply(s, [op |-> p, arg |-> v]))[p] = v
<1> DEFINE c == [op |-> p, arg |-> v]
<1>1. Apply(s, c) = Store(s, c) /\ c.op = p /\ c.arg = v
  BY DEF Apply
<1> HIDE DEF c
<1>2. CASE p = "on"
  <2>1. Apply(s, c) = [s EXCEPT !.on = v]
    BY <1>1, <1>2 DEF Store
  <2>2. Apply(s, c).on = v
    BY <2>1 DEF FanStateType
  <2> QED BY <1>2, <2>2 DEF ToJson, c
<1>3. CASE p = "days"
  <2>1. Apply(s, c) = [s EXCEPT !.dayStart = v]
    BY <1>1, <1>3 DEF Store
  <2>2. Apply(s, c).dayStart = v
    BY <2>1 DEF FanStateType
  <2> QED BY <1>3, <2>2 DEF ToJson, c
<1>4. CASE p = "daye"
  <2>1. Apply(s, c) = [s EXCEPT !.dayEnd = v]
    BY <1>1, <1>4 DEF Store
  <2>2. Apply(s, c).dayEnd = v
    BY <2>1 DEF FanStateType
  <2> QED BY <1>4, <2>2 DEF ToJson, c
<1>5. CASE p = "maxSpeed"
  <2>1. Apply(s, c) = [s EXCEPT !.mSpeed = v]
    BY <1>1, <1>5 DEF Store
  <2>2. Apply(s, c).mSpeed = v
    BY <2>1 DEF FanStateType
  <2> QED BY <1>5, <2>2 DEF ToJson, c
<1> QED BY <1>2, <1>3, <1>4, <1>5 DEF c

\* And the three bytes of a table make it the table.
LEMMA TableSets ==
  ASSUME NEW s \in FanStateType, NEW op \in {"preTemp", "preSpeed"},
         NEW bytes \in [1..FAN_PRESETS -> Byte]
  PROVE  ToJson(Apply(Apply(Apply(s, SetArray(op, bytes)[1]), SetArray(op, bytes)[2]),
                      SetArray(op, bytes)[3]))[op] = bytes
<1> DEFINE call(k) == [op |-> op, arg |-> bytes[k], preset |-> k - 1, by |-> "copy"]
           Field(r) == IF op = "preTemp" THEN r.preTemp ELSE r.preSpeed
<1>1. \A k \in 1..3 : SetArray(op, bytes)[k] = call(k)
  BY DEF SetArray, FAN_PRESETS
<1>2. \A r \in FanStateType, k \in 1..3 :
        /\ Apply(r, call(k)) \in FanStateType
        /\ Field(Apply(r, call(k))) = [Field(r) EXCEPT ![k - 1] = bytes[k]]
  <2> SUFFICES ASSUME NEW r \in FanStateType, NEW k \in 1..3
               PROVE  /\ Apply(r, call(k)) \in FanStateType
                      /\ Field(Apply(r, call(k))) = [Field(r) EXCEPT ![k - 1] = bytes[k]]
    OBVIOUS
  <2>1. Apply(r, call(k)) = Store(r, call(k))
    BY DEF Apply, Accepts
  <2>2. bytes[k] \in Byte
    BY DEF FAN_PRESETS
  <2>3. CASE op = "preTemp"
    <3>1. Store(r, call(k)) = [r EXCEPT !.preTemp[k - 1] = bytes[k]]
      BY <2>3 DEF Store
    <3> QED BY <2>1, <2>2, <2>3, <3>1 DEF FanStateType
  <2>4. CASE op = "preSpeed"
    <3>1. Store(r, call(k)) = [r EXCEPT !.preSpeed[k - 1] = bytes[k]]
      BY <2>4 DEF Store
    <3> QED BY <2>1, <2>2, <2>4, <3>1 DEF FanStateType
  <2> QED BY <2>3, <2>4
<1>3. Field(s) \in [Presets -> Byte]
  BY DEF FanStateType
<1> DEFINE s1 == Apply(s, call(1))
           s2 == Apply(s1, call(2))
           s3 == Apply(s2, call(3))
<1>4. ToJson(s3)[op] = Array(Field(s3))
  BY DEF ToJson
<1> HIDE DEF call, Field
<1>5. /\ s1 \in FanStateType /\ Field(s1) = [Field(s) EXCEPT ![0] = bytes[1]]
      /\ s2 \in FanStateType /\ Field(s2) = [Field(s1) EXCEPT ![1] = bytes[2]]
      /\ Field(s3) = [Field(s2) EXCEPT ![2] = bytes[3]]
  <2>1. \A r \in FanStateType :
          /\ Apply(r, call(1)) \in FanStateType /\ Apply(r, call(2)) \in FanStateType
          /\ Field(Apply(r, call(1))) = [Field(r) EXCEPT ![0] = bytes[1]]
          /\ Field(Apply(r, call(2))) = [Field(r) EXCEPT ![1] = bytes[2]]
          /\ Field(Apply(r, call(3))) = [Field(r) EXCEPT ![2] = bytes[3]]
    <3>1. 1 \in 1..3 /\ 2 \in 1..3 /\ 3 \in 1..3 /\ 1 - 1 = 0 /\ 2 - 1 = 1 /\ 3 - 1 = 2
      OBVIOUS
    <3> TAKE r \in FanStateType
    <3>2. Field(Apply(r, call(1))) = [Field(r) EXCEPT ![1 - 1] = bytes[1]]
      BY <1>2, <3>1
    <3>3. Field(Apply(r, call(2))) = [Field(r) EXCEPT ![2 - 1] = bytes[2]]
      BY <1>2, <3>1
    <3>4. Field(Apply(r, call(3))) = [Field(r) EXCEPT ![3 - 1] = bytes[3]]
      BY <1>2, <3>1
    <3> QED BY <1>2, <3>1, <3>2, <3>3, <3>4
  <2>2. s1 \in FanStateType /\ Field(s1) = [Field(s) EXCEPT ![0] = bytes[1]]
    BY <2>1
  <2> HIDE DEF s1
  <2>3. s2 \in FanStateType /\ Field(s2) = [Field(s1) EXCEPT ![1] = bytes[2]]
    BY <2>1, <2>2
  <2> HIDE DEF s2
  <2> QED BY <2>1, <2>2, <2>3
<1> HIDE DEF s1, s2, s3
<1>6. Presets = {0, 1, 2} /\ 1..FAN_PRESETS = {1, 2, 3}
  BY DEF Presets, FAN_PRESETS
<1>7. Field(s3)[0] = bytes[1] /\ Field(s3)[1] = bytes[2] /\ Field(s3)[2] = bytes[3]
  BY <1>3, <1>5, <1>6
<1>8. Array(Field(s3)) = bytes
  <2>1. \A k \in 1..FAN_PRESETS : Field(s3)[k - 1] = bytes[k]
    BY <1>6, <1>7
  <2>2. bytes = [k \in 1..FAN_PRESETS |-> bytes[k]]
    OBVIOUS
  <2> QED BY <2>1, <2>2 DEF Array
<1>9. ToJson(s3)[op] = bytes
  BY <1>4, <1>8
<1>10. s3 = Apply(Apply(Apply(s, call(1)), call(2)), call(3))
  BY DEF s1, s2, s3
<1>11. /\ SetArray(op, bytes)[1] = call(1) /\ SetArray(op, bytes)[2] = call(2)
       /\ SetArray(op, bytes)[3] = call(3)
  BY <1>1
<1> QED BY <1>9, <1>10, <1>11

\* The calls made so far have brought the parts in D back to what the record r
\* has.
Back(s, r, calls, D) ==
  LET t == ApplyCalls(s, calls)
  IN  /\ calls \in Seq(Calls)
      /\ t \in FanStateType /\ SpeedsArePercent(t)
      /\ \A p \in D : ToJson(t)[p] = r[p]

\* One more call takes none of the others away, and may bring its own back.
LEMMA BackOne ==
  ASSUME NEW s, NEW r, NEW calls, NEW D \in SUBSET Configuration, Back(s, r, calls, D),
         NEW c \in Calls, c.op \notin D
  PROVE  /\ Back(s, r, calls \o <<c>>, D)
         /\ (\A t \in FanStateType : ToJson(Apply(t, c))[c.op] = r[c.op]) =>
              Back(s, r, calls \o <<c>>, D \cup {c.op})
<1> DEFINE t == ApplyCalls(s, calls)
           more == calls \o <<c>>
<1>1. more = Append(calls, c) /\ calls \in Seq(Calls) /\ more \in Seq(Calls)
  BY AppendIsConcat, AppendProperties DEF Back
<1>2. ApplyCalls(s, more) = Apply(t, c)
  <2>1. ApplyCalls(s, Append(calls, c)) = Apply(ApplyCalls(s, calls), c)
    BY <1>1, ApplyOneMore
  <2> QED BY <1>1, <2>1
<1>3. /\ t \in FanStateType /\ SpeedsArePercent(t)
      /\ \A p \in D : ToJson(t)[p] = r[p]
  BY DEF Back
<1> HIDE DEF t, more
<1>4. Apply(t, c) \in FanStateType /\ SpeedsArePercent(Apply(t, c))
  BY <1>3, ApplyType
<1>5. \A p \in D : ToJson(Apply(t, c))[p] = r[p]
  BY <1>3, ApplyKeeps
<1>6. Back(s, r, more, D)
  BY <1>1, <1>2, <1>4, <1>5 DEF Back
<1>7. ASSUME \A u \in FanStateType : ToJson(Apply(u, c))[c.op] = r[c.op]
      PROVE  Back(s, r, more, D \cup {c.op})
  BY <1>1, <1>2, <1>3, <1>4, <1>5, <1>7 DEF Back
<1> QED BY <1>6, <1>7 DEF more

\* A sequence goes on with three more elements one at a time.
LEMMA ThreeMore ==
  ASSUME NEW S, NEW a \in Seq(S), NEW b \in Seq(S), Len(b) = 3
  PROVE  a \o b = a \o <<b[1]>> \o <<b[2]>> \o <<b[3]>>
<1> DEFINE x == <<b[1]>>
           y == <<b[2]>>
           z == <<b[3]>>
           xy == x \o y
<1>1. x \in Seq(S) /\ y \in Seq(S) /\ z \in Seq(S) /\ b = x \o y \o z
  <2>1. \A i \in 1..Len(b) : b[i] \in S
    BY ElementOfSeq
  <2>2. b[1] \in S /\ b[2] \in S /\ b[3] \in S
    BY <2>1
  <2>3. b = <<b[1], b[2], b[3]>>
    OBVIOUS
  <2> QED BY <2>2, <2>3
<1> HIDE DEF x, y, z
<1>2. xy \in Seq(S) /\ b = xy \o z
  BY <1>1, ConcatProperties
<1>3. (a \o x) \o y = a \o xy
  BY <1>1, ConcatAssociative, SMTT(60)
<1> HIDE DEF xy
<1>4. (a \o xy) \o z = a \o (xy \o z)
  <2>1. xy \in Seq(S) /\ z \in Seq(S)
    BY <1>1, <1>2
  <2> QED BY <2>1, ConcatAssociative, SMTT(60)
<1>5. a \o b = a \o x \o y \o z
  BY <1>2, <1>3, <1>4
<1> QED BY <1>5 DEF x, y, z

\* And a table its own.
LEMMA BackTable ==
  ASSUME NEW s, NEW r, NEW calls, NEW D \in SUBSET Configuration, Back(s, r, calls, D),
         NEW op \in {"preTemp", "preSpeed"}, op \notin D,
         r[op] \in [1..FAN_PRESETS -> Byte]
  PROVE  Back(s, r, calls \o SetArray(op, r[op]), D \cup {op})
<1> DEFINE table == SetArray(op, r[op])
           x == table[1]
           y == table[2]
           z == table[3]
           first  == calls \o <<x>>
           second == first \o <<y>>
           third  == second \o <<z>>
           t == ApplyCalls(s, calls)
<1>1. table \in Seq(Calls) /\ Len(table) = 3
  <2>1. \A k \in 1..FAN_PRESETS : r[op][k] \in Byte
    OBVIOUS
  <2>2. table \in Seq(Calls)
    BY <2>1, SetArrayType
  <2> QED BY <2>2 DEF SetArray, FAN_PRESETS
<1>2. x.op = op /\ y.op = op /\ z.op = op
  BY DEF SetArray, FAN_PRESETS
<1>3. calls \in Seq(Calls) /\ t \in FanStateType
  BY DEF Back
<1>4. ToJson(Apply(Apply(Apply(t, x), y), z))[op] = r[op]
  BY <1>3, TableSets
<1> HIDE DEF table
<1>5. calls \o table = third
  BY <1>1, <1>3, ThreeMore
<1>6. x \in Calls /\ y \in Calls /\ z \in Calls
  <2>1. \A k \in 1..Len(table) : table[k] \in Calls
    BY <1>1, ElementOfSeq
  <2> QED BY <1>1, <2>1
<1> HIDE DEF x, y, z, t
<1>7. Back(s, r, first, D) /\ ApplyCalls(s, first) = Apply(t, x)
  <2>1. Back(s, r, first, D)
    BY <1>2, <1>6, BackOne
  <2>2. first = Append(calls, x)
    BY <1>3, <1>6, AppendIsConcat
  <2>3. ApplyCalls(s, Append(calls, x)) = Apply(t, x)
    BY <1>3, <1>6, ApplyOneMore DEF t
  <2> HIDE DEF first
  <2> QED BY <2>1, <2>2, <2>3
<1> HIDE DEF first
<1>8. Back(s, r, second, D) /\ ApplyCalls(s, second) = Apply(Apply(t, x), y)
  <2>1. Back(s, r, second, D)
    BY <1>2, <1>6, <1>7, BackOne
  <2>2. first \in Seq(Calls)
    BY <1>7 DEF Back
  <2>3. second = Append(first, y)
    BY <1>6, <2>2, AppendIsConcat
  <2>4. ApplyCalls(s, Append(first, y)) = Apply(ApplyCalls(s, first), y)
    BY <1>6, <2>2, ApplyOneMore
  <2> HIDE DEF second
  <2> QED BY <1>7, <2>1, <2>3, <2>4
<1> HIDE DEF second
<1>9. Back(s, r, third, D) /\ ApplyCalls(s, third) = Apply(Apply(Apply(t, x), y), z)
  <2>1. Back(s, r, third, D)
    BY <1>2, <1>6, <1>8, BackOne
  <2>2. second \in Seq(Calls)
    BY <1>8 DEF Back
  <2>3. third = Append(second, z)
    BY <1>6, <2>2, AppendIsConcat
  <2>4. ApplyCalls(s, Append(second, z)) = Apply(ApplyCalls(s, second), z)
    BY <1>6, <2>2, ApplyOneMore
  <2> HIDE DEF third
  <2> QED BY <1>8, <2>1, <2>3, <2>4
<1> HIDE DEF third
<1>10. Back(s, r, third, D \cup {op})
  BY <1>4, <1>9 DEF Back
<1> QED BY <1>5, <1>10 DEF table

\* The calls of a whole record bring the whole configuration back, whatever the
\* device has made of it meanwhile.
LEMMA RecordReturns ==
  ASSUME NEW s \in FanStateType, SpeedsArePercent(s), NEW r \in Record
  PROVE  \A p \in Configuration : ToJson(ApplyCalls(s, FromJson(r)))[p] = r[p]
<1> DEFINE call(f, v) == [op |-> f, arg |-> v]
           one(f, v) == <<call(f, v)>>
<1>1. /\ \A p \in Parts : Has(r, p)
      /\ BytesOk(r, "preTemp") /\ BytesOk(r, "preSpeed")
  BY RecordIsMessage
<1>2. /\ r.on \in BOOLEAN /\ r.day \in BOOLEAN
      /\ r.days \in Byte /\ r.daye \in Byte
      /\ r.cSpeed \in Byte /\ r.maxSpeed \in Byte /\ r.maxSpeed <= MaxPercent
      /\ r.preTemp \in [1..FAN_PRESETS -> Byte] /\ r.preSpeed \in [1..FAN_PRESETS -> Byte]
  <2>1. r.cSpeed \in 0..MaxPercent /\ r.maxSpeed \in 0..MaxPercent
    BY DEF Record
  <2>2. \A n \in 0..MaxPercent : n \in Byte /\ n <= MaxPercent
    BY DEF Byte, MaxPercent
  <2>3. r.cSpeed \in Byte /\ r.maxSpeed \in Byte /\ r.maxSpeed <= MaxPercent
    BY <2>1, <2>2
  <2> QED BY <2>3 DEF Record
<1>3. \A n \in Byte : Truncated(n) = n
  BY DEF Truncated, Byte
<1>4. FromJson(r) = one("on", r.on) \o one("days", r.days) \o one("daye", r.daye)
                    \o one("day", r.day) \o one("cSpeed", r.cSpeed)
                    \o one("maxSpeed", r.maxSpeed)
                    \o SetArray("preTemp", r.preTemp) \o SetArray("preSpeed", r.preSpeed)
  BY <1>1, <1>2, <1>3, PartsAre DEF FromJson
<1>5. /\ call("on", r.on) \in Calls /\ call("day", r.day) \in Calls
      /\ \A f \in {"days", "daye", "cSpeed", "maxSpeed"} : call(f, r[f]) \in Calls
  <2>1. \A f \in {"on", "day"} : call(f, r[f]) \in [op : {"on", "day"}, arg : BOOLEAN]
    BY <1>2
  <2>2. \A f \in {"days", "daye", "cSpeed", "maxSpeed"} :
          call(f, r[f]) \in [op : {"days", "daye", "cSpeed", "maxSpeed"}, arg : Byte]
    BY <1>2
  <2> QED BY <2>1, <2>2 DEF Calls
<1>6. \A f \in {"on", "days", "daye", "maxSpeed"} : Accepts(call(f, r[f]))
  BY <1>2 DEF Accepts
<1>7. \A f \in {"on", "days", "daye", "maxSpeed"} : \A t \in FanStateType :
        ToJson(Apply(t, call(f, r[f])))[f] = r[f]
  BY <1>6, ApplySets
<1>8. \A f, v : call(f, v).op = f
  OBVIOUS
<1> HIDE DEF call
<1> DEFINE D0 == {}
           D1 == D0 \cup {"on"}
           D2 == D1 \cup {"days"}
           D3 == D2 \cup {"daye"}
           D4 == D3 \cup {"maxSpeed"}
           D5 == D4 \cup {"preTemp"}
           D6 == D5 \cup {"preSpeed"}
<1>9. /\ D0 \in SUBSET Configuration /\ D1 \in SUBSET Configuration
      /\ D2 \in SUBSET Configuration /\ D3 \in SUBSET Configuration
      /\ D4 \in SUBSET Configuration /\ D5 \in SUBSET Configuration
      /\ D6 = Configuration
  BY DEF Configuration
<1>10. /\ "on" \notin D0 /\ "days" \notin D1 /\ "daye" \notin D2
       /\ "day" \notin D3 /\ "cSpeed" \notin D3 /\ "maxSpeed" \notin D3
       /\ "preTemp" \notin D4 /\ "preSpeed" \notin D5
  OBVIOUS
<1> DEFINE a0 == <<>>
           a1 == a0 \o one("on", r.on)
           a2 == a1 \o one("days", r.days)
           a3 == a2 \o one("daye", r.daye)
           a4 == a3 \o one("day", r.day)
           a5 == a4 \o one("cSpeed", r.cSpeed)
           a6 == a5 \o one("maxSpeed", r.maxSpeed)
           a7 == a6 \o SetArray("preTemp", r.preTemp)
           a8 == a7 \o SetArray("preSpeed", r.preSpeed)
<1>11. Back(s, r, a0, D0)
  <2>1. ApplyCalls(s, <<>>) = s /\ <<>> \in Seq(Calls)
    BY ApplyNone
  <2> QED BY <2>1 DEF Back
<1>12. FromJson(r) = a8
  <2>1. a1 = one("on", r.on)
    OBVIOUS
  <2> QED BY <1>4, <2>1
<1> HIDE DEF a0, D0
<1>13. Back(s, r, a1, D1)
  BY <1>5, <1>7, <1>8, <1>9, <1>10, <1>11, BackOne
<1> HIDE DEF a1, D1
<1>14. Back(s, r, a2, D2)
  BY <1>5, <1>7, <1>8, <1>9, <1>10, <1>13, BackOne
<1> HIDE DEF a2, D2
<1>15. Back(s, r, a3, D3)
  BY <1>5, <1>7, <1>8, <1>9, <1>10, <1>14, BackOne
<1> HIDE DEF a3, D3
<1>16. Back(s, r, a4, D3)
  BY <1>5, <1>8, <1>9, <1>10, <1>15, BackOne, ZenonT(40)
<1> HIDE DEF a4
<1>17. Back(s, r, a5, D3)
  BY <1>5, <1>8, <1>9, <1>10, <1>16, BackOne
<1> HIDE DEF a5
<1>18. Back(s, r, a6, D4)
  BY <1>5, <1>7, <1>8, <1>9, <1>10, <1>17, BackOne
<1> HIDE DEF a6, D4
<1>19. Back(s, r, a7, D5)
  BY <1>2, <1>9, <1>10, <1>18, BackTable
<1> HIDE DEF a7, D5
<1>20. Back(s, r, a8, D6)
  BY <1>2, <1>9, <1>10, <1>19, BackTable
<1> HIDE DEF a8, D6
<1> QED BY <1>9, <1>12, <1>20 DEF Back

-----------------------------------------------------------------------------
\* What calls change of the configuration they mark, ...
LEMMA CallsReport ==
  ASSUME NEW s \in FanStateType, SpeedsArePercent(s), NEW calls \in Seq(Calls),
         Notifies(calls), NEW p \in Configuration, p \notin DirtyParts(calls)
  PROVE  ToJson(ApplyCalls(s, calls))[p] = ToJson(s)[p]
<1>1. \A n \in DOMAIN calls : Accepts(calls[n]) => calls[n].op # p
  BY DEF Notifies, DirtyParts
<1> QED BY <1>1, ApplyCallsKeep

\* ... what they mark has a slot, ...
LEMMA DirtyPartsType ==
  ASSUME NEW calls \in Seq(Calls)
  PROVE  DirtyParts(calls) \subseteq Parts
<1>1. \A n \in DOMAIN calls : calls[n] \in Calls
  OBVIOUS
<1>2. \A c \in Calls : c.op \in Parts
  BY PartsAre DEF Calls
<1> QED BY <1>1, <1>2 DEF DirtyParts

\* ... and the clock changes nothing of the configuration.
LEMMA ClockKeeps ==
  ASSUME NEW s \in FanStateType, NEW time, NEW temp, NEW p \in Configuration
  PROVE  ToJson(ClockUpdate(s, time, temp))[p] = ToJson(s)[p]
<1> DEFINE Same(t) == /\ t.on = s.on /\ t.dayStart = s.dayStart /\ t.dayEnd = s.dayEnd
                      /\ t.mSpeed = s.mSpeed
                      /\ t.preTemp = s.preTemp /\ t.preSpeed = s.preSpeed
           u == ClockedState(s, time, temp)
<1>1. \A t : Same(t) => ToJson(t)[p] = ToJson(s)[p]
  BY DEF ToJson, Configuration
<1>2. Same(u) /\ DOMAIN u = DOMAIN s
  BY DEF ClockedState, CountMinute, UpdateDay, FanStateType
<1>3. ClockUpdate(s, time, temp) = CalcSpeed(u)
  BY DEF ClockUpdate, ClockedState
<1> HIDE DEF u
<1>4. CalcSpeed(u) = u \/ \E v : CalcSpeed(u) = [u EXCEPT !.cSpeed = v]
  BY DEF CalcSpeed, Apply, Store
<1>5. Same(CalcSpeed(u))
  BY <1>2, <1>4 DEF FanStateType
<1> HIDE DEF Same
<1> QED BY <1>1, <1>3, <1>5

-----------------------------------------------------------------------------
(***************************************************************************)
(* The inductive invariant.  That the report is true needs the types, and  *)
(* these a stronger one than TypeOK: a cap above 100% in the record would  *)
(* be refused when it comes back, and a byte that is none narrowed.        *)
(***************************************************************************)
Types ==
  /\ fs \in FanStateType /\ SpeedsArePercent(fs)
  /\ dirty \subseteq Parts
  /\ shadow \in Record
  /\ attached \in BOOLEAN

Inv == Types /\ ReportIsTrue

LEMMA InitInv == Init => Inv
<1> SUFFICES ASSUME Init
             PROVE  Inv
  OBVIOUS
<1>1. fs \in FanStateType /\ SpeedsArePercent(fs)
  BY InitFanStateType DEF Init
<1>2. shadow \in Record
  BY <1>1, ToJsonType DEF Init
<1> QED BY <1>1, <1>2 DEF Init, Inv, Types, ReportIsTrue

\* Calls made while attached: what they change is marked.
LEMMA MakeInv ==
  ASSUME Inv, NEW calls \in Seq(Calls), Notifies(calls), Make(calls),
         UNCHANGED <<shadow, attached>>
  PROVE  Inv'
<1>1. /\ fs' \in FanStateType /\ SpeedsArePercent(fs')
  BY ApplyCallsType DEF Inv, Types, Make
<1>2. dirty' \subseteq Parts
  BY DirtyPartsType DEF Inv, Types, Make
<1>3. ASSUME attached, NEW p \in Configuration, p \notin dirty'
      PROVE  shadow[p] = ToJson(fs')[p]
  <2>1. p \notin dirty /\ p \notin DirtyParts(calls)
    BY <1>3 DEF Make
  <2>2. shadow[p] = ToJson(fs)[p]
    BY <1>3, <2>1 DEF Inv, ReportIsTrue
  <2>3. ToJson(fs')[p] = ToJson(fs)[p]
    BY <2>1, CallsReport DEF Inv, Types, Make
  <2> QED BY <2>2, <2>3
<1> QED BY <1>1, <1>2, <1>3 DEF Inv, Types, ReportIsTrue

\* A message of another client is such a sequence, and so is a call of the panel.
LEMMA MessageInv ==
  ASSUME Inv, NEW m \in Messages, Message(m)
  PROVE  Inv'
<1>1. FromJson(m) \in Seq(Calls) /\ Notifies(FromJson(m))
  BY MessagesAssumption, FromJsonType, FromJsonNotifies
<1> QED BY <1>1, MakeInv DEF Message

LEMMA PanelCallInv ==
  ASSUME Inv, NEW c \in PanelCalls, PanelCall(c)
  PROVE  Inv'
<1>1. c \in Calls /\ (c.op \in {"preTemp", "preSpeed"} => c.by = "index")
  BY CallsAssumption
<1>2. <<c>> \in Seq(Calls) /\ Notifies(<<c>>)
  BY <1>1, NotifiesOne
<1> QED BY <1>2, MakeInv DEF PanelCall

LEMMA ClockInv ==
  ASSUME Inv, NEW time \in Times, NEW temp \in Temps, Clock(time, temp)
  PROVE  Inv'
<1>1. /\ time.hour \in Byte /\ time.min \in Byte /\ temp \in Int
  BY ClockAssumption DEF Byte
<1>2. fs' \in FanStateType /\ SpeedsArePercent(fs')
  BY <1>1, ClockUpdateType DEF Inv, Types, Clock
<1>3. dirty' \subseteq Parts
  BY PartsAre DEF Inv, Types, Clock, ClockDirty
<1>4. \A p \in Configuration : ToJson(fs')[p] = ToJson(fs)[p]
  BY ClockKeeps DEF Inv, Types, Clock
<1>5. /\ dirty \subseteq dirty' /\ shadow' = shadow /\ attached' = attached
  BY DEF Clock
<1> QED BY <1>2, <1>3, <1>4, <1>5 DEF Inv, Types, ReportIsTrue

LEMMA ReportInv ==
  ASSUME Inv, Report
  PROVE  Inv'
<1>1. ToJson(fs) \in Record
  BY ToJsonType DEF Inv, Types
<1>2. shadow' \in Record
  BY <1>1, MergeType DEF Inv, Types, Report
<1>3. \A p \in Configuration : shadow'[p] = ToJson(fs)[p]
  <2>1. Configuration \subseteq Parts
    BY PartsAre DEF Configuration
  <2> QED BY <2>1 DEF Report, Inv, ReportIsTrue
<1>4. fs' = fs /\ dirty' = {} /\ attached' = attached
  BY DEF Report
<1> QED BY <1>2, <1>3, <1>4 DEF Inv, Types, ReportIsTrue

\* The attachment: every part is what the record has, marked or not.
LEMMA AttachReturns ==
  ASSUME Inv, Attach
  PROVE  \A p \in Configuration : ToJson(fs')[p] = shadow[p]
BY RecordReturns DEF Inv, Types, Attach, Make

LEMMA AttachInv ==
  ASSUME Inv, Attach
  PROVE  Inv'
<1>1. WellFormed(shadow)
  BY RecordIsMessage DEF Inv, Types
<1>2. FromJson(shadow) \in Seq(Calls)
  BY <1>1, FromJsonType
<1>3. fs' \in FanStateType /\ SpeedsArePercent(fs') /\ dirty' \subseteq Parts
  BY <1>2, ApplyCallsType, DirtyPartsType DEF Inv, Types, Attach, Make
<1>4. shadow' = shadow /\ attached' = TRUE
  BY DEF Attach
<1> QED BY <1>3, <1>4, AttachReturns DEF Inv, Types, ReportIsTrue

LEMMA NextInv == Inv /\ [Next]_vars => Inv'
<1> SUFFICES ASSUME Inv, [Next]_vars
             PROVE  Inv'
  OBVIOUS
<1>1. CASE \E c \in PanelCalls : PanelCall(c)
  BY <1>1, PanelCallInv
<1>2. CASE \E time \in Times, temp \in Temps : Clock(time, temp)
  BY <1>2, ClockInv
<1>3. CASE \E m \in Messages : Message(m)
  BY <1>3, MessageInv
<1>4. CASE Restart
  BY <1>4, InitFanStateType DEF Restart, Inv, Types, ReportIsTrue
<1>5. CASE Report
  BY <1>5, ReportInv
<1>6. CASE Attach
  BY <1>6, AttachInv
<1>7. CASE UNCHANGED vars
  BY <1>7 DEF vars, Inv, Types, ReportIsTrue
<1> QED BY <1>1, <1>2, <1>3, <1>4, <1>5, <1>6, <1>7 DEF Next

\* Types and the truth of the report, for every set of panel calls, messages,
\* clock readings and temperatures.
THEOREM Invariance == Spec => []Inv
BY InitInv, NextInv, PTL DEF Spec

\* The object keeps its type whatever is sent to it, and the record stays a
\* message the JSON parser gives the right types.
THEOREM TypeCorrect == Spec => []TypeOK
<1>1. Inv => TypeOK
  BY RecordIsMessage DEF Inv, Types, TypeOK
<1> QED BY <1>1, Invariance, PTL

\* While attached the service has every part of the configuration that is not
\* about to be reported, whoever changed it.
THEOREM ReportStaysTrue == Spec => []ReportIsTrue
<1>1. Inv => ReportIsTrue
  BY DEF Inv
<1> QED BY <1>1, Invariance, PTL

\* What a restart forgets of the configuration the attachment after it brings
\* back, whatever the clock and the panel have done in between.
THEOREM RestartRecovers == Spec => ConfigurationReturns
<1>1. Inv /\ [Next]_vars =>
        [(~attached /\ attached') => \A p \in Configuration : ToJson(fs')[p] = shadow[p]]_vars
  <2> SUFFICES ASSUME Inv, Next, ~attached, attached'
               PROVE  \A p \in Configuration : ToJson(fs')[p] = shadow[p]
    OBVIOUS
  <2>1. Attach
    BY DEF Next, PanelCall, Clock, Message, Restart, Report, Make
  <2> QED BY <2>1, AttachReturns
<1> QED BY <1>1, Invariance, PTL DEF Spec, ConfigurationReturns

=============================================================================
