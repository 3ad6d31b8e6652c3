-------------------------- MODULE NetStatusProofs --------------------------
(***************************************************************************)
(* What init_thread keeps, for every length of the day and every interval, *)
(* and however often the network comes and goes (liveness stays with TLC). *)
(***************************************************************************)
EXTENDS NetStatus, TLAPS

\* The claim of an address along the steps of a round: nothing is claimed
\* while the lease is asked for again, and a renewal, for which there was a lease,
\* starts the count again.
Claim ==
  /\ pc = "renew" => lease
  /\ pc \in Boot \cup Start \cup {"renew", "resync"} => count = 0
  /\ pc \in {"redial", "retest"} => ~hasIP
  /\ pc = "count" => (count > 0 /\ hasIP => lease)
  /\ pc \in {"delay", "test"} => (count > 1 /\ hasIP => lease)

\* From the first full interval on the rounds since updateClock are what the
\* count is past a multiple of the interval.  Before that they may also be
\* those of the interval a renewal cut short.
Steady ==
  /\ count < Interval => since <= count + Interval - 1
  /\ count >= Interval => since < Interval /\ \E q \in Nat : count = Interval * q + since

Inv == TypeOK /\ Claim /\ Steady

-----------------------------------------------------------------------------
(***************************************************************************)
(* Remainders.                                                             *)
(***************************************************************************)

LEMMA RemainderOf ==
  ASSUME NEW d \in Nat \ {0}, NEW q \in Nat, NEW r \in 0..(d - 1)
  PROVE  (d * q + r) % d = r
  OBVIOUS

LEMMA Quotient ==
  ASSUME NEW d \in Nat \ {0}, NEW n \in Nat, NEW q \in Nat, NEW r \in 0..(d - 1),
         n = d * q + r
  PROVE  /\ n % d = r
         /\ r + 1 < d => n + 1 = d * q + (r + 1) /\ (n + 1) % d = r + 1
         /\ r + 1 = d => n + 1 = d * (q + 1) + 0 /\ (n + 1) % d = 0
<1>1. n % d = r
  BY RemainderOf
<1>2. ASSUME r + 1 < d
      PROVE  n + 1 = d * q + (r + 1) /\ (n + 1) % d = r + 1
  <2>1. r + 1 \in 0..(d - 1)
    BY <1>2
  <2>2. (d * q + (r + 1)) % d = r + 1
    BY <2>1, RemainderOf
  <2> QED
    BY <2>2
<1>3. ASSUME r + 1 = d
      PROVE  n + 1 = d * (q + 1) + 0 /\ (n + 1) % d = 0
  <2>1. d * (q + 1) = d * q + d
    OBVIOUS
  <2>2. (d * (q + 1) + 0) % d = 0
    BY RemainderOf
  <2>3. n + 1 = d * (q + 1) + 0
    BY <1>3, <2>1
  <2> QED
    BY <2>2, <2>3
<1> QED
  BY <1>1, <1>2, <1>3

LEMMA SmallRemainder ==
  ASSUME NEW d \in Nat \ {0}, NEW n \in 0..(d - 1)
  PROVE  n % d = n /\ d % d = 0
  BY RemainderOf

\* Counted steps by one; at the bound it takes the next value's remainder.
LEMMA CountKeepsSteady ==
  ASSUME Inv, Count
  PROVE  since' \in Nat /\ count' \in 1..(Day + Interval) /\ Steady'
<1> DEFINE I == Interval
           n == count
           m == Counted(count)
<1>1. I \in Nat \ {0, 1} /\ Day \in Nat \ {0} /\ Day % I = 0 /\ Day >= I
  <2>1. Day < I => Day % I = Day
    BY DayAssumption, SmallRemainder
  <2> QED
    BY <2>1, DayAssumption
<1>2. n \in 0..(Day + I) /\ since \in Nat
  BY DEF Inv, TypeOK
<1>3. count' = m /\ since' = IF m % I = 0 THEN 0 ELSE since + 1
  BY DEF Count
<1>4. m = IF n = Day + I THEN Day + 1 ELSE n + 1
  BY DEF Counted
<1>5. n < I => since <= n + I - 1
  BY DEF Inv, Steady
<1>6. n >= I => since < I /\ \E q \in Nat : n = I * q + since
  BY DEF Inv, Steady
<1>7. ASSUME count' < I => since' <= count' + I - 1,
             count' >= I => since' < I,
             count' >= I => \E q \in Nat : count' = I * q + since'
      PROVE  Steady'
  BY <1>7 DEF Steady
<1> HIDE DEF I, n, m
<1>8. m \in 1..(Day + I) /\ since' \in Nat
  BY <1>1, <1>2, <1>3, <1>4
<1> SUFFICES Steady'
  BY <1>3, <1>8 DEF I
<1>9. CASE n < I /\ n + 1 < I
  <2>1. m = n + 1 /\ m \in 0..(I - 1) /\ m # 0
    BY <1>1, <1>2, <1>4, <1>9
  <2>2. m % I = m
    BY <1>1, <2>1, SmallRemainder
  <2>3. since' = since + 1
    BY <1>3, <2>1, <2>2
  <2> QED
    BY <1>1, <1>2, <1>3, <1>5, <1>7, <1>9, <2>1, <2>3
<1>10. CASE n < I /\ n + 1 = I
  <2>1. m = I
    BY <1>1, <1>2, <1>4, <1>10
  <2>2. I % I = 0
    BY <1>1, SmallRemainder
  <2>3. since' = 0 /\ count' = I
    BY <1>3, <2>1, <2>2
  <2>4. I = I * 1 + 0
    BY <1>1
  <2> QED
    BY <1>1, <1>7, <2>3, <2>4
<1>11. CASE n >= I /\ n # Day + I
  <2>1. m = n + 1
    BY <1>4, <1>11
  <2>2. PICK q \in Nat : n = I * q + since
    BY <1>6, <1>11
  <2>3. since \in 0..(I - 1) /\ n \in Nat
    BY <1>1, <1>2, <1>6, <1>11
  <2>4. CASE since + 1 < I
    <3>1. m = I * q + (since + 1) /\ m % I = since + 1
      BY <1>1, <2>1, <2>2, <2>3, <2>4, Quotient
    <3>2. since' = since + 1
      BY <1>2, <1>3, <3>1
    <3>3. ~(m < I)
      BY <1>1, <1>2, <1>11, <2>1
    <3> QED
      BY <1>3, <1>7, <2>4, <3>1, <3>2, <3>3
  <2>5. CASE since + 1 = I
    <3>1. m = I * (q + 1) + 0 /\ m % I = 0
      BY <1>1, <2>1, <2>2, <2>3, <2>5, Quotient
    <3>2. since' = 0
      BY <1>3, <3>1
    <3>3. q + 1 \in Nat /\ ~(m < I) /\ 0 < I
      BY <1>1, <1>2, <1>11, <2>1
    <3> QED
      BY <1>3, <1>7, <3>1, <3>2, <3>3
  <2> QED
    BY <1>1, <2>3, <2>4, <2>5
<1>12. CASE n = Day + I
  <2>1. PICK q \in Nat : Day + I = I * q + since
    BY <1>1, <1>6, <1>12
  <2>2. since \in 0..(I - 1) /\ m = Day + 1
    BY <1>1, <1>2, <1>4, <1>6, <1>12
  <2>3. q # 0
    BY <1>1, <2>1, <2>2
  <2>4. q - 1 \in Nat /\ I * q = I * (q - 1) + I
    BY <1>1, <2>3
  <2>5. Day = I * (q - 1) + since
    BY <1>1, <2>1, <2>2, <2>4
  <2>6. Day % I = since
    BY <1>1, <2>2, <2>4, <2>5, Quotient
  <2>7. since = 0 /\ since + 1 < I
    BY <1>1, <2>6
  <2>8. Day + 1 = I * (q - 1) + (since + 1) /\ (Day + 1) % I = since + 1
    <3> DEFINE p == q - 1
    <3>1. p \in Nat /\ Day = I * p + since
      BY <2>4, <2>5
    <3> HIDE DEF p
    <3>2. Day \in Nat /\ I \in Nat \ {0} /\ since \in 0..(I - 1)
      BY <1>1, <2>2
    <3>3. since + 1 \in 0..(I - 1)
      BY <2>7, <3>2
    <3>4. (I * p + (since + 1)) % I = since + 1
      BY <3>1, <3>2, <3>3, RemainderOf
    <3>5. Day + 1 = I * p + (since + 1)
      BY <3>1, <3>2
    <3> QED
      BY <3>4, <3>5 DEF p
  <2>9. m = I * (q - 1) + 1 /\ m % I = 1
    BY <2>2, <2>7, <2>8
  <2>10. since' = 1
    BY <1>3, <2>7, <2>9
  <2>11. ~(m < I) /\ 1 < I
    BY <1>1, <2>2
  <2> QED
    BY <1>3, <1>7, <2>4, <2>9, <2>10, <2>11
<1> QED
  BY <1>1, <1>2, <1>9, <1>10, <1>11, <1>12

-----------------------------------------------------------------------------
LEMMA InitInv == Init => Inv
<1> SUFFICES ASSUME Init PROVE Inv
  OBVIOUS
<1>1. TypeOK
  <2>1. 0 \in 0..MaxChanges /\ 0 \in 0..(Day + Interval)
    BY DayAssumption, ChangesAssumption
  <2> QED
    BY <2>1 DEF Init, TypeOK, Boot
<1>2. Claim
  BY DEF Init, Claim
<1>3. Steady
  BY DayAssumption DEF Init, Steady
<1> QED
  BY <1>1, <1>2, <1>3 DEF Inv

\* A step that neither counts nor renews leaves the clock alone.
LEMMA ClockSame ==
  ASSUME Inv, UNCHANGED clock
  PROVE  Steady'
  BY DEF Inv, Steady, clock

LEMMA BootKeeps ==
  ASSUME Inv, Booting
  PROVE  Inv'
<1>1. UNCHANGED <<world, lease, clock, panel, mqtt>> /\ pc' \in Boot \cup {"begin"} /\ pc \in Boot
  BY DEF Booting, InitFails, InitChip, PollLink, CheckVersion, GoTo, Boot
<1>2. TypeOK'
  BY <1>1 DEF Inv, TypeOK, world, clock, panel, mqtt, Boot, Start, Loop
<1>3. Claim'
  BY <1>1 DEF Inv, Claim, clock, panel, Boot, Start
<1> QED
  BY <1>1, <1>2, <1>3, ClockSame DEF Inv

LEMMA StartKeeps ==
  ASSUME Inv, Starting
  PROVE  Inv'
<1>1. UNCHANGED <<world, clock, xOnline, telling>> /\ pc \in Start /\ pc' \in {"dhcp", "sntp", "mqtt", "delay"}
  BY DEF Starting, LightRed, FirstDhcp, FirstSync, StartMqtt, GoTo, Start, world, clock, panel, mqtt
<1>2. /\ lease' \in BOOLEAN /\ hasIP' \in BOOLEAN /\ session' \in {"none", "offline", "online"}
      /\ led' \in {"off", "red", "amber", "blue"}
  BY DEF Inv, TypeOK, Starting, LightRed, FirstDhcp, FirstSync, StartMqtt, Dhcp, DhcpAnswers, DhcpFails,
     panel, mqtt
<1>3. TypeOK'
  BY <1>1, <1>2 DEF Inv, TypeOK, world, clock, Boot, Start, Loop
<1>4. Claim'
  BY <1>1 DEF Inv, Claim, clock, Boot, Start
<1> QED
  BY <1>1, <1>3, <1>4, ClockSame DEF Inv

\* The steps of a round that do not count.
LEMMA RoundKeeps ==
  ASSUME Inv, Delay \/ FindLost \/ Redial \/ Retest \/ Renew \/ Resync
  PROVE  Inv'
<1>1. /\ UNCHANGED <<world, clock, xOnline, mqtt>>
      /\ pc \in Loop /\ pc' \in {"test", "redial", "retest", "resync", "count"}
  BY DEF Delay, FindLost, Redial, Retest, Renew, Resync, GoTo, Loop, panel
<1>2. lease' \in BOOLEAN /\ hasIP' \in BOOLEAN /\ led' \in {"off", "red", "amber", "blue"}
  BY DEF Inv, TypeOK, Delay, FindLost, Redial, Retest, Renew, Resync, Dhcp, DhcpAnswers,
     DhcpFails, panel, Joined
<1>3. TypeOK'
  BY <1>1, <1>2 DEF Inv, TypeOK, world, clock, mqtt, Boot, Start, Loop
<1>4. Claim'
  <2>1. CASE Delay
    BY <2>1 DEF Inv, Claim, Delay, GoTo, clock, panel, Boot, Start
  <2>2. CASE FindLost
    BY <2>2 DEF Inv, Claim, FindLost, GoTo, clock, Boot, Start
  <2>3. CASE Redial
    BY <2>3 DEF Inv, Claim, Redial, GoTo, clock, panel, Boot, Start
  <2>4. CASE Retest
    BY <2>4 DEF Inv, Claim, Retest, GoTo, clock, Joined, Boot, Start
  <2>5. CASE Renew
    BY <2>5 DEF Inv, Claim, Renew, GoTo, clock, panel, Boot, Start
  <2>6. CASE Resync
    BY <2>6 DEF Inv, Claim, Resync, GoTo, clock, panel, Boot, Start
  <2> QED
    BY <2>1, <2>2, <2>3, <2>4, <2>5, <2>6
<1> QED
  BY <1>1, <1>3, <1>4, ClockSame DEF Inv

\* The count starts again only past a whole day, so past a whole interval.
LEMMA JoinedKeeps ==
  ASSUME Inv, FindJoined
  PROVE  Inv'
<1>1. /\ UNCHANGED <<world, lease, since, panel, mqtt>> /\ lease
      /\ pc' = IF count >= Day THEN "renew" ELSE "count"
      /\ count' = IF count >= Day THEN 0 ELSE count
  BY DEF FindJoined, GoTo, Joined
<1>2. count \in Nat /\ since \in Nat /\ Interval \in Nat \ {0, 1} /\ Day >= Interval
      /\ Day \in Nat /\ count \in 0..(Day + Interval)
  <2>1. Day < Interval => Day % Interval = Day
    BY DayAssumption, SmallRemainder
  <2> QED
    BY <2>1, DayAssumption DEF Inv, TypeOK
<1>3. CASE count >= Day
  <2>1. pc' = "renew" /\ count' = 0
    BY <1>1, <1>3
  <2>2. TypeOK'
    BY <1>1, <1>2, <2>1 DEF Inv, TypeOK, world, panel, mqtt, Boot, Start, Loop
  <2>3. Claim'
    BY <1>1, <2>1 DEF Claim
  <2>4. since < Interval
    BY <1>2, <1>3 DEF Inv, Steady
  <2>5. Steady'
    BY <1>1, <1>2, <2>1, <2>4 DEF Steady
  <2> QED
    BY <2>2, <2>3, <2>5 DEF Inv
<1>4. CASE ~(count >= Day)
  <2>1. pc' = "count" /\ count' = count
    BY <1>1, <1>4
  <2>2. TypeOK'
    BY <1>1, <2>1 DEF Inv, TypeOK, world, panel, mqtt, Boot, Start, Loop
  <2>3. Claim'
    BY <1>1, <2>1 DEF Claim, Boot, Start
  <2>4. Steady'
    BY <1>1, <2>1, ClockSame DEF clock
  <2> QED
    BY <2>2, <2>3, <2>4 DEF Inv
<1> QED
  BY <1>3, <1>4

LEMMA CountKeeps ==
  ASSUME Inv, Count
  PROVE  Inv'
<1>1. /\ UNCHANGED <<world, lease, panel, mqtt>> /\ pc = "count" /\ pc' = "delay"
      /\ count' = IF count = Day + Interval THEN Day + 1 ELSE count + 1
  BY DEF Count, GoTo, Counted
<1>2. count \in 0..(Day + Interval) /\ Day \in Nat \ {0} /\ Interval \in Nat \ {0, 1}
  BY DayAssumption DEF Inv, TypeOK
<1>3. TypeOK'
  BY <1>1, <1>2, CountKeepsSteady DEF Inv, TypeOK, world, panel, mqtt, Boot, Start, Loop
<1>4. count' > 1 => count > 0
  BY <1>1, <1>2
<1>5. Claim'
  BY <1>1, <1>4 DEF Inv, Claim, panel, Boot, Start
<1> QED
  BY <1>3, <1>5, CountKeepsSteady DEF Inv

\* The MQTT observer, the network and a halted board leave lease, address and
\* count alone.
LEMMA OthersKeep ==
  ASSUME Inv, Observer \/ NetChanges \/ Halted \/ UNCHANGED vars
  PROVE  Inv'
<1>1. UNCHANGED <<chip, lease, pc, count, since, hasIP>>
  BY DEF Observer, MQTTOnline, MQTTOffline, Tell, TellDisplay, NetChanges, Halted, vars,
     world, clock, panel, mqtt
<1>2. /\ session' \in {"none", "offline", "online"}
      /\ telling' \in {"nothing", "offline", "online"}
  BY DEF Inv, TypeOK, Observer, MQTTOnline, MQTTOffline, Tell, TellDisplay,
     NetChanges, Halted, vars, world, panel, mqtt
<1>3. led' \in {"off", "red", "amber", "blue"}
  BY DEF Inv, TypeOK, Observer, MQTTOnline, MQTTOffline, Tell, TellDisplay,
     NetChanges, Halted, vars, panel
<1>4. net' \in BOOLEAN /\ changes' \in 0..MaxChanges
  <2>1. changes \in 0..MaxChanges /\ (changes < MaxChanges => changes + 1 \in 0..MaxChanges)
    BY ChangesAssumption DEF Inv, TypeOK
  <2> QED
    BY <2>1 DEF Inv, TypeOK, Observer, MQTTOnline, MQTTOffline, Tell, TellDisplay, NetChanges,
       Halted, vars, world
<1>5. xOnline' \in BOOLEAN
  BY DEF Inv, TypeOK, Observer, MQTTOnline, MQTTOffline, Tell, TellDisplay,
     NetChanges, Halted, vars, panel
<1>6. TypeOK'
  BY <1>1, <1>2, <1>3, <1>4, <1>5 DEF Inv, TypeOK
<1>7. Claim'
  BY <1>1 DEF Inv, Claim
<1> QED
  BY <1>1, <1>6, <1>7, ClockSame DEF Inv, clock

LEMMA NextKeeps ==
  ASSUME Inv, [Next]_vars
  PROVE  Inv'
  BY BootKeeps, StartKeeps, RoundKeeps, JoinedKeeps, CountKeeps, OthersKeep DEF Next, Round

\* The inductive invariant of the boot and of the service loop (main.cpp:239-318).
THEOREM Invariance == Spec => []Inv
<1>1. Init => Inv
  BY InitInv
<1>2. Inv /\ [Next]_vars => Inv'
  BY NextKeeps
<1> QED
  BY <1>1, <1>2, PTL DEF Spec

\* The states of the boot, the loop and the panel keep their types.
THEOREM TypeCorrect == Spec => []TypeOK
<1>1. Inv => TypeOK
  BY DEF Inv
<1> QED
  BY <1>1, Invariance, PTL

\* updateClock is called again within two intervals, for every day that is a
\* multiple of the interval: the renewal starts the count again only after a
\* full interval, whatever part of the next has passed (main.cpp:297, :311).
THEOREM ClockSteady == Spec => []ClockIsSteady
<1>1. ASSUME Inv
      PROVE  ClockIsSteady
  <2>1. /\ count \in Nat /\ since \in Nat /\ Interval \in Nat \ {0, 1}
        /\ count < Interval => since <= count + Interval - 1
        /\ count >= Interval => since < Interval
    BY <1>1, DayAssumption DEF Inv, TypeOK, Steady
  <2> QED
    BY <2>1 DEF ClockIsSteady
<1> QED
  BY <1>1, Invariance, PTL

\* Only a second test that finds the network gone again leaves the display denying
\* an address the device has (main.cpp:289): every other step that gets a lease
\* shows it, or had it before.
THEOREM DeniedByRetest == Spec => DeniedOnlyByRetest
<1>1. Inv /\ [Next]_vars => [(~Denied /\ Denied') => (pc = "retest" /\ ~net)]_vars
  <2> SUFFICES ASSUME Inv, Next, ~Denied, Denied'
               PROVE  pc = "retest" /\ ~net
    BY DEF Denied, vars
  <2>1. UNCHANGED <<lease, hasIP>> => pc \in {"redial", "retest"} /\ pc' \notin {"redial", "retest"}
    BY DEF Denied
  <2>2. ~(Booting \/ Observer \/ NetChanges \/ Halted)
    BY <2>1 DEF Booting, InitFails, InitChip, PollLink, CheckVersion, Observer, MQTTOnline,
       MQTTOffline, Tell, TellDisplay, NetChanges, Halted, GoTo, vars, world, panel
  <2>3. ~Starting
    BY <2>1 DEF Starting, LightRed, FirstDhcp, FirstSync, StartMqtt, GoTo, panel, Denied
  <2>4. ~(Delay \/ FindLost \/ FindJoined \/ Redial \/ Resync \/ Count)
    BY <2>1 DEF Delay, FindLost, FindJoined, Redial, Resync, Count, GoTo, panel, Denied
  <2>5. ~Renew
    BY DEF Inv, Claim, Renew, GoTo, panel, Denied
  <2>6. Retest
    BY <2>2, <2>3, <2>4, <2>5 DEF Next, Round
  <2> QED
    BY <2>6 DEF Retest, GoTo, Denied, Joined
<1> QED
  BY <1>1, Invariance, PTL DEF Spec, DeniedOnlyByRetest

\* The display claims no address without a lease, past the first round of a day.
THEOREM AddressTrue == Spec => []NoFalseAddress
<1>1. Inv => NoFalseAddress
  BY DEF Inv, Claim, NoFalseAddress
<1> QED
  BY <1>1, Invariance, PTL

=============================================================================
