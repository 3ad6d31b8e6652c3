------------------------ MODULE CommandPoolProofs ------------------------
(***************************************************************************)
(* The command pool for any number of commands and clients.  The commands  *)
(* are divided between the pool, the clients, the agent's queue and the    *)
(* commands it executes; a command that is given back was somewhere else,  *)
(* so the pool lacks it and has room for it.                               *)
(***************************************************************************)
EXTENDS CommandPool, FiniteSetTheorems, SequenceTheorems, TLAPS

\* Nobody uses the pool before it has been filled.
Quiet ==
  ~initStatus => /\ waiting = {} /\ queue = <<>> /\ pending = {}
                 /\ \A t \in Clients : held[t] = NULL

\* A client that waits for a command has none.
EmptyHanded == \A t \in waiting : held[t] = NULL

Inv == TypeOK /\ EachOnce /\ NoneLost /\ AssertsHold /\ Quiet /\ EmptyHanded

\* EachOnce and NoneLost of any pool P, queue Q, executing commands R and
\* clients' commands h.
Apart(P, Q, R, h) ==
  /\ P \cap Q = {} /\ P \cap R = {} /\ Q \cap R = {}
  /\ \A t \in Clients : h[t] \notin P /\ h[t] \notin Q /\ h[t] \notin R
  /\ \A t, u \in Clients : (h[t] = h[u] /\ h[t] # NULL) => t = u

Whole(P, Q, R, h) ==
  \A c \in Commands : c \in P \/ c \in Q \/ c \in R \/ \E t \in Clients : h[t] = c

-----------------------------------------------------------------------------
(***************************************************************************)
(* Queues of distinct elements.                                            *)
(***************************************************************************)

LEMMA ElementsOfQueue ==
  ASSUME NEW S, NEW s \in Seq(S)
  PROVE  Range(s) \subseteq S
<1>1. DOMAIN s = 1..Len(s) /\ Len(s) \in Nat
  BY LenProperties
<1>2. \A i \in 1..Len(s) : s[i] \in S
  BY ElementOfSeq
<1>3. \A x \in Range(s) : \E i \in 1..Len(s) : x = s[i]
  BY <1>1 DEF Range
<1> QED
  BY <1>2, <1>3

LEMMA AppendNew ==
  ASSUME NEW S, NEW s \in Seq(S), NEW c \in S, IsInjective(s), c \notin Range(s)
  PROVE  /\ Append(s, c) \in Seq(S) /\ IsInjective(Append(s, c))
         /\ Range(Append(s, c)) = Range(s) \cup {c}
<1> DEFINE n == Len(s)
           a == Append(s, c)
<1>1. a \in Seq(S) /\ Len(a) = n + 1 /\ n \in Nat
  BY LenProperties
<1>2. a[n + 1] = c /\ \A i \in 1..n : a[i] = s[i]
  BY LenProperties
<1>3. DOMAIN a = 1..(n + 1) /\ DOMAIN s = 1..n
  BY <1>1, LenProperties
<1>4. \A i \in 1..n : s[i] # c
  BY <1>3 DEF Range
<1> HIDE DEF a, n
<1>5. Range(a) = Range(s) \cup {c}
  BY <1>1, <1>2, <1>3 DEF Range
<1>6. IsInjective(a)
  BY <1>1, <1>2, <1>3, <1>4 DEF IsInjective
<1> QED
  BY <1>1, <1>5, <1>6 DEF a

LEMMA TailOfDistinct ==
  ASSUME NEW S, NEW s \in Seq(S), s # <<>>, IsInjective(s)
  PROVE  /\ Head(s) \in Range(s) /\ Head(s) \in S
         /\ Tail(s) \in Seq(S) /\ IsInjective(Tail(s))
         /\ Range(Tail(s)) = Range(s) \ {Head(s)}
<1> DEFINE n == Len(s)
           a == Tail(s)
<1>1. n \in Nat \ {0} /\ DOMAIN s = 1..n /\ Head(s) = s[1] /\ Head(s) \in S
  BY LenProperties, EmptySeq, HeadTailProperties
<1>2. a \in Seq(S) /\ Len(a) = n - 1 /\ \A i \in 1..(n - 1) : a[i] = s[i + 1]
  BY HeadTailProperties
<1>3. DOMAIN a = 1..(n - 1)
  BY <1>2, LenProperties
<1> HIDE DEF a, n
<1>4. IsInjective(a)
  <2> SUFFICES ASSUME NEW i \in 1..(n - 1), NEW j \in 1..(n - 1), a[i] = a[j]
               PROVE  i = j
    BY <1>3 DEF IsInjective
  <2>1. i + 1 \in 1..n /\ j + 1 \in 1..n /\ s[i + 1] = s[j + 1]
    BY <1>1, <1>2
  <2>2. i + 1 = j + 1
    BY <1>1, <2>1 DEF IsInjective
  <2> QED
    BY <1>1, <2>2
<1>5. \A i \in 2..n : s[i] = a[i - 1] /\ i - 1 \in 1..(n - 1)
  BY <1>1, <1>2
<1>6. \A i \in 1..n : i # 1 => s[i] # s[1]
  BY <1>1 DEF IsInjective
<1>7. Range(a) \subseteq Range(s) \ {s[1]}
  BY <1>1, <1>2, <1>3, <1>6, SMTT(30) DEF Range
<1>8. Range(s) \ {s[1]} \subseteq Range(a)
  BY <1>1, <1>3, <1>5 DEF Range
<1>9. Head(s) \in Range(s)
  BY <1>1 DEF Range
<1> QED
  BY <1>1, <1>2, <1>4, <1>7, <1>8, <1>9 DEF a

LEMMA EmptyQueue ==
  ASSUME NEW s, s = <<>>
  PROVE  Range(s) = {} /\ IsInjective(s) /\ s \in Seq(Commands)
<1>1. DOMAIN s = {} /\ s \in Seq(Commands)
  BY EmptySeq, LenProperties
<1> QED
  BY <1>1 DEF Range, IsInjective

\* A pool of distinct commands that lacks one is not full.
LEMMA RoomForMissing ==
  ASSUME pool \in Seq(Commands), IsInjective(pool),
         NEW c \in Commands, c \notin Range(pool)
  PROVE  Len(pool) < PoolSize /\ PoolSize \in Nat
<1> DEFINE D == 1..Len(pool)
           T == Commands \ {c}
<1>1. Len(pool) \in Nat /\ DOMAIN pool = D /\ pool \in [D -> Commands]
  BY LenProperties
<1>2. \A i \in D : pool[i] # c
  BY <1>1 DEF Range
<1>3. pool \in [D -> T]
  BY <1>1, <1>2
<1>4. pool \in Injection(D, T)
  BY <1>3 DEF Injection
<1>5. IsFiniteSet(T) /\ Cardinality(T) = PoolSize - 1 /\ PoolSize \in Nat
  BY PoolAssumption, FS_RemoveElement, FS_CardinalityType DEF PoolSize
<1>6. Cardinality(D) <= Cardinality(T)
  BY <1>4, <1>5, FS_Injection
<1>7. Cardinality(D) = Len(pool)
  BY <1>1, FS_Interval
<1> QED
  BY <1>1, <1>5, <1>6, <1>7

\* So the assertions of Agent_ReleaseCommand hold for a command it lacks.
LEMMA ReleaseReturns ==
  ASSUME pool \in Seq(Commands), IsInjective(pool), initStatus,
         NEW c \in Commands, c \notin Range(pool), ReleaseCommand(c)
  PROVE  /\ pool' \in Seq(Commands) /\ IsInjective(pool')
         /\ Range(pool') = Range(pool) \cup {c}
         /\ failed' = "none"
<1>1. Len(pool) < PoolSize /\ PoolSize \in Nat /\ Len(pool) \in Nat
  BY RoomForMissing, LenProperties
<1>2. ~(Len(pool) >= PoolSize)
  BY <1>1
<1>3. failed' = "none" /\ pool' = Append(pool, c)
  BY <1>1, <1>2 DEF ReleaseCommand
<1> QED
  BY <1>3, AppendNew

-----------------------------------------------------------------------------
(***************************************************************************)
(* The two parts of the division, before and after a step.                 *)
(***************************************************************************)

LEMMA Divided ==
  ASSUME TypeOK, EachOnce
  PROVE  /\ Apart(Range(pool), Range(queue), pending, held)
         /\ NoneLost => (initStatus => Whole(Range(pool), Range(queue), pending, held))
<1>1. \A t \in Clients : held[t] # NULL => held[t] \in InUse
  BY DEF InUse
<1>2. NULL \notin Range(pool)
  BY PoolAssumption, ElementsOfQueue DEF TypeOK
<1>3. Apart(Range(pool), Range(queue), pending, held)
  BY <1>1, <1>2 DEF EachOnce, Apart, InUse
<1>4. NoneLost => (initStatus => Whole(Range(pool), Range(queue), pending, held))
  BY DEF NoneLost, Whole, InUse
<1> QED
  BY <1>3, <1>4

LEMMA DividedAfter ==
  ASSUME TypeOK', IsInjective(pool'), IsInjective(queue'),
         Apart(Range(pool'), Range(queue'), pending', held'),
         initStatus' => Whole(Range(pool'), Range(queue'), pending', held')
  PROVE  EachOnce' /\ NoneLost'
<1> DEFINE P == Range(pool')
           Q == Range(queue')
           R == pending'
           h == held'
           U == Q \cup R \cup ({h[t] : t \in Clients} \ {NULL})
<1>1. P \subseteq Commands /\ Q \subseteq Commands /\ R \subseteq Commands
  BY ElementsOfQueue DEF TypeOK
<1>2. h \in [Clients -> Commands \cup {NULL}]
  BY DEF TypeOK
<1>3. InUse' = U
  BY DEF InUse
<1>4. EachOnce' = ( /\ IsInjective(pool') /\ IsInjective(queue') /\ P \cap U = {}
                    /\ Q \cap R = {}
                    /\ \A t, u \in Clients : (h[t] = h[u] /\ h[t] # NULL) => t = u
                    /\ \A t \in Clients : h[t] \notin Q \cup R )
  BY <1>3 DEF EachOnce
<1>5. NoneLost' = (initStatus' => P \cup U = Commands)
  BY <1>3 DEF NoneLost
<1>6. Apart(P, Q, R, h) /\ (initStatus' => Whole(P, Q, R, h))
  OBVIOUS
<1> HIDE DEF P, Q, R, h
<1>7. EachOnce'
  BY <1>4, <1>6 DEF Apart
<1>8. initStatus' => P \cup U = Commands
  BY <1>1, <1>2, <1>6, PoolAssumption DEF Whole
<1> QED
  BY <1>5, <1>7, <1>8

(***************************************************************************)
(* A command moves from one part to another.                               *)
(***************************************************************************)

LEMMA MoveToClient ==
  ASSUME NEW P, NEW Q, NEW R, NEW h \in [Clients -> Commands \cup {NULL}],
         Apart(P, Q, R, h), NEW t \in Clients, h[t] = NULL, NEW c \in P
  PROVE  LET g == [h EXCEPT ![t] = c]
         IN  /\ Apart(P \ {c}, Q, R, g)
             /\ Whole(P, Q, R, h) => Whole(P \ {c}, Q, R, g)
<1> DEFINE g == [h EXCEPT ![t] = c]
<1>1. g[t] = c /\ \A u \in Clients : u # t => g[u] = h[u]
  OBVIOUS
<1>2. \A u \in Clients : h[u] # c
  BY DEF Apart
<1>3. Apart(P \ {c}, Q, R, g)
  <2> HIDE DEF g
  <2> QED
    BY <1>1, <1>2 DEF Apart
<1>4. Whole(P, Q, R, h) => Whole(P \ {c}, Q, R, g)
  <2> SUFFICES ASSUME Whole(P, Q, R, h), NEW d \in Commands
               PROVE  d \in P \ {c} \/ d \in Q \/ d \in R \/ \E u \in Clients : g[u] = d
    BY DEF Whole
  <2> HIDE DEF g
  <2>1. CASE \E u \in Clients : h[u] = d
    BY <1>1, <2>1, PoolAssumption
  <2>2. CASE d \in P \/ d \in Q \/ d \in R
    BY <1>1, <2>2
  <2> QED
    BY <2>1, <2>2 DEF Whole
<1> QED
  BY <1>3, <1>4

LEMMA MoveFromClient ==
  ASSUME NEW P, NEW Q, NEW R, NEW h \in [Clients -> Commands \cup {NULL}],
         P \subseteq Commands, Q \subseteq Commands, R \subseteq Commands,
         Apart(P, Q, R, h), NEW t \in Clients, h[t] # NULL
  PROVE  LET g == [h EXCEPT ![t] = NULL]
             c == h[t]
         IN  /\ c \in Commands /\ c \notin P /\ c \notin Q /\ c \notin R
             /\ Apart(P \cup {c}, Q, R, g) /\ Apart(P, Q \cup {c}, R, g)
             /\ Whole(P, Q, R, h) => ( /\ Whole(P \cup {c}, Q, R, g)
                                      /\ Whole(P, Q \cup {c}, R, g) )
<1> DEFINE g == [h EXCEPT ![t] = NULL]
           c == h[t]
<1>1. g[t] = NULL /\ \A u \in Clients : u # t => g[u] = h[u]
  OBVIOUS
<1>2. c \in Commands /\ c \notin P /\ c \notin Q /\ c \notin R
  BY DEF Apart
<1>3. \A u \in Clients : u # t => h[u] # c
  BY <1>2, PoolAssumption DEF Apart
<1>4. NULL \notin P /\ NULL \notin Q /\ NULL \notin R /\ NULL # c
  BY <1>2, PoolAssumption
<1>5. \A u, v \in Clients : (g[u] = g[v] /\ g[u] # NULL) => u = v
  <2> HIDE DEF g
  <2> QED
    BY <1>1 DEF Apart
<1>6. \A u \in Clients : g[u] # c /\ g[u] \notin P /\ g[u] \notin Q /\ g[u] \notin R
  <2> HIDE DEF g
  <2> QED
    BY <1>1, <1>3, <1>4 DEF Apart
<1>7. Apart(P \cup {c}, Q, R, g) /\ Apart(P, Q \cup {c}, R, g)
  <2> HIDE DEF g, c
  <2> QED
    BY <1>2, <1>5, <1>6 DEF Apart
<1>8. ASSUME Whole(P, Q, R, h), NEW d \in Commands
      PROVE  d = c \/ d \in P \/ d \in Q \/ d \in R \/ \E u \in Clients : g[u] = d
  <2>1. CASE \E u \in Clients : h[u] = d
    <3> HIDE DEF g
    <3> QED
      BY <1>1, <2>1
  <2>2. CASE d \in P \/ d \in Q \/ d \in R
    BY <2>2
  <2> QED
    BY <1>8, <2>1, <2>2 DEF Whole
<1>9. Whole(P, Q, R, h) => (Whole(P \cup {c}, Q, R, g) /\ Whole(P, Q \cup {c}, R, g))
  <2> HIDE DEF g, c
  <2> QED
    BY <1>8 DEF Whole
<1> QED
  BY <1>2, <1>7, <1>9

LEMMA MoveInAgent ==
  ASSUME NEW P, NEW Q, NEW R, NEW h, Apart(P, Q, R, h), NEW c
  PROVE  /\ c \in Q => ( /\ Apart(P, Q \ {c}, R \cup {c}, h)
                         /\ Apart(P \cup {c}, Q \ {c}, R, h)
                         /\ Whole(P, Q, R, h) => ( /\ Whole(P, Q \ {c}, R \cup {c}, h)
                                                  /\ Whole(P \cup {c}, Q \ {c}, R, h) ) )
         /\ c \in R => ( /\ Apart(P \cup {c}, Q, R \ {c}, h)
                         /\ Whole(P, Q, R, h) => Whole(P \cup {c}, Q, R \ {c}, h) )
<1>1. ASSUME c \in Q
      PROVE  Apart(P, Q \ {c}, R \cup {c}, h) /\ Apart(P \cup {c}, Q \ {c}, R, h)
  BY <1>1 DEF Apart
<1>2. ASSUME c \in R
      PROVE  Apart(P \cup {c}, Q, R \ {c}, h)
  BY <1>2 DEF Apart
<1>3. Whole(P, Q, R, h) => ( /\ Whole(P, Q \ {c}, R \cup {c}, h)
                            /\ Whole(P \cup {c}, Q \ {c}, R, h)
                            /\ Whole(P \cup {c}, Q, R \ {c}, h) )
  BY DEF Whole
<1> QED
  BY <1>1, <1>2, <1>3

-----------------------------------------------------------------------------
(***************************************************************************)
(* The invariant.                                                          *)
(***************************************************************************)

LEMMA InitInv == Init => Inv
<1> SUFFICES ASSUME Init PROVE Inv
  OBVIOUS
<1>1. /\ Range(pool) = {} /\ IsInjective(pool) /\ pool \in Seq(Commands)
      /\ Range(queue) = {} /\ IsInjective(queue) /\ queue \in Seq(Commands)
  BY EmptyQueue DEF Init
<1>2. TypeOK
  BY <1>1 DEF Init, TypeOK
<1>3. EachOnce /\ NoneLost
  BY <1>1 DEF Init, EachOnce, NoneLost, InUse
<1>4. AssertsHold /\ Quiet /\ EmptyHanded
  BY DEF Init, AssertsHold, Quiet, EmptyHanded
<1> QED
  BY <1>2, <1>3, <1>4 DEF Inv

\* What a step needs of the state it starts in.
LEMMA InvGives ==
  ASSUME Inv
  PROVE  /\ pool \in Seq(Commands) /\ queue \in Seq(Commands)
         /\ IsInjective(pool) /\ IsInjective(queue)
         /\ Range(pool) \subseteq Commands /\ Range(queue) \subseteq Commands
         /\ pending \subseteq Commands /\ waiting \subseteq Clients
         /\ held \in [Clients -> Commands \cup {NULL}]
         /\ initStatus \in BOOLEAN /\ (initStatus => failed = "none")
         /\ Apart(Range(pool), Range(queue), pending, held)
         /\ initStatus => Whole(Range(pool), Range(queue), pending, held)
<1>1. initStatus => failed = "none"
  BY DEF Inv, AssertsHold
<1>2. Range(pool) \subseteq Commands /\ Range(queue) \subseteq Commands
  BY ElementsOfQueue DEF Inv, TypeOK
<1> QED
  BY <1>1, <1>2, Divided DEF Inv, TypeOK, EachOnce

LEMMA PopulateKeeps ==
  ASSUME Inv, failed = "none", NEW c \in Commands, Populate(c)
  PROVE  Inv'
<1>1. /\ pool' \in Seq(Commands) /\ IsInjective(pool')
      /\ Range(pool') = Range(pool) \cup {c}
  BY InvGives, AppendNew DEF Populate
<1>2. waiting = {} /\ queue = <<>> /\ pending = {} /\ \A t \in Clients : held[t] = NULL
  BY DEF Inv, Quiet, Populate
<1>3. UNCHANGED <<waiting, held, queue, pending, failed>>
  BY DEF Populate
<1>4. initStatus' = (Range(pool) \cup {c} = Commands)
  BY DEF Populate
<1>5. TypeOK'
  BY <1>1, <1>3, <1>4, InvGives DEF TypeOK
<1>6. Range(queue) = {}
  BY <1>2, EmptyQueue
<1>7. Range(pool') \subseteq Commands
  BY <1>1, InvGives
<1>8. Apart(Range(pool'), Range(queue'), pending', held')
  BY <1>2, <1>3, <1>6, <1>7, PoolAssumption DEF Apart
<1>9. initStatus' => Whole(Range(pool'), Range(queue'), pending', held')
  BY <1>1, <1>4 DEF Whole
<1>10. EachOnce' /\ NoneLost'
  BY <1>1, <1>3, <1>5, <1>8, <1>9, InvGives, DividedAfter
<1>11. AssertsHold' /\ Quiet' /\ EmptyHanded'
  BY <1>2, <1>3, InvGives DEF AssertsHold, Quiet, EmptyHanded
<1> QED
  BY <1>5, <1>10, <1>11 DEF Inv

\* A call, and a block time that ends, move no command.  A call that finds the
\* pool uninitialised is the last.
LEMMA WaitKeeps ==
  ASSUME Inv, NEW t \in Clients, GetCommand(t) \/ Expire(t)
  PROVE  Inv'
<1>1. UNCHANGED <<initStatus, pool, held, queue, pending>>
  BY DEF GetCommand, Expire
<1>2. /\ waiting' \subseteq Clients
      /\ ~initStatus => waiting' = {}
      /\ \A u \in waiting' : held[u] = NULL
  BY DEF GetCommand, Expire, Inv, TypeOK, Quiet, EmptyHanded
<1>3. failed' \in {"none", "early"} /\ (initStatus => failed' = "none")
  BY DEF GetCommand, Expire, Inv, AssertsHold
<1>4. TypeOK'
  BY <1>1, <1>2, <1>3 DEF Inv, TypeOK
<1>5. EachOnce' /\ NoneLost'
  BY <1>1 DEF Inv, EachOnce, NoneLost, InUse
<1>6. AssertsHold' /\ Quiet' /\ EmptyHanded'
  BY <1>1, <1>2, <1>3 DEF Inv, AssertsHold, Quiet, EmptyHanded
<1> QED
  BY <1>4, <1>5, <1>6 DEF Inv

LEMMA ReceiveKeeps ==
  ASSUME Inv, NEW t \in Clients, Receive(t)
  PROVE  Inv' /\ Head(pool) \in Range(pool)
         /\ Range(pool') = Range(pool) \ {Head(pool)}
<1> DEFINE c == Head(pool)
<1>1. /\ c \in Range(pool) /\ c \in Commands
      /\ pool' \in Seq(Commands) /\ IsInjective(pool')
      /\ Range(pool') = Range(pool) \ {c}
  BY InvGives, TailOfDistinct DEF Receive
<1>2. held' = [held EXCEPT ![t] = c] /\ waiting' \subseteq waiting
  BY DEF Receive
<1>3. held[t] = NULL /\ initStatus
  BY DEF Receive, Inv, EmptyHanded, Quiet
<1>4. UNCHANGED <<initStatus, queue, pending, failed>>
  BY DEF Receive
<1>5. TypeOK'
  BY <1>1, <1>2, <1>3, <1>4, InvGives DEF TypeOK
<1> HIDE DEF c
<1>6. /\ Apart(Range(pool'), Range(queue'), pending', held')
      /\ Whole(Range(pool'), Range(queue'), pending', held')
  <2> DEFINE P == Range(pool)
             Q == Range(queue)
             R == pending
  <2>1. /\ Apart(P, Q, R, held) /\ Whole(P, Q, R, held)
        /\ P \subseteq Commands /\ Q \subseteq Commands /\ R \subseteq Commands
        /\ held \in [Clients -> Commands \cup {NULL}]
    BY <1>3, InvGives
  <2>2. Range(pool') = P \ {c} /\ Range(queue') = Q /\ pending' = R /\ c \in P
    BY <1>1, <1>4
  <2> HIDE DEF P, Q, R
  <2>3. /\ Apart(P \ {c}, Q, R, [held EXCEPT ![t] = c])
        /\ Whole(P \ {c}, Q, R, [held EXCEPT ![t] = c])
    BY <1>3, <2>1, <2>2, MoveToClient
  <2> QED
    BY <1>2, <2>2, <2>3
<1>7. EachOnce' /\ NoneLost'
  BY <1>1, <1>4, <1>5, <1>6, InvGives, DividedAfter
<1>8. AssertsHold' /\ Quiet'
  BY <1>3, <1>4, InvGives DEF AssertsHold, Quiet
<1>9. EmptyHanded'
  BY <1>2, InvGives DEF Inv, EmptyHanded, Receive
<1> QED
  BY <1>1, <1>5, <1>7, <1>8, <1>9 DEF Inv, c

LEMMA SubmitKeeps ==
  ASSUME Inv, NEW t \in Clients, Submit(t)
  PROVE  Inv'
<1> DEFINE c == held[t]
<1>1. /\ held' = [held EXCEPT ![t] = NULL] /\ c # NULL /\ queue' = Append(queue, c)
      /\ UNCHANGED <<initStatus, pool, waiting, pending, failed>>
  BY DEF Submit
<1>2. initStatus
  BY <1>1 DEF Inv, Quiet
<1> HIDE DEF c
<1>3. /\ c \in Commands /\ c \notin Range(queue)
      /\ Apart(Range(pool), Range(queue) \cup {c}, pending, held')
      /\ Whole(Range(pool), Range(queue) \cup {c}, pending, held')
  <2> DEFINE P == Range(pool)
             Q == Range(queue)
             R == pending
  <2>1. /\ Apart(P, Q, R, held) /\ Whole(P, Q, R, held)
        /\ P \subseteq Commands /\ Q \subseteq Commands /\ R \subseteq Commands
        /\ held \in [Clients -> Commands \cup {NULL}]
    BY <1>2, InvGives
  <2> HIDE DEF P, Q, R
  <2>2. /\ c \in Commands /\ c \notin P /\ c \notin Q /\ c \notin R
        /\ Apart(P, Q \cup {c}, R, [held EXCEPT ![t] = NULL])
        /\ Whole(P, Q \cup {c}, R, [held EXCEPT ![t] = NULL])
    BY <1>1, <2>1, MoveFromClient, ZenonT(40) DEF c
  <2> QED
    BY <1>1, <2>2 DEF P, Q, R
<1>4. /\ queue' \in Seq(Commands) /\ IsInjective(queue')
      /\ Range(queue') = Range(queue) \cup {c}
  BY <1>1, <1>3, InvGives, AppendNew
<1>5. TypeOK'
  BY <1>1, <1>2, <1>4, InvGives DEF TypeOK
<1>6. EachOnce' /\ NoneLost'
  BY <1>1, <1>3, <1>4, <1>5, InvGives, DividedAfter
<1>7. AssertsHold' /\ Quiet'
  BY <1>1, <1>2, InvGives DEF AssertsHold, Quiet
<1>8. EmptyHanded'
  BY <1>1, InvGives DEF Inv, EmptyHanded
<1> QED
  BY <1>5, <1>6, <1>7, <1>8 DEF Inv

LEMMA RefusedKeeps ==
  ASSUME Inv, NEW t \in Clients, Refused(t)
  PROVE  Inv' /\ held[t] \in Commands /\ Range(pool') = Range(pool) \cup {held[t]}
<1> DEFINE c == held[t]
<1>1. /\ held' = [held EXCEPT ![t] = NULL] /\ c # NULL /\ ReleaseCommand(c)
      /\ UNCHANGED <<initStatus, waiting, queue, pending>>
  BY DEF Refused
<1>2. initStatus
  BY <1>1 DEF Inv, Quiet
<1> HIDE DEF c
<1>3. /\ c \in Commands /\ c \notin Range(pool)
      /\ Apart(Range(pool) \cup {c}, Range(queue), pending, held')
      /\ Whole(Range(pool) \cup {c}, Range(queue), pending, held')
  BY <1>1, <1>2, InvGives, MoveFromClient DEF c
<1>4. /\ pool' \in Seq(Commands) /\ IsInjective(pool')
      /\ Range(pool') = Range(pool) \cup {c} /\ failed' = "none"
  BY <1>1, <1>2, <1>3, InvGives, ReleaseReturns
<1>5. TypeOK'
  BY <1>1, <1>4, InvGives DEF TypeOK
<1>6. EachOnce' /\ NoneLost'
  BY <1>1, <1>3, <1>4, <1>5, InvGives, DividedAfter
<1>7. AssertsHold' /\ Quiet'
  BY <1>1, <1>2, <1>4 DEF AssertsHold, Quiet
<1>8. EmptyHanded'
  BY <1>1, InvGives DEF Inv, EmptyHanded
<1> QED
  BY <1>3, <1>4, <1>5, <1>6, <1>7, <1>8 DEF Inv, c

LEMMA ExecuteKeeps ==
  ASSUME Inv, Execute
  PROVE  Inv'
<1> DEFINE c == Head(queue)
<1>1. /\ c \in Range(queue) /\ c \in Commands
      /\ queue' \in Seq(Commands) /\ IsInjective(queue')
      /\ Range(queue') = Range(queue) \ {c}
  BY InvGives, TailOfDistinct DEF Execute
<1>2. pending' = pending \cup {c} /\ UNCHANGED <<initStatus, pool, waiting, held, failed>>
  BY DEF Execute
<1>3. initStatus
  BY DEF Execute, Inv, Quiet
<1> HIDE DEF c
<1>4. /\ Apart(Range(pool'), Range(queue'), pending', held')
      /\ Whole(Range(pool'), Range(queue'), pending', held')
  <2> DEFINE P == Range(pool)
             Q == Range(queue)
             R == pending
  <2>1. /\ Apart(P, Q, R, held) /\ Whole(P, Q, R, held)
        /\ P \subseteq Commands /\ Q \subseteq Commands /\ R \subseteq Commands
        /\ held \in [Clients -> Commands \cup {NULL}]
    BY <1>3, InvGives
  <2>2. Range(pool') = P /\ Range(queue') = Q \ {c} /\ pending' = R \cup {c} /\ c \in Q
    BY <1>1, <1>2
  <2> HIDE DEF P, Q, R
  <2>3. Apart(P, Q \ {c}, R \cup {c}, held) /\ Whole(P, Q \ {c}, R \cup {c}, held)
    BY <2>1, <2>2, MoveInAgent
  <2> QED
    BY <1>2, <2>2, <2>3
<1>5. TypeOK'
  BY <1>1, <1>2, <1>3, InvGives DEF TypeOK
<1>6. EachOnce' /\ NoneLost'
  BY <1>1, <1>2, <1>4, <1>5, InvGives, DividedAfter
<1>7. AssertsHold' /\ Quiet' /\ EmptyHanded'
  BY <1>2, <1>3, InvGives DEF Inv, AssertsHold, Quiet, EmptyHanded
<1> QED
  BY <1>5, <1>6, <1>7 DEF Inv

\* A command the agent ends, whether it was executed or still queued.
LEMMA EndKeeps ==
  ASSUME Inv, NEW c \in Commands, Complete(c) \/ (Cancel /\ c = Head(queue))
  PROVE  /\ Inv' /\ UNCHANGED held /\ c \notin Range(pool)
         /\ \A t \in Clients : held[t] # c
         /\ Range(pool') = Range(pool) \cup {c}
<1>1. initStatus /\ ReleaseCommand(c) /\ UNCHANGED <<initStatus, waiting, held>>
  BY DEF Complete, Cancel, Inv, Quiet
<1>2. /\ c \in Range(queue) \/ c \in pending
      /\ queue' \in Seq(Commands) /\ IsInjective(queue') /\ pending' \subseteq Commands
      /\ \/ c \in pending /\ Range(queue') = Range(queue) /\ pending' = pending \ {c}
         \/ c \in Range(queue) /\ Range(queue') = Range(queue) \ {c} /\ pending' = pending
  <2>1. CASE Complete(c)
    BY <2>1, InvGives DEF Complete
  <2>2. CASE Cancel /\ c = Head(queue)
    BY <2>2, InvGives, TailOfDistinct DEF Cancel
  <2> QED
    BY <2>1, <2>2
<1>3. c \notin Range(pool) /\ \A t \in Clients : held[t] # c
  BY <1>2, InvGives DEF Apart
<1>4. /\ pool' \in Seq(Commands) /\ IsInjective(pool')
      /\ Range(pool') = Range(pool) \cup {c} /\ failed' = "none"
  BY <1>1, <1>3, InvGives, ReleaseReturns
<1>5. /\ Apart(Range(pool'), Range(queue'), pending', held')
      /\ Whole(Range(pool'), Range(queue'), pending', held')
  <2> DEFINE P == Range(pool)
             Q == Range(queue)
             R == pending
  <2>1. /\ Apart(P, Q, R, held) /\ Whole(P, Q, R, held)
        /\ P \subseteq Commands /\ Q \subseteq Commands /\ R \subseteq Commands
        /\ held \in [Clients -> Commands \cup {NULL}]
    BY <1>1, InvGives
  <2>2. /\ Range(pool') = P \cup {c} /\ held' = held
        /\ \/ c \in R /\ Range(queue') = Q /\ pending' = R \ {c}
           \/ c \in Q /\ Range(queue') = Q \ {c} /\ pending' = R
    BY <1>1, <1>2, <1>4
  <2> HIDE DEF P, Q, R
  <2>3. /\ c \in Q => Apart(P \cup {c}, Q \ {c}, R, held) /\ Whole(P \cup {c}, Q \ {c}, R, held)
        /\ c \in R => Apart(P \cup {c}, Q, R \ {c}, held) /\ Whole(P \cup {c}, Q, R \ {c}, held)
    BY <2>1, MoveInAgent
  <2> QED
    BY <2>2, <2>3
<1>6. TypeOK'
  BY <1>1, <1>2, <1>4, InvGives DEF TypeOK
<1>7. EachOnce' /\ NoneLost'
  BY <1>2, <1>4, <1>5, <1>6, DividedAfter
<1>8. AssertsHold' /\ Quiet' /\ EmptyHanded'
  BY <1>1, <1>4, InvGives DEF Inv, AssertsHold, Quiet, EmptyHanded
<1> QED
  BY <1>1, <1>3, <1>4, <1>6, <1>7, <1>8 DEF Inv

LEMMA StutterKeeps ==
  ASSUME Inv, UNCHANGED vars
  PROVE  Inv'
  BY DEF Inv, vars, TypeOK, EachOnce, NoneLost, AssertsHold, Quiet, EmptyHanded, InUse

\* Cancel ends one of the commands.
LEMMA CancelEnds ==
  ASSUME Inv, Cancel
  PROVE  \E c \in Commands : Cancel /\ c = Head(queue)
<1>1. queue \in Seq(Commands) /\ queue # <<>>
  BY DEF Inv, TypeOK, Cancel
<1>2. Head(queue) \in Commands
  BY <1>1, HeadTailProperties
<1> QED
  BY <1>2

LEMMA NextKeeps ==
  ASSUME Inv, [Next]_vars
  PROVE  Inv'
<1>1. CASE failed = "none" /\ \E c \in Commands : Populate(c)
  BY <1>1, PopulateKeeps
<1>2. CASE InitializeAgain \/ Halted \/ UNCHANGED vars
  BY <1>2, StutterKeeps DEF InitializeAgain, Halted
<1>3. CASE \E t \in Clients : Client(t)
  BY <1>3, WaitKeeps, ReceiveKeeps, SubmitKeeps, RefusedKeeps DEF Client
<1>4. CASE Agent
  <2>1. CASE Execute
    BY <2>1, ExecuteKeeps
  <2>2. CASE Cancel
    BY <2>2, CancelEnds, EndKeeps
  <2>3. CASE \E c \in Commands : Complete(c)
    BY <2>3, EndKeeps
  <2> QED
    BY <1>4, <2>1, <2>2, <2>3 DEF Agent
<1> QED
  BY <1>1, <1>2, <1>3, <1>4 DEF Next, Running

\* The division of the commands between the pool and its users
\* (freertos_command_pool.c:54-145) is kept by every call.
THEOREM Invariance == Spec => []Inv
<1>1. Init => Inv
  BY InitInv
<1>2. Inv /\ [Next]_vars => Inv'
  BY NextKeeps
<1> QED
  BY <1>1, <1>2, PTL DEF Spec

\* The pool and its users keep their types, whatever is asked and refused.
THEOREM TypeCorrect == Spec => []TypeOK
<1>1. Inv => TypeOK
  BY DEF Inv
<1> QED
  BY <1>1, Invariance, PTL

\* Agent_GetCommand never hands out a structure that somebody still uses, and
\* after Agent_InitializePool no command is ever lost.
THEOREM CommandsApart == Spec => []EachInOnePlace
<1>1. Inv => EachInOnePlace
  BY DEF Inv, EachInOnePlace
<1> QED
  BY <1>1, Invariance, PTL

\* For a pool of any size the assertions of Agent_ReleaseCommand, that the pool
\* is initialised and has room for what comes back, never fail, and the one of
\* Agent_GetCommand fails at most before the agent has filled the pool.
THEOREM AssertionHolds == Spec => []AssertsHold
<1>1. Inv => AssertsHold
  BY DEF Inv
<1> QED
  BY <1>1, Invariance, PTL

-----------------------------------------------------------------------------
(***************************************************************************)
(* The refinement.  A command is free when its pointer is in the filled    *)
(* pool; filling it, waiting and executing do not show.                    *)
(***************************************************************************)

Free == IF initStatus THEN Range(pool) ELSE Commands

LEMMA LendingInit == Init => Lending!Init
  BY DEF Init, Lending!Init

\* The pool has been filled before and after every step of a user.
LEMMA FreeIsPool ==
  ASSUME initStatus, initStatus'
  PROVE  Free = Range(pool) /\ Free' = Range(pool')
  BY DEF Free

LEMMA LendingStep ==
  ASSUME Inv, [Next]_vars
  PROVE  [Lending!Next]_(Lending!vars)
<1>1. ASSUME NEW c \in Commands, Populate(c)
      PROVE  Free' = Free /\ held' = held
  <2>1. /\ ~initStatus /\ initStatus' = (Range(pool) \cup {c} = Commands)
        /\ Range(pool') = Range(pool) \cup {c} /\ held' = held
    BY <1>1, InvGives, AppendNew DEF Populate
  <2> QED
    BY <2>1 DEF Free
<1>2. ASSUME NEW t \in Clients, Receive(t)
      PROVE  Lending!Borrow(t)
  <2>1. /\ Head(pool) \in Range(pool) /\ Range(pool') = Range(pool) \ {Head(pool)}
        /\ held' = [held EXCEPT ![t] = Head(pool)]
    BY <1>2, ReceiveKeeps DEF Receive
  <2>2. held[t] = NULL /\ initStatus /\ initStatus'
    BY <1>2 DEF Inv, EmptyHanded, Quiet, Receive
  <2>3. Free = Range(pool) /\ Free' = Range(pool')
    BY <2>2, FreeIsPool
  <2>4. \E c \in Free : Free' = Free \ {c} /\ held' = [held EXCEPT ![t] = c]
    BY <2>1, <2>3
  <2> QED
    BY <2>2, <2>4 DEF Lending!Borrow, Free
<1>3. ASSUME NEW t \in Clients, Submit(t)
      PROVE  Lending!Submit(t)
  BY <1>3 DEF Submit, Lending!Submit
<1>4. ASSUME NEW t \in Clients, Refused(t)
      PROVE  Lending!Withdraw(t)
  <2>1. Range(pool') = Range(pool) \cup {held[t]} /\ held[t] # NULL
        /\ held' = [held EXCEPT ![t] = NULL]
    BY <1>4, RefusedKeeps DEF Refused
  <2>2. initStatus /\ initStatus'
    BY <1>4 DEF Inv, Quiet, Refused
  <2>3. Free' = Free \cup {held[t]}
    BY <2>1, <2>2, FreeIsPool
  <2> QED
    BY <2>1, <2>3 DEF Lending!Withdraw, Free
<1>5. ASSUME NEW c \in Commands, Complete(c) \/ (Cancel /\ c = Head(queue))
      PROVE  Lending!GiveBack(c)
  <2>1. /\ c \notin Range(pool) /\ \A t \in Clients : held[t] # c
        /\ Range(pool') = Range(pool) \cup {c} /\ held' = held
    BY <1>5, EndKeeps
  <2>2. initStatus /\ initStatus'
    BY <1>5 DEF Inv, Quiet, Complete, Cancel
  <2>3. c \notin Free /\ Free' = Free \cup {c}
    BY <2>1, <2>2, FreeIsPool
  <2> QED
    BY <2>1, <2>3 DEF Lending!GiveBack, Lending!HeldBySome, Free
<1>6. ASSUME InitializeAgain \/ Halted \/ Execute \/ UNCHANGED vars
             \/ \E t \in Clients : GetCommand(t) \/ Expire(t)
      PROVE  Free' = Free /\ held' = held
  BY <1>6 DEF InitializeAgain, Halted, Execute, vars, GetCommand, Expire, Free
<1>7. Free' = Free /\ held' = held => UNCHANGED Lending!vars
  BY DEF Lending!vars, Free
<1>8. Cancel => \E c \in Commands : Cancel /\ c = Head(queue)
  BY CancelEnds
<1>9. CASE Agent
  BY <1>5, <1>6, <1>7, <1>8, <1>9 DEF Agent, Lending!Next
<1>10. CASE \E t \in Clients : Client(t)
  BY <1>2, <1>3, <1>4, <1>6, <1>7, <1>10 DEF Client, Lending!Next
<1>11. CASE (\E c \in Commands : Populate(c)) \/ InitializeAgain \/ Halted \/ UNCHANGED vars
  BY <1>1, <1>6, <1>7, <1>11
<1> QED
  BY <1>9, <1>10, <1>11 DEF Next, Running

\* The queue of pointers (freertos_command_pool.c) implements the abstract
\* lending of whole commands, for any number of commands and clients.
THEOREM PoolLends == Spec => LendsWhole
<1>1. Init => Lending!Init
  BY LendingInit
<1>2. Inv /\ [Next]_vars => [Lending!Next]_(Lending!vars)
  BY LendingStep
<1> QED
  BY <1>1, <1>2, Invariance, PTL DEF Spec, LendsWhole, Lending!Spec

==========================================================================
