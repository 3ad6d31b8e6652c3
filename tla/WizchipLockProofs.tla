------------------------- MODULE WizchipLockProofs -------------------------
(***************************************************************************)
(* The lock of the Ethernet chip for any number of tasks.  The argument is *)
(* that whoever is in a section is running with the interrupts masked;     *)
(* only the second half of the unlock may be left to another task.         *)
(***************************************************************************)
EXTENDS WizchipLock, FiniteSetTheorems, TLAPS

Masked == Holding \cup {"kernel"}

\* Points at which a task counts in uxCriticalNesting.
InKernelSection == {"inside", "selected", "moved", "done", "half", "kernel"}
Nested == {t \in Tasks : pc[t] \in InKernelSection}

Types ==
  /\ running \in Tasks
  /\ irq \in BOOLEAN /\ spin \in BOOLEAN /\ saved \in BOOLEAN
  /\ pc \in [Tasks -> Points]

Guarded == \A t \in Tasks : pc[t] \in Masked => running = t /\ ~irq
SpinIsHeld == spin => pc[running] \in Holding
Counts == nesting = Cardinality(Nested)

Inv == Types /\ Guarded /\ SpinIsHeld /\ NeverSpins /\ Counts

\* What one step of a task makes of the set of tasks in a kernel section.
LEMMA NestedFinite == IsFiniteSet(Nested) /\ Cardinality(Nested) \in Nat
  BY TasksAssumption, FS_Subset, FS_CardinalityType DEF Nested

LEMMA NestedGrows ==
  ASSUME NEW t \in Tasks, pc \in [Tasks -> Points], pc[t] \notin InKernelSection,
         NEW to \in InKernelSection, pc' = [pc EXCEPT ![t] = to]
  PROVE  Cardinality(Nested') = Cardinality(Nested) + 1
<1>1. Nested' = Nested \cup {t} /\ t \notin Nested
  BY DEF Nested
<1> QED
  BY <1>1, NestedFinite, FS_AddElement

LEMMA NestedShrinks ==
  ASSUME NEW t \in Tasks, pc \in [Tasks -> Points], pc[t] \in InKernelSection,
         NEW to \in Points \ InKernelSection, pc' = [pc EXCEPT ![t] = to]
  PROVE  Cardinality(Nested') = Cardinality(Nested) - 1
<1>1. Nested' = Nested \ {t} /\ t \in Nested
  BY DEF Nested
<1> QED
  BY <1>1, NestedFinite, FS_RemoveElement

LEMMA NestedSame ==
  ASSUME NEW t \in Tasks, pc \in [Tasks -> Points], NEW to \in Points,
         pc[t] \in InKernelSection <=> to \in InKernelSection,
         pc' = [pc EXCEPT ![t] = to]
  PROVE  Nested' = Nested
  BY DEF Nested

-----------------------------------------------------------------------------
LEMMA InitInv == Init => Inv
<1> SUFFICES ASSUME Init PROVE Inv
  OBVIOUS
<1>1. Types /\ Guarded /\ SpinIsHeld /\ NeverSpins
  BY DEF Init, Types, Points, Guarded, Masked, Holding, SpinIsHeld, NeverSpins
<1>2. Nested = {}
  BY DEF Init, Nested, InKernelSection
<1>3. Counts
  BY <1>2, FS_EmptySet DEF Init, Counts
<1> QED
  BY <1>1, <1>3 DEF Inv

\* A task that stands outside any section finds the spin lock free.
LEMMA LockKeeps ==
  ASSUME Inv, NEW t \in Tasks, Lock(t)
  PROVE  Inv'
<1>1. ~spin
  BY DEF Inv, SpinIsHeld, Lock, GoTo, Holding
<1>2. pc' = [pc EXCEPT ![t] = "locked"] /\ pc[t] = "out" /\ running = t /\ running' = t
  BY <1>1 DEF Lock, GoTo
<1>3. Types' /\ Guarded' /\ SpinIsHeld' /\ NeverSpins'
  BY <1>1, <1>2 DEF Inv, Types, Guarded, SpinIsHeld, NeverSpins, Lock, TakeSpin,
     Masked, Holding, Points
<1>4. Nested' = Nested
  BY <1>2, NestedSame DEF Inv, Types, InKernelSection, Points, Holding
<1> QED
  BY <1>3, <1>4 DEF Inv, Counts, Lock

\* A step inside a section, with the interrupts masked before and after.
LEMMA InsideKeeps ==
  ASSUME Inv, NEW t \in Tasks, Select(t) \/ Transfer(t) \/ Deselect(t)
  PROVE  Inv'
<1>1. PICK from \in {"inside", "selected", "moved"}, to \in {"selected", "moved", "done"} :
        GoTo(t, from, to)
  BY DEF Select, Transfer, Deselect
<1>2. UNCHANGED <<irq, spin, saved, nesting>>
  BY DEF Select, Transfer, Deselect
<1>3. Types' /\ Guarded' /\ SpinIsHeld' /\ NeverSpins'
  BY <1>1, <1>2 DEF Inv, Types, Guarded, SpinIsHeld, NeverSpins, GoTo,
     Masked, Holding, Points
<1>4. Nested' = Nested
  BY <1>1, NestedSame DEF Inv, Types, GoTo, InKernelSection, Points, Holding
<1> QED
  BY <1>2, <1>3, <1>4 DEF Inv, Counts

\* The kernel's section is entered, within the lock or outside.
LEMMA EnterKeeps ==
  ASSUME Inv, NEW t \in Tasks, LockKernel(t) \/ KernelCall(t)
  PROVE  Inv'
<1>1. PICK from \in {"locked", "out"}, to \in {"inside", "kernel"} :
        GoTo(t, from, to) /\ (from = "locked" <=> to = "inside")
  BY DEF LockKernel, KernelCall
<1>2. UNCHANGED <<spin, saved>> /\ irq' = FALSE /\ nesting' = nesting + 1
  BY DEF LockKernel, KernelCall, EnterCritical
<1>3. Types' /\ Guarded' /\ SpinIsHeld' /\ NeverSpins'
  BY <1>1, <1>2 DEF Inv, Types, Guarded, SpinIsHeld, NeverSpins, GoTo,
     Masked, Holding, Points
<1>4. Cardinality(Nested') = Cardinality(Nested) + 1
  BY <1>1, NestedGrows DEF Inv, Types, GoTo, InKernelSection
<1> QED
  BY <1>2, <1>3, <1>4 DEF Inv, Counts

\* The first half of the unlock: the interrupts may come on.
LEMMA UnlockKeeps ==
  ASSUME Inv, NEW t \in Tasks, Unlock(t)
  PROVE  Inv'
<1>1. GoTo(t, "done", "half") /\ LeaveSpin /\ UNCHANGED <<saved, nesting>>
  BY DEF Unlock, Release, UnlockOrder
<1>2. \A u \in Tasks : u # t => pc[u] \notin Masked
  BY <1>1 DEF Inv, Guarded, GoTo
<1>3. Types' /\ Guarded' /\ SpinIsHeld' /\ NeverSpins'
  BY <1>1, <1>2 DEF Inv, Types, Guarded, SpinIsHeld, NeverSpins, GoTo, LeaveSpin,
     Masked, Holding, Points
<1>4. Nested' = Nested
  BY <1>1, NestedSame DEF Inv, Types, GoTo, InKernelSection, Points, Holding
<1> QED
  BY <1>1, <1>3, <1>4 DEF Inv, Counts

\* The kernel's section is left; nobody else is in a section.
LEMMA ExitKeeps ==
  ASSUME Inv, NEW t \in Tasks, UnlockRest(t) \/ KernelReturn(t)
  PROVE  Inv'
<1>1. PICK from \in {"half", "kernel"} : GoTo(t, from, "out")
  BY DEF UnlockRest, KernelReturn
<1>2. UNCHANGED <<spin, saved>> /\ ExitCritical
  BY DEF UnlockRest, KernelReturn, Release, UnlockOrder
<1>3. \A u \in Tasks : u # t => pc[u] \notin Masked
  BY <1>1 DEF Inv, Guarded, GoTo
<1>4. ~spin
  BY <1>1 DEF Inv, SpinIsHeld, GoTo, Holding
<1>5. irq' \in BOOLEAN
  BY <1>2 DEF ExitCritical
<1>6. Types' /\ Guarded' /\ SpinIsHeld' /\ NeverSpins'
  BY <1>1, <1>2, <1>3, <1>4, <1>5 DEF Inv, Types, Guarded, SpinIsHeld, NeverSpins,
     GoTo, Masked, Holding, Points
<1>7. Cardinality(Nested') = Cardinality(Nested) - 1
  BY <1>1, NestedShrinks DEF Inv, Types, GoTo, InKernelSection, Points, Holding
<1> QED
  BY <1>2, <1>6, <1>7 DEF Inv, Counts, ExitCritical

\* A switch needs the interrupts: nobody is in a section then.
LEMMA SwitchKeeps ==
  ASSUME Inv, Switch
  PROVE  Inv'
<1>1. \A t \in Tasks : pc[t] \notin Masked
  BY DEF Inv, Guarded, Switch
<1>2. ~spin
  BY <1>1 DEF Inv, Types, SpinIsHeld, Masked
<1>3. Types' /\ Guarded' /\ SpinIsHeld' /\ NeverSpins'
  BY <1>1, <1>2 DEF Inv, Types, Guarded, SpinIsHeld, NeverSpins, Switch
<1>4. Nested' = Nested
  BY DEF Nested, Switch
<1> QED
  BY <1>3, <1>4 DEF Inv, Counts, Switch

\* The inductive invariant of the lock (w5x00_spi.c:127-137).
THEOREM Invariance == Spec => []Inv
<1>1. Inv /\ [Next]_vars => Inv'
  <2> SUFFICES ASSUME Inv, [Next]_vars PROVE Inv'
    OBVIOUS
  <2>1. ASSUME NEW t \in Tasks, Lock(t) PROVE Inv'
    BY <2>1, LockKeeps
  <2>2. ASSUME NEW t \in Tasks, Select(t) \/ Transfer(t) \/ Deselect(t) PROVE Inv'
    BY <2>2, InsideKeeps
  <2>3. ASSUME NEW t \in Tasks, LockKernel(t) \/ KernelCall(t) PROVE Inv'
    BY <2>3, EnterKeeps
  <2>4. ASSUME NEW t \in Tasks, Unlock(t) PROVE Inv'
    BY <2>4, UnlockKeeps
  <2>5. ASSUME NEW t \in Tasks, UnlockRest(t) \/ KernelReturn(t) PROVE Inv'
    BY <2>5, ExitKeeps
  <2>6. CASE Switch
    BY <2>6, SwitchKeeps
  <2>7. CASE UNCHANGED vars
    BY <2>7 DEF vars, Inv, Types, Guarded, SpinIsHeld, NeverSpins, Counts, Nested
  <2> QED
    BY <2>1, <2>2, <2>3, <2>4, <2>5, <2>6, <2>7 DEF Next
<1> QED
  BY InitInv, <1>1, PTL DEF Spec

\* No task finds the spin lock taken and two are never inside an access to the
\* chip, for any number of tasks (w5x00_spi.c:127-137).
THEOREM AccessExclusive == Spec => []AccessIsExclusive
<1>1. Inv => AccessIsExclusive
  BY DEF Inv, Guarded, AccessIsExclusive, NeverTwo, Masked
<1> QED
  BY <1>1, Invariance, PTL

\* The kernel's nesting count, one for all tasks, stays within their number.
THEOREM TypeCorrect == Spec => []TypeOK
<1>1. Inv => TypeOK
  <2> SUFFICES ASSUME Inv PROVE TypeOK
    OBVIOUS
  <2>1. Cardinality(Nested) <= Cardinality(Tasks) /\ Cardinality(Tasks) \in Nat
    BY TasksAssumption, FS_Subset, FS_CardinalityType DEF Nested
  <2> QED
    BY <2>1, NestedFinite DEF Inv, Types, Counts, TypeOK
<1> QED
  BY <1>1, Invariance, PTL

\* A task outside any section that runs masked owes it to one in the middle of its
\* unlock: a section is left with the interrupts masked only while another task
\* counts in the nesting, and that can only be a half of an unlock.
LEMMA MaskStays ==
  ASSUME Inv, NEW t \in Tasks, UnlockRest(t) \/ KernelReturn(t), ~irq'
  PROVE  \E u \in Tasks \ {t} : pc[u] = "half"
<1>1. PICK from \in {"half", "kernel"} : GoTo(t, from, "out")
  BY DEF UnlockRest, KernelReturn
<1>2. nesting # 1
  BY DEF UnlockRest, KernelReturn, Release, UnlockOrder, ExitCritical
<1>3. t \in Nested
  BY <1>1 DEF Nested, GoTo, InKernelSection
<1>4. Nested # {t}
  BY <1>2, FS_Singleton DEF Inv, Counts
<1>5. PICK u \in Nested : u # t
  BY <1>3, <1>4
<1>6. u \in Tasks /\ pc[u] \in InKernelSection /\ pc[u] \notin Masked
  BY <1>1, <1>5 DEF Inv, Guarded, GoTo, Nested
<1> QED
  BY <1>5, <1>6 DEF InKernelSection, Masked, Holding

\* What is wrong with the unlock (w5x00_spi.c:135) has this one way to bite.
THEOREM MaskedByHalf == Spec => []MaskedOnlyByHalf
<1>1. Init => MaskedOnlyByHalf
  BY DEF Init, MaskedOnlyByHalf
<1>2. Inv /\ MaskedOnlyByHalf /\ [Next]_vars => MaskedOnlyByHalf'
  <2> SUFFICES ASSUME Inv, MaskedOnlyByHalf, [Next]_vars, pc'[running'] = "out", ~irq'
               PROVE  \E u \in Tasks \ {running'} : pc'[u] = "half"
    BY DEF MaskedOnlyByHalf
  <2>1. ASSUME NEW t \in Tasks, UnlockRest(t) \/ KernelReturn(t)
        PROVE  \E u \in Tasks \ {running'} : pc'[u] = "half"
    <3>1. PICK u \in Tasks \ {t} : pc[u] = "half"
      BY <2>1, MaskStays
    <3>2. running' = t /\ pc'[u] = pc[u]
      BY <2>1 DEF Inv, Types, UnlockRest, KernelReturn, GoTo
    <3> QED
      BY <3>1, <3>2
  <2>2. ASSUME NEW t \in Tasks,
               \/ Lock(t) \/ LockKernel(t) \/ Select(t) \/ Transfer(t) \/ Deselect(t)
               \/ Unlock(t) \/ KernelCall(t)
        PROVE  FALSE
    <3>1. PICK to \in Points \ {"out"} : running' = t /\ pc' = [pc EXCEPT ![t] = to]
      BY <2>2 DEF Lock, LockKernel, Select, Transfer, Deselect, Unlock, KernelCall, GoTo,
         Points, Holding
    <3> QED
      BY <3>1 DEF Inv, Types
  <2>3. ~Switch
    BY DEF Switch
  <2>4. CASE UNCHANGED vars
    BY <2>4 DEF vars, MaskedOnlyByHalf
  <2> QED
    BY <2>1, <2>2, <2>3, <2>4 DEF Next
<1> QED
  BY <1>1, <1>2, Invariance, PTL DEF Spec

=============================================================================
