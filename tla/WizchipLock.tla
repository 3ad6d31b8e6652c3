---------------------------- MODULE WizchipLock ----------------------------
(***************************************************************************)
(* The critical section around every access to the Ethernet chip           *)
(* (w5x00_spi.c): a Pico SDK critical section, which masks the interrupts  *)
(* and takes a spin lock, with a FreeRTOS critical section inside.  The    *)
(* unlock leaves them in the order in which the lock entered them.         *)
(*                                                                         *)
(* External: the SDK saves the interrupt mask at the lock and restores it  *)
(* at the unlock; the kernel's Cortex-M0 port counts the nesting of its    *)
(* sections in one variable for all tasks and unmasks at zero.  A task     *)
(* loses the core, to any other, only while the interrupts are unmasked    *)
(* and gets it back with them unmasked.  All other kernel calls are        *)
(* sections of their own.                                                  *)
(***************************************************************************)
EXTENDS Naturals, FiniteSets

CONSTANT Tasks  \* tasks that use the chip or the kernel

ASSUME TasksAssumption == IsFiniteSet(Tasks) /\ Tasks # {}

VARIABLES
  running,  \* the task on the core
  irq,      \* interrupts are unmasked
  spin,     \* the spin lock of g_wizchip_cri_sec is taken
  saved,    \* the mask saved in it
  nesting,  \* uxCriticalNesting
  pc        \* where each task is

vars == <<running, irq, spin, saved, nesting, pc>>

Holding == {"locked", "inside", "selected", "moved", "done"}
Points == {"out", "spinning", "half", "kernel"} \cup Holding

Init ==
  /\ running \in Tasks
  /\ irq = TRUE /\ spin = FALSE /\ saved = TRUE
  /\ nesting = 0
  /\ pc = [t \in Tasks |-> "out"]

GoTo(t, from, to) ==
  /\ running = t
  /\ pc[t] = from
  /\ pc' = [pc EXCEPT ![t] = to]
  /\ UNCHANGED running

-----------------------------------------------------------------------------
(***************************************************************************)
(* The two kinds of section.                                               *)
(***************************************************************************)

\* vPortEnterCritical and vPortExitCritical.
EnterCritical ==
  /\ irq' = FALSE
  /\ nesting' = nesting + 1

ExitCritical ==
  /\ nesting' = nesting - 1
  /\ irq' = (nesting = 1 \/ irq)

\* critical_section_enter_blocking: a task that finds the lock taken waits for
\* it with the interrupts masked.
TakeSpin == spin' = TRUE /\ irq' = FALSE

\* critical_section_exit.
LeaveSpin ==
  /\ spin' = FALSE
  /\ irq' = saved

-----------------------------------------------------------------------------
(***************************************************************************)
(* An access to the chip.                                                  *)
(***************************************************************************)

\* A slip: the SDK's section is not entered.
LockLeftOut(t) ==
  /\ GoTo(t, "out", "locked")
  /\ UNCHANGED <<irq, spin, saved, nesting>>

Lock(t) ==
  /\ GoTo(t, "out", IF spin THEN "spinning" ELSE "locked")
  /\ TakeSpin
  /\ saved' = IF spin THEN saved ELSE irq
  /\ UNCHANGED nesting

LockKernel(t) ==
  /\ GoTo(t, "locked", "inside")
  /\ EnterCritical
  /\ UNCHANGED <<spin, saved>>

\* Chip select goes low, bytes are read and written, it goes high.  Nothing here
\* sleeps, and the interrupt of a DMA transfer is not used.
Select(t) ==
  /\ GoTo(t, "inside", "selected")
  /\ UNCHANGED <<irq, spin, saved, nesting>>

Transfer(t) ==
  /\ GoTo(t, "selected", "moved")
  /\ UNCHANGED <<irq, spin, saved, nesting>>

Deselect(t) ==
  /\ GoTo(t, "moved", "done")
  /\ UNCHANGED <<irq, spin, saved, nesting>>

\* A slip: the order of a lock inside a lock.
NestedOrder == <<"kernel", "spin">>

\* A slip: the kernel's section is not left.
SpinOnly == <<"spin", "spin">>

\* wizchip_critical_section_unlock
UnlockOrder == <<"spin", "kernel">>

Release(what) ==
  \/ what = "spin" /\ LeaveSpin /\ UNCHANGED <<saved, nesting>>
  \/ what = "kernel" /\ ExitCritical /\ UNCHANGED <<spin, saved>>

Unlock(t) == GoTo(t, "done", "half") /\ Release(UnlockOrder[1])
UnlockRest(t) == GoTo(t, "half", "out") /\ Release(UnlockOrder[2])

-----------------------------------------------------------------------------
(***************************************************************************)
(* The kernel.                                                             *)
(***************************************************************************)

\* A queue, a delay, a timer: any kernel call has a section of its own.
KernelCall(t) ==
  /\ GoTo(t, "out", "kernel")
  /\ EnterCritical
  /\ UNCHANGED <<spin, saved>>

KernelReturn(t) ==
  /\ GoTo(t, "kernel", "out")
  /\ ExitCritical
  /\ UNCHANGED <<spin, saved>>

Switch ==
  /\ irq
  /\ running' \in Tasks \ {running}
  /\ UNCHANGED <<irq, spin, saved, nesting, pc>>

Next ==
  \/ \E t \in Tasks :
       \/ Lock(t) \/ LockKernel(t) \/ Select(t) \/ Transfer(t) \/ Deselect(t)
       \/ Unlock(t) \/ UnlockRest(t) \/ KernelCall(t) \/ KernelReturn(t)
  \/ Switch

Spec == Init /\ [][Next]_vars

-----------------------------------------------------------------------------
(***************************************************************************)
(* Properties.                                                             *)
(***************************************************************************)

TypeOK ==
  /\ running \in Tasks
  /\ {irq, spin, saved} \subseteq BOOLEAN
  /\ nesting \in 0..Cardinality(Tasks)
  /\ pc \in [Tasks -> Points]

\* No task waits for the spin lock, which it would do for ever: with the
\* interrupts masked the holder never runs again (w5x00_spi.c:129).
NeverSpins == \A t \in Tasks : pc[t] # "spinning"

\* Two tasks are never inside an access.
NeverTwo == \A t, u \in Tasks : (pc[t] \in Holding /\ pc[u] \in Holding) => t = u

\* Whoever wants the chip gets it at once and alone, so no task hangs and the bytes
\* of two accesses do not mix on the bus (w5x00_spi.c:127-137).
AccessIsExclusive == NeverSpins /\ NeverTwo

\* The interrupts stay masked under a task in no section for one reason only:
\* another task was switched out between the halves of its unlock
\* (w5x00_spi.c:135) and still has the kernel's section to leave.
MaskedOnlyByHalf ==
  (pc[running] = "out" /\ ~irq) => \E t \in Tasks \ {running} : pc[t] = "half"

\* "Release a critical section" (w5x00_spi.h:106): a task in no section runs
\* with the interrupts on.  The unlock unmasks them before it leaves the kernel's
\* section; a task that is switched in there finds the nesting at one, and its
\* next kernel call leaves the interrupts masked for good.
OutsideIsUnmasked == pc[running] = "out" => irq

=============================================================================
