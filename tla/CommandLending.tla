--------------------------- MODULE CommandLending ---------------------------
(***************************************************************************)
(* What the MQTT command pool promises its users: a command structure is   *)
(* free, or held by one client that prepares it, or with the agent that    *)
(* executes it (neither free nor held).  It passes from one to the next    *)
(* whole, and nobody gets it while another has it.                         *)
(***************************************************************************)
CONSTANTS
  Commands,  \* the command structures
  Clients,   \* tasks that ask the agent for something
  NULL       \* no command

VARIABLES
  free,  \* commands nobody uses
  held   \* the command a client prepares

vars == <<free, held>>

Init ==
  /\ free = Commands
  /\ held = [t \in Clients |-> NULL]

HeldBySome(c) == \E t \in Clients : held[t] = c

Borrow(t) ==
  /\ held[t] = NULL
  /\ \E c \in free :
       /\ free' = free \ {c}
       /\ held' = [held EXCEPT ![t] = c]

\* The client hands its command to the agent.
Submit(t) ==
  /\ held[t] # NULL
  /\ held' = [held EXCEPT ![t] = NULL]
  /\ UNCHANGED free

\* The agent refused the command; the client gives it back.
Withdraw(t) ==
  /\ held[t] # NULL
  /\ free' = free \cup {held[t]}
  /\ held' = [held EXCEPT ![t] = NULL]

\* The agent is done with a command.
GiveBack(c) ==
  /\ c \notin free
  /\ ~HeldBySome(c)
  /\ free' = free \cup {c}
  /\ UNCHANGED held

Next ==
  \/ \E t \in Clients : Borrow(t) \/ Submit(t) \/ Withdraw(t)
  \/ \E c \in Commands : GiveBack(c)

Spec == Init /\ [][Next]_vars

=============================================================================
