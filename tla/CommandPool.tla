---------------------------- MODULE CommandPool ----------------------------
(***************************************************************************)
(* The pool of MQTT commands (freertos_command_pool.c): a FreeRTOS queue   *)
(* of pointers, filled once, from which clients take a command and into    *)
(* which whoever ends a command puts it back.                              *)
(*                                                                         *)
(* The users are external: a client gets a command, waiting at most its    *)
(* block time, and sends it to the agent's queue; if that is full it gives *)
(* the command back.  The agent keeps the commands it waits for and ends   *)
(* them in any order; on a lost session it ends those still queued as      *)
(* well.  It initialises the pool before it serves anyone and calls the    *)
(* initialisation again for every new session.  A client may be earlier:   *)
(* main.cpp starts the twin and the ping task before the agent.            *)
(***************************************************************************)
EXTENDS Sequences, FiniteSets, Naturals, Functions

CONSTANTS
  Commands,            \* commandStructurePool
  Clients,             \* client tasks
  AgentQueueLength,    \* MQTT_AGENT_COMMAND_QUEUE_LENGTH, 25
  NULL                 \* no command

ASSUME PoolAssumption ==
  /\ IsFiniteSet(Commands)
  /\ NULL \notin Commands
ASSUME AgentQueueAssumption == AgentQueueLength \in Nat \ {0}

VARIABLES
  initStatus,  \* the pool's queue has been filled
  pool,        \* commandStructMessageCtx: pointers to free commands
  waiting,     \* clients blocked in Agent_GetCommand
  held,        \* the command a client prepares
  queue,       \* commands sent to the agent
  pending,     \* commands the agent executes
  failed       \* the configASSERT that failed: vAssertCalled never returns

vars == <<initStatus, pool, waiting, held, queue, pending, failed>>

\* MQTT_COMMAND_CONTEXTS_POOL_SIZE, 10 in the firmware.
PoolSize == Cardinality(Commands)

Init ==
  /\ initStatus = FALSE
  /\ pool = <<>>
  /\ waiting = {}
  /\ held = [t \in Clients |-> NULL]
  /\ queue = <<>>
  /\ pending = {}
  /\ failed = "none"

-----------------------------------------------------------------------------
(***************************************************************************)
(* Agent_InitializePool.                                                   *)
(***************************************************************************)

\* One round of the loop: the next structure goes into the queue.
Populate(c) ==
  /\ ~initStatus
  /\ c \notin Range(pool)
  /\ pool' = Append(pool, c)
  /\ initStatus' = (Range(pool) \cup {c} = Commands)
  /\ UNCHANGED <<waiting, held, queue, pending, failed>>

\* A slip: the status is not tested.
InitializeUnguarded ==
  /\ initStatus
  /\ initStatus' = FALSE
  /\ pool' = <<>>
  /\ UNCHANGED <<waiting, held, queue, pending, failed>>

\* A new session calls it again: the status makes it return at once.
InitializeAgain == initStatus /\ UNCHANGED vars

-----------------------------------------------------------------------------
(***************************************************************************)
(* Agent_GetCommand and Agent_ReleaseCommand.                              *)
(***************************************************************************)

\* The status is asserted; then the client waits for a pointer.
GetCommand(t) ==
  /\ t \notin waiting /\ held[t] = NULL
  /\ waiting' = IF initStatus THEN waiting \cup {t} ELSE waiting
  /\ failed' = IF initStatus THEN "none" ELSE "early"
  /\ UNCHANGED <<initStatus, pool, held, queue, pending>>

\* A slip: the pointer is read and stays in the queue.
ReceivePeek(t) ==
  /\ t \in waiting
  /\ pool # <<>>
  /\ held' = [held EXCEPT ![t] = Head(pool)]
  /\ waiting' = waiting \ {t}
  /\ UNCHANGED <<initStatus, pool, queue, pending, failed>>

Receive(t) ==
  /\ t \in waiting
  /\ pool # <<>>
  /\ pool' = Tail(pool)
  /\ held' = [held EXCEPT ![t] = Head(pool)]
  /\ waiting' = waiting \ {t}
  /\ UNCHANGED <<initStatus, queue, pending, failed>>

\* The block time ends with the pool empty: the caller gets NULL.
Expire(t) ==
  /\ t \in waiting
  /\ pool = <<>>
  /\ waiting' = waiting \ {t}
  /\ UNCHANGED <<initStatus, pool, held, queue, pending, failed>>

\* A slip: the pointer is sent only while others are free.
ReleaseToStock(c) ==
  /\ pool' = IF pool # <<>> THEN Append(pool, c) ELSE pool
  /\ UNCHANGED failed

\* A slip: the last slot of the queue is not used.
ReleaseShort(c) ==
  /\ pool' = IF Len(pool) < PoolSize - 1 THEN Append(pool, c) ELSE pool
  /\ failed' = IF Len(pool) < PoolSize - 1 THEN "none" ELSE "full"

\* The status is asserted; the send of the pointer does not wait and is asserted
\* to succeed.
ReleaseCommand(c) ==
  /\ pool' = IF initStatus /\ Len(pool) < PoolSize THEN Append(pool, c) ELSE pool
  /\ failed' = CASE ~initStatus -> "uninitialised"
                 [] initStatus /\ Len(pool) >= PoolSize -> "full"
                 [] OTHER -> "none"

-----------------------------------------------------------------------------
(***************************************************************************)
(* The users of the pool.                                                  *)
(***************************************************************************)

\* A slip: the pointer that was returned is not tested.
SubmitUntested(t) ==
  /\ initStatus /\ t \notin waiting
  /\ Len(queue) < AgentQueueLength
  /\ queue' = Append(queue, held[t])
  /\ held' = [held EXCEPT ![t] = NULL]
  /\ UNCHANGED <<initStatus, pool, waiting, pending, failed>>

Submit(t) ==
  /\ held[t] # NULL
  /\ Len(queue) < AgentQueueLength
  /\ queue' = Append(queue, held[t])
  /\ held' = [held EXCEPT ![t] = NULL]
  /\ UNCHANGED <<initStatus, pool, waiting, pending, failed>>

Refused(t) ==
  /\ held[t] # NULL
  /\ Len(queue) >= AgentQueueLength
  /\ ReleaseCommand(held[t])
  /\ held' = [held EXCEPT ![t] = NULL]
  /\ UNCHANGED <<initStatus, waiting, queue, pending>>

Execute ==
  /\ queue # <<>>
  /\ queue' = Tail(queue)
  /\ pending' = pending \cup {Head(queue)}
  /\ UNCHANGED <<initStatus, pool, waiting, held, failed>>

Complete(c) ==
  /\ c \in pending
  /\ pending' = pending \ {c}
  /\ ReleaseCommand(c)
  /\ UNCHANGED <<initStatus, waiting, held, queue>>

\* The session is lost: a command that was not begun is ended too.
Cancel ==
  /\ queue # <<>>
  /\ queue' = Tail(queue)
  /\ ReleaseCommand(Head(queue))
  /\ UNCHANGED <<initStatus, waiting, held, pending>>

Client(t) == GetCommand(t) \/ Receive(t) \/ Expire(t) \/ Submit(t) \/ Refused(t)
Agent == Execute \/ Cancel \/ \E c \in Commands : Complete(c)

\* After a failed assertion nothing runs any more.
Running ==
  /\ failed = "none"
  /\ \/ \E c \in Commands : Populate(c)
     \/ InitializeAgain
     \/ \E t \in Clients : Client(t)
     \/ Agent

Halted == failed # "none" /\ UNCHANGED vars

Next == Running \/ Halted

\* A client that has a command sends it, the agent empties its queue and every
\* command it executes ends (with an answer, an error or the session).
Fairness ==
  /\ \A t \in Clients : WF_vars(Submit(t) \/ Refused(t))
  /\ WF_vars(Execute)
  /\ \A c \in Commands : WF_vars(Complete(c))

Spec == Init /\ [][Next]_vars /\ Fairness

-----------------------------------------------------------------------------
(***************************************************************************)
(* Properties.                                                             *)
(***************************************************************************)

TypeOK ==
  /\ initStatus \in BOOLEAN
  /\ failed \in {"none", "early", "uninitialised", "full"}
  /\ pool \in Seq(Commands) /\ queue \in Seq(Commands)
  /\ waiting \subseteq Clients /\ pending \subseteq Commands
  /\ held \in [Clients -> Commands \cup {NULL}]

InUse == Range(queue) \cup pending \cup ({held[t] : t \in Clients} \ {NULL})

\* A command is in one place only, and once there.
EachOnce ==
  /\ IsInjective(pool) /\ IsInjective(queue)
  /\ Range(pool) \cap InUse = {}
  /\ Range(queue) \cap pending = {}
  /\ \A t, u \in Clients : (held[t] = held[u] /\ held[t] # NULL) => t = u
  /\ \A t \in Clients : held[t] \notin Range(queue) \cup pending

\* Once filled, the pool and its users have all commands between them.
NoneLost == initStatus => Range(pool) \cup InUse = Commands

\* Every command is in exactly one place: two users of one structure, or a
\* structure twice in the pool, would mix two requests, and a lost one would be
\* missing from every later session (freertos_command_pool.c:54 to 145).
EachInOnePlace == EachOnce /\ NoneLost

\* "The send should not fail as the queue was created to hold every command in
\* the pool" (freertos_command_pool.c:137).  Of the assertions of the two calls
\* only one can stop the board: that of a client which asks before the agent has
\* filled the pool (line 110).  From then on none fails: the pool has room for
\* every command that comes back (line 139), whoever ends it and however often
\* the session is lost, and none comes back before (line 129).
AssertsHold == failed = "none" \/ (failed = "early" /\ ~initStatus)

\* A command that is lent comes back (freertos_command_pool.c:125).
CommandsReturn ==
  \A c \in Commands : (c \in InUse) ~> (c \in Range(pool))

\* The queue of pointers implements the lending of whole commands.
Lending == INSTANCE CommandLending WITH
             free <- IF initStatus THEN Range(pool) ELSE Commands

LendsWhole == Lending!Spec

=============================================================================
