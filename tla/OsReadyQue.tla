----------------------------- MODULE OsReadyQue -----------------------------
(***************************************************************************)
(* The ready queue of one core (Os_ReadyQue.c), as its callers see it: one  *)
(* FIFO per priority, whose first entry is the task that runs next at that  *)
(* priority.  A queue is a function from priorities to sequences of tasks;  *)
(* the bit map of the C code has bit p set exactly when q[p] is not empty.  *)
(* OsReadyQueRing models the arrays, head/tail marks and bit map behind it. *)
(***************************************************************************)
EXTENDS Integers, Sequences

CONSTANTS
  TaskMax,     \* Os_TaskIdRange[core].AllTask.End: tasks are 0 .. TaskMax - 1
  PriorityNum  \* QueueMg->PriorityMax: task priorities are 0 .. PriorityNum - 1

Task == 0 .. TaskMax - 1
Prio == 0 .. PriorityNum - 1

OS_TASK_INVALID     == 65535  \* Os_Macros.h
OS_PRIORITY_INVALID == 65535

ASSUME QueueConstants ==
  /\ TaskMax \in 1 .. OS_TASK_INVALID - 1
  /\ PriorityNum \in 1 .. OS_PRIORITY_INVALID - 1

\* Os_InitReadyTable: every map word 0, every head and tail 0.
InitReadyTable == [p \in Prio |-> <<>>]

\* Os_ReadyQueueInsert at OS_LEVEL_TASK: write at the tail.
InsertTail(q, p, t) == [q EXCEPT ![p] = Append(@, t)]

\* Mutant: a raised task queues behind the tasks of the ceiling priority.
InsertHeadAtTail(q, p, t) == InsertTail(q, p, t)

\* Os_ReadyQueueInsert at OS_LEVEL_STANDARD_RESOURCE or
\* OS_LEVEL_INTERNAL_RESOURCE: step the head back and write there.
InsertHead(q, p, t) == [q EXCEPT ![p] = <<t>> \o @]

\* Os_ReadyQueueRemove: drops the first entry of the priority, whoever it is.
RemoveHead(q, p) == [q EXCEPT ![p] = Tail(@)]

\* Os_GetHighPrio: the highest set bit of the map.  With no bit set the code
\* spins for ever (a map of several words) or answers 0 (one word), a priority
\* without a task; OsKernel's IdleIsReady excludes that.
GetHighPrio(q) ==
  CHOOSE p \in Prio : /\ q[p] # <<>>
                      /\ \A o \in Prio : q[o] # <<>> => o <= p

\* Os_ReadyQueueGetFirst
GetFirst(q, p) == Head(q[p])

=============================================================================
