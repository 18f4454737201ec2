--------------------------- MODULE OsReadyQueSpec ---------------------------
(***************************************************************************)
(* What the ready queue promises the scheduler: one bounded FIFO for each   *)
(* priority that can also be entered at its head.  OsReadyQueRing, the      *)
(* arrays of the code, implements it.                                       *)
(***************************************************************************)
EXTENDS OsReadyQue

CONSTANTS
  QueueSize,  \* QueueMg->QueueSize[p]: the places of a priority
  Used        \* the priorities tasks and resources have

VARIABLE queue

FifoInit == queue = InitReadyTable

\* The configuration has a place for every entry the scheduler inserts.
FifoInsert(t, p) ==
  /\ Len(queue[p]) < QueueSize[p]
  /\ queue' \in {InsertTail(queue, p, t), InsertHead(queue, p, t)}

FifoRemove(p) ==
  /\ queue[p] # <<>>
  /\ queue' = RemoveHead(queue, p)

FifoNext == \E p \in Used : FifoRemove(p) \/ \E t \in Task : FifoInsert(t, p)

Fifo == FifoInit /\ [][FifoNext]_queue

=============================================================================
