-------------------------- MODULE OsApplReadyQueue --------------------------
(***************************************************************************)
(* Os_ApplReadyQueueRemove: the termination of an OS-application takes each *)
(* of its tasks out of the ring it is queued in (Os_ApplTerminateOneTask).  *)
(*                                                                          *)
(* The function copies entries to the left over those of the task.  The     *)
(* locals of its loop are one record: the places q, the front (queueFront), *)
(* the new tail (queueTail) and the entries found (hitCount).               *)
(***************************************************************************)
EXTENDS OsReadyQueRing

\* The inner loop: count the entries of the task from queueFront + hitCount on.
RECURSIVE CountHits(_, _, _, _)
CountHits(s, t, size, width) ==
  IF s.q[(s.front + s.hit) % size] = t /\ s.hit < width
  THEN CountHits([s EXCEPT !.hit = @ + 1, !.tail = (@ + size - 1) % size], t, size, width)
  ELSE s

\* The outer loop: close the gap, step on, up to the new tail.
RECURSIVE ShiftLeft(_, _, _, _)
ShiftLeft(s, t, size, width) ==
  LET c == CountHits(s, t, size, width)
      m == IF c.hit > 0
           THEN [c EXCEPT !.q[c.front] = c.q[(c.front + c.hit) % size]]
           ELSE c
      n == [m EXCEPT !.front = (@ + 1) % size]
  IN  IF c.front = c.tail /\ c.hit > 0 THEN c
      ELSE IF n.front # n.tail THEN ShiftLeft(n, t, size, width)
      ELSE n

\* "Set the deleted QueueTail as invalid": the hitCount places after queueTail.
ClearDeleted(s, size) ==
  [i \in DOMAIN s.q |->
     IF \E h \in 1 .. s.hit : i = (s.tail + h) % size THEN OS_TASK_INVALID ELSE s.q[i]]

ApplReadyQueueRemove(t, p) ==
  LET size  == QueueSize[p]
      head  == QueueHead[p]
      tail  == QueueTail[p]
      width == IF head = tail THEN size ELSE (tail + size - head) % size
      done  == ShiftLeft([q |-> Queue[p], front |-> head, tail |-> tail, hit |-> 0],
                         t, size, width)
  IN  /\ ~(head = tail /\ Queue[p][Before(p, tail)] = OS_TASK_INVALID)
      /\ Queue' = [Queue EXCEPT ![p] = ClearDeleted(done, size)]
      /\ QueueTail' = [QueueTail EXCEPT ![p] = done.tail]
      /\ Map' = IF done.tail = head THEN OS_MAP_BIT_DISMASK(p) ELSE Map
      /\ UNCHANGED QueueHead

ApplNext ==
  \/ RingNext
  \/ \E t \in Task, p \in Used : ApplReadyQueueRemove(t, p)

ApplSpec == RingInit /\ [][ApplNext]_ringVars

-----------------------------------------------------------------------------

(* "Removing task_node from ready_queue in TerminateApplication": the other *)
(* tasks keep their entries and their order.                                *)
RemovesOnlyTheTask ==
  [][\A t \in Task, p \in Used :
       ApplReadyQueueRemove(t, p) =>
         Contents(p)' = SelectSeq(Contents(p), LAMBDA u : u # t)]_ringVars

=============================================================================
