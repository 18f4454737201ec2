----------------------------- MODULE MCOsSpinlock -----------------------------
(* Two cores, a task and an interrupt on the first, two tasks on the second.  The lock a task   *)
(* may be preempted with comes first in the order, the interrupt takes the last one only.       *)
EXTENDS OsSpinlock, TLC

CONSTANTS taskA, isrA, taskC, taskD, S1, S2, S3

MCCores == 0 .. 1
MCTasks == {taskA, taskC, taskD}
MCIsrs == {isrA}
MCCoreOf == (taskA :> 0) @@ (isrA :> 0) @@ (taskC :> 1) @@ (taskD :> 1)
MCPrio == (taskA :> 1) @@ (isrA :> 1) @@ (taskC :> 1) @@ (taskD :> 2)
MCSchedulerCeiling == (0 :> 2) @@ (1 :> 2)
MCSpinlocks == {S1, S2, S3}
MCSpinlockOrder == (S1 :> 1) @@ (S2 :> 2) @@ (S3 :> 3)
MCSpinlockGroupsId == (S1 :> 0) @@ (S2 :> 0) @@ (S3 :> 0)
MCSpinlockMethod == (S1 :> "LOCK_NOTHING") @@ (S2 :> "LOCK_WITH_RES_SCHEDULER")
                    @@ (S3 :> "LOCK_CAT2_INTERRUPTS")
MCUses == (taskA :> {S1, S2, S3}) @@ (isrA :> {S3}) @@ (taskC :> {S1, S2}) @@ (taskD :> {S1, S3})

\* The configuration meets the conditions the theorems need.
ASSUME MCConfiguration == IsrsLeaveScheduler /\ OneSchedulerLock /\ PreemptionFollowsOrder
=============================================================================
