----------------------------- MODULE MCOsKernel -----------------------------
(***************************************************************************)
(* Configurations of OsKernel for TLC: an idle task, three or four tasks of *)
(* priorities 1 to 3, and two interrupts, the second of which nests.        *)
(***************************************************************************)
EXTENDS OsKernelInvariant

CONSTANTS rLow, rHigh, rIsr, rIsr2, isrLow, isrHigh, e1, e2

TaskFun(seq) == [t \in Task |-> seq[t + 1]]

MC_IsrPrio == (isrLow :> 1 @@ isrHigh :> 2)
MC_IsrPrioLow == (isrLow :> 1)
MC_NoIsrAccess == [i \in Isr |-> {}]
MC_NoServices == [t \in Task |-> {}]

(* Resources: tasks 2 and 3 have the same priority; 2 is activated twice    *)
(* and has an internal resource, 3 is not preemptable.  Task 1 may nest     *)
(* three resources, rIsr is shared with the low interrupt and rIsr2 by the  *)
(* two interrupts.                                                          *)
MC_TaskPriority5 == TaskFun(<<0, 1, 2, 2, 3>>)
MC_Activation == TaskFun(<<1, 1, 2, 1, 1>>)
MC_InterRes == TaskFun(<<0, 0, 3, 0, 0>>)
MC_Ceiling == (rLow :> 2 @@ rHigh :> 3 @@ rIsr :> 4 @@ rIsr2 :> 5)
MC_OccupyType ==
  (rLow :> "BY_TASK" @@ rHigh :> "BY_TASK" @@ rIsr :> "BY_TASK_OR_INTERRUPT"
   @@ rIsr2 :> "BY_INTERRUPT")
MC_TaskAccess == TaskFun(<<{}, {rLow, rHigh, rIsr}, {rLow}, {rLow, rIsr}, {rHigh}>>)
MC_IsrAccess == (isrLow :> {rIsr, rIsr2} @@ isrHigh :> {rIsr2})

MC_TaskPriority == TaskFun(<<0, 1, 2, 3>>)

(* Events: tasks 2 and 3 are extended, one waits for any of its events and  *)
(* the other for all of them.                                               *)
MC_OneActivation == TaskFun(<<1, 1, 1, 1>>)
MC_NoInterRes == TaskFun(<<0, 0, 0, 0>>)
MC_NoTaskAccess == TaskFun(<<{}, {}, {}, {}>>)
MC_NoCeiling == [r \in Resource |-> 0]
MC_NoOccupyType == [r \in Resource |-> "BY_TASK"]
MC_OneServiceEach == TaskFun(<<{}, {}, {"WaitEvent"}, {"WaitAllEvents"}>>)

\* What the theorems about OsKernel assume holds of both configurations.
ASSUME MCConfiguration == NoChainWhileNonPreemptable /\ OneWaitService /\ SharedCeilingsAgree

=============================================================================
