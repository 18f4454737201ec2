----------------------------- MODULE OsResource -----------------------------
(***************************************************************************)
(* Standard resources of one core (Os_Resource.c): the OSEK priority        *)
(* ceiling protocol for resources of tasks, of interrupts, and of both.     *)
(*                                                                          *)
(* A resource's control block holds SaveCount, the place of the resource on *)
(* the stack of its holder (0 when free), and SavePrio, the priority to go  *)
(* back to.  The ceiling of a resource that interrupts use is a priority    *)
(* from PriorityNum on, which PrioToIpl turns into a level.                 *)
(***************************************************************************)
EXTENDS OsInterrupt

CONSTANTS
  Resource,    \* standard resources of the core
  Ceiling,     \* Os_ResourceCfg[r].Ceiling
  OccupyType,  \* Os_ResourceCfg[r].ResourceOccupyType
  TaskAccess,  \* Os_TaskResourceAccessMask: the resources of each task
  IsrAccess    \* Os_IsrResourceAccessMask: the resources of each interrupt

OccupyTypes == {"BY_TASK", "BY_TASK_OR_INTERRUPT", "BY_INTERRUPT"}

(* The generated configuration: every user of a resource is at or below its *)
(* ceiling, and only the users its occupy type names have access to it.     *)
ASSUME ResourceConstants ==
  /\ Ceiling \in [Resource -> Nat]
  /\ OccupyType \in [Resource -> OccupyTypes]
  /\ TaskAccess \in [Task -> SUBSET Resource]
  /\ IsrAccess \in [Isr -> SUBSET Resource]
  /\ \A r \in Resource : OccupyType[r] = "BY_TASK" => Ceiling[r] \in Prio
  /\ \A t \in Task, r \in Resource :
       r \in TaskAccess[t] => /\ OccupyType[r] # "BY_INTERRUPT"
                              /\ TaskPriority[t] <= Ceiling[r]
  /\ \A i \in Isr, r \in Resource :
       r \in IsrAccess[i] => /\ OccupyType[r] # "BY_TASK"
                             /\ IsrPrio[i] <= PrioToIpl(Ceiling[r])

VARIABLES
  rcb,      \* Os_RCB
  taskRes,  \* TCB->TaskResourceStack[0 .. TaskResCount - 1]
  isrRes    \* ICB->IsrC2ResourceStack[0 .. IsrC2ResCount - 1]

Rcb == [saveCount : Nat, savePrio : Nat, saveLevel : {"TASK", "ISR2", "MAIN"}]

\* Os_RCBInit, and what a release leaves behind
FreeRcb == [saveCount |-> 0, savePrio |-> OS_PRIORITY_INVALID, saveLevel |-> "MAIN"]

-----------------------------------------------------------------------------
(* Taking *)

\* Mutant: an occupied resource is handed out again.
CheckAccessOnly(r, access) == r \in access

\* Os_GetResourceSafetyCheck, a critical section of its own
GetResourceSafetyCheck(r, access) == rcb[r].saveCount = 0 /\ r \in access

\* Os_SaveResourceByTaskOrder
SaveResourceByTaskOrder(t, r, savePrio) ==
  /\ taskRes' = [taskRes EXCEPT ![t] = Append(@, r)]
  /\ rcb' = [rcb EXCEPT ![r] = [saveCount |-> Len(taskRes[t]) + 1,
                                savePrio  |-> savePrio,
                                saveLevel |-> SysOsLevel]]

\* Mutant: the task keeps its priority.
KeepPriority(s, t, c) == s

\* Mutant: a task already at the ceiling is queued there again.
RaiseAgain(s, t, c) ==
  RaiseHigh(IF c >= s.runPrio[t]
            THEN [s EXCEPT !.queue = InsertHead(@, c, t), !.runPrio[t] = c]
            ELSE s, t, c)

\* The scheduler's part of Os_GetResourceByTask
RaiseToCeiling(s, t, c) ==
  RaiseHigh(IF c > s.runPrio[t]
            THEN [s EXCEPT !.queue = InsertHead(@, c, t), !.runPrio[t] = c]
            ELSE s, t, c)

GetResourceByTask(t, r) ==
  /\ TaskPriority[t] <= Ceiling[r]
  /\ SaveResourceByTaskOrder(t, r, sched.runPrio[t])
  /\ sched' = RaiseToCeiling(sched, t, Ceiling[r])
  /\ UNCHANGED <<isrRes, ipl>>

\* Mutant: the dispatcher is not locked.
GetSharedUnlocked(t, r) ==
  /\ SaveResourceByTaskOrder(t, r, IplToPrio(ipl))
  /\ ipl' = PrioToIpl(Ceiling[r])
  /\ UNCHANGED <<sched, isrRes>>

\* The level is set to the ceiling's whatever it was.
GetResourceByTaskOrInterrupt(t, r) ==
  /\ SaveResourceByTaskOrder(t, r, IplToPrio(ipl))
  /\ ipl' = PrioToIpl(Ceiling[r])
  /\ sched' = [sched EXCEPT !.locker = @ + 1]
  /\ UNCHANGED isrRes

\* An interrupt's level is only ever raised.
GetResourceByInterrupt(i, r) ==
  /\ ipl' = IF Ceiling[r] > IplToPrio(ipl) THEN PrioToIpl(Ceiling[r]) ELSE ipl
  /\ isrRes' = [isrRes EXCEPT ![i] = Append(@, r)]
  /\ rcb' = [rcb EXCEPT ![r] = [saveCount |-> Len(isrRes[i]) + 1,
                                savePrio  |-> IplToPrio(ipl),
                                saveLevel |-> SysOsLevel]]
  /\ UNCHANGED <<sched, taskRes>>

\* Os_GetResource at task level
GetResourceAtTaskLevel(t, r) ==
  \/ OccupyType[r] = "BY_TASK" /\ GetResourceByTask(t, r)
  \/ OccupyType[r] = "BY_TASK_OR_INTERRUPT" /\ GetResourceByTaskOrInterrupt(t, r)

\* GetResource at interrupt level: the check and Os_GetResource.  An interrupt
\* that comes between the two has released what it took when it returns.
GetResourceAtIsrLevel(i, r) ==
  /\ GetResourceSafetyCheck(r, IsrAccess[i])
  /\ GetResourceByInterrupt(i, r)

-----------------------------------------------------------------------------
(* Releasing *)

\* The end of Os_ReleaseResource: look the top up again and preempt.
AfterRelease(s) ==
  LET u == UpdateHighPrioTask(s)
  IN  IF u.high # u.running THEN DispatchIfUnlocked(u) ELSE u

\* Mutant: a nested release goes back to the task's own priority.
LowerToOwnPriority(s, t, r) ==
  IF Ceiling[r] > rcb[r].savePrio
  THEN [s EXCEPT !.queue = RemoveHead(@, s.runPrio[t]), !.runPrio[t] = TaskPriority[t]]
  ELSE s

\* The scheduler's part of Os_ReleaseResourceByTask
LowerFromCeiling(s, t, r) ==
  IF Ceiling[r] > rcb[r].savePrio
  THEN [s EXCEPT !.queue = RemoveHead(@, s.runPrio[t]), !.runPrio[t] = rcb[r].savePrio]
  ELSE s

\* Only the number of resources is compared: the entry popped is the last one.
ReleaseResourceByTask(t, r) ==
  /\ TaskPriority[t] <= Ceiling[r]
  /\ rcb[r].saveCount = Len(taskRes[t])
  /\ taskRes' = [taskRes EXCEPT ![t] = Front(@)]
  /\ sched' = AfterRelease(LowerFromCeiling(sched, t, r))
  /\ UNCHANGED <<isrRes, ipl>>

ReleaseResourceByTaskOrInterrupt(t, r) ==
  /\ rcb[r].saveCount = Len(taskRes[t])
  /\ taskRes' = [taskRes EXCEPT ![t] = Front(@)]
  /\ ipl' = PrioToIpl(rcb[r].savePrio)
  /\ sched' = AfterRelease([sched EXCEPT !.locker = @ - 1])
  /\ UNCHANGED isrRes

ReleaseResourceByInterrupt(i, r) ==
  /\ rcb[r].saveCount = Len(isrRes[i])
  /\ isrRes' = [isrRes EXCEPT ![i] = Front(@)]
  /\ ipl' = IF Ceiling[r] > rcb[r].savePrio THEN PrioToIpl(rcb[r].savePrio) ELSE ipl
  /\ sched' = AfterRelease(sched)
  /\ UNCHANGED taskRes

\* ReleaseResource.  A resource that was taken at task level is taken off the
\* running task's stack, whoever calls; one that an interrupt took is released
\* while that interrupt is active.
ReleaseResource(r) ==
  /\ rcb[r].saveCount > 0
  /\ rcb' = [rcb EXCEPT ![r] = FreeRcb]
  /\ \/ /\ OccupyType[r] = "BY_TASK"
        /\ ReleaseResourceByTask(sched.running, r)
     \/ /\ OccupyType[r] = "BY_TASK_OR_INTERRUPT"
        /\ rcb[r].saveLevel = "TASK"
        /\ ReleaseResourceByTaskOrInterrupt(sched.running, r)
     \/ /\ OccupyType[r] # "BY_TASK"
        /\ rcb[r].saveLevel # "TASK"
        /\ SysOsLevel = "ISR2"
        /\ ReleaseResourceByInterrupt(RunningIsr, r)

=============================================================================
