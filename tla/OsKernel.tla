------------------------------ MODULE OsKernel ------------------------------
(***************************************************************************)
(* One core of the kernel: startup, the services tasks and interrupts call, *)
(* and the interrupts that come in between.                                 *)
(*                                                                          *)
(* A service runs in one critical section and is one action.  Two are not:  *)
(* GetResource and SetEvent check their arguments before they enter the     *)
(* critical section that acts on them, so that an interrupt, and a task it  *)
(* activates, can run between check and action.  Those are two actions, and *)
(* call[t] says how far task t has come.  A service that returns an error   *)
(* changes no state and is no step.                                         *)
(***************************************************************************)
EXTENDS OsEvent

CONSTANTS
  Chainers,     \* the tasks that call ChainTask
  WaitServices  \* for each task the subset of WaitEvent, WaitAllEvents it calls

ASSUME ApplicationConstants ==
  /\ Chainers \subseteq Task
  /\ WaitServices \in [Task -> SUBSET {"WaitEvent", "WaitAllEvents"}]

VARIABLES
  booted,  \* the tasks 0 .. booted - 1 have been through Os_InitTaskTCB
  call     \* the service each task is in the middle of

vars == <<sched, isrNest, ipl, savedIpl, rcb, taskRes, isrRes, ecb, blockedIn, booted, call>>

isrVars == <<isrNest, savedIpl>>
resVars == <<rcb, taskRes, isrRes, ipl>>
evtVars == <<ecb, blockedIn>>

NoCall == [op |-> "none"]

Call == {NoCall} \cup [op : {"GetResource"}, res : Resource]
                 \cup [op : {"SetEvent"}, task : Task, mask : Masks]

Init ==
  /\ sched = InitSched
  /\ isrNest = <<>> /\ savedIpl = <<>> /\ ipl = 0
  /\ rcb = [r \in Resource |-> FreeRcb]
  /\ taskRes = [t \in Task |-> <<>>]
  /\ isrRes = [i \in Isr |-> <<>>]
  /\ ecb = [t \in Extended |-> ClearedEcb]
  /\ blockedIn = [t \in Extended |-> "none"]
  /\ booted = 0
  /\ call = [t \in Task |-> NoCall]

-----------------------------------------------------------------------------
(* Startup *)

\* One round of the loop of Os_InitTask
InitTaskTCB ==
  /\ booted < TaskMax
  /\ booted' = booted + 1
  /\ sched' = IF booted \in AutoStart THEN AutoStartTask(sched, booted) ELSE sched
  /\ UNCHANGED <<isrVars, resVars, evtVars, call>>

\* Os_Hal_StartScheduler, the end of StartOS
StartScheduler ==
  /\ booted = TaskMax
  /\ sched.running = OS_TASK_INVALID
  /\ sched' = SwitchTask(sched)
  /\ UNCHANGED <<isrVars, resVars, evtVars, booted, call>>

-----------------------------------------------------------------------------
(* Services.  The idle task's loop calls none. *)

InTask(t) ==
  /\ SysOsLevel = "TASK"
  /\ sched.running = t
  /\ t # Idle

\* Task t runs and is not in the middle of a service.
Calling(t) == InTask(t) /\ call[t] = NoCall

InIsr == SysOsLevel = "ISR2"

Started == sched.running # OS_TASK_INVALID

ActivateTask(t) ==
  /\ Started
  /\ InIsr \/ Calling(sched.running)
  /\ sched.actCount[t] < TaskActivation[t]
  /\ sched' = DoActivateTask(sched, t)
  /\ UNCHANGED <<isrVars, resVars, evtVars, booted, call>>

TerminateTask(t) ==
  /\ Calling(t)
  /\ taskRes[t] = <<>>
  /\ sched' = DoTerminateTask(sched, t)
  /\ ClearECB(t)
  /\ UNCHANGED <<isrVars, resVars, blockedIn, booted, call>>

ChainTask(t, succ) ==
  /\ t \in Chainers
  /\ Calling(t)
  /\ taskRes[t] = <<>>
  /\ sched.actCount[succ] < TaskActivation[succ] \/ succ = t
  /\ sched' = DoChainTask(sched, t, succ)
  /\ ClearECB(t)
  /\ UNCHANGED <<isrVars, resVars, blockedIn, booted, call>>

Schedule(t) ==
  /\ Calling(t)
  /\ taskRes[t] = <<>>
  /\ sched' = DoSchedule(sched, t)
  /\ UNCHANGED <<isrVars, resVars, evtVars, booted, call>>

GetResourceCheck(t, r) ==
  /\ Calling(t)
  /\ GetResourceSafetyCheck(r, TaskAccess[t])
  /\ call' = [call EXCEPT ![t] = [op |-> "GetResource", res |-> r]]
  /\ UNCHANGED <<sched, isrVars, resVars, evtVars, booted>>

GetResource(t) ==
  /\ InTask(t)
  /\ call[t].op = "GetResource"
  /\ GetResourceAtTaskLevel(t, call[t].res)
  /\ call' = [call EXCEPT ![t] = NoCall]
  /\ UNCHANGED <<isrVars, evtVars, booted>>

IsrGetResource(r) ==
  /\ InIsr
  /\ GetResourceAtIsrLevel(RunningIsr, r)
  /\ UNCHANGED <<isrVars, evtVars, booted, call>>

\* Interrupts release only resources they have access to.
ReleaseAnyResource(r) ==
  /\ Started
  /\ IF InIsr THEN r \in IsrAccess[RunningIsr] ELSE Calling(sched.running)
  /\ ReleaseResource(r)
  /\ UNCHANGED <<isrVars, evtVars, booted, call>>

WaitForEvents(t, mask) ==
  /\ Calling(t)
  /\ \/ "WaitEvent" \in WaitServices[t] /\ WaitEvent(t, mask)
     \/ "WaitAllEvents" \in WaitServices[t] /\ WaitAllEvents(t, mask)
  /\ UNCHANGED <<isrVars, resVars, booted, call>>

ClearEvents(t, mask) ==
  /\ Calling(t)
  /\ ClearEvent(t, mask)
  /\ UNCHANGED <<isrVars, resVars, booted, call>>

SetEventCheck(t, target, mask) ==
  /\ Calling(t)
  /\ SetEventSafetyCheck(target)
  /\ call' = [call EXCEPT ![t] = [op |-> "SetEvent", task |-> target, mask |-> mask]]
  /\ UNCHANGED <<sched, isrVars, resVars, evtVars, booted>>

SetEventByTask(t) ==
  /\ InTask(t)
  /\ call[t].op = "SetEvent"
  /\ SetEvent(call[t].task, call[t].mask)
  /\ call' = [call EXCEPT ![t] = NoCall]
  /\ UNCHANGED <<isrVars, resVars, booted>>

\* No task runs between the check and the action of an interrupt.
SetEventByIsr(target, mask) ==
  /\ InIsr
  /\ SetEventSafetyCheck(target)
  /\ SetEvent(target, mask)
  /\ UNCHANGED <<isrVars, resVars, booted, call>>

TakeInterrupt(i) ==
  /\ EnterISR2(i)
  /\ UNCHANGED <<rcb, taskRes, isrRes, evtVars, booted, call>>

\* An interrupt releases its resources before it returns.
ReturnFromInterrupt ==
  /\ ExitISR2
  /\ isrRes[RunningIsr] = <<>>
  /\ UNCHANGED <<rcb, taskRes, isrRes, evtVars, booted, call>>

-----------------------------------------------------------------------------

Next ==
  \/ InitTaskTCB
  \/ StartScheduler
  \/ \E t \in Task :
       \/ ActivateTask(t)
       \/ TerminateTask(t)
       \/ \E succ \in Task : ChainTask(t, succ)
       \/ Schedule(t)
       \/ \E r \in Resource : GetResourceCheck(t, r)
       \/ GetResource(t)
       \/ \E mask \in Masks : WaitForEvents(t, mask)
       \/ \E mask \in Masks : ClearEvents(t, mask)
       \/ \E target \in Extended, mask \in Masks : SetEventCheck(t, target, mask)
       \/ SetEventByTask(t)
  \/ \E r \in Resource : IsrGetResource(r)
  \/ \E r \in Resource : ReleaseAnyResource(r)
  \/ \E target \in Extended, mask \in Masks : SetEventByIsr(target, mask)
  \/ \E i \in Isr : TakeInterrupt(i)
  \/ ReturnFromInterrupt

Spec == Init /\ [][Next]_vars

-----------------------------------------------------------------------------
(* Properties *)

Occurrences(seq, t) == Cardinality({i \in DOMAIN seq : seq[i] = t})

Ready(t) == sched.state[t] \in {"START", "READY", "RUNNING"}

\* The task the processor belongs to: the first of the highest priority.
TopOfQueue(s) == GetFirst(s.queue, GetHighPrio(s.queue))

(* Every variable keeps its type over all services and interrupts: there is *)
(* a saved level for each interrupt that is nested, and no count goes below *)
(* zero although the code subtracts without looking.                        *)
TypeOK ==
  /\ sched \in Sched
  /\ isrNest \in Seq(Isr)
  /\ savedIpl \in Seq(Nat)
  /\ Len(savedIpl) = Len(isrNest)
  /\ ipl \in Nat
  /\ rcb \in [Resource -> Rcb]
  /\ taskRes \in [Task -> Seq(Resource)]
  /\ isrRes \in [Isr -> Seq(Resource)]
  /\ ecb \in [Extended -> Ecb]
  /\ blockedIn \in [Extended -> {"none", "WaitEvent", "WaitAllEvents"}]
  /\ booted \in 0 .. TaskMax
  /\ call \in [Task -> Call]

(* Once the idle task is booted its priority, 0, never runs empty, so that   *)
(* Os_GetHighPrio always finds a set bit: it spins for ever without one.    *)
IdleIsReady == booted > Idle => sched.queue[0] # <<>>

(* Os_ReadyQueueRemove drops whoever is first.  The caller always means the *)
(* running task, and a task raised by a resource must still be first when   *)
(* it comes to drop back, whatever was activated or preempted in between.   *)
RaisedTasksAreFirst ==
  /\ Started => Head(sched.queue[sched.runPrio[sched.running]]) = sched.running
  /\ \A t \in Task :
       sched.runPrio[t] > TaskPriority[t] => Head(sched.queue[sched.runPrio[t]]) = t

(* Each pending activation of a task that does not wait has one entry at    *)
(* the task's own priority, over activation, chaining, preemption and wakeup*)
(* by tasks and interrupts; a task is suspended exactly without activations.*)
ActivationsAreQueued ==
  \A t \in Task :
    /\ Occurrences(sched.queue[TaskPriority[t]], t) =
         IF sched.state[t] = "WAITING" THEN 0 ELSE sched.actCount[t]
    /\ sched.state[t] = "SUSPENDED" <=> sched.actCount[t] = 0
    /\ sched.actCount[t] <= TaskActivation[t]

\* The activations the tasks of a priority can have
Activations(p) == UNION {{t} \X (1 .. TaskActivation[t]) : t \in {u \in Task : TaskPriority[u] = p}}

\* The entries a priority can need: each activation, and one raised task.
QueueNeed(p) ==
  Cardinality(Activations(p))
  + IF \/ \E t \in Task : InterResCeiling[t] = p
       \/ \E r \in Resource : OccupyType[r] = "BY_TASK" /\ Ceiling[r] = p
    THEN 1 ELSE 0

(* A ready queue of that many places is never overrun (Os_ReadyQueueInsert  *)
(* does not look): at most one task at a time is raised to a priority,      *)
(* however resources nest and whoever preempts, and it stays queued there.  *)
QueuesFit == \A p \in Prio : Len(sched.queue[p]) <= QueueNeed(p)

(* No preemption is missed: at task level with the dispatcher unlocked the  *)
(* processor belongs to the first task of the highest priority.             *)
HighestRuns ==
  Started /\ SysOsLevel = "TASK" /\ sched.locker = 0 =>
    sched.running = TopOfQueue(sched)

(* "pre entry highest priority task" (Os_SwitchTask): a task that is        *)
(* switched in is the first one of the highest priority.                    *)
SwitchEntersHighest ==
  [][sched'.running # sched.running => sched'.running = TopOfQueue(sched')]_vars

(* A non-preemptable task loses the processor only when it terminates,      *)
(* chains, waits or calls Schedule, whatever interrupts and activations do. *)
NonPreemptableKeepsProcessor ==
  [][\A t \in NonPreemptable :
       sched.running = t /\ sched'.running # t =>
         sched'.state[t] # "READY" \/ Schedule(t)]_vars

\* Where a stack of resources holds resources shared with interrupts.
SharedWithIsr(stack) == {k \in DOMAIN stack : OccupyType[stack[k]] = "BY_TASK_OR_INTERRUPT"}

(* SysDispatchLocker is reset to 0 by every task that gives up the processor*)
(* and set to 1 for a non-preemptable one; in between it counts the nested  *)
(* interrupts and the resources shared with interrupts that the task holds. *)
DispatchLockerCounts ==
  Started =>
    sched.locker = Len(isrNest)
      + Cardinality(SharedWithIsr(taskRes[sched.running]))
      + IF sched.running \in NonPreemptable THEN 1 ELSE 0

(* The running priority of a task is the highest of its own, that of the    *)
(* internal resource it occupies and the ceilings it holds: nested releases *)
(* restore the right one through SavePrio.                                  *)
RunPrioIsCeiling ==
  \A t \in Task :
    sched.runPrio[t] =
      Max({TaskPriority[t]}
          \cup {InterResCeiling[t] : x \in {y \in {t} : sched.interRes[y]}}
          \cup {Ceiling[r] : r \in {x \in Range(taskRes[t]) : OccupyType[x] = "BY_TASK"}})

\* The places of a resource on the stacks of all tasks, or of all interrupts.
Places(stacks, r) ==
  UNION {{h} \X {k \in DOMAIN stacks[h] : stacks[h][k] = r} : h \in DOMAIN stacks}

(* Every occupied resource is on exactly one stack, at the place SaveCount  *)
(* says: none is taken twice, by a task that was interrupted after its check*)
(* included, and none is released for another task.                         *)
OneHolder ==
  \A r \in Resource :
    LET places == Places(taskRes, r) \cup Places(isrRes, r)
    IN  IF rcb[r].saveCount = 0
        THEN places = {}
        ELSE \E h \in Task \cup Isr : places = {<<h, rcb[r].saveCount>>}

(* The ceiling protocol: whoever runs finds each resource it may use free,  *)
(* or its own; GetResource never meets E_OS_ACCESS for an occupied resource.*)
CeilingExcludes ==
  /\ Started /\ SysOsLevel = "TASK" =>
       \A r \in TaskAccess[sched.running] :
         rcb[r].saveCount > 0 => r \in Range(taskRes[sched.running])
  /\ SysOsLevel = "ISR2" =>
       \A r \in IsrAccess[RunningIsr] :
         rcb[r].saveCount > 0 => r \in Range(isrRes[RunningIsr])

(* A waiting task waits for something that has not happened: no event that  *)
(* ends its wait is already set.                                            *)
NoLostWakeup ==
  \A t \in Extended :
    sched.state[t] = "WAITING" =>
      \/ blockedIn[t] = "WaitEvent" /\ ecb[t].waitMask \cap ecb[t].setMask = {}
      \/ blockedIn[t] = "WaitAllEvents" /\ ~(ecb[t].waitMask \subseteq ecb[t].setMask)

=============================================================================
