-------------------------- MODULE OsKernelInvariant --------------------------
(***************************************************************************)
(* The inductive invariant of OsKernel that OsKernel_proofs proves.  TLC    *)
(* checks it on the instances of MCOsKernel.                                *)
(*                                                                          *)
(* The parts are predicates of the pieces of state they are about, so that  *)
(* the proofs can follow a service through the states between its steps:    *)
(*   q      sched.queue     prio  sched.runPrio   inter  sched.interRes     *)
(*   R      rcb             S     taskRes         s      sched              *)
(***************************************************************************)
EXTENDS OsKernel

First(q, p, t) == q[p] # <<>> /\ Head(q[p]) = t

\* A task that holds on to its place: raised, or with a resource.
Occupied(prio, S, t) == prio[t] > TaskPriority[t] \/ S[t] # <<>>

HeldByTask(S, t) == {r \in Range(S[t]) : OccupyType[r] = "BY_TASK"}

(* A task is queued at its own priority and, first, at priorities it has    *)
(* been raised to.                                                          *)
EntriesInOrder(q, prio) ==
  \A p \in Prio : \A i \in 1 .. Len(q[p]) :
    /\ TaskPriority[q[p][i]] <= p
    /\ p <= prio[q[p][i]]
    /\ p > TaskPriority[q[p][i]] => i = 1

(* Tasks preempt each other like calls nest: the priorities two occupied    *)
(* tasks range over do not meet.                                            *)
OccupiedTasksNest(q, prio, S) ==
  /\ \A t \in Task :
       /\ TaskPriority[t] <= prio[t]
       /\ Occupied(prio, S, t) =>
            First(q, TaskPriority[t], t) /\ First(q, prio[t], t)
  /\ \A t, u \in Task :
       t # u /\ Occupied(prio, S, t) /\ Occupied(prio, S, u) =>
         prio[u] < TaskPriority[t] \/ prio[t] < TaskPriority[u]

(* Releasing the resources of a task in reverse order finds the task first  *)
(* at each priority to go back to, with no other entry above it.            *)
LevelRestorable(q, prio, R, S, t, r) ==
  /\ R[r].savePrio \in Prio
  /\ TaskPriority[t] <= R[r].savePrio
  /\ InterResCeiling[t] <= R[r].savePrio
  /\ R[r].savePrio <= prio[t]
  /\ TaskPriority[t] <= Ceiling[r]
  /\ Ceiling[r] <= prio[t]
  /\ First(q, R[r].savePrio, t)
  /\ Ceiling[r] > R[r].savePrio => First(q, Ceiling[r], t)
  /\ \A o \in HeldByTask(S, t) :
       R[o].saveCount < R[r].saveCount =>
         Ceiling[o] <= R[r].savePrio /\ R[o].savePrio <= R[r].savePrio

LevelsRestorable(q, prio, inter, R, S) ==
  \A t \in Task :
    /\ inter[t] => InterResCeiling[t] > TaskPriority[t] /\ First(q, InterResCeiling[t], t)
    /\ \A r \in HeldByTask(S, t) : LevelRestorable(q, prio, R, S, t, r)
    /\ \A p \in Prio :
         p > TaskPriority[t] /\ First(q, p, t) =>
           \/ inter[t] /\ p = InterResCeiling[t]
           \/ \E r \in HeldByTask(S, t) : p = Ceiling[r] /\ p > R[r].savePrio

(* Every resource a task took is on one stack, at the place SaveCount says. *)
StacksMatch(R, S) ==
  /\ \A t \in Task : \A k \in 1 .. Len(S[t]) :
       /\ R[S[t][k]].saveCount = k
       /\ R[S[t][k]].saveLevel = "TASK"
       /\ OccupyType[S[t][k]] # "BY_INTERRUPT"
  /\ \A t, u \in Task : t # u => Range(S[t]) \cap Range(S[u]) = {}
  /\ \A r \in Resource :
       /\ R[r].saveCount > 0
       /\ OccupyType[r] = "BY_TASK" \/ R[r].saveLevel = "TASK"
       => \E t \in Task : R[r].saveCount <= Len(S[t]) /\ S[t][R[r].saveCount] = r

(* What holds also between the removal of a task and the switch to the next *)
QueuesOK(q, prio, inter, R, S) ==
  /\ EntriesInOrder(q, prio)
  /\ OccupiedTasksNest(q, prio, S)
  /\ LevelsRestorable(q, prio, inter, R, S)

WaitersHoldNothing(s, S) ==
  \A t \in Task : s.state[t] = "WAITING" => ~ Occupied(s.runPrio, S, t)

(* The running task is first wherever it is queued, and above every other   *)
(* occupied task; only it holds resources shared with interrupts.           *)
RunningOK(s, S) ==
  /\ s.running \in Task
  /\ s.state[s.running] = "RUNNING"
  /\ First(s.queue, TaskPriority[s.running], s.running)
  /\ First(s.queue, s.runPrio[s.running], s.running)
  /\ InterResCeiling[s.running] <= s.runPrio[s.running]
  /\ \A u \in Task \ {s.running} :
       /\ Occupied(s.runPrio, S, u) => s.runPrio[u] < TaskPriority[s.running]
       /\ Range(S[u]) = HeldByTask(S, u)

HighIsTop(s) ==
  /\ s.highPrio \in Prio
  /\ s.high \in Task
  /\ s.queue[s.highPrio] # <<>>
  /\ \A p \in Prio : s.queue[p] # <<>> => p <= s.highPrio

HighIsFirst(s) == First(s.queue, s.highPrio, s.high)

(* What every step keeps of the scheduler's record, the control blocks and  *)
(* the stacks of the tasks.                                                 *)
Core(s, R, S) ==
  /\ s \in Sched
  /\ R \in [Resource -> Rcb]
  /\ S \in [Task -> Seq(Resource)]
  /\ QueuesOK(s.queue, s.runPrio, s.interRes, R, S)
  /\ WaitersHoldNothing(s, S)
  /\ StacksMatch(R, S)

(* SysDispatchLocker with n active interrupts (DispatchLockerCounts)        *)
Locks(s, S, n) ==
  s.locker = n + Cardinality(SharedWithIsr(S[s.running]))
             + IF s.running \in NonPreemptable THEN 1 ELSE 0

(* A task that took a resource while the dispatcher was locked may stand in *)
(* front of the task SysHighTaskId names.                                   *)
HighIsCurrent(s, S) ==
  \/ S[s.running] = <<>>
  \/ s.running \notin NonPreemptable /\ SharedWithIsr(S[s.running]) = {}
  => HighIsFirst(s)

(* Between two steps of the running system, with n active interrupts        *)
Settled(s, R, S, n) ==
  /\ Core(s, R, S)
  /\ s.queue[0] # <<>>
  /\ RunningOK(s, S)
  /\ HighIsTop(s)
  /\ HighIsCurrent(s, S)
  /\ s.locker = 0 => s.high = s.running
  /\ Locks(s, S, n)

BootOK ==
  /\ Core(sched, rcb, taskRes)
  /\ sched.running = OS_TASK_INVALID
  /\ sched.locker = 0
  /\ isrNest = <<>>
  /\ taskRes = [t \in Task |-> <<>>]
  /\ sched.runPrio = TaskPriority
  /\ \/ HighIsTop(sched) /\ HighIsFirst(sched)
     \/ sched.highPrio = OS_PRIORITY_INVALID /\ sched.queue = InitReadyTable

RunOK == booted = TaskMax /\ Settled(sched, rcb, taskRes, Len(isrNest))

CallsOK ==
  \A t \in Task :
    call[t].op = "GetResource" =>
      call[t].res \in TaskAccess[t] \ Range(taskRes[t])

(* A configuration in which no non-preemptable task chains: Os_ChainTask    *)
(* would leave a stale SysHighTaskId, and HighIsTop would fail.             *)
NoChainWhileNonPreemptable == Chainers \cap NonPreemptable = {}

(* Queues, priorities, resource stacks, control blocks, interrupt levels and*)
(* the dispatcher lock of one core agree after every step of every service  *)
(* and interrupt; the parts above say how.                                  *)
IInv ==
  /\ TypeOK
  /\ IdleIsReady
  /\ BootOK \/ RunOK
  /\ CallsOK

-----------------------------------------------------------------------------
(* Activations and waits                                                    *)

(* ActivationsAreQueued, and only extended tasks wait.                      *)
ActivationOK(s, t) ==
  /\ Occurrences(s.queue[TaskPriority[t]], t) =
       IF s.state[t] = "WAITING" THEN 0 ELSE s.actCount[t]
  /\ s.state[t] = "SUSPENDED" <=> s.actCount[t] = 0
  /\ s.actCount[t] <= TaskActivation[t]
  /\ s.state[t] = "WAITING" => t \in Extended

ActivationInvariant ==
  \A t \in Task :
    /\ ActivationOK(sched, t)
    /\ t >= booted => sched.actCount[t] = 0

(* A configuration in which no task uses both WaitEvent and WaitAllEvents.  *)
OneWaitService ==
  \A t \in Task : WaitServices[t] # {"WaitEvent", "WaitAllEvents"}

(* The flag of WaitAllEvents tells the service a task waits in, and the     *)
(* wait is not over.                                                        *)
WaitOK(t) ==
  /\ ecb[t].waitAll => "WaitAllEvents" \in WaitServices[t]
  /\ sched.state[t] = "WAITING" =>
       /\ blockedIn[t] \in WaitServices[t]
       /\ ecb[t].waitAll <=> blockedIn[t] = "WaitAllEvents"
       /\ ~ Awaited(ecb[t].setMask, ecb[t])

WaitInvariant == \A t \in Extended : WaitOK(t)

-----------------------------------------------------------------------------
(* Interrupts and the resources they share                                  *)

(* A configuration in which the shared resources of a task have one level:  *)
(* taking a second one of a lower ceiling would lower the level again.      *)
SharedCeilingsAgree ==
  \A t \in Task : \A r, o \in TaskAccess[t] :
    OccupyType[r] = "BY_TASK_OR_INTERRUPT" /\ OccupyType[o] = "BY_TASK_OR_INTERRUPT" =>
      PrioToIpl(Ceiling[r]) = PrioToIpl(Ceiling[o])

\* The level between the k-th active interrupt and the one that nests in it,
\* that of the tasks for k = 0.
LevelAbove(nest, saved, level, k) == IF k = Len(nest) THEN level ELSE saved[k + 1]

(* Interrupts nest in the order of their priorities, and the level keeps    *)
(* out the other users of each resource held.                               *)
LevelsExclude(nest, saved, level, I) ==
  \A k \in 1 .. Len(nest) :
    /\ \A j \in 1 .. k - 1 : saved[j] < saved[k]
    /\ saved[k] < IsrPrio[nest[k]]
    /\ IsrPrio[nest[k]] <= LevelAbove(nest, saved, level, k)
    /\ \A r \in Range(I[nest[k]]) :
         PrioToIpl(Ceiling[r]) <= LevelAbove(nest, saved, level, k)

TasksExclude(nest, saved, level, S) ==
  \A t \in Task : \A k \in SharedWithIsr(S[t]) :
    PrioToIpl(Ceiling[S[t][k]]) <= LevelAbove(nest, saved, level, 0)

(* Every resource an interrupt took is on the stack of one active interrupt,*)
(* and goes back to a level that keeps those below it on the stack excluded.*)
IsrStacksMatch(nest, R, I) ==
  /\ \A i \in Isr : \A k \in 1 .. Len(I[i]) :
       /\ i \in Range(nest)
       /\ I[i][k] \in IsrAccess[i]
       /\ R[I[i][k]].saveCount = k
       /\ R[I[i][k]].saveLevel # "TASK"
       /\ IsrPrio[i] <= PrioToIpl(R[I[i][k]].savePrio)
       /\ \A j \in 1 .. k - 1 :
            PrioToIpl(Ceiling[I[i][j]]) <= PrioToIpl(R[I[i][k]].savePrio)
  /\ \A i, j \in Isr : i # j => Range(I[i]) \cap Range(I[j]) = {}
  /\ \A r \in Resource :
       R[r].saveCount > 0 /\ R[r].saveLevel # "TASK" =>
         \E i \in Isr : R[r].saveCount <= Len(I[i]) /\ I[i][R[r].saveCount] = r

TaskLevelsRestorable(R, S) ==
  \A t \in Task :
    /\ Range(S[t]) \subseteq TaskAccess[t]
    /\ \A k, j \in SharedWithIsr(S[t]) :
         j < k => PrioToIpl(Ceiling[S[t][j]]) <= PrioToIpl(R[S[t][k]].savePrio)

InterruptInvariant ==
  /\ LevelsExclude(isrNest, savedIpl, ipl, isrRes)
  /\ TasksExclude(isrNest, savedIpl, ipl, taskRes)
  /\ IsrStacksMatch(isrNest, rcb, isrRes)
  /\ TaskLevelsRestorable(rcb, taskRes)

-----------------------------------------------------------------------------

(* All of the above                                                         *)
KernelInvariant ==
  IInv /\ ActivationInvariant /\ WaitInvariant /\ InterruptInvariant

=============================================================================
