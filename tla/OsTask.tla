------------------------------- MODULE OsTask -------------------------------
(***************************************************************************)
(* Task management of one core (Os_Task.c) and the internal resources of    *)
(* Os_Resource.c, which only Os_Task.c uses.  Configuration modelled:       *)
(* ECC2 (multiple activation, extended tasks), mixed preemption, extended   *)
(* status, no timing protection, one core.                                  *)
(*                                                                          *)
(* The scheduler's part of the system control block and of the task control *)
(* blocks is one record, and each C function that changes it is an operator *)
(* from the record before the call to the record after it, so that a        *)
(* handler reads like its C body:                                           *)
(*   state    Os_TaskState[t]          actCount  TCB->TaskActCount          *)
(*   runPrio  TCB->TaskRunPrio         interRes  TCB->TaskOccupyInterRes    *)
(*   queue    SCB->QueueMg             highPrio  SCB->SysHighPrio           *)
(*   high     SCB->SysHighTaskId       running   SCB->SysRunningTaskId      *)
(*   locker   SCB->SysDispatchLocker                                        *)
(* Every step of a handler that calls Os_Hal_Dispatch contains the switch:  *)
(* the dispatch traps (SVC/PendSV, syscall) before the next instruction of  *)
(* the caller, whose remaining code runs when it is switched in again.      *)
(***************************************************************************)
EXTENDS OsReadyQue

CONSTANTS
  TaskPriority,    \* Os_TaskCfg[t].TaskPriority
  TaskActivation,  \* Os_TaskCfg[t].TaskActivation
  InterResCeiling, \* Os_InterResCeiling[t], 0 without an internal resource
  NonPreemptable,  \* tasks with TaskSchedule = OS_PREEMPTIVE_NON
  AutoStart,       \* tasks whose TaskAutoStartMode has the active mode
  Idle             \* Os_TASK_IDLE_Inf[core]

ASSUME TaskConstants ==
  /\ TaskPriority \in [Task -> Prio]
  /\ TaskActivation \in [Task -> Nat \ {0}]
  /\ InterResCeiling \in [Task -> Prio]
  /\ NonPreemptable \subseteq Task
  /\ AutoStart \subseteq Task
  /\ Idle \in AutoStart \ NonPreemptable
  /\ \A t \in Task : TaskPriority[t] = 0 <=> t = Idle
  /\ InterResCeiling[Idle] = 0

VARIABLE sched

TaskStates == {"SUSPENDED", "WAITING", "READY", "RUNNING", "START"}

Sched ==
  [state    : [Task -> TaskStates],
   actCount : [Task -> Nat],
   runPrio  : [Task -> Prio],
   interRes : [Task -> BOOLEAN],
   queue    : [Prio -> Seq(Task)],
   highPrio : Prio \cup {OS_PRIORITY_INVALID},
   high     : Task \cup {OS_TASK_INVALID},
   running  : Task \cup {OS_TASK_INVALID},
   locker   : Nat]

-----------------------------------------------------------------------------
(* Internal functions *)

UpdateHighPrioTask(s) ==
  LET p == GetHighPrio(s.queue)
  IN  [s EXCEPT !.highPrio = p, !.high = GetFirst(s.queue, p)]

\* Mutant: the new top is not noted.
RaiseNothing(s, t, p) == s

\* Note the new top of the ready queue without reading the queue.
RaiseHigh(s, t, p) ==
  IF p > s.highPrio THEN [s EXCEPT !.high = t, !.highPrio = p] ELSE s

GetInternalResource(s) ==
  LET t == s.running
      c == InterResCeiling[t]
  IN  IF c > s.runPrio[t]
      THEN RaiseHigh([s EXCEPT !.runPrio[t] = c,
                               !.queue = InsertHead(@, c, t),
                               !.interRes[t] = TRUE], t, c)
      ELSE s

ReleaseInternalResource(s, t) ==
  IF InterResCeiling[t] # 0 /\ s.interRes[t]
  THEN [s EXCEPT !.runPrio[t] = TaskPriority[t],
                 !.queue = RemoveHead(@, InterResCeiling[t]),
                 !.interRes[t] = FALSE]
  ELSE s

\* Os_SwitchTask.  A task that is still RUNNING was preempted and is READY.
SwitchTask(s) ==
  LET left == IF s.running # OS_TASK_INVALID /\ s.state[s.running] = "RUNNING"
              THEN [s EXCEPT !.state[s.running] = "READY"]
              ELSE s
      next == [left EXCEPT !.running = s.high,
                           !.locker = IF s.high \in NonPreemptable THEN 1 ELSE @]
  IN  [GetInternalResource(next) EXCEPT !.state[s.high] = "RUNNING"]

\* Mutant: the dispatcher lock is not looked at.
DispatchAlways(s) == SwitchTask(s)

\* Os_Hal_Dispatch behind the SysDispatchLocker test.
DispatchIfUnlocked(s) == IF s.locker = 0 THEN SwitchTask(s) ELSE s

\* Mutant: the lock of a non-preemptable task outlives it.
GiveUpLocked(s) == SwitchTask(s)

\* SysDispatchLocker = 0 and Os_Hal_Dispatch: what every task that gives the
\* processor up ends with.
GiveUp(s) == SwitchTask([s EXCEPT !.locker = 0])

\* Mutant: a task of the same priority preempts.
MakeReadyPreemptEqual(s, t, p) ==
  LET q == [s EXCEPT !.queue = InsertTail(@, p, t)]
  IN  IF p >= s.highPrio
      THEN DispatchIfUnlocked([q EXCEPT !.high = t, !.highPrio = p])
      ELSE q

\* Insert at the tail and preempt, the common end of Os_ActivateTask and
\* Os_SetTaskToReady.
MakeReady(s, t, p) ==
  LET q == [s EXCEPT !.queue = InsertTail(@, p, t)]
  IN  IF p > s.highPrio THEN DispatchIfUnlocked(RaiseHigh(q, t, p)) ELSE q

StartIfSuspended(st) == IF st = "SUSPENDED" THEN "START" ELSE st

\* One more activation, without the insertion.
CountActivation(s, t) ==
  [s EXCEPT !.actCount[t] = @ + 1, !.state[t] = StartIfSuspended(@)]

\* Mutant: pending activations are forgotten.
TerminateAllActivations(s, t) ==
  LET r == ReleaseInternalResource(s, t)
  IN  [r EXCEPT !.actCount[t] = 0,
                !.state[t] = "SUSPENDED",
                !.queue = RemoveHead(@, r.runPrio[t]),
                !.runPrio[t] = TaskPriority[t]]

TerminateTaskInternal(s, t) ==
  LET r == ReleaseInternalResource(s, t)
      n == IF r.actCount[t] > 0 THEN r.actCount[t] - 1 ELSE 0
  IN  [r EXCEPT !.actCount[t] = n,
                !.state[t] = IF n > 0 THEN "START" ELSE "SUSPENDED",
                !.queue = RemoveHead(@, r.runPrio[t]),
                !.runPrio[t] = TaskPriority[t]]

UpdateHighIfItWas(s, t) == IF s.high = t THEN UpdateHighPrioTask(s) ELSE s

\* Os_SetTaskToReady, called by Os_SetEvent on a waiting task.
SetTaskToReady(s, t) ==
  MakeReady([s EXCEPT !.state[t] = "READY"], t, s.runPrio[t])

\* Mutant: the next task is not looked up.
SetTaskToWaitStale(s, t) ==
  LET r == ReleaseInternalResource(s, t)
  IN  GiveUp([r EXCEPT !.state[t] = "WAITING",
                       !.queue = RemoveHead(@, r.runPrio[t]),
                       !.runPrio[t] = TaskPriority[t]])

\* Os_SetTaskToWait, the end of WaitEvent and WaitAllEvents.
SetTaskToWait(s, t) ==
  LET r == ReleaseInternalResource(s, t)
      w == [r EXCEPT !.state[t] = "WAITING",
                     !.queue = RemoveHead(@, r.runPrio[t]),
                     !.runPrio[t] = TaskPriority[t]]
  IN  GiveUp(UpdateHighPrioTask(w))

-----------------------------------------------------------------------------
(* What the services do to the record *)

\* Os_InitScb, Os_InitReadyTable and the fields Os_InitTaskTCB always sets.
InitSched ==
  [state    |-> [t \in Task |-> "SUSPENDED"],
   actCount |-> [t \in Task |-> 0],
   runPrio  |-> TaskPriority,
   interRes |-> [t \in Task |-> FALSE],
   queue    |-> InitReadyTable,
   highPrio |-> OS_PRIORITY_INVALID,
   high     |-> OS_TASK_INVALID,
   running  |-> OS_TASK_INVALID,
   locker   |-> 0]

\* Mutant: an autostarted task is not queued.
AutoStartUnqueued(s, t) ==
  [s EXCEPT !.actCount[t] = @ + 1, !.state[t] = "START", !.high = t,
            !.highPrio = s.runPrio[t]]

\* The autostart branch of Os_InitTaskTCB.
AutoStartTask(s, t) ==
  LET p == s.runPrio[t]
      a == [s EXCEPT !.actCount[t] = @ + 1,
                     !.state[t] = "START",
                     !.queue = InsertTail(@, p, t)]
  IN  IF s.highPrio = OS_PRIORITY_INVALID \/ p > s.highPrio
      THEN [a EXCEPT !.high = t, !.highPrio = p]
      ELSE a

\* Os_ActivateTask, past the E_OS_LIMIT test.
DoActivateTask(s, t) == MakeReady(CountActivation(s, t), t, TaskPriority[t])

DoTerminateTask(s, t) ==
  GiveUp(UpdateHighIfItWas(TerminateTaskInternal(s, t), t))

\* Os_ChainTask, past the E_OS_LIMIT test: SysHighTaskId is only looked up
\* again when it was the caller.
DoChainTask(s, t, succ) ==
  LET a == CountActivation(TerminateTaskInternal(s, t), succ)
      q == [a EXCEPT !.queue = InsertTail(@, TaskPriority[succ], succ)]
  IN  GiveUp(UpdateHighIfItWas(q, t))

\* Os_Schedule.  When the caller is switched out, the Os_GetInternalResource
\* it runs on return finds what Os_SwitchTask already took and does nothing.
DoSchedule(s, t) ==
  LET r == IF InterResCeiling[t] # 0
           THEN [ReleaseInternalResource(s, t) EXCEPT !.runPrio[t] = TaskPriority[t]]
           ELSE s
      u == UpdateHighPrioTask(r)
  IN  IF u.high # t THEN GiveUp(u) ELSE GetInternalResource(u)

=============================================================================
