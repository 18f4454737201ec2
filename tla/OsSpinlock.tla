------------------------------ MODULE OsSpinlock ------------------------------
(***************************************************************************)
(* Spinlocks between cores (Os_Spinlock.c), extended status.  A thread, a   *)
(* task or a category 2 interrupt, checks what its core and itself occupy,  *)
(* guards itself against preemption by the method of the lock, and spins on *)
(* the lock word.  Threads of one core preempt each other between any two   *)
(* steps, cores interleave.  LOCK_WITH_RES_SCHEDULER calls Os_GetResource   *)
(* and Os_ReleaseResource, whose bookkeeping shares the stack of the        *)
(* critical zones.                                                          *)
(***************************************************************************)
EXTENDS Naturals, Sequences, FiniteSets

CONSTANTS
    Cores,
    Tasks,             \* tasks that use spinlocks
    Isrs,              \* category 2 interrupts that use spinlocks
    CoreOf,            \* the core of a task or interrupt
    Prio,              \* TaskPriority of a task, the level of an interrupt
    SchedulerCeiling,  \* the ceiling of a core's scheduler resource
    Spinlocks,
    SpinlockOrder, SpinlockGroupsId, SpinlockMethod,
    Uses,              \* Uses[t]: the spinlocks t takes
    None

Threads == Tasks \cup Isrs

Methods == {"LOCK_ALL_INTERRUPTS", "LOCK_CAT2_INTERRUPTS", "LOCK_NOTHING", "LOCK_WITH_RES_SCHEDULER"}

RES_SCHEDULER == "RES_SCHEDULER"

ASSUME SpinlockConstants ==
    /\ Tasks \cap Isrs = {}
    /\ CoreOf \in [Threads -> Cores]
    /\ Prio \in [Threads -> Nat]
    /\ SchedulerCeiling \in [Cores -> Nat]
    /\ \A t \in Tasks : Prio[t] <= SchedulerCeiling[CoreOf[t]]
    /\ IsFiniteSet(Spinlocks)
    /\ SpinlockOrder \in [Spinlocks -> Nat]
    /\ SpinlockMethod \in [Spinlocks -> Methods]
    /\ Uses \in [Threads -> SUBSET Spinlocks]
    /\ None \notin Threads \cup Spinlocks
    /\ RES_SCHEDULER \notin Spinlocks

VARIABLES
    Spinlock,      \* the lock words: OS_SPINLOCK_LOCK or not
    Os_SLCB,       \* what the kernel knows of a lock: Occupied, ObjOccupyId with its type
    Occupied,      \* CurrentSpinlockOccupied of a core, as the set of its locks
    Zone,          \* TaskCriticalZoneStack, Isr2CriticalZoneStack
    OccupyLevel,   \* TaskCurrentSpinlockOccupyLevel, IsrCurrentSpinlockOccupyLevel
    SuspendCount,  \* SuspendAllCount and SuspendOsCount of a core together
    scheduler,     \* the control block of a core's scheduler resource: SaveCount, SavePrio
    ResCount,      \* TaskResCount of a task
    RunPrio,       \* TaskRunPrio of a task
    active,        \* the threads that have started on a core, the last one runs
    thread         \* where a thread is in a service, and the lock it is called for

locks == <<Spinlock, Os_SLCB, Occupied, Zone, OccupyLevel>>
guards == <<SuspendCount, scheduler, ResCount, RunPrio>>
vars == <<locks, guards, active, thread>>

Init ==
    /\ Spinlock = [s \in Spinlocks |-> FALSE]
    /\ Os_SLCB = [s \in Spinlocks |-> [Occupied |-> FALSE, ObjOccupyId |-> None]]
    /\ Occupied = [c \in Cores |-> {}]
    /\ Zone = [t \in Threads |-> <<>>]
    /\ OccupyLevel = [t \in Threads |-> None]
    /\ SuspendCount = [c \in Cores |-> 0]
    /\ scheduler = [c \in Cores |-> [SaveCount |-> 0, SavePrio |-> 0]]
    /\ ResCount = [t \in Tasks |-> 0]
    /\ RunPrio = [t \in Tasks |-> Prio[t]]
    /\ active = [c \in Cores |-> <<>>]
    /\ thread = [t \in Threads |-> [pc |-> "run", lock |-> None]]

Top(q) == q[Len(q)]
Popped(q) == SubSeq(q, 1, Len(q) - 1)
In(q) == {q[i] : i \in 1 .. Len(q)}

Runs(t) == active[CoreOf[t]] # <<>> /\ Top(active[CoreOf[t]]) = t
At(t, pc) == Runs(t) /\ thread[t].pc = pc
Goto(t, pc) == thread' = [thread EXCEPT ![t].pc = pc]
-----------------------------------------------------------------------------
(* Tasks are activated and interrupts requested at any time. *)

Start(t) ==
    LET c == CoreOf[t] IN
    /\ t \notin In(active[c])
    /\ SuspendCount[c] = 0
    /\ \A u \in In(active[c]) :
         IF t \in Isrs THEN u \in Isrs => Prio[u] < Prio[t]
                       ELSE u \in Tasks /\ RunPrio[u] < Prio[t]
    /\ active' = [active EXCEPT ![c] = Append(@, t)]
    /\ UNCHANGED <<locks, guards, thread>>

\* TerminateTask tests for resources and spinlocks, the end of an interrupt is reached without any.
Finish(t) ==
    /\ At(t, "run")
    /\ t \in Tasks => ResCount[t] = 0
    /\ \A s \in Spinlocks : Os_SLCB[s].ObjOccupyId # t
    /\ active' = [active EXCEPT ![CoreOf[t]] = Popped(@)]
    /\ UNCHANGED <<locks, guards, thread>>
-----------------------------------------------------------------------------
(* LOCK_WITH_RES_SCHEDULER: Os_GetResource and Os_ReleaseResource for the scheduler resource,  *)
(* which is OS_RES_OCCUPIED_BY_TASK.                                                           *)

\* SysRunningTCB: the task below the interrupts that have started.
RunningTask(c) == LET running == In(active[c]) \cap Tasks IN
    IF running = {} THEN None
    ELSE CHOOSE u \in running : \A v \in running : RunPrio[v] <= RunPrio[u]

\* Mutant: the task keeps its priority.
GetSchedulerUnraised(t) ==
    LET c == CoreOf[t] IN
    IF t \in Isrs THEN UNCHANGED <<scheduler, ResCount, RunPrio, Zone>>
    ELSE /\ Zone' = [Zone EXCEPT ![t] = Append(@, RES_SCHEDULER)]
         /\ ResCount' = [ResCount EXCEPT ![t] = @ + 1]
         /\ scheduler' = [scheduler EXCEPT ![c] = [SaveCount |-> ResCount[t] + 1, SavePrio |-> RunPrio[t]]]
         /\ UNCHANGED RunPrio

\* Os_GetResource is called without Os_GetResourceSafetyCheck: SaveCount may be above zero.
GetScheduler(t) ==
    LET c == CoreOf[t] IN
    IF t \in Isrs THEN UNCHANGED <<scheduler, ResCount, RunPrio, Zone>>
    ELSE /\ Zone' = [Zone EXCEPT ![t] = Append(@, RES_SCHEDULER)]
         /\ ResCount' = [ResCount EXCEPT ![t] = @ + 1]
         /\ scheduler' = [scheduler EXCEPT ![c] = [SaveCount |-> ResCount[t] + 1, SavePrio |-> RunPrio[t]]]
         /\ RunPrio' = [RunPrio EXCEPT ![t] = SchedulerCeiling[c]]

\* The result of the release is not looked at.
ReleaseScheduler(c) ==
    LET u == RunningTask(c) IN
    IF /\ u # None
       /\ scheduler[c].SaveCount = ResCount[u]
       /\ Zone[u] # <<>> /\ Top(Zone[u]) = RES_SCHEDULER
    THEN /\ Zone' = [Zone EXCEPT ![u] = Popped(@)]
         /\ ResCount' = [ResCount EXCEPT ![u] = @ - 1]
         /\ RunPrio' = [RunPrio EXCEPT ![u] = IF SchedulerCeiling[c] > scheduler[c].SavePrio
                                              THEN scheduler[c].SavePrio ELSE @]
         /\ scheduler' = [scheduler EXCEPT ![c] = [SaveCount |-> 0, SavePrio |-> 0]]
    ELSE UNCHANGED <<scheduler, ResCount, RunPrio, Zone>>

Suspends(s) == SpinlockMethod[s] \in {"LOCK_ALL_INTERRUPTS", "LOCK_CAT2_INTERRUPTS"}
WithScheduler(s) == SpinlockMethod[s] = "LOCK_WITH_RES_SCHEDULER"

MethodLock(t) ==
    LET s == thread[t].lock
        c == CoreOf[t] IN
    /\ SuspendCount' = [SuspendCount EXCEPT ![c] = IF Suspends(s) THEN @ + 1 ELSE @]
    /\ IF WithScheduler(s) THEN GetScheduler(t) ELSE UNCHANGED <<scheduler, ResCount, RunPrio, Zone>>
    /\ Occupied' = [Occupied EXCEPT ![c] = @ \cup {s}]

MethodRelease(t) ==
    LET s == thread[t].lock
        c == CoreOf[t] IN
    /\ Occupied' = [Occupied EXCEPT ![c] = @ \ {s}]
    /\ SuspendCount' = [SuspendCount EXCEPT ![c] = IF Suspends(s) THEN @ - 1 ELSE @]
    /\ IF WithScheduler(s) THEN ReleaseScheduler(c) ELSE UNCHANGED <<scheduler, ResCount, RunPrio, Zone>>
-----------------------------------------------------------------------------
(* GetSpinlock and TryToGetSpinlock *)

\* Mutant: locks of the same order may be nested.
CheckOfGroupOnly(t, s) ==
    /\ s \notin Occupied[CoreOf[t]]
    /\ OccupyLevel[t] # None => SpinlockGroupsId[s] = SpinlockGroupsId[OccupyLevel[t]]

\* Neither E_OS_INTERFERENCE_DEADLOCK nor E_OS_NESTING_DEADLOCK; an error changes nothing.
GetSpinlockCheck(t, s) ==
    /\ s \notin Occupied[CoreOf[t]]
    /\ OccupyLevel[t] # None => /\ SpinlockOrder[s] > SpinlockOrder[OccupyLevel[t]]
                                /\ SpinlockGroupsId[s] = SpinlockGroupsId[OccupyLevel[t]]

GetSpinlock(t, s) ==
    /\ At(t, "run")
    /\ GetSpinlockCheck(t, s)
    /\ \E service \in {"get", "try"} : thread' = [thread EXCEPT ![t] = [pc |-> service, lock |-> s]]
    /\ UNCHANGED <<locks, guards, active>>

GuardGet(t) ==
    /\ At(t, "get") \/ At(t, "try")
    /\ MethodLock(t)
    /\ Goto(t, IF thread[t].pc = "get" THEN "spin" ELSE "once")
    /\ UNCHANGED <<Spinlock, Os_SLCB, OccupyLevel, active>>

\* Mutant: the lock word is read and then written.
CmpSwapNotAtomic(t) ==
    /\ At(t, "spin") \/ At(t, "once")
    /\ Spinlock' = [Spinlock EXCEPT ![thread[t].lock] = TRUE]
    /\ Goto(t, "own")
    /\ UNCHANGED <<Os_SLCB, Occupied, Zone, OccupyLevel, guards, active>>

\* Os_Hal_CmpSwapW, the one that succeeds.
CmpSwap(t) ==
    /\ At(t, "spin") \/ At(t, "once")
    /\ ~ Spinlock[thread[t].lock]
    /\ Spinlock' = [Spinlock EXCEPT ![thread[t].lock] = TRUE]
    /\ Goto(t, "own")
    /\ UNCHANGED <<Os_SLCB, Occupied, Zone, OccupyLevel, guards, active>>

\* Mutant: a try that fails leaves its guard.
TryFailsGuarded(t) ==
    /\ At(t, "once")
    /\ Spinlock[thread[t].lock]
    /\ Goto(t, "run")
    /\ UNCHANGED <<locks, guards, active>>

TryFails(t) ==
    /\ At(t, "once")
    /\ Spinlock[thread[t].lock]
    /\ Goto(t, "unguard")
    /\ UNCHANGED <<locks, guards, active>>

\* With Occupied.
GetCBModify(t) ==
    LET s == thread[t].lock IN
    /\ At(t, "own")
    /\ Os_SLCB' = [Os_SLCB EXCEPT ![s] = [Occupied |-> TRUE, ObjOccupyId |-> t]]
    /\ Zone' = [Zone EXCEPT ![t] = Append(@, s)]
    /\ OccupyLevel' = [OccupyLevel EXCEPT ![t] = s]
    /\ Goto(t, "run")
    /\ UNCHANGED <<Spinlock, Occupied, guards, active>>
-----------------------------------------------------------------------------
(* ReleaseSpinlock *)

\* Neither E_OS_STATE nor E_OS_NOFUNC.
ReleaseSpinlockCheck(t, s) ==
    /\ Os_SLCB[s].ObjOccupyId \in {None, t} \cup (IF t \in Tasks THEN Isrs ELSE Tasks)
    /\ OccupyLevel[t] # None
    /\ Top(Zone[t]) = s

\* The last lock of the stack that is occupied.
LevelOf(zone, slcb) ==
    LET taken == {i \in 1 .. Len(zone) : zone[i] # RES_SCHEDULER /\ slcb[zone[i]].Occupied} IN
    IF taken = {} THEN None ELSE zone[CHOOSE i \in taken : \A j \in taken : j <= i]

ReleaseSpinlock(t, s) ==
    /\ At(t, "run")
    /\ ReleaseSpinlockCheck(t, s)
    /\ Os_SLCB' = [Os_SLCB EXCEPT ![s] = [Occupied |-> FALSE, ObjOccupyId |-> None]]
    /\ Zone' = [Zone EXCEPT ![t] = Popped(@)]
    /\ OccupyLevel' = [OccupyLevel EXCEPT ![t] = LevelOf(Zone'[t], Os_SLCB')]
    /\ thread' = [thread EXCEPT ![t] = [pc |-> "unlock", lock |-> s]]
    /\ UNCHANGED <<Spinlock, Occupied, guards, active>>

Unlock(t) ==
    /\ At(t, "unlock")
    /\ Spinlock[thread[t].lock]
    /\ Spinlock' = [Spinlock EXCEPT ![thread[t].lock] = FALSE]
    /\ Goto(t, "unguard")
    /\ UNCHANGED <<Os_SLCB, Occupied, Zone, OccupyLevel, guards, active>>

Unguard(t) ==
    /\ At(t, "unguard")
    /\ MethodRelease(t)
    /\ Goto(t, "run")
    /\ UNCHANGED <<Spinlock, Os_SLCB, OccupyLevel, active>>
-----------------------------------------------------------------------------
Next == \E t \in Threads :
    \/ Start(t) \/ Finish(t)
    \/ \E s \in Uses[t] : GetSpinlock(t, s) \/ ReleaseSpinlock(t, s)
    \/ GuardGet(t) \/ CmpSwap(t) \/ TryFails(t) \/ GetCBModify(t)
    \/ Unlock(t) \/ Unguard(t)

Spec == Init /\ [][Next]_vars
-----------------------------------------------------------------------------
TypeOK ==
    /\ Spinlock \in [Spinlocks -> BOOLEAN]
    /\ Os_SLCB \in [Spinlocks -> [Occupied : BOOLEAN, ObjOccupyId : Threads \cup {None}]]
    /\ Occupied \in [Cores -> SUBSET Spinlocks]
    /\ Zone \in [Threads -> Seq(Spinlocks \cup {RES_SCHEDULER})]
    /\ OccupyLevel \in [Threads -> Spinlocks \cup {None}]
    /\ SuspendCount \in [Cores -> Nat]
    /\ scheduler \in [Cores -> [SaveCount : Nat, SavePrio : Nat]]
    /\ ResCount \in [Tasks -> Nat]
    /\ RunPrio \in [Tasks -> Nat]
    /\ active \in [Cores -> Seq(Threads)]
    /\ thread \in [Threads -> [pc : {"run", "get", "try", "spin", "once", "own", "unlock", "unguard"},
                               lock : Spinlocks \cup {None}]]

\* t has the lock word of s: it is in its stack, or t is between the word and the stack.
Owns(t, s) == s \in In(Zone[t]) \/ (thread[t].lock = s /\ thread[t].pc \in {"own", "unlock"})

\* t has set its guard for s.
Guarded(t, s) == Owns(t, s) \/ (thread[t].lock = s /\ thread[t].pc \in {"spin", "once", "unguard"})

Below(t, u) == \E i, j \in 1 .. Len(active[CoreOf[t]]) :
    i < j /\ active[CoreOf[t]][i] = t /\ active[CoreOf[t]][j] = u

\* A lock word is set exactly while a thread owns the lock, and one at most does.  A lock is occupied
\* on a core exactly while a thread of the core guards it, and one at most does.
Exclusive ==
    /\ \A s \in Spinlocks : Spinlock[s] <=> \E t \in Threads : Owns(t, s)
    /\ \A t, u \in Threads : \A s \in Spinlocks : Owns(t, s) /\ Owns(u, s) => t = u
    /\ \A t, u \in Threads : \A s \in Spinlocks :
         CoreOf[t] = CoreOf[u] /\ Guarded(t, s) /\ Guarded(u, s) => t = u
    /\ \A c \in Cores : Occupied[c] = {s \in Spinlocks : \E t \in Threads : CoreOf[t] = c /\ Guarded(t, s)}

\* The control block of a lock tells in whose stack the lock is.
OccupierIsKnown ==
    \A s \in Spinlocks :
        /\ Os_SLCB[s].Occupied <=> Os_SLCB[s].ObjOccupyId # None
        /\ \A t \in Threads : Os_SLCB[s].ObjOccupyId = t <=> s \in In(Zone[t])

\* The level the nesting check starts from is the innermost lock of the thread.
LevelIsInnermost ==
    \A t \in Threads : OccupyLevel[t] = LevelOf(Zone[t], [s \in Spinlocks |-> [Occupied |-> TRUE]])

\* The locks of a thread are nested in their order, that of a service in the last place.
NestedInOrder ==
    \A t \in Threads :
        /\ \A i, j \in 1 .. Len(Zone[t]) : i < j /\ {Zone[t][i], Zone[t][j]} \subseteq Spinlocks
             => SpinlockOrder[Zone[t][i]] < SpinlockOrder[Zone[t][j]]
        /\ thread[t].pc # "run" =>
             /\ thread[t].lock \in Uses[t]
             /\ \A s \in In(Zone[t]) \cap Spinlocks : SpinlockOrder[s] < SpinlockOrder[thread[t].lock]
        /\ In(Zone[t]) \cap Spinlocks \subseteq Uses[t]

\* A lock stays free for the thread that has checked it: only a thread that has preempted it since
\* guards the lock, and leaves before the thread goes on.
CheckStaysTrue ==
    \A t, u \in Threads :
        /\ thread[t].pc \in {"get", "try"} /\ CoreOf[u] = CoreOf[t] /\ Guarded(u, thread[t].lock)
        => Below(t, u)

\* Only threads that have started are in services and own locks, each has started once.
OwnersAreActive ==
    /\ \A c \in Cores : \A i, j \in 1 .. Len(active[c]) :
         CoreOf[active[c][i]] = c /\ (active[c][i] = active[c][j] => i = j)
    /\ \A t \in Threads : t \notin In(active[CoreOf[t]]) =>
         thread[t].pc = "run" /\ In(Zone[t]) \cap Spinlocks = {}

\* The counters of the kernel say how often the scheduler resource is in a stack, and how many locks
\* that suspend interrupts a core occupies.
CountsAgree ==
    /\ \A c \in Cores : SuspendCount[c] = Cardinality({s \in Occupied[c] : Suspends(s)})
    /\ \A t \in Tasks : ResCount[t] = Cardinality({i \in 1 .. Len(Zone[t]) : Zone[t][i] = RES_SCHEDULER})

\* A spinlock has one owner, and the lock word, the flags of the cores, the stacks, levels and
\* counters agree on it between any two steps of any core.
SpinlockInvariant ==
    /\ TypeOK /\ Exclusive /\ OccupierIsKnown /\ LevelIsInnermost /\ NestedInOrder
    /\ CheckStaysTrue /\ OwnersAreActive /\ CountsAgree

-----------------------------------------------------------------------------
(* Conditions on a configuration, which the kernel does not check.           *)

\* Os_GetResource acts on the task that runs, not on the interrupt that asks.
IsrsLeaveScheduler == \A t \in Isrs : \A s \in Uses[t] : ~ WithScheduler(s)

\* The control block of the scheduler resource saves one occupation.
OneSchedulerLock ==
    \A t \in Tasks : \A s, r \in Uses[t] : WithScheduler(s) /\ WithScheduler(r) => s = r

\* u may start while t has not finished, and while t guards s.
MayPreempt(u, t) == IF u \in Isrs THEN t \in Isrs => Prio[t] < Prio[u]
                    ELSE t \in Tasks /\ Prio[t] < Prio[u]
Admits(s, u) == ~ Suspends(s) /\ (WithScheduler(s) => u \in Isrs)

\* The nesting check sees the locks of one thread: what a thread takes that preempts the owner of
\* a lock is not compared with that lock.
PreemptionFollowsOrder ==
    \A t, u \in Threads : CoreOf[t] = CoreOf[u] /\ t # u /\ MayPreempt(u, t) =>
        \A s \in Uses[t], r \in Uses[u] :
            Admits(s, u) => s = r \/ SpinlockOrder[s] < SpinlockOrder[r]
-----------------------------------------------------------------------------
\* t gets no further before u does: u owns the lock t spins for, or has preempted t.
WaitsFor(t, u) == \/ thread[t].pc = "spin" /\ Owns(u, thread[t].lock)
                  \/ Below(t, u)

\* The checks of GetSpinlock exclude that threads wait for each other in a circle, through locks
\* across the cores and preemption within them (E_OS_NESTING_DEADLOCK), where PreemptionFollowsOrder.
NoCircularWait ==
    \A S \in (SUBSET Threads) \ {{}} : \E t \in S : \A u \in S : ~ WaitsFor(t, u)

\* A thread that guards a lock is not preempted by those the method of the lock keeps off, where
\* IsrsLeaveScheduler.
HolderKeepsCore ==
    \A t, u \in Threads : Below(t, u) =>
        \A s \in Spinlocks : Guarded(t, s) => /\ ~ Suspends(s)
                                              /\ WithScheduler(s) => u \in Isrs

\* A task outside the services that owns no spinlock holds no scheduler resource either: it runs
\* at its own priority and may terminate, where IsrsLeaveScheduler and OneSchedulerLock.
SchedulerIsReturned ==
    \A t \in Tasks : thread[t].pc = "run" /\ In(Zone[t]) \cap Spinlocks = {}
                        => ResCount[t] = 0 /\ RunPrio[t] = Prio[t]
=============================================================================
