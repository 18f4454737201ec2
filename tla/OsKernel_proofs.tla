--------------------------- MODULE OsKernel_proofs ---------------------------
(***************************************************************************)
(* The theorems about OsKernel.  The first half has the lemmas about the    *)
(* pieces the module is built from: what the operators on the ready queue,  *)
(* the stacks and the scheduler's record preserve of the invariant of       *)
(* OsKernelInvariant, followed through each service.  In the second half    *)
(* they meet the variables: IInv holds initially (InitEstablishes), every   *)
(* step keeps it (NextKeepsInvariant), and the properties that the runs     *)
(* check on small instances follow for every configuration in which no      *)
(* non-preemptable task calls ChainTask.  What needs more than IInv comes   *)
(* after it: activations are queued, a non-preemptable task keeps the       *)
(* processor, no wakeup is lost, and every occupied resource has one        *)
(* holder, which the interrupt level protects.                              *)
(*                                                                          *)
(* The last part is about the arrays of the ready queue, OsReadyQueRing,    *)
(* for any number of priorities and any sizes of their rings: RingInvariant *)
(* is inductive, and the rings with their bit map implement the FIFOs of    *)
(* OsReadyQueSpec.                                                          *)
(***************************************************************************)
EXTENDS OsKernelInvariant, OsReadyQueRing, SequenceTheorems, FiniteSetTheorems,
        WellFoundedInduction, TLAPS

Queues == [Prio -> Seq(Task)]
Prios  == [Task -> Prio]
Stacks == [Task -> Seq(Resource)]

-----------------------------------------------------------------------------
(* The ready queue *)

(* Every non-empty set of numbers up to n has a greatest element.           *)
LEMMA GreatestExists ==
  ASSUME NEW n \in Nat, NEW T \in SUBSET (0 .. n), T # {}
  PROVE  \E x \in T : \A y \in T : y <= x
<1> DEFINE U(y) == {x \in T : x >= y}
           F == {U(y) : y \in T}
<1>0. T \subseteq Int OBVIOUS
<1>1. IsFiniteSet(T)
  <2>1. IsFiniteSet(0 .. n) BY FS_Interval
  <2>2. QED BY <2>1, FS_Subset
<1>2. IsWellFoundedOn(StrictSubsetOrdering(T), SUBSET T)
  BY <1>1, FS_StrictSubsetOrderingWellFounded, FS_FiniteSubsetsOfFinite
<1>3. F \subseteq SUBSET T /\ F # {} OBVIOUS
<1> HIDE DEF F
<1>4. PICK X \in F : \A Y \in F : ~ (<<Y, X>> \in StrictSubsetOrdering(T)) BY <1>2, <1>3, WFMin
<1>5. PICK x \in T : X = U(x) BY DEF F
<1>6. ASSUME NEW y \in T, y > x
      PROVE  FALSE
  <2>1. U(y) \in F BY DEF F
  <2>2. /\ \A z \in T : z >= y => z >= x
        /\ ~ (x >= y) /\ x >= x
    BY <1>6, <1>0
  <2>3. U(y) \subseteq U(x) /\ U(y) # U(x) BY <2>2
  <2>4. QED BY <2>1, <2>3, <1>4, <1>5 DEF StrictSubsetOrdering
<1>7. QED BY <1>6, <1>0

(* Os_GetHighPrio returns the highest priority with a task, as long as the  *)
(* idle task's priority has one.                                            *)
LEMMA GetHighPrioIsTop ==
  ASSUME NEW q \in Queues, q[0] # <<>>
  PROVE  /\ GetHighPrio(q) \in Prio
         /\ q[GetHighPrio(q)] # <<>>
         /\ \A p \in Prio : q[p] # <<>> => p <= GetHighPrio(q)
<1> DEFINE T == {p \in Prio : q[p] # <<>>}
<1>1. PriorityNum - 1 \in Nat /\ Prio = 0 .. (PriorityNum - 1) BY QueueConstants DEF Prio
<1>2. T \in SUBSET (0 .. (PriorityNum - 1)) /\ T # {} BY <1>1
<1> HIDE DEF T
<1>3. PICK x \in T : \A y \in T : y <= x BY <1>1, <1>2, GreatestExists
<1>4. x \in Prio /\ q[x] # <<>> /\ \A o \in Prio : q[o] # <<>> => o <= x BY <1>3 DEF T
<1>5. QED BY <1>4 DEF GetHighPrio

(* Os_ReadyQueueInsert at the tail changes the first task of a queue only   *)
(* if it was empty.                                                         *)
LEMMA InsertTailFacts ==
  ASSUME NEW q \in Queues, NEW p \in Prio, NEW t \in Task
  PROVE  LET z == InsertTail(q, p, t)
         IN  /\ z \in Queues
             /\ \A o \in Prio : \A u : First(q, o, u) => First(z, o, u)
             /\ \A o \in Prio : \A u :
                  First(z, o, u) => First(q, o, u) \/ (o = p /\ u = t)
             /\ q[p] = <<>> => First(z, p, t)
             /\ \A o \in Prio : z[o] # <<>> <=> q[o] # <<>> \/ o = p
             /\ \A o \in Prio : \A i \in 1 .. Len(z[o]) :
                  \/ i \in 1 .. Len(q[o]) /\ z[o][i] = q[o][i]
                  \/ o = p /\ z[o][i] = t
<1> DEFINE z == InsertTail(q, p, t)
<1>1. /\ z \in Queues
      /\ z[p] = Append(q[p], t)
      /\ \A o \in Prio \ {p} : z[o] = q[o]
  BY DEF InsertTail, Queues
<1>2. \A o \in Prio : q[o] \in Seq(Task) /\ z[o] \in Seq(Task) BY <1>1 DEF Queues
<1>3. /\ z[p] # <<>>
      /\ Head(z[p]) = IF q[p] = <<>> THEN t ELSE Head(q[p])
      /\ \A i \in 1 .. Len(z[p]) :
           (i \in 1 .. Len(q[p]) /\ z[p][i] = q[p][i]) \/ z[p][i] = t
  BY <1>1, <1>2
<1> HIDE DEF z
<1>4. QED BY <1>1, <1>2, <1>3 DEF First, z

(* Os_ReadyQueueInsert at the head makes the task the first and moves the   *)
(* others one place back.                                                   *)
LEMMA InsertHeadFacts ==
  ASSUME NEW q \in Queues, NEW p \in Prio, NEW t \in Task
  PROVE  LET z == InsertHead(q, p, t)
         IN  /\ z \in Queues
             /\ First(z, p, t)
             /\ \A o \in Prio \ {p} : z[o] = q[o]
             /\ \A i \in 1 .. Len(z[p]) :
                  \/ i = 1 /\ z[p][i] = t
                  \/ i - 1 \in 1 .. Len(q[p]) /\ z[p][i] = q[p][i - 1]
<1> DEFINE z == InsertHead(q, p, t)
<1>1. /\ z \in Queues
      /\ z[p] = <<t>> \o q[p]
      /\ \A o \in Prio \ {p} : z[o] = q[o]
  BY DEF InsertHead, Queues
<1>2. q[p] \in Seq(Task) BY DEF Queues
<1>3. /\ z[p] # <<>> /\ Head(z[p]) = t
      /\ \A i \in 1 .. Len(z[p]) :
           \/ i = 1 /\ z[p][i] = t
           \/ i - 1 \in 1 .. Len(q[p]) /\ z[p][i] = q[p][i - 1]
  BY <1>1, <1>2
<1> HIDE DEF z
<1>4. QED BY <1>1, <1>3 DEF First, z

(* Os_ReadyQueueRemove moves the others one place forward.                  *)
LEMMA RemoveHeadFacts ==
  ASSUME NEW q \in Queues, NEW p \in Prio, q[p] # <<>>
  PROVE  LET z == RemoveHead(q, p)
         IN  /\ z \in Queues
             /\ \A o \in Prio \ {p} : z[o] = q[o]
             /\ \A i \in 1 .. Len(z[p]) :
                  i + 1 \in 1 .. Len(q[p]) /\ z[p][i] = q[p][i + 1]
<1> DEFINE z == RemoveHead(q, p)
<1>1. q[p] \in Seq(Task) BY DEF Queues
<1>2. /\ z \in Queues
      /\ z[p] = Tail(q[p])
      /\ \A o \in Prio \ {p} : z[o] = q[o]
  BY <1>1 DEF RemoveHead, Queues
<1>3. \A i \in 1 .. Len(z[p]) : i + 1 \in 1 .. Len(q[p]) /\ z[p][i] = q[p][i + 1] BY <1>1, <1>2
<1> HIDE DEF z
<1>4. QED BY <1>2, <1>3 DEF z

(* The first task of a queue is its entry number 1.                         *)
LEMMA FirstIsEntry ==
  ASSUME NEW q \in Queues, NEW p \in Prio, NEW t
  PROVE  First(q, p, t) <=> 1 \in 1 .. Len(q[p]) /\ q[p][1] = t
BY DEF Queues, First

(* Removing the first task t of a queue leaves the other tasks where they   *)
(* were first, and makes nobody first but at its own priority.              *)
LEMMA RemoveKeepsOthers ==
  ASSUME NEW q \in Queues, NEW prio \in Prios, NEW p \in Prio, NEW t \in Task,
         EntriesInOrder(q, prio), First(q, p, t)
  PROVE  LET z == RemoveHead(q, p)
         IN  /\ z \in Queues
             /\ \A o \in Prio \ {p} : z[o] = q[o]
             /\ \A o \in Prio : \A u : u # t /\ First(q, o, u) => First(z, o, u)
             /\ \A o \in Prio : \A u : First(z, o, u) => First(q, o, u) \/ (o = p /\ o = TaskPriority[u])
             /\ \A i \in 1 .. Len(z[p]) :
                  z[p][i] \in Task /\ TaskPriority[z[p][i]] = p /\ p <= prio[z[p][i]]
<1> DEFINE z == RemoveHead(q, p)
<1>1. q[p] # <<>> BY DEF First
<1>2. /\ z \in Queues
      /\ \A o \in Prio \ {p} : z[o] = q[o]
      /\ \A i \in 1 .. Len(z[p]) : i + 1 \in 1 .. Len(q[p]) /\ z[p][i] = q[p][i + 1]
  BY <1>1, RemoveHeadFacts
<1> HIDE DEF z
<1>3. ASSUME NEW i \in 1 .. Len(z[p])
      PROVE  z[p][i] \in Task /\ TaskPriority[z[p][i]] = p /\ p <= prio[z[p][i]]
  <2>1. q[p] \in Seq(Task) /\ z[p] \in Seq(Task) BY <1>2 DEF Queues
  <2>2. i \in Nat \ {0} /\ i + 1 # 1 /\ i + 1 \in 1 .. Len(q[p]) /\ z[p][i] = q[p][i + 1]
    BY <1>2, <2>1
  <2>3. z[p][i] \in Task BY <2>1
  <2>4. TaskPriority[z[p][i]] <= p /\ p <= prio[z[p][i]] /\ ~ (p > TaskPriority[z[p][i]])
    BY <2>2 DEF EntriesInOrder
  <2>5. TaskPriority[z[p][i]] \in Int /\ p \in Int BY <2>3, TaskConstants DEF Prio
  <2>6. QED BY <2>3, <2>4, <2>5
<1>4. \A u : First(z, p, u) => p = TaskPriority[u] BY <1>2, FirstIsEntry, <1>3
<1>5. \A o \in Prio \ {p} : \A u : First(z, o, u) <=> First(q, o, u) BY <1>2 DEF First
<1>6. \A u : First(q, p, u) => u = t BY DEF First
<1>7. QED BY <1>2, <1>3, <1>4, <1>5, <1>6 DEF z

-----------------------------------------------------------------------------
(* Queues and priorities *)

\* A resource of tasks on a stack has a ceiling that is a task priority.
LEMMA HeldAreResources ==
  ASSUME NEW S \in Stacks, NEW t \in Task, NEW r \in HeldByTask(S, t)
  PROVE  r \in Resource /\ OccupyType[r] = "BY_TASK" /\ Ceiling[r] \in Prio
BY ResourceConstants DEF Stacks, HeldByTask, Range

(* An activation or a wakeup queues the task at its own priority.           *)
LEMMA InsertTailKeepsQueues ==
  ASSUME NEW q \in Queues, NEW prio \in Prios, NEW inter, NEW R, NEW S \in Stacks,
         QueuesOK(q, prio, inter, R, S),
         NEW t \in Task
  PROVE  QueuesOK(InsertTail(q, TaskPriority[t], t), prio, inter, R, S)
<1> DEFINE p == TaskPriority[t]
           z == InsertTail(q, p, t)
<1>1. p \in Prio BY TaskConstants
<1>2. /\ z \in Queues
      /\ \A o \in Prio : \A u : First(q, o, u) => First(z, o, u)
      /\ \A o \in Prio : \A u : First(z, o, u) => First(q, o, u) \/ (o = p /\ u = t)
      /\ \A o \in Prio : \A i \in 1 .. Len(z[o]) :
           \/ i \in 1 .. Len(q[o]) /\ z[o][i] = q[o][i]
           \/ o = p /\ z[o][i] = t
  BY <1>1, InsertTailFacts
<1> HIDE DEF z
<1>3. EntriesInOrder(z, prio) BY <1>1, <1>2 DEF QueuesOK, OccupiedTasksNest, Prio, EntriesInOrder
<1>4. OccupiedTasksNest(z, prio, S) BY <1>2, TaskConstants DEF QueuesOK, OccupiedTasksNest, Prios
<1>5. LevelsRestorable(z, prio, inter, R, S)
  <2>1. ASSUME NEW u \in Task
        PROVE  /\ inter[u] => InterResCeiling[u] > TaskPriority[u] /\ First(z, InterResCeiling[u], u)
               /\ \A r \in HeldByTask(S, u) : LevelRestorable(z, prio, R, S, u, r)
               /\ \A o \in Prio :
                    o > TaskPriority[u] /\ First(z, o, u) =>
                      \/ inter[u] /\ o = InterResCeiling[u]
                      \/ \E r \in HeldByTask(S, u) : o = Ceiling[r] /\ o > R[r].savePrio
    <3>1. InterResCeiling[u] \in Prio BY TaskConstants
    <3>2. \A r \in HeldByTask(S, u) : Ceiling[r] \in Prio BY HeldAreResources
    <3>3. \A r \in HeldByTask(S, u) : LevelRestorable(z, prio, R, S, u, r)
      BY <1>2, <3>2 DEF QueuesOK, LevelsRestorable, LevelRestorable
    <3>4. ~ (p > TaskPriority[t]) BY <1>1 DEF Prio
    <3>5. QED BY <1>2, <3>1, <3>3, <3>4 DEF QueuesOK, LevelsRestorable
  <2>2. QED BY <2>1 DEF LevelsRestorable
<1>6. QED BY <1>3, <1>4, <1>5 DEF QueuesOK, z

(* A task is first at a raised priority only if it was raised to it.        *)
LEMMA FirstIsBelowPrio ==
  ASSUME NEW q \in Queues, NEW prio \in Prios, EntriesInOrder(q, prio),
         NEW p \in Prio, NEW t \in Task, First(q, p, t)
  PROVE  TaskPriority[t] <= p /\ p <= prio[t]
BY FirstIsEntry DEF EntriesInOrder

(* Without resources and outside its internal resource a task runs at its   *)
(* own priority.                                                            *)
LEMMA NothingHeldMeansOwnPrio ==
  ASSUME NEW q \in Queues, NEW prio \in Prios, NEW inter, NEW R, NEW S \in Stacks,
         QueuesOK(q, prio, inter, R, S),
         NEW t \in Task, S[t] = <<>>, ~ inter[t]
  PROVE  prio[t] = TaskPriority[t] /\ ~ Occupied(prio, S, t)
<1>1. HeldByTask(S, t) = {} BY DEF HeldByTask, Range
<1>2. prio[t] \in Prio /\ TaskPriority[t] \in Prio BY TaskConstants DEF Prios
<1>3. ~ (prio[t] > TaskPriority[t])
  BY <1>1, <1>2 DEF QueuesOK, OccupiedTasksNest, Occupied, LevelsRestorable
<1>4. TaskPriority[t] <= prio[t] BY DEF QueuesOK, OccupiedTasksNest
<1>5. QED BY <1>2, <1>3, <1>4 DEF Occupied, Prio

(* A task that terminates or waits leaves the queue of its own priority.    *)
LEMMA LeavingKeepsQueues ==
  ASSUME NEW q \in Queues, NEW prio \in Prios, NEW inter, NEW R, NEW S \in Stacks,
         QueuesOK(q, prio, inter, R, S),
         NEW t \in Task, S[t] = <<>>, ~ inter[t], First(q, TaskPriority[t], t)
  PROVE  /\ RemoveHead(q, TaskPriority[t]) \in Queues
         /\ QueuesOK(RemoveHead(q, TaskPriority[t]), prio, inter, R, S)
<1> DEFINE p == TaskPriority[t]
           z == RemoveHead(q, p)
<1>1. p \in Prio /\ ~ Occupied(prio, S, t) /\ HeldByTask(S, t) = {}
  BY TaskConstants, NothingHeldMeansOwnPrio DEF HeldByTask, Range
<1>2. /\ z \in Queues
      /\ \A o \in Prio \ {p} : z[o] = q[o]
      /\ \A o \in Prio : \A u : u # t /\ First(q, o, u) => First(z, o, u)
      /\ \A o \in Prio : \A u : First(z, o, u) => First(q, o, u) \/ (o = p /\ o = TaskPriority[u])
      /\ \A i \in 1 .. Len(z[p]) :
           z[p][i] \in Task /\ TaskPriority[z[p][i]] = p /\ p <= prio[z[p][i]]
  BY <1>1, RemoveKeepsOthers DEF QueuesOK
<1> HIDE DEF z
<1>3. p <= p /\ ~ (p > p) BY <1>1 DEF Prio
<1>4. EntriesInOrder(z, prio) BY <1>2, <1>3 DEF QueuesOK, EntriesInOrder
<1>5. OccupiedTasksNest(z, prio, S)
  BY <1>1, <1>2, TaskConstants DEF QueuesOK, OccupiedTasksNest, Prios
<1>6. LevelsRestorable(z, prio, inter, R, S)
  BY TaskConstants, <1>1, HeldAreResources, <1>2, <1>3 DEF QueuesOK, LevelsRestorable, LevelRestorable
<1>7. QED BY <1>2, <1>4, <1>5, <1>6 DEF QueuesOK, z

(* A task without resources drops back from its internal resource to its    *)
(* own priority, where it is still first.                                   *)
LEMMA ReleaseInternalKeepsQueues ==
  ASSUME NEW q \in Queues, NEW prio \in Prios, NEW inter \in [Task -> BOOLEAN], NEW R,
         NEW S \in Stacks, QueuesOK(q, prio, inter, R, S),
         NEW t \in Task, S[t] = <<>>, inter[t], First(q, TaskPriority[t], t)
  PROVE  LET z == RemoveHead(q, InterResCeiling[t])
         IN  /\ z \in Queues
             /\ First(z, TaskPriority[t], t)
             /\ QueuesOK(z, [prio EXCEPT ![t] = TaskPriority[t]],
                         [inter EXCEPT ![t] = FALSE], R, S)
<1> DEFINE c == InterResCeiling[t]
           z == RemoveHead(q, c)
           np == [prio EXCEPT ![t] = TaskPriority[t]]
           ni == [inter EXCEPT ![t] = FALSE]
<1>1. /\ c \in Prio /\ c > TaskPriority[t] /\ First(q, c, t)
      /\ HeldByTask(S, t) = {} /\ TaskPriority[t] \in Prio
  BY TaskConstants DEF HeldByTask, Range, QueuesOK, LevelsRestorable
<1>2. /\ z \in Queues
      /\ \A o \in Prio \ {c} : z[o] = q[o]
      /\ \A o \in Prio : \A u : u # t /\ First(q, o, u) => First(z, o, u)
      /\ \A o \in Prio : \A u : First(z, o, u) => First(q, o, u) \/ (o = c /\ o = TaskPriority[u])
      /\ \A i \in 1 .. Len(z[c]) :
           z[c][i] \in Task /\ TaskPriority[z[c][i]] = c /\ c <= prio[z[c][i]]
  BY <1>1, RemoveKeepsOthers DEF QueuesOK
<1>3. /\ np \in Prios /\ np[t] = TaskPriority[t] /\ ~ ni[t]
      /\ \A u \in Task \ {t} : np[u] = prio[u] /\ ni[u] = inter[u]
  BY <1>1 DEF Prios
<1> HIDE DEF z, np, ni
<1>4. c # TaskPriority[t] /\ c <= c /\ ~ (c > c) BY <1>1 DEF Prio
<1>5. First(z, TaskPriority[t], t) BY <1>1, <1>2, <1>4 DEF First
<1>6. EntriesInOrder(z, np)
  <2>1. ASSUME NEW o \in Prio, NEW i \in 1 .. Len(z[o])
        PROVE  /\ TaskPriority[z[o][i]] <= o
               /\ o <= np[z[o][i]]
               /\ o > TaskPriority[z[o][i]] => i = 1
    <3>1. CASE o = c BY <3>1, <1>1, <1>2, <1>3, <1>4
    <3>2. CASE o # c
      <4>1. z[o] = q[o] /\ q[o] \in Seq(Task) /\ q[o][i] \in Task BY <3>2, <1>2 DEF Queues
      <4>2. /\ TaskPriority[q[o][i]] <= o
            /\ o <= prio[q[o][i]]
            /\ o > TaskPriority[q[o][i]] => i = 1
        BY <4>1 DEF QueuesOK, EntriesInOrder
      <4>3. CASE q[o][i] # t BY <4>1, <4>2, <4>3, <1>3
      <4>4. CASE q[o][i] = t /\ o > TaskPriority[t]
        BY <4>1, <4>2, <4>4, FirstIsEntry, <1>1, <3>2 DEF QueuesOK, LevelsRestorable
      <4>5. CASE q[o][i] = t /\ ~ (o > TaskPriority[t]) BY <4>1, <4>2, <4>5, <1>1, <1>3 DEF Prio
      <4>6. QED BY <4>3, <4>4, <4>5
    <3>3. QED BY <3>1, <3>2
  <2>2. QED BY <2>1 DEF EntriesInOrder
<1>7. OccupiedTasksNest(z, np, S)
  <2>1. TaskPriority[t] <= TaskPriority[t] /\ ~ Occupied(np, S, t) BY <1>1, <1>3 DEF Occupied, Prio
  <2>2. \A u \in Task \ {t} : Occupied(np, S, u) <=> Occupied(prio, S, u) BY <1>3 DEF Occupied
  <2>3. QED BY <2>1, <2>2, <1>2, <1>3, TaskConstants DEF QueuesOK, OccupiedTasksNest, Prios
<1>8. LevelsRestorable(z, np, ni, R, S)
  <2>1. ASSUME NEW u \in Task
        PROVE  /\ ni[u] => InterResCeiling[u] > TaskPriority[u] /\ First(z, InterResCeiling[u], u)
               /\ \A r \in HeldByTask(S, u) : LevelRestorable(z, np, R, S, u, r)
               /\ \A o \in Prio :
                    o > TaskPriority[u] /\ First(z, o, u) =>
                      \/ ni[u] /\ o = InterResCeiling[u]
                      \/ \E r \in HeldByTask(S, u) : o = Ceiling[r] /\ o > R[r].savePrio
    <3>1. InterResCeiling[u] \in Prio BY TaskConstants
    <3>2. ASSUME NEW r \in HeldByTask(S, u)
          PROVE  LevelRestorable(z, np, R, S, u, r)
      BY <1>1, HeldAreResources, <1>2, <1>3 DEF QueuesOK, LevelsRestorable, LevelRestorable
    <3>3. CASE u = t
      <4>1. ASSUME NEW o \in Prio, o > TaskPriority[t], First(z, o, t)
            PROVE  FALSE
        BY <4>1, <1>1, <1>2, <1>4, FirstIsEntry DEF QueuesOK, LevelsRestorable, First
      <4>2. QED BY <3>3, <4>1, <1>1, <1>3
    <3>4. CASE u # t BY <3>1, <3>2, <3>4, <1>2, <1>3, <1>4 DEF QueuesOK, LevelsRestorable
    <3>5. QED BY <3>3, <3>4
  <2>2. QED BY <2>1 DEF LevelsRestorable
<1>9. QED BY <1>2, <1>5, <1>6, <1>7, <1>8 DEF QueuesOK, z, np, ni

(* What raising the running task t to c changes: t is first at c as well,   *)
(* and every other occupied task is first where it was.                     *)
LEMMA RaiseKeepsOthers ==
  ASSUME NEW q \in Queues, NEW prio \in Prios, NEW S \in Stacks,
         EntriesInOrder(q, prio), OccupiedTasksNest(q, prio, S),
         NEW t \in Task, First(q, TaskPriority[t], t),
         \A u \in Task \ {t} : Occupied(prio, S, u) => prio[u] < TaskPriority[t],
         NEW c \in Prio, c > prio[t],
         NEW S2 \in Stacks, \A u \in Task \ {t} : S2[u] = S[u]
  PROVE  LET z  == InsertHead(q, c, t)
             np == [prio EXCEPT ![t] = c]
         IN  /\ z \in Queues
             /\ np \in Prios
             /\ First(z, c, t)
             /\ \A o \in Prio : First(q, o, t) => First(z, o, t)
             /\ \A u \in Task \ {t} : \A o \in Prio :
                  Occupied(prio, S, u) /\ o <= prio[u] /\ First(q, o, u) => First(z, o, u)
             /\ \A u : \A o \in Prio :
                  First(z, o, u) => First(q, o, u) \/ (u = t /\ o = c)
             /\ EntriesInOrder(z, np)
             /\ OccupiedTasksNest(z, np, S2)
<1> DEFINE z  == InsertHead(q, c, t)
           np == [prio EXCEPT ![t] = c]
<1>1. /\ z \in Queues
      /\ First(z, c, t)
      /\ \A o \in Prio \ {c} : z[o] = q[o]
      /\ \A i \in 1 .. Len(z[c]) :
           \/ i = 1 /\ z[c][i] = t
           \/ i - 1 \in 1 .. Len(q[c]) /\ z[c][i] = q[c][i - 1]
  BY InsertHeadFacts
<1>2. np \in Prios /\ np[t] = c /\ \A u \in Task \ {t} : np[u] = prio[u] BY DEF Prios
<1> HIDE DEF z, np
<1>3. /\ TaskPriority \in [Task -> Prio]
      /\ TaskPriority[t] <= prio[t] /\ TaskPriority[t] < c
  BY TaskConstants DEF OccupiedTasksNest, Prios, Prio
<1>4. \A o \in Prio : First(q, o, t) => First(z, o, t) BY <1>1 DEF First
<1>5. \A u : \A o \in Prio : First(z, o, u) => First(q, o, u) \/ (u = t /\ o = c) BY <1>1 DEF First
<1>6. \A u \in Task \ {t} : Occupied(prio, S, u) => prio[u] < c BY <1>3 DEF Prios, Prio
<1>7. \A u \in Task \ {t} : \A o \in Prio :
        Occupied(prio, S, u) /\ o <= prio[u] /\ First(q, o, u) => First(z, o, u)
  BY <1>1, <1>6 DEF First, Prios, Prio
<1>8. EntriesInOrder(z, np)
  <2>1. ASSUME NEW o \in Prio, NEW i \in 1 .. Len(z[o])
        PROVE  /\ TaskPriority[z[o][i]] <= o
               /\ o <= np[z[o][i]]
               /\ o > TaskPriority[z[o][i]] => i = 1
    <3>1. q[o] \in Seq(Task) /\ z[o] \in Seq(Task) /\ z[o][i] \in Task BY <1>1 DEF Queues
    <3>2. CASE o # c
      <4>1. z[o] = q[o] BY <3>2, <1>1
      <4>2. /\ TaskPriority[q[o][i]] <= o
            /\ o <= prio[q[o][i]]
            /\ o > TaskPriority[q[o][i]] => i = 1
        BY <4>1 DEF EntriesInOrder
      <4>3. prio[q[o][i]] <= np[q[o][i]]
        <5>1. \A u \in Task : prio[u] \in Int /\ np[u] \in Int /\ prio[u] <= np[u]
          BY <1>2 DEF Prios, Prio
        <5>2. QED BY <5>1, <3>1, <4>1
      <4>4. QED BY <4>1, <4>2, <4>3, <3>1, <1>2 DEF Prios, Prio
    <3>3. CASE o = c /\ i = 1 /\ z[c][i] = t BY <3>3, <1>2, <1>3 DEF Prio
    <3>4. CASE o = c /\ i - 1 \in 1 .. Len(q[c]) /\ z[c][i] = q[c][i - 1]
      <4> DEFINE u == q[c][i - 1]
      <4>1. /\ TaskPriority[u] <= c
            /\ c <= prio[u]
            /\ c > TaskPriority[u] => i - 1 = 1
        BY <3>4 DEF EntriesInOrder
      <4>2. u \in Task /\ u # t BY <3>1, <3>4, <4>1 DEF Prios, Prio
      <4>3. ~ Occupied(prio, S, u) BY <4>1, <4>2, <1>6 DEF Prios, Prio
      <4>4. ~ (c > TaskPriority[u]) BY <4>1, <4>2, <4>3, <1>3 DEF Occupied, Prios, Prio
      <4>5. QED BY <3>4, <4>1, <4>2, <4>4, <1>2
    <3>5. QED BY <3>2, <3>3, <3>4, <1>1
  <2>2. QED BY <2>1 DEF EntriesInOrder
<1>9. OccupiedTasksNest(z, np, S2)
  <2>1. \A u \in Task \ {t} : Occupied(np, S2, u) <=> Occupied(prio, S, u) BY <1>2 DEF Occupied
  <2>2. ASSUME NEW u \in Task
        PROVE  /\ TaskPriority[u] <= np[u]
               /\ Occupied(np, S2, u) => First(z, TaskPriority[u], u) /\ First(z, np[u], u)
    <3>1. CASE u = t BY <3>1, <1>1, <1>2, <1>3, <1>4 DEF Prio
    <3>2. CASE u # t BY <1>3, <3>2, <2>1, <1>2, <1>7 DEF OccupiedTasksNest, Prios, Prio
    <3>3. QED BY <3>1, <3>2
  <2>3. ASSUME NEW u \in Task, NEW v \in Task, u # v,
               Occupied(np, S2, u), Occupied(np, S2, v)
        PROVE  np[v] < TaskPriority[u] \/ np[u] < TaskPriority[v]
    BY <2>1, <2>3, <1>2 DEF OccupiedTasksNest
  <2>4. QED BY <2>2, <2>3 DEF OccupiedTasksNest
<1>10. QED BY <1>1, <1>2, <1>4, <1>5, <1>7, <1>8, <1>9 DEF z, np

(* Taking the internal resource, when the task is switched in or goes on    *)
(* after Schedule.                                                          *)
LEMMA GetInternalKeepsQueues ==
  ASSUME NEW q \in Queues, NEW prio \in Prios, NEW inter \in [Task -> BOOLEAN], NEW R,
         NEW S \in Stacks, QueuesOK(q, prio, inter, R, S),
         NEW t \in Task, First(q, TaskPriority[t], t),
         \A u \in Task \ {t} : Occupied(prio, S, u) => prio[u] < TaskPriority[t],
         HeldByTask(S, t) = {},
         InterResCeiling[t] > prio[t]
  PROVE  QueuesOK(InsertHead(q, InterResCeiling[t], t),
                  [prio EXCEPT ![t] = InterResCeiling[t]],
                  [inter EXCEPT ![t] = TRUE], R, S)
<1> DEFINE c  == InterResCeiling[t]
           z  == InsertHead(q, c, t)
           np == [prio EXCEPT ![t] = c]
           ni == [inter EXCEPT ![t] = TRUE]
<1>0. c \in Prio /\ TaskPriority \in [Task -> Prio] /\ InterResCeiling \in [Task -> Prio]
  BY TaskConstants
<1>1. /\ First(z, c, t)
      /\ \A o \in Prio : First(q, o, t) => First(z, o, t)
      /\ \A u \in Task \ {t} : \A o \in Prio :
           Occupied(prio, S, u) /\ o <= prio[u] /\ First(q, o, u) => First(z, o, u)
      /\ \A u : \A o \in Prio : First(z, o, u) => First(q, o, u) \/ (u = t /\ o = c)
      /\ EntriesInOrder(z, np)
      /\ OccupiedTasksNest(z, np, S)
  BY <1>0, RaiseKeepsOthers DEF QueuesOK
<1>2. /\ np[t] = c /\ ni[t]
      /\ \A u \in Task \ {t} : np[u] = prio[u] /\ ni[u] = inter[u]
  BY DEF Prios
<1> HIDE DEF z, np, ni
<1>3. LevelsRestorable(z, np, ni, R, S)
  <2>1. ASSUME NEW u \in Task
        PROVE  /\ ni[u] => InterResCeiling[u] > TaskPriority[u] /\ First(z, InterResCeiling[u], u)
               /\ \A r \in HeldByTask(S, u) : LevelRestorable(z, np, R, S, u, r)
               /\ \A o \in Prio :
                    o > TaskPriority[u] /\ First(z, o, u) =>
                      \/ ni[u] /\ o = InterResCeiling[u]
                      \/ \E r \in HeldByTask(S, u) : o = Ceiling[r] /\ o > R[r].savePrio
    <3>1. CASE u = t
      <4>1. TaskPriority[t] <= prio[t] /\ c > TaskPriority[t]
        BY <1>0 DEF QueuesOK, OccupiedTasksNest, Prios, Prio
      <4>2. QED BY <3>1, <4>1, <1>1, <1>2 DEF QueuesOK, LevelsRestorable
    <3>2. CASE u # t
      <4>1. inter[u] => /\ InterResCeiling[u] > TaskPriority[u] /\ First(q, InterResCeiling[u], u)
                        /\ Occupied(prio, S, u) /\ InterResCeiling[u] <= prio[u]
        <5>1. inter[u] => /\ InterResCeiling[u] > TaskPriority[u]
                          /\ First(q, InterResCeiling[u], u)
                          /\ InterResCeiling[u] <= prio[u]
          BY <1>0, FirstIsBelowPrio DEF QueuesOK, LevelsRestorable
        <5>2. QED BY <5>1, <1>0 DEF Occupied, Prios, Prio
      <4>2. ASSUME NEW r \in HeldByTask(S, u)
            PROVE  LevelRestorable(z, np, R, S, u, r)
        <5>1. Ceiling[r] \in Prio /\ Occupied(prio, S, u)
          BY HeldAreResources DEF Occupied, HeldByTask, Range
        <5>2. LevelRestorable(q, prio, R, S, u, r) BY DEF QueuesOK, LevelsRestorable
        <5>3. QED BY <3>2, <5>1, <5>2, <1>1, <1>2 DEF LevelRestorable
      <4>3. QED BY <3>2, <4>1, <4>2, <1>0, <1>1, <1>2 DEF QueuesOK, LevelsRestorable
    <3>3. QED BY <3>1, <3>2
  <2>2. QED BY <2>1 DEF LevelsRestorable
<1>4. QED BY <1>1, <1>3 DEF QueuesOK, z, np, ni

-----------------------------------------------------------------------------
(* Stacks of resources *)

Rcbs == [Resource -> Rcb]

Pushed(S, t, r) == [S EXCEPT ![t] = Append(@, r)]
Popped(S, t) == [S EXCEPT ![t] = Front(@)]
Saved(R, r, n, prio) ==
  [R EXCEPT ![r] = [saveCount |-> n, savePrio |-> prio, saveLevel |-> "TASK"]]

(* Os_SaveResourceByTaskOrder puts a resource nobody holds on top.          *)
LEMMA PushKeepsStacksMatch ==
  ASSUME NEW R \in Rcbs, NEW S \in Stacks, StacksMatch(R, S),
         NEW t \in Task, NEW r \in Resource, NEW prio \in Nat,
         OccupyType[r] # "BY_INTERRUPT",
         \A u \in Task : r \notin Range(S[u])
  PROVE  StacksMatch(Saved(R, r, Len(S[t]) + 1, prio), Pushed(S, t, r))
<1> DEFINE Z == Pushed(S, t, r)
           n == Len(S[t]) + 1
           Q == Saved(R, r, n, prio)
<1>1. /\ Z \in Stacks
      /\ Len(Z[t]) = n /\ n \in Nat /\ n \in 1 .. n /\ Z[t][n] = r
      /\ \A k \in 1 .. n : k = n \/ k \in 1 .. Len(S[t])
      /\ \A k \in 1 .. Len(S[t]) : Z[t][k] = S[t][k] /\ k \in 1 .. n
      /\ \A o : o \in Range(Z[t]) <=> o \in Range(S[t]) \/ o = r
      /\ \A u \in Task \ {t} : Z[u] = S[u]
  <2>1. Len(S[t]) \in Nat BY DEF Stacks
  <2>2. /\ n \in Nat /\ n \in 1 .. n
        /\ \A k \in 1 .. n : k = n \/ k \in 1 .. Len(S[t])
        /\ \A k \in 1 .. Len(S[t]) : k \in 1 .. n
    BY <2>1
  <2>3. /\ Z \in Stacks
        /\ Z[t] = Append(S[t], r)
        /\ \A u \in Task \ {t} : Z[u] = S[u]
    BY <2>1 DEF Stacks, Pushed
  <2> HIDE DEF Z
  <2>4. /\ Len(Z[t]) = n /\ Z[t][n] = r
        /\ \A k \in 1 .. Len(S[t]) : Z[t][k] = S[t][k]
        /\ DOMAIN Z[t] = 1 .. n /\ DOMAIN S[t] = 1 .. Len(S[t])
    BY <2>1, <2>3 DEF Stacks
  <2>5. \A o : o \in Range(Z[t]) <=> o \in Range(S[t]) \/ o = r BY <2>2, <2>4 DEF Range
  <2>6. QED BY <2>2, <2>3, <2>4, <2>5
<1>2. /\ Q[r] = [saveCount |-> n, savePrio |-> prio, saveLevel |-> "TASK"]
      /\ \A o \in Resource \ {r} : Q[o] = R[o]
  BY DEF Saved, Rcbs
<1>3. \A u \in Task : \A k \in 1 .. Len(S[u]) : S[u][k] \in Resource \ {r} BY DEF Stacks, Range
<1> HIDE DEF Z, Q, n
<1>4. ASSUME NEW u \in Task, NEW k \in 1 .. Len(Z[u])
      PROVE  /\ Q[Z[u][k]].saveCount = k
             /\ Q[Z[u][k]].saveLevel = "TASK"
             /\ OccupyType[Z[u][k]] # "BY_INTERRUPT"
  BY <1>1, <1>2, <1>3 DEF StacksMatch
<1>5. \A u, v \in Task : u # v => Range(Z[u]) \cap Range(Z[v]) = {}
  <2>1. \A u, v \in Task : u # v => Range(S[u]) \cap Range(S[v]) = {} BY DEF StacksMatch
  <2>2. \A u \in Task : \A o : o \in Range(Z[u]) <=> o \in Range(S[u]) \/ (u = t /\ o = r) BY <1>1
  <2>3. QED BY <2>1, <2>2
<1>6. ASSUME NEW o \in Resource, Q[o].saveCount > 0,
             OccupyType[o] = "BY_TASK" \/ Q[o].saveLevel = "TASK"
      PROVE  \E u \in Task : Q[o].saveCount <= Len(Z[u]) /\ Z[u][Q[o].saveCount] = o
  <2>1. CASE o = r BY <2>1, <1>1, <1>2
  <2>2. CASE o # r
    <3>1. PICK u \in Task : R[o].saveCount <= Len(S[u]) /\ S[u][R[o].saveCount] = o
      BY <2>2, <1>2, <1>6 DEF StacksMatch
    <3>2. R[o].saveCount \in Nat /\ R[o].saveCount > 0 /\ Len(S[u]) \in Nat
      BY <2>2, <1>2, <1>6 DEF Rcbs, Rcb, Stacks
    <3>3. R[o].saveCount \in 1 .. Len(S[u]) BY <3>1, <3>2
    <3>4. R[o].saveCount <= Len(Z[u]) /\ Z[u][R[o].saveCount] = o BY <3>1, <3>2, <3>3, <1>1
    <3>5. QED BY <3>4, <2>2, <1>2
  <2>3. QED BY <2>1, <2>2
<1>7. QED BY <1>4, <1>5, <1>6 DEF StacksMatch, Z, Q, n

(* Os_ResumeResourceByTaskOrder takes the top resource off.                 *)
LEMMA PopFacts ==
  ASSUME NEW R \in Rcbs, NEW S \in Stacks, StacksMatch(R, S),
         NEW t \in Task, S[t] # <<>>
  PROVE  /\ Popped(S, t) \in Stacks
         /\ Len(S[t]) \in Nat \ {0}
         /\ Len(Popped(S, t)[t]) = Len(S[t]) - 1
         /\ \A k \in 1 .. Len(S[t]) - 1 : Popped(S, t)[t][k] = S[t][k]
         /\ Range(Popped(S, t)[t]) = Range(S[t]) \ {S[t][Len(S[t])]}
         /\ \A u \in Task \ {t} : Popped(S, t)[u] = S[u]
<1> DEFINE Z == Popped(S, t)
           n == Len(S[t])
<1>1. S[t] \in Seq(Resource) /\ n \in Nat \ {0} BY DEF Stacks
<1>2. /\ Z \in Stacks
      /\ Z[t] = Front(S[t])
      /\ \A u \in Task \ {t} : Z[u] = S[u]
  BY <1>1 DEF Stacks, Popped, Front
<1> HIDE DEF Z
<1>3. /\ Len(Z[t]) = n - 1
      /\ \A k \in 1 .. n - 1 : Z[t][k] = S[t][k]
      /\ DOMAIN Z[t] = 1 .. n - 1 /\ DOMAIN S[t] = 1 .. n
  BY <1>1, <1>2 DEF Front
<1>4. \A k \in 1 .. n : R[S[t][k]].saveCount = k BY DEF StacksMatch
<1>5. Range(Z[t]) = Range(S[t]) \ {S[t][n]}
  <2>1. \A k \in 1 .. n - 1 : S[t][k] # S[t][n] /\ k \in 1 .. n BY <1>1, <1>4
  <2>2. \A k \in 1 .. n : k = n \/ k \in 1 .. n - 1 BY <1>1
  <2>3. QED BY <2>1, <2>2, <1>3 DEF Range
<1>6. QED BY <1>1, <1>2, <1>3, <1>5 DEF Z

\* Front of a stack and a free control block still match.
LEMMA PopKeepsStacksMatch ==
  ASSUME NEW R \in Rcbs, NEW S \in Stacks, StacksMatch(R, S),
         NEW t \in Task, S[t] # <<>>
  PROVE  StacksMatch([R EXCEPT ![S[t][Len(S[t])]] = FreeRcb], Popped(S, t))
<1> DEFINE Z == Popped(S, t)
           n == Len(S[t])
           r == S[t][n]
           Q == [R EXCEPT ![r] = FreeRcb]
<1>1. /\ Z \in Stacks
      /\ n \in Nat \ {0} /\ n \in 1 .. n
      /\ Len(Z[t]) = n - 1
      /\ \A k \in 1 .. n - 1 : Z[t][k] = S[t][k] /\ k \in 1 .. n
      /\ Range(Z[t]) = Range(S[t]) \ {r}
      /\ \A u \in Task \ {t} : Z[u] = S[u]
  <2>1. /\ Z \in Stacks
        /\ n \in Nat \ {0}
        /\ Len(Z[t]) = n - 1
        /\ \A k \in 1 .. n - 1 : Z[t][k] = S[t][k]
        /\ Range(Z[t]) = Range(S[t]) \ {r}
        /\ \A u \in Task \ {t} : Z[u] = S[u]
    BY PopFacts
  <2>2. n \in 1 .. n /\ \A k \in 1 .. n - 1 : k \in 1 .. n BY <2>1
  <2>3. QED BY <2>1, <2>2
<1>2. r \in Resource /\ r \in Range(S[t]) /\ R[r].saveCount = n
  BY <1>1 DEF Stacks, StacksMatch, Range
<1>3. Q[r] = FreeRcb /\ \A o \in Resource \ {r} : Q[o] = R[o] BY <1>2 DEF Rcbs
<1>4. \A u \in Task : \A k \in 1 .. Len(Z[u]) :
        Z[u][k] \in Range(Z[u]) /\ Z[u][k] \in Resource /\ Z[u][k] # r
        /\ k \in 1 .. Len(S[u]) /\ Z[u][k] = S[u][k]
  <2>1. ASSUME NEW u \in Task, NEW k \in 1 .. Len(Z[u])
        PROVE  /\ Z[u][k] \in Range(Z[u]) /\ Z[u][k] \in Resource /\ Z[u][k] # r
               /\ k \in 1 .. Len(S[u]) /\ Z[u][k] = S[u][k]
    <3>1. Z[u][k] \in Range(Z[u]) /\ Z[u][k] \in Resource BY <1>1 DEF Stacks, Range
    <3>2. CASE u = t BY <3>1, <3>2, <1>1
    <3>3. CASE u # t BY <3>1, <3>3, <1>1, <1>2 DEF StacksMatch
    <3>4. QED BY <3>2, <3>3
  <2>2. QED BY <2>1
<1> HIDE DEF Z, Q, r, n
<1>5. ASSUME NEW u \in Task, NEW k \in 1 .. Len(Z[u])
      PROVE  /\ Q[Z[u][k]].saveCount = k
             /\ Q[Z[u][k]].saveLevel = "TASK"
             /\ OccupyType[Z[u][k]] # "BY_INTERRUPT"
  BY <1>3, <1>4 DEF StacksMatch
<1>6. \A u, v \in Task : u # v => Range(Z[u]) \cap Range(Z[v]) = {} BY <1>1, ZenonT(30) DEF StacksMatch
<1>7. ASSUME NEW o \in Resource, Q[o].saveCount > 0,
             OccupyType[o] = "BY_TASK" \/ Q[o].saveLevel = "TASK"
      PROVE  \E u \in Task : Q[o].saveCount <= Len(Z[u]) /\ Z[u][Q[o].saveCount] = o
  <2>1. o # r /\ Q[o] = R[o] BY <1>3, <1>7 DEF FreeRcb
  <2>2. PICK u \in Task : R[o].saveCount <= Len(S[u]) /\ S[u][R[o].saveCount] = o
    BY <2>1, <1>7 DEF StacksMatch
  <2>3. R[o].saveCount \in Nat \ {0} /\ Len(S[u]) \in Nat BY <2>1, <1>7 DEF Rcbs, Rcb, Stacks
  <2>4. CASE u = t BY <2>1, <2>2, <2>4, <2>3, <1>1 DEF r, n
  <2>5. CASE u # t BY <2>1, <2>2, <2>5, <1>1
  <2>6. QED BY <2>4, <2>5
<1>8. QED BY <1>5, <1>6, <1>7 DEF StacksMatch, Z, Q, r, n

-----------------------------------------------------------------------------
(* Taking and releasing a resource: queues, priorities and stacks           *)

(* A resource shared with interrupts leaves the queues alone.               *)
LEMMA TakeSharedKeepsQueues ==
  ASSUME NEW q \in Queues, NEW prio \in Prios, NEW inter \in [Task -> BOOLEAN],
         NEW R \in Rcbs, NEW S \in Stacks, QueuesOK(q, prio, inter, R, S),
         NEW t \in Task, First(q, TaskPriority[t], t), First(q, prio[t], t),
         \A u \in Task \ {t} : Occupied(prio, S, u) => prio[u] < TaskPriority[t],
         NEW r \in Resource, OccupyType[r] # "BY_TASK",
         NEW n \in Nat, NEW save \in Nat
  PROVE  QueuesOK(q, prio, inter, Saved(R, r, n, save), Pushed(S, t, r))
<1> DEFINE Z == Pushed(S, t, r)
           Q == Saved(R, r, n, save)
<1>1. \A u \in Task \ {t} : Z[u] = S[u] BY DEF Stacks, Pushed
<1>2. \A o \in Resource \ {r} : Q[o] = R[o] BY DEF Saved, Rcbs
<1>3. \A u \in Task : \A o : o \in HeldByTask(Z, u) <=> o \in HeldByTask(S, u)
  <2>1. S[t] \in Seq(Resource) /\ Len(S[t]) \in Nat /\ Z[t] = Append(S[t], r) BY DEF Stacks, Pushed
  <2> HIDE DEF Z
  <2>2. /\ Z[t][Len(S[t]) + 1] = r
        /\ \A k \in 1 .. Len(S[t]) : Z[t][k] = S[t][k]
        /\ DOMAIN Z[t] = 1 .. Len(S[t]) + 1 /\ DOMAIN S[t] = 1 .. Len(S[t])
        /\ \A k \in 1 .. Len(S[t]) + 1 : k = Len(S[t]) + 1 \/ k \in 1 .. Len(S[t])
        /\ \A k \in 1 .. Len(S[t]) : k \in 1 .. Len(S[t]) + 1
    BY <2>1
  <2>3. \A o : o \in HeldByTask(Z, t) <=> o \in HeldByTask(S, t) BY <2>2 DEF HeldByTask, Range
  <2>4. QED BY <2>3, <1>1 DEF HeldByTask
<1> HIDE DEF Z, Q
<1>4. OccupiedTasksNest(q, prio, Z) BY <1>1 DEF Occupied, QueuesOK, OccupiedTasksNest
<1>5. LevelsRestorable(q, prio, inter, Q, Z)
  BY <1>2, HeldAreResources, <1>3 DEF QueuesOK, LevelsRestorable, LevelRestorable
<1>6. QED BY <1>4, <1>5 DEF QueuesOK, Z, Q

(* What a task holds after it took a resource of tasks.                     *)
LEMMA HeldAfterPush ==
  ASSUME NEW S \in Stacks, NEW t \in Task, NEW r \in Resource, OccupyType[r] = "BY_TASK"
  PROVE  /\ Pushed(S, t, r)[t] # <<>>
         /\ \A u \in Task \ {t} : Pushed(S, t, r)[u] = S[u]
         /\ \A u \in Task : \A o :
              o \in HeldByTask(Pushed(S, t, r), u)
              <=> o \in HeldByTask(S, u) \/ (u = t /\ o = r)
<1> DEFINE Z == Pushed(S, t, r)
<1>1. S[t] \in Seq(Resource) /\ Len(S[t]) \in Nat /\ Z[t] = Append(S[t], r) BY DEF Stacks, Pushed
<1>2. \A u \in Task \ {t} : Z[u] = S[u] BY DEF Stacks, Pushed
<1> HIDE DEF Z
<1>3. /\ Z[t] # <<>>
      /\ Z[t][Len(S[t]) + 1] = r
      /\ \A k \in 1 .. Len(S[t]) : Z[t][k] = S[t][k]
      /\ DOMAIN Z[t] = 1 .. Len(S[t]) + 1 /\ DOMAIN S[t] = 1 .. Len(S[t])
      /\ \A k \in 1 .. Len(S[t]) + 1 : k = Len(S[t]) + 1 \/ k \in 1 .. Len(S[t])
      /\ \A k \in 1 .. Len(S[t]) : k \in 1 .. Len(S[t]) + 1
      /\ Len(S[t]) + 1 \in 1 .. Len(S[t]) + 1
  BY <1>1
<1>4. \A o : o \in HeldByTask(Z, t) <=> o \in HeldByTask(S, t) \/ o = r
  BY <1>3 DEF HeldByTask, Range
<1>5. \A u \in Task : \A o :
        o \in HeldByTask(Z, u) <=> o \in HeldByTask(S, u) \/ (u = t /\ o = r)
  BY <1>4, <1>2 DEF HeldByTask
<1>6. QED BY <1>2, <1>3, <1>5 DEF Z

(* A resource on a stack lies at its SaveCount, below the next place.       *)
LEMMA HeldCounts ==
  ASSUME NEW R \in Rcbs, NEW S \in Stacks, StacksMatch(R, S), NEW t \in Task
  PROVE  /\ Len(S[t]) \in Nat
         /\ \A o \in HeldByTask(S, t) :
              /\ R[o].saveCount \in 1 .. Len(S[t])
              /\ S[t][R[o].saveCount] = o
BY DEF Stacks, HeldByTask, Range, StacksMatch

(* Os_GetResourceByTask by the running task, with its insertion if it is    *)
(* raised.                                                                  *)
LEMMA TakeByTaskKeepsQueues ==
  ASSUME NEW q \in Queues, NEW prio \in Prios, NEW inter \in [Task -> BOOLEAN],
         NEW R \in Rcbs, NEW S \in Stacks, QueuesOK(q, prio, inter, R, S),
         StacksMatch(R, S),
         NEW t \in Task, First(q, TaskPriority[t], t), First(q, prio[t], t),
         InterResCeiling[t] <= prio[t],
         \A u \in Task \ {t} : Occupied(prio, S, u) => prio[u] < TaskPriority[t],
         NEW r \in Resource, OccupyType[r] = "BY_TASK", TaskPriority[t] <= Ceiling[r],
         \A u \in Task : r \notin HeldByTask(S, u)
  PROVE  LET Q == Saved(R, r, Len(S[t]) + 1, prio[t])
             Z == Pushed(S, t, r)
             c == Ceiling[r]
         IN  /\ c <= prio[t] => QueuesOK(q, prio, inter, Q, Z)
             /\ c > prio[t] =>
                  QueuesOK(InsertHead(q, c, t), [prio EXCEPT ![t] = c], inter, Q, Z)
<1> DEFINE Q == Saved(R, r, Len(S[t]) + 1, prio[t])
           Z == Pushed(S, t, r)
           c == Ceiling[r]
<1>1. /\ c \in Prio /\ prio[t] \in Prio /\ prio[t] <= prio[t]
      /\ TaskPriority[t] <= prio[t] /\ TaskPriority[t] \in Prio
      /\ InterResCeiling \in [Task -> Prio]
  BY TaskConstants, ResourceConstants DEF QueuesOK, OccupiedTasksNest, Prios, Prio
<1>2. /\ Z \in Stacks
      /\ Z[t] # <<>>
      /\ \A u \in Task \ {t} : Z[u] = S[u]
      /\ \A u \in Task : \A o :
           o \in HeldByTask(Z, u) <=> o \in HeldByTask(S, u) \/ (u = t /\ o = r)
  <2>1. Z \in Stacks BY DEF Stacks, Pushed
  <2>2. QED BY <2>1, HeldAfterPush
<1>3. /\ Q[r].saveCount = Len(S[t]) + 1 /\ Q[r].savePrio = prio[t]
      /\ \A o \in Resource \ {r} : Q[o] = R[o]
  BY DEF Saved, Rcbs
<1>4. \A u \in Task : \A o \in HeldByTask(S, u) :
        /\ Q[o] = R[o]
        /\ LevelRestorable(q, prio, R, S, u, o)
        /\ Ceiling[o] \in Prio
        /\ Occupied(prio, S, u)
  BY <1>3, HeldAreResources DEF QueuesOK, LevelsRestorable, Occupied, HeldByTask, Range
<1>5. \A o \in HeldByTask(S, t) : ~ (Q[r].saveCount < Q[o].saveCount)
  BY HeldCounts, <1>3, <1>4 DEF Stacks
<1>6. ASSUME c <= prio[t]
      PROVE  QueuesOK(q, prio, inter, Q, Z)
  <2> HIDE DEF Z, Q, c
  <2>1. OccupiedTasksNest(q, prio, Z) BY <1>2 DEF Occupied, QueuesOK, OccupiedTasksNest
  <2>2. ASSUME NEW u \in Task, NEW o \in HeldByTask(S, u)
        PROVE  LevelRestorable(q, prio, Q, Z, u, o)
    BY <1>2, <1>4, <1>5 DEF LevelRestorable
  <2>3. LevelRestorable(q, prio, Q, Z, t, r)
    <3>1. \A x \in HeldByTask(S, t) : Ceiling[x] <= prio[t] /\ Q[x].savePrio <= prio[t]
      BY <1>4 DEF LevelRestorable
    <3>2. \A x \in HeldByTask(Z, t) : x = r \/ x \in HeldByTask(S, t) BY <1>2
    <3>3. ~ (c > prio[t]) /\ ~ (Q[r].saveCount < Q[r].saveCount)
      BY <1>1, <1>3, <1>6 DEF Stacks, Prio
    <3>4. QED BY <3>1, <3>2, <3>3, <1>1, <1>3, <1>6 DEF LevelRestorable, c
  <2>4. LevelsRestorable(q, prio, inter, Q, Z)
    BY <2>2, <2>3, <1>2, <1>4 DEF QueuesOK, LevelsRestorable
  <2>5. QED BY <2>1, <2>4 DEF QueuesOK
<1>7. ASSUME c > prio[t]
      PROVE  QueuesOK(InsertHead(q, c, t), [prio EXCEPT ![t] = c], inter, Q, Z)
  <2> DEFINE z  == InsertHead(q, c, t)
             np == [prio EXCEPT ![t] = c]
  <2> HIDE DEF Z, Q, c
  <2>1. /\ First(z, c, t)
        /\ \A o \in Prio : First(q, o, t) => First(z, o, t)
        /\ \A u \in Task \ {t} : \A o \in Prio :
             Occupied(prio, S, u) /\ o <= prio[u] /\ First(q, o, u) => First(z, o, u)
        /\ \A u : \A o \in Prio : First(z, o, u) => First(q, o, u) \/ (u = t /\ o = c)
        /\ EntriesInOrder(z, np)
        /\ OccupiedTasksNest(z, np, Z)
    <3>1. c \in Prio /\ Z \in Stacks /\ \A u \in Task \ {t} : Z[u] = S[u] BY <1>1, <1>2
    <3>2. EntriesInOrder(q, prio) /\ OccupiedTasksNest(q, prio, S) BY DEF QueuesOK
    <3>3. QED BY <3>1, <3>2, <1>7, RaiseKeepsOthers
  <2>2. np[t] = c /\ \A u \in Task \ {t} : np[u] = prio[u] BY DEF Prios
  <2> HIDE DEF z, np
  <2>3. ASSUME NEW u \in Task, NEW o \in HeldByTask(S, u)
        PROVE  LevelRestorable(z, np, Q, Z, u, o)
    <3>1. \A x \in HeldByTask(Z, u) :
            Q[x].saveCount < Q[o].saveCount => x \in HeldByTask(S, u) /\ Q[x] = R[x]
      BY <1>2, <1>4, <1>5
    <3>2. LevelRestorable(q, prio, R, S, u, o) /\ Q[o] = R[o]
          /\ Ceiling[o] \in Prio /\ Occupied(prio, S, u)
      BY <1>4
    <3>3. CASE u = t
      <4>1. \A p \in Prio : p <= prio[t] => p <= c BY <1>1, <1>7 DEF Prio
      <4>2. QED BY <3>1, <3>2, <3>3, <4>1, <2>1, <2>2 DEF LevelRestorable
    <3>4. CASE u # t BY <3>1, <3>2, <3>4, <2>1, <2>2 DEF LevelRestorable
    <3>5. QED BY <3>3, <3>4
  <2>4. LevelRestorable(z, np, Q, Z, t, r)
    <3>1. \A x \in HeldByTask(S, t) : Ceiling[x] <= prio[t] /\ Q[x].savePrio <= prio[t]
      BY <1>4 DEF LevelRestorable
    <3>2. \A x \in HeldByTask(Z, t) : x = r \/ x \in HeldByTask(S, t) BY <1>2
    <3>3. prio[t] <= c /\ c <= c /\ ~ (Q[r].saveCount < Q[r].saveCount)
      BY <1>1, <1>3, <1>7 DEF Stacks, Prio
    <3>4. QED BY <3>1, <3>2, <3>3, <2>1, <2>2, <1>1, <1>3 DEF LevelRestorable, c
  <2>5. LevelsRestorable(z, np, inter, Q, Z)
    <3>1. ASSUME NEW u \in Task
          PROVE  inter[u] => InterResCeiling[u] > TaskPriority[u] /\ First(z, InterResCeiling[u], u)
      <4>1. inter[u] => /\ InterResCeiling[u] > TaskPriority[u]
                        /\ First(q, InterResCeiling[u], u)
                        /\ InterResCeiling[u] <= prio[u]
        BY <1>1, FirstIsBelowPrio DEF QueuesOK, LevelsRestorable
      <4>2. inter[u] => Occupied(prio, S, u) BY <4>1, <1>1, TaskConstants DEF Occupied, Prios, Prio
      <4>3. QED BY <4>1, <4>2, <2>1, <1>1
    <3>2. \A u \in Task : \A o \in HeldByTask(Z, u) : LevelRestorable(z, np, Q, Z, u, o)
      BY <2>3, <2>4, <1>2
    <3>3. ASSUME NEW u \in Task, NEW p \in Prio, p > TaskPriority[u], First(z, p, u)
          PROVE  \/ inter[u] /\ p = InterResCeiling[u]
                 \/ \E o \in HeldByTask(Z, u) : p = Ceiling[o] /\ p > Q[o].savePrio
      <4>1. CASE First(q, p, u) BY <4>1, <3>3, <1>2, <1>4 DEF QueuesOK, LevelsRestorable
      <4>2. CASE u = t /\ p = c BY <4>2, <1>2, <1>3, <1>7 DEF c
      <4>3. QED BY <4>1, <4>2, <3>3, <2>1
    <3>4. QED BY <3>1, <3>2, <3>3 DEF LevelsRestorable
  <2>6. QED BY <2>1, <2>5 DEF QueuesOK, z, np
<1>8. QED BY <1>6, <1>7

(* What a task holds after it released its last resource.                   *)
LEMMA HeldAfterPop ==
  ASSUME NEW R \in Rcbs, NEW S \in Stacks, StacksMatch(R, S),
         NEW t \in Task, S[t] # <<>>
  PROVE  /\ Popped(S, t) \in Stacks
         /\ S[t][Len(S[t])] \in Resource
         /\ R[S[t][Len(S[t])]].saveCount = Len(S[t])
         /\ \A u \in Task \ {t} : Popped(S, t)[u] = S[u]
         /\ \A u \in Task : \A o :
              o \in HeldByTask(Popped(S, t), u)
              <=> o \in HeldByTask(S, u) /\ (u # t \/ o # S[t][Len(S[t])])
<1> DEFINE Z == Popped(S, t)
           n == Len(S[t])
           r == S[t][n]
<1>1. S[t] \in Seq(Resource) /\ n \in Nat \ {0} /\ n \in 1 .. n BY DEF Stacks
<1>2. /\ Z \in Stacks
      /\ Z[t] = Front(S[t])
      /\ \A u \in Task \ {t} : Z[u] = S[u]
  BY <1>1 DEF Stacks, Popped, Front
<1> HIDE DEF Z
<1>3. /\ \A k \in 1 .. n - 1 : Z[t][k] = S[t][k] /\ k \in 1 .. n
      /\ DOMAIN Z[t] = 1 .. n - 1 /\ DOMAIN S[t] = 1 .. n
      /\ \A k \in 1 .. n : k = n \/ k \in 1 .. n - 1
  BY <1>1, <1>2 DEF Front
<1>4. \A k \in 1 .. n : R[S[t][k]].saveCount = k BY DEF StacksMatch
<1>5. \A k \in 1 .. n - 1 : S[t][k] # r BY <1>1, <1>4
<1>6. \A o : o \in HeldByTask(Z, t) <=> o \in HeldByTask(S, t) /\ o # r
  BY <1>3, <1>5 DEF HeldByTask, Range
<1>7. \A u \in Task : \A o :
        o \in HeldByTask(Z, u) <=> o \in HeldByTask(S, u) /\ (u # t \/ o # r)
  BY <1>6, <1>2 DEF HeldByTask
<1>8. r \in Resource /\ R[r].saveCount = n BY <1>1, <1>4
<1>9. QED BY <1>2, <1>7, <1>8 DEF Z

(* Os_ReleaseResourceByTaskOrInterrupt leaves the queues alone.             *)
LEMMA ReleaseSharedKeepsQueues ==
  ASSUME NEW q \in Queues, NEW prio \in Prios, NEW inter \in [Task -> BOOLEAN],
         NEW R \in Rcbs, NEW S \in Stacks, QueuesOK(q, prio, inter, R, S),
         StacksMatch(R, S),
         NEW t \in Task, S[t] # <<>>,
         NEW r, r = S[t][Len(S[t])], OccupyType[r] # "BY_TASK"
  PROVE  QueuesOK(q, prio, inter, [R EXCEPT ![r] = FreeRcb], Popped(S, t))
<1> DEFINE Z == Popped(S, t)
           Q == [R EXCEPT ![r] = FreeRcb]
<1>1. /\ Z \in Stacks
      /\ r \in Resource
      /\ \A u \in Task \ {t} : Z[u] = S[u]
      /\ \A u \in Task : \A o :
           o \in HeldByTask(Z, u) <=> o \in HeldByTask(S, u) /\ (u # t \/ o # r)
  BY HeldAfterPop
<1>2. \A o \in Resource \ {r} : Q[o] = R[o] BY DEF Rcbs
<1> HIDE DEF Z, Q
<1>3. \A u \in Task : \A o \in HeldByTask(S, u) : Q[o] = R[o] /\ o # r BY <1>2, HeldAreResources
<1>4. \A u \in Task : \A o : o \in HeldByTask(Z, u) <=> o \in HeldByTask(S, u) BY <1>1, <1>3
<1>5. OccupiedTasksNest(q, prio, Z) BY <1>1 DEF Occupied, QueuesOK, OccupiedTasksNest
<1>6. LevelsRestorable(q, prio, inter, Q, Z)
  BY <1>3, <1>4 DEF QueuesOK, LevelsRestorable, LevelRestorable
<1>7. QED BY <1>5, <1>6 DEF QueuesOK, Z, Q

(* Os_ReleaseResourceByTask of the last resource taken, with its removal if *)
(* the task drops back from the ceiling: the head it removes is the task.   *)
LEMMA ReleaseByTaskKeepsQueues ==
  ASSUME NEW q \in Queues, NEW prio \in Prios, NEW inter \in [Task -> BOOLEAN],
         NEW R \in Rcbs, NEW S \in Stacks, QueuesOK(q, prio, inter, R, S),
         StacksMatch(R, S),
         NEW t \in Task, S[t] # <<>>,
         NEW r, r = S[t][Len(S[t])], r \in HeldByTask(S, t)
  PROVE  LET Q == [R EXCEPT ![r] = FreeRcb]
             Z == Popped(S, t)
             b == R[r].savePrio
             z == RemoveHead(q, prio[t])
         IN  /\ b \in Prio /\ InterResCeiling[t] <= b
             /\ ~ (Ceiling[r] > b) => QueuesOK(q, prio, inter, Q, Z)
             /\ Ceiling[r] > b =>
                  /\ z \in Queues
                  /\ \A p \in Prio : p # prio[t] => z[p] = q[p]
                  /\ prio[t] > b
                  /\ First(z, TaskPriority[t], t)
                  /\ First(z, b, t)
                  /\ QueuesOK(z, [prio EXCEPT ![t] = b], inter, Q, Z)
<1> DEFINE Q == [R EXCEPT ![r] = FreeRcb]
           Z == Popped(S, t)
           b == R[r].savePrio
           z == RemoveHead(q, prio[t])
           np == [prio EXCEPT ![t] = b]
<1>1. /\ Z \in Stacks
      /\ r \in Resource
      /\ R[r].saveCount = Len(S[t])
      /\ \A u \in Task \ {t} : Z[u] = S[u]
      /\ \A u \in Task : \A o :
           o \in HeldByTask(Z, u) <=> o \in HeldByTask(S, u) /\ (u # t \/ o # r)
  BY HeldAfterPop
<1>2. \A o \in Resource \ {r} : Q[o] = R[o] BY DEF Rcbs
<1>3. /\ LevelRestorable(q, prio, R, S, t, r)
      /\ Ceiling[r] \in Prio /\ prio[t] \in Prio /\ TaskPriority[t] \in Prio
      /\ Occupied(prio, S, t)
      /\ First(q, TaskPriority[t], t) /\ First(q, prio[t], t)
      /\ EntriesInOrder(q, prio) /\ OccupiedTasksNest(q, prio, S)
  BY HeldAreResources, TaskConstants DEF QueuesOK, LevelsRestorable, Occupied, Prios, OccupiedTasksNest
<1> HIDE DEF Z, Q
<1>4. \A u \in Task : \A o \in HeldByTask(Z, u) :
        /\ o \in HeldByTask(S, u)
        /\ Q[o] = R[o]
        /\ LevelRestorable(q, prio, R, S, u, o)
        /\ Ceiling[o] \in Prio
  <2>1. ASSUME NEW u \in Task, NEW o \in HeldByTask(Z, u)
        PROVE  o \in HeldByTask(S, u) /\ Q[o] = R[o] /\ Ceiling[o] \in Prio
    <3>1. o \in HeldByTask(S, u) BY <1>1
    <3>2. o \in Resource /\ Ceiling[o] \in Prio BY <3>1, HeldAreResources
    <3>3. o # r
      <4>1. CASE u = t BY <4>1, <1>1
      <4>2. CASE u # t BY <4>2, <3>1 DEF StacksMatch, HeldByTask
      <4>3. QED BY <4>1, <4>2
    <3>4. QED BY <3>1, <3>2, <3>3, <1>2
  <2>2. QED BY <2>1 DEF QueuesOK, LevelsRestorable
<1>5. \A o \in HeldByTask(S, t) : o # r => Ceiling[o] <= b /\ R[o].savePrio <= b
  <2>1. \A o \in HeldByTask(S, t) :
          R[o].saveCount \in 1 .. Len(S[t]) /\ S[t][R[o].saveCount] = o
    BY HeldCounts
  <2>2. Len(S[t]) \in Nat BY DEF Stacks
  <2>3. \A o \in HeldByTask(S, t) : o # r => R[o].saveCount < R[r].saveCount BY <2>1, <2>2, <1>1
  <2>4. QED BY <2>3, <1>3 DEF LevelRestorable
<1>6. b \in Prio /\ InterResCeiling[t] <= b /\ TaskPriority[t] <= b /\ b <= prio[t]
  BY <1>3 DEF LevelRestorable
<1>7. \A u \in Task \ {t} : Occupied(prio, Z, u) <=> Occupied(prio, S, u) BY <1>1 DEF Occupied
<1>8. ASSUME ~ (Ceiling[r] > b)
      PROVE  QueuesOK(q, prio, inter, Q, Z)
  <2>1. OccupiedTasksNest(q, prio, Z) BY <1>3, <1>7 DEF OccupiedTasksNest
  <2>2. \A u \in Task : \A o \in HeldByTask(Z, u) : LevelRestorable(q, prio, Q, Z, u, o)
    BY <1>4 DEF LevelRestorable
  <2>3. ASSUME NEW u \in Task, NEW p \in Prio, p > TaskPriority[u], First(q, p, u)
        PROVE  \/ inter[u] /\ p = InterResCeiling[u]
               \/ \E o \in HeldByTask(Z, u) : p = Ceiling[o] /\ p > Q[o].savePrio
    <3>1. CASE inter[u] /\ p = InterResCeiling[u] BY <3>1
    <3>2. CASE \E o \in HeldByTask(S, u) : p = Ceiling[o] /\ p > R[o].savePrio
      <4>1. PICK o \in HeldByTask(S, u) : p = Ceiling[o] /\ p > R[o].savePrio BY <3>2
      <4>2. u # t \/ o # r BY <4>1, <1>8
      <4>3. QED BY <4>1, <4>2, <1>1, <1>4
    <3>3. QED BY <3>1, <3>2, <2>3 DEF QueuesOK, LevelsRestorable
  <2>4. LevelsRestorable(q, prio, inter, Q, Z) BY <2>2, <2>3 DEF QueuesOK, LevelsRestorable
  <2>5. QED BY <2>1, <2>4, <1>3 DEF QueuesOK
<1>9. ASSUME Ceiling[r] > b
      PROVE  /\ z \in Queues
             /\ \A p \in Prio : p # prio[t] => z[p] = q[p]
             /\ prio[t] > b
             /\ First(z, TaskPriority[t], t)
             /\ First(z, b, t)
             /\ QueuesOK(z, np, inter, Q, Z)
  <2>1. prio[t] > b /\ prio[t] > TaskPriority[t] BY <1>3, <1>6, <1>9 DEF LevelRestorable, Prio
  <2>2. ASSUME NEW p \in Prio, p > b, First(q, p, t)
        PROVE  p = Ceiling[r]
    <3>1. p > TaskPriority[t] BY <2>2, <1>3, <1>6 DEF Prio
    <3>2. ~ (inter[t] /\ p = InterResCeiling[t]) BY <2>2, <1>6, TaskConstants DEF Prio
    <3>3. PICK o \in HeldByTask(S, t) : p = Ceiling[o]
      BY <2>2, <3>1, <3>2 DEF QueuesOK, LevelsRestorable
    <3>4. QED BY <3>3, <2>2, <1>5, <1>6 DEF Prio
  <2>3. prio[t] = Ceiling[r] BY <2>1, <2>2, <1>3
  <2>4. /\ z \in Queues
        /\ \A o \in Prio \ {prio[t]} : z[o] = q[o]
        /\ \A o \in Prio : \A u : u # t /\ First(q, o, u) => First(z, o, u)
        /\ \A o \in Prio : \A u :
             First(z, o, u) => First(q, o, u) \/ (o = prio[t] /\ o = TaskPriority[u])
        /\ \A i \in 1 .. Len(z[prio[t]]) :
             /\ z[prio[t]][i] \in Task
             /\ TaskPriority[z[prio[t]][i]] = prio[t]
             /\ prio[t] <= prio[z[prio[t]][i]]
    BY <1>3, RemoveKeepsOthers
  <2>5. np \in Prios /\ np[t] = b /\ \A u \in Task \ {t} : np[u] = prio[u] BY <1>6 DEF Prios
  <2>6. LevelRestorable(q, prio, R, S, t, r) /\ First(q, b, t) BY <1>3 DEF LevelRestorable
  <2> HIDE DEF z, np, b
  <2>7. First(z, TaskPriority[t], t) /\ First(z, b, t)
    BY <2>1, <1>3, <1>6, <2>4, <2>6 DEF Prio, First
  <2>8. ~ First(z, prio[t], t)
    <3>1. First(z, prio[t], t) => 1 \in 1 .. Len(z[prio[t]]) /\ z[prio[t]][1] = t
      BY <2>4, <1>3, FirstIsEntry
    <3>2. TaskPriority[t] # prio[t] BY <2>1, <1>3 DEF Prio
    <3>3. QED BY <3>1, <3>2, <2>4
  <2>9. EntriesInOrder(z, np)
    <3>1. ASSUME NEW o \in Prio, NEW i \in 1 .. Len(z[o])
          PROVE  /\ TaskPriority[z[o][i]] <= o
                 /\ o <= np[z[o][i]]
                 /\ o > TaskPriority[z[o][i]] => i = 1
      <4>1. CASE o = prio[t] BY <4>1, <2>1, <2>4, <1>3, <2>5 DEF Prio
      <4>2. CASE o # prio[t]
        <5>1. z[o] = q[o] /\ q[o] \in Seq(Task) /\ q[o][i] \in Task BY <4>2, <2>4 DEF Queues
        <5>2. /\ TaskPriority[q[o][i]] <= o
              /\ o <= prio[q[o][i]]
              /\ o > TaskPriority[q[o][i]] => i = 1
          BY <5>1, <1>3 DEF EntriesInOrder
        <5>3. CASE q[o][i] # t BY <5>1, <5>2, <5>3, <2>5
        <5>4. CASE q[o][i] = t /\ o > b
          <6>1. o > TaskPriority[t] BY <5>4, <1>3, <1>6 DEF Prio
          <6>2. First(q, o, t) BY <5>1, <5>2, <5>4, <6>1, FirstIsEntry
          <6>3. QED BY <6>2, <5>4, <2>2, <2>3, <4>2
        <5>5. CASE q[o][i] = t /\ ~ (o > b) BY <5>1, <5>2, <5>5, <2>5, <1>6 DEF Prio
        <5>6. QED BY <5>3, <5>4, <5>5
      <4>3. QED BY <4>1, <4>2
    <3>2. QED BY <3>1 DEF EntriesInOrder
  <2>10. OccupiedTasksNest(z, np, Z)
    <3>1. \A u \in Task \ {t} : Occupied(np, Z, u) <=> Occupied(prio, S, u)
      BY <1>1, <2>5 DEF Occupied
    <3>2. \A u \in Task : TaskPriority[u] \in Prio /\ prio[u] \in Prio BY TaskConstants DEF Prios
    <3>3. ASSUME NEW u \in Task
          PROVE  /\ TaskPriority[u] <= np[u]
                 /\ Occupied(np, Z, u) => First(z, TaskPriority[u], u) /\ First(z, np[u], u)
      BY <2>5, <2>7, <1>6, <3>1, <3>2, <2>4, <1>3 DEF OccupiedTasksNest
    <3>4. ASSUME NEW u \in Task, NEW v \in Task, u # v,
                 Occupied(np, Z, u), Occupied(np, Z, v)
          PROVE  np[v] < TaskPriority[u] \/ np[u] < TaskPriority[v]
      <4>1. \A w \in Task : np[w] <= prio[w] /\ np[w] \in Prio BY <3>2, <2>5, <1>6 DEF Prio, Prios
      <4>2. Occupied(prio, S, u) /\ Occupied(prio, S, v) BY <3>1, <3>4, <1>3
      <4>3. prio[v] < TaskPriority[u] \/ prio[u] < TaskPriority[v]
        BY <4>2, <3>4, <1>3 DEF OccupiedTasksNest
      <4>4. QED BY <4>1, <4>3, <3>2 DEF Prio
    <3>5. QED BY <3>3, <3>4 DEF OccupiedTasksNest
  <2>11. LevelsRestorable(z, np, inter, Q, Z)
    <3>1. ASSUME NEW u \in Task
          PROVE  inter[u] => InterResCeiling[u] > TaskPriority[u] /\ First(z, InterResCeiling[u], u)
      <4>1. inter[u] => InterResCeiling[u] > TaskPriority[u] /\ First(q, InterResCeiling[u], u)
        BY DEF QueuesOK, LevelsRestorable
      <4>2. InterResCeiling[u] \in Prio BY TaskConstants
      <4>3. CASE u = t
        <5>1. InterResCeiling[t] # prio[t] BY <4>2, <4>3, <2>1, <1>3, <1>6 DEF Prio
        <5>2. QED BY <4>1, <4>2, <4>3, <5>1, <2>4 DEF First
      <4>4. CASE u # t BY <4>1, <4>2, <4>4, <2>4
      <4>5. QED BY <4>3, <4>4
    <3>2. ASSUME NEW u \in Task, NEW o \in HeldByTask(Z, u)
          PROVE  LevelRestorable(z, np, Q, Z, u, o)
      <4>1. /\ LevelRestorable(q, prio, R, S, u, o) /\ Ceiling[o] \in Prio
            /\ Q[o] = R[o] /\ o \in HeldByTask(S, u)
            /\ \A x \in HeldByTask(Z, u) : x \in HeldByTask(S, u) /\ Q[x] = R[x]
        BY <1>4
      <4>2. CASE u = t
        <5>1. o # r BY <4>2, <1>1
        <5>2. /\ Ceiling[o] <= b /\ R[o].savePrio <= b /\ R[o].savePrio \in Prio
          BY <5>1, <4>1, <4>2, <1>5 DEF LevelRestorable, b
        <5>3. Ceiling[o] # prio[t] /\ R[o].savePrio # prio[t]
          BY <5>2, <4>1, <2>1, <1>3, <1>6 DEF Prio
        <5>4. QED BY <5>2, <5>3, <4>1, <4>2, <2>4, <2>5 DEF LevelRestorable, First
      <4>3. CASE u # t BY <4>1, <4>3, <2>4, <2>5 DEF LevelRestorable
      <4>4. QED BY <4>2, <4>3
    <3>3. ASSUME NEW u \in Task, NEW p \in Prio, p > TaskPriority[u], First(z, p, u)
          PROVE  \/ inter[u] /\ p = InterResCeiling[u]
                 \/ \E o \in HeldByTask(Z, u) : p = Ceiling[o] /\ p > Q[o].savePrio
      <4>1. First(q, p, u) BY <3>3, <2>4 DEF Prio
      <4>2. CASE inter[u] /\ p = InterResCeiling[u] BY <4>2
      <4>3. CASE \E o \in HeldByTask(S, u) : p = Ceiling[o] /\ p > R[o].savePrio
        <5>1. PICK o \in HeldByTask(S, u) : p = Ceiling[o] /\ p > R[o].savePrio BY <4>3
        <5>2. u # t \/ o # r BY <5>1, <3>3, <2>3, <2>8
        <5>3. QED BY <5>1, <5>2, <1>1, <1>4
      <4>4. QED BY <4>1, <4>2, <4>3, <3>3 DEF QueuesOK, LevelsRestorable
    <3>4. QED BY <3>1, <3>2, <3>3 DEF LevelsRestorable
  <2>12. QED BY <2>1, <2>4, <2>7, <2>9, <2>10, <2>11 DEF QueuesOK
<1>10. QED BY <1>6, <1>8, <1>9 DEF Q, Z

-----------------------------------------------------------------------------
(* The scheduler's record                                                   *)

\* A task that is switched in is the first of the highest priority.
Entered(s, z) == z.running # s.running => z.high = z.running /\ HighIsFirst(z)

(* Os_UpdateHighPrioTask only looks the top of the queue up.                *)
LEMMA UpdateHighFacts ==
  ASSUME NEW s \in Sched, s.queue[0] # <<>>
  PROVE  LET u == UpdateHighPrioTask(s)
         IN  /\ u \in Sched /\ HighIsTop(u) /\ HighIsFirst(u)
             /\ u.queue = s.queue /\ u.runPrio = s.runPrio /\ u.interRes = s.interRes
             /\ u.state = s.state /\ u.running = s.running /\ u.locker = s.locker
<1> DEFINE p == GetHighPrio(s.queue)
           h == Head(s.queue[p])
           u == [s EXCEPT !.highPrio = p, !.high = h]
<1>1. s.queue \in Queues BY DEF Sched, Queues
<1>2. p \in Prio /\ s.queue[p] # <<>> /\ \A o \in Prio : s.queue[o] # <<>> => o <= p
  BY <1>1, GetHighPrioIsTop
<1> HIDE DEF p
<1>3. h \in Task BY <1>1, <1>2 DEF Queues
<1> HIDE DEF h
<1>4. /\ u \in Sched /\ u.highPrio = p /\ u.high = h
      /\ u.queue = s.queue /\ u.runPrio = s.runPrio /\ u.interRes = s.interRes
      /\ u.state = s.state /\ u.running = s.running /\ u.locker = s.locker
  BY <1>2, <1>3 DEF Sched
<1>5. u = UpdateHighPrioTask(s) BY DEF UpdateHighPrioTask, GetFirst, p, h
<1> HIDE DEF u
<1>6. HighIsTop(u) /\ HighIsFirst(u) BY <1>2, <1>3, <1>4 DEF HighIsTop, HighIsFirst, First, h
<1>7. QED BY <1>4, <1>5, <1>6

(* What entering the task SysHighTaskId names does to the queues: nothing,   *)
(* or Os_GetInternalResource raises it.                                     *)
RaisedIfInternal(s, z) ==
  LET h == s.high
      c == InterResCeiling[h]
  IN  /\ ~ (c > s.runPrio[h]) =>
           /\ z.queue = s.queue /\ z.runPrio = s.runPrio
           /\ z.interRes = s.interRes /\ z.highPrio = s.highPrio
      /\ c > s.runPrio[h] =>
           /\ z.queue = InsertHead(s.queue, c, h)
           /\ z.runPrio = [s.runPrio EXCEPT ![h] = c]
           /\ z.interRes = [s.interRes EXCEPT ![h] = TRUE]
           /\ z.highPrio = IF c > s.highPrio THEN c ELSE s.highPrio

\* The fields Os_GetInternalResource leaves as they are.
LEMMA GetInternalFields ==
  ASSUME NEW s \in Sched, s.high \in Task, s.highPrio \in Prio, s.running = s.high
  PROVE  LET got == GetInternalResource(s)
         IN  /\ got \in Sched
             /\ got.state = s.state /\ got.locker = s.locker
             /\ got.running = s.running /\ got.high = s.high
             /\ RaisedIfInternal(s, got)
<1> DEFINE h == s.high
           c == InterResCeiling[h]
           got == GetInternalResource(s)
<1>1. c \in Prio /\ s.queue \in Queues BY TaskConstants DEF Sched, Queues
<1>2. InsertHead(s.queue, c, h) \in Queues BY <1>1, InsertHeadFacts
<1>3. CASE ~ (c > s.runPrio[h]) BY <1>3 DEF GetInternalResource, RaisedIfInternal
<1>4. CASE c > s.runPrio[h]
  <2> DEFINE in == [s EXCEPT !.runPrio[h] = c,
                             !.queue = InsertHead(@, c, h),
                             !.interRes[h] = TRUE]
  <2>1. got = RaiseHigh(in, h, c) BY <1>4 DEF GetInternalResource
  <2>2. /\ in \in Sched
        /\ in.state = s.state /\ in.locker = s.locker
        /\ in.running = h /\ in.high = h
        /\ in.queue = InsertHead(s.queue, c, h)
        /\ in.runPrio = [s.runPrio EXCEPT ![h] = c]
        /\ in.interRes = [s.interRes EXCEPT ![h] = TRUE]
        /\ in.highPrio = s.highPrio
    BY <1>1, <1>2 DEF Sched, Queues
  <2> HIDE DEF in, got
  <2>3. CASE c > s.highPrio
    <3>1. got = [in EXCEPT !.high = h, !.highPrio = c] BY <2>1, <2>2, <2>3 DEF RaiseHigh
    <3>2. /\ got \in Sched
          /\ got.state = in.state /\ got.locker = in.locker /\ got.running = in.running
          /\ got.queue = in.queue /\ got.runPrio = in.runPrio /\ got.interRes = in.interRes
          /\ got.high = h /\ got.highPrio = c
      BY <3>1, <2>2, <1>1 DEF Sched
    <3>3. QED BY <3>2, <2>2, <2>3, <1>4 DEF RaisedIfInternal, got
  <2>4. CASE ~ (c > s.highPrio) BY <2>1, <2>2, <2>4, <1>4 DEF RaiseHigh, RaisedIfInternal, got
  <2>5. QED BY <2>3, <2>4
<1>5. QED BY <1>3, <1>4

(* What Os_SwitchTask, with Os_GetInternalResource, does to the record.     *)
LEMMA SwitchTaskFields ==
  ASSUME NEW s \in Sched, s.high \in Task, s.highPrio \in Prio
  PROVE  LET z == SwitchTask(s)
             h == s.high
         IN  /\ z \in Sched
             /\ z.running = h /\ z.high = h
             /\ z.locker = IF h \in NonPreemptable THEN 1 ELSE s.locker
             /\ z.state[h] = "RUNNING"
             /\ \A u \in Task : z.state[u] = "WAITING" => s.state[u] = "WAITING" /\ u # h
             /\ RaisedIfInternal(s, z)
<1> DEFINE h == s.high
           left == IF s.running # OS_TASK_INVALID /\ s.state[s.running] = "RUNNING"
                   THEN [s EXCEPT !.state[s.running] = "READY"]
                   ELSE s
           next == [left EXCEPT !.running = h,
                                !.locker = IF h \in NonPreemptable THEN 1 ELSE @]
           got == GetInternalResource(next)
           z == [got EXCEPT !.state[h] = "RUNNING"]
<1>2. /\ left \in Sched
      /\ left.queue = s.queue /\ left.runPrio = s.runPrio /\ left.interRes = s.interRes
      /\ left.highPrio = s.highPrio /\ left.high = s.high /\ left.locker = s.locker
      /\ \A u \in Task : left.state[u] = "WAITING" => s.state[u] = "WAITING"
  BY DEF Sched, TaskStates
<1> HIDE DEF left
<1>3. /\ next \in Sched
      /\ next.queue = s.queue /\ next.runPrio = s.runPrio /\ next.interRes = s.interRes
      /\ next.highPrio = s.highPrio /\ next.high = h /\ next.running = h
      /\ next.locker = IF h \in NonPreemptable THEN 1 ELSE s.locker
      /\ \A u \in Task : next.state[u] = "WAITING" => s.state[u] = "WAITING"
  BY <1>2 DEF Sched
<1> HIDE DEF next
<1>4. /\ got \in Sched
      /\ got.state = next.state /\ got.locker = next.locker
      /\ got.running = h /\ got.high = h
      /\ RaisedIfInternal(next, got)
  BY <1>3, GetInternalFields
<1> HIDE DEF got
<1>6. /\ z \in Sched
      /\ z.locker = got.locker /\ z.running = got.running /\ z.high = got.high
      /\ z.queue = got.queue /\ z.runPrio = got.runPrio /\ z.interRes = got.interRes
      /\ z.highPrio = got.highPrio
      /\ z.state[h] = "RUNNING"
      /\ \A u \in Task \ {h} : z.state[u] = got.state[u]
  BY <1>4 DEF Sched, TaskStates
<1>7. z = SwitchTask(s) BY DEF SwitchTask, got, next, left
<1> HIDE DEF z
<1>8. \A u \in Task : z.state[u] = "WAITING" => s.state[u] = "WAITING" /\ u # h BY <1>3, <1>4, <1>6
<1>9. RaisedIfInternal(s, z) BY <1>3, <1>4, <1>6 DEF RaisedIfInternal
<1>10. QED BY <1>3, <1>4, <1>6, <1>7, <1>8, <1>9

(* The priority of the task on top of the queue is the queue's, and every   *)
(* other occupied task is below its own priority.                           *)
LEMMA TopRunsAtItsPrio ==
  ASSUME NEW q \in Queues, NEW prio \in Prios, NEW S \in Stacks,
         EntriesInOrder(q, prio), OccupiedTasksNest(q, prio, S),
         NEW p \in Prio, NEW h \in Task, First(q, p, h),
         \A o \in Prio : q[o] # <<>> => o <= p
  PROVE  /\ prio[h] = p
         /\ First(q, TaskPriority[h], h)
         /\ \A u \in Task \ {h} : Occupied(prio, S, u) => prio[u] < TaskPriority[h]
<1>1. TaskPriority \in [Task -> Prio] /\ prio \in [Task -> Prio] BY TaskConstants DEF Prios
<1>2. TaskPriority[h] <= p /\ p <= prio[h] BY FirstIsBelowPrio
<1>3. \A o \in Prio : \A u : First(q, o, u) => o <= p BY DEF First
<1>4. CASE Occupied(prio, S, h) BY <1>4, <1>1, <1>3, <1>2 DEF OccupiedTasksNest, Prio
<1>5. CASE ~ Occupied(prio, S, h)
  BY <1>5, <1>1, <1>2, <1>3 DEF Occupied, Prio, OccupiedTasksNest, First
<1>6. QED BY <1>4, <1>5

(* The task on top of the queue is entered, while no task holds a resource   *)
(* shared with interrupts.                                                  *)
LEMMA EnterKeepsQueues ==
  ASSUME NEW s, NEW R, NEW S, Core(s, R, S), s.queue[0] # <<>>,
         HighIsTop(s), HighIsFirst(s),
         \A u \in Task : Range(S[u]) = HeldByTask(S, u),
         NEW z \in Sched, z.running = s.high, z.high = s.high,
         z.state[s.high] = "RUNNING",
         \A u \in Task : z.state[u] = "WAITING" => s.state[u] = "WAITING" /\ u # s.high,
         RaisedIfInternal(s, z)
  PROVE  /\ Core(z, R, S) /\ z.queue[0] # <<>>
         /\ RunningOK(z, S) /\ HighIsTop(z) /\ HighIsFirst(z)
<1> DEFINE h == s.high
           c == InterResCeiling[h]
<1>1. /\ s \in Sched /\ R \in Rcbs /\ S \in Stacks
      /\ s.queue \in Queues /\ s.runPrio \in Prios
      /\ s.interRes \in [Task -> BOOLEAN]
      /\ h \in Task /\ s.highPrio \in Prio /\ c \in Prio
      /\ QueuesOK(s.queue, s.runPrio, s.interRes, R, S)
      /\ EntriesInOrder(s.queue, s.runPrio) /\ OccupiedTasksNest(s.queue, s.runPrio, S)
      /\ StacksMatch(R, S) /\ WaitersHoldNothing(s, S)
      /\ 0 \in Prio
  <2>1. /\ s \in Sched /\ R \in Rcbs /\ S \in Stacks
        /\ QueuesOK(s.queue, s.runPrio, s.interRes, R, S)
        /\ StacksMatch(R, S) /\ WaitersHoldNothing(s, S)
    BY DEF Core, Rcbs, Stacks
  <2>2. EntriesInOrder(s.queue, s.runPrio) /\ OccupiedTasksNest(s.queue, s.runPrio, S)
    BY <2>1 DEF QueuesOK
  <2>3. /\ s.queue \in Queues /\ s.runPrio \in Prios
        /\ s.interRes \in [Task -> BOOLEAN]
    BY <2>1 DEF Sched, Queues, Prios
  <2>4. h \in Task /\ s.highPrio \in Prio BY DEF HighIsTop
  <2>5. c \in Prio /\ 0 \in Prio BY <2>4, TaskConstants, QueueConstants DEF Prio
  <2>6. QED BY <2>1, <2>2, <2>3, <2>4, <2>5
<1>2. /\ First(s.queue, s.highPrio, h)
      /\ \A o \in Prio : s.queue[o] # <<>> => o <= s.highPrio
  BY DEF HighIsTop, HighIsFirst
<1>3. /\ s.runPrio[h] = s.highPrio
      /\ First(s.queue, TaskPriority[h], h)
      /\ \A u \in Task \ {h} : Occupied(s.runPrio, S, u) => s.runPrio[u] < TaskPriority[h]
  BY <1>1, <1>2, TopRunsAtItsPrio
<1>4. /\ z.running = h /\ z.high = h /\ z.state[h] = "RUNNING"
      /\ ~ (c > s.runPrio[h]) =>
           /\ z.queue = s.queue /\ z.runPrio = s.runPrio
           /\ z.interRes = s.interRes /\ z.highPrio = s.highPrio
      /\ c > s.runPrio[h] =>
           /\ z.queue = InsertHead(s.queue, c, h)
           /\ z.runPrio = [s.runPrio EXCEPT ![h] = c]
           /\ z.interRes = [s.interRes EXCEPT ![h] = TRUE]
           /\ z.highPrio = IF c > s.highPrio THEN c ELSE s.highPrio
  BY DEF RaisedIfInternal
<1>5. /\ QueuesOK(z.queue, z.runPrio, z.interRes, R, S)
      /\ \A u \in Task \ {h} : z.runPrio[u] = s.runPrio[u]
      /\ First(z.queue, TaskPriority[h], h) /\ First(z.queue, z.runPrio[h], h)
      /\ c <= z.runPrio[h]
      /\ z.highPrio \in Prio /\ First(z.queue, z.highPrio, h)
      /\ \A o \in Prio : z.queue[o] # <<>> => o <= z.highPrio
      /\ z.queue[0] # <<>>
  <2>1. CASE ~ (c > s.runPrio[h]) BY <2>1, <1>1, <1>2, <1>3, <1>4 DEF Prios, Prio
  <2>2. CASE c > s.runPrio[h]
    <3>1. HeldByTask(S, h) = {}
      BY <1>1, <2>2 DEF QueuesOK, LevelsRestorable, LevelRestorable, Prios, Prio
    <3>2. QueuesOK(z.queue, z.runPrio, z.interRes, R, S)
      <4>1. QueuesOK(InsertHead(s.queue, c, h), [s.runPrio EXCEPT ![h] = c],
                     [s.interRes EXCEPT ![h] = TRUE], R, S)
        BY <2>2, <3>1, <1>1, <1>3, GetInternalKeepsQueues
      <4>2. QED BY <4>1, <2>2, <1>4
    <3>3. z.highPrio = c /\ z.runPrio[h] = c /\ \A u \in Task \ {h} : z.runPrio[u] = s.runPrio[u]
      BY <2>2, <1>1, <1>3, <1>4 DEF Prios
    <3>4. /\ First(z.queue, c, h)
          /\ \A o \in Prio \ {c} : z.queue[o] = s.queue[o]
      BY <2>2, <1>1, <1>4, InsertHeadFacts
    <3>5. First(z.queue, TaskPriority[h], h) BY <3>4, <1>1, <1>3, TaskConstants DEF First
    <3>6. c <= c /\ \A o \in Prio : o <= s.highPrio => o <= c BY <2>2, <1>1, <1>3 DEF Prio
    <3>7. \A o \in Prio : z.queue[o] # <<>> => o <= c BY <3>4, <3>6, <1>2
    <3>8. z.queue[0] # <<>> BY <3>4, <1>1 DEF First
    <3>9. QED BY <3>2, <3>3, <3>4, <3>5, <3>6, <3>7, <3>8, <1>1
  <2>3. QED BY <2>1, <2>2
<1>6. \A u \in Task \ {h} : Occupied(z.runPrio, S, u) <=> Occupied(s.runPrio, S, u)
  BY <1>5 DEF Occupied
<1>7. WaitersHoldNothing(z, S) BY <1>1, <1>4, <1>6 DEF WaitersHoldNothing
<1>8. Core(z, R, S) BY <1>1, <1>4, <1>5, <1>7 DEF Core, Rcbs, Stacks
<1>9. RunningOK(z, S) BY <1>1, <1>3, <1>4, <1>5, <1>6 DEF RunningOK
<1>10. HighIsTop(z) /\ HighIsFirst(z) BY <1>1, <1>4, <1>5 DEF HighIsTop, HighIsFirst, First
<1>11. QED BY <1>5, <1>8, <1>9, <1>10

(* Os_SwitchTask                                                            *)
LEMMA SwitchTaskSettles ==
  ASSUME NEW s, NEW R, NEW S, Core(s, R, S), s.queue[0] # <<>>,
         HighIsTop(s), HighIsFirst(s), s.locker = 0,
         \A u \in Task : Range(S[u]) = HeldByTask(S, u)
  PROVE  /\ Settled(SwitchTask(s), R, S, 0)
         /\ Entered(s, SwitchTask(s))
         /\ SwitchTask(s).running = s.high
<1> DEFINE z == SwitchTask(s)
           h == s.high
<1>1. s \in Sched /\ S \in Stacks /\ h \in Task /\ s.highPrio \in Prio
  BY DEF Core, Stacks, HighIsTop
<1>2. /\ z \in Sched
      /\ z.running = h /\ z.high = h
      /\ z.locker = IF h \in NonPreemptable THEN 1 ELSE s.locker
      /\ z.state[h] = "RUNNING"
      /\ \A u \in Task : z.state[u] = "WAITING" => s.state[u] = "WAITING" /\ u # h
      /\ RaisedIfInternal(s, z)
  BY <1>1, SwitchTaskFields
<1> HIDE DEF z
<1>3. /\ Core(z, R, S) /\ z.queue[0] # <<>>
      /\ RunningOK(z, S) /\ HighIsTop(z) /\ HighIsFirst(z)
  BY <1>2, EnterKeepsQueues
<1>4. Cardinality(SharedWithIsr(S[h])) = 0 BY <1>1, FS_EmptySet DEF SharedWithIsr, HeldByTask, Range
<1>5. Locks(z, S, 0) BY <1>2, <1>4 DEF Locks
<1>6. QED BY <1>2, <1>3, <1>5 DEF Settled, HighIsCurrent, Entered, z

(* Counting the resources a task shares with interrupts                     *)
LEMMA SharedIsFinite ==
  ASSUME NEW S \in Stacks, NEW t \in Task
  PROVE  /\ IsFiniteSet(SharedWithIsr(S[t]))
         /\ Cardinality(SharedWithIsr(S[t])) \in Nat
         /\ Cardinality(SharedWithIsr(S[t])) = 0 => SharedWithIsr(S[t]) = {}
<1>1. Len(S[t]) \in Nat /\ SharedWithIsr(S[t]) \subseteq 1 .. Len(S[t]) BY DEF Stacks, SharedWithIsr
<1>2. IsFiniteSet(1 .. Len(S[t])) BY <1>1, FS_Interval
<1>3. IsFiniteSet(SharedWithIsr(S[t])) BY <1>1, <1>2, FS_Subset
<1>4. QED BY <1>3, FS_CardinalityType, FS_EmptySet

(* With the dispatcher unlocked no interrupt is active and no task holds a  *)
(* resource shared with interrupts.                                         *)
LEMMA UnlockedHoldsNoShared ==
  ASSUME NEW s, NEW R, NEW S, Core(s, R, S), RunningOK(s, S),
         NEW n \in Nat, Locks(s, S, n), s.locker = 0
  PROVE  /\ n = 0
         /\ s.running \notin NonPreemptable
         /\ SharedWithIsr(S[s.running]) = {}
         /\ \A u \in Task : Range(S[u]) = HeldByTask(S, u)
<1>1. S \in Stacks /\ s.running \in Task /\ StacksMatch(R, S) BY DEF Core, Stacks, RunningOK
<1>2. /\ Cardinality(SharedWithIsr(S[s.running])) \in Nat
      /\ Cardinality(SharedWithIsr(S[s.running])) = 0 => SharedWithIsr(S[s.running]) = {}
  BY <1>1, SharedIsFinite
<1>3. /\ n = 0 /\ s.running \notin NonPreemptable
      /\ Cardinality(SharedWithIsr(S[s.running])) = 0
  BY <1>2 DEF Locks
<1>4. Range(S[s.running]) = HeldByTask(S, s.running)
  <2>1. S[s.running] \in Seq(Resource) /\ DOMAIN S[s.running] = 1 .. Len(S[s.running])
    BY <1>1 DEF Stacks
  <2>2. \A k \in 1 .. Len(S[s.running]) :
          /\ S[s.running][k] \in Resource
          /\ OccupyType[S[s.running][k]] # "BY_INTERRUPT"
          /\ OccupyType[S[s.running][k]] # "BY_TASK_OR_INTERRUPT"
    BY <1>1, <1>2, <1>3, <2>1 DEF StacksMatch, SharedWithIsr
  <2>3. \A r \in Range(S[s.running]) : OccupyType[r] = "BY_TASK"
    BY <2>1, <2>2, ResourceConstants DEF Range, OccupyTypes
  <2>4. QED BY <2>3 DEF HeldByTask
<1>5. QED BY <1>2, <1>3, <1>4 DEF RunningOK

(* The end of ReleaseResource: the top is looked up again and, with the     *)
(* dispatcher unlocked, entered.                                            *)
LEMMA AfterReleaseSettles ==
  ASSUME NEW s, NEW R, NEW S, Core(s, R, S), s.queue[0] # <<>>, RunningOK(s, S),
         NEW n \in Nat, Locks(s, S, n)
  PROVE  Settled(AfterRelease(s), R, S, n) /\ Entered(s, AfterRelease(s))
<1> DEFINE u == UpdateHighPrioTask(s)
<1>1. /\ u \in Sched /\ HighIsTop(u) /\ HighIsFirst(u)
      /\ u.queue = s.queue /\ u.runPrio = s.runPrio /\ u.interRes = s.interRes
      /\ u.state = s.state /\ u.running = s.running /\ u.locker = s.locker
  BY UpdateHighFacts DEF Core
<1> HIDE DEF u
<1>2. Core(u, R, S) /\ RunningOK(u, S) /\ Locks(u, S, n) /\ u.queue[0] # <<>>
  BY <1>1 DEF Core, RunningOK, Locks, WaitersHoldNothing
<1>3. AfterRelease(s) = IF u.high # u.running THEN DispatchIfUnlocked(u) ELSE u
  BY DEF AfterRelease, u
<1>4. CASE u.high # u.running /\ u.locker = 0
  BY <1>2, <1>4, UnlockedHoldsNoShared, <1>1, SwitchTaskSettles, <1>3 DEF DispatchIfUnlocked, Entered
<1>5. CASE ~ (u.high # u.running /\ u.locker = 0)
  BY <1>3, <1>5, <1>1, <1>2 DEF DispatchIfUnlocked, Settled, HighIsCurrent, Entered
<1>6. QED BY <1>4, <1>5

(* A task is made ready at its own priority; if that is the new top it is   *)
(* noted, and entered with the dispatcher unlocked.                         *)
LEMMA MakeReadySettles ==
  ASSUME NEW s, NEW R, NEW S, NEW n \in Nat, Settled(s, R, S, n), NEW t \in Task
  PROVE  /\ Settled(MakeReady(s, t, TaskPriority[t]), R, S, n)
         /\ Entered(s, MakeReady(s, t, TaskPriority[t]))
<1> DEFINE p == TaskPriority[t]
           q == [s EXCEPT !.queue = InsertTail(@, p, t)]
           u == [q EXCEPT !.high = t, !.highPrio = p]
<1>1. /\ s \in Sched /\ S \in Stacks /\ p \in Prio /\ 0 \in Prio
      /\ s.queue \in Queues /\ s.runPrio \in Prios
      /\ QueuesOK(s.queue, s.runPrio, s.interRes, R, S)
      /\ s.running \in Task /\ s.highPrio \in Prio
      /\ TaskPriority[s.running] \in Prio /\ s.runPrio[s.running] \in Prio
  <2>1. s \in Sched /\ S \in Stacks /\ QueuesOK(s.queue, s.runPrio, s.interRes, R, S)
    BY DEF Settled, Core, Stacks
  <2>2. s.queue \in Queues /\ s.runPrio \in Prios BY <2>1 DEF Sched, Queues, Prios
  <2>3. s.running \in Task /\ s.highPrio \in Prio BY DEF Settled, RunningOK, HighIsTop
  <2>4. p \in Prio /\ 0 \in Prio /\ TaskPriority[s.running] \in Prio
    BY <2>3, TaskConstants, QueueConstants DEF Prio
  <2>5. s.runPrio[s.running] \in Prio BY <2>2, <2>3 DEF Prios
  <2>6. QED BY <2>1, <2>2, <2>3, <2>4, <2>5
<1>2. /\ q \in Sched /\ q.queue = InsertTail(s.queue, p, t)
      /\ q.runPrio = s.runPrio /\ q.interRes = s.interRes /\ q.state = s.state
      /\ q.running = s.running /\ q.locker = s.locker
      /\ q.high = s.high /\ q.highPrio = s.highPrio
  BY <1>1, InsertTailFacts DEF Sched, Queues
<1>3. /\ u \in Sched /\ u.queue = q.queue
      /\ u.runPrio = s.runPrio /\ u.interRes = s.interRes /\ u.state = s.state
      /\ u.running = s.running /\ u.locker = s.locker
      /\ u.high = t /\ u.highPrio = p
  <2> HIDE DEF q
  <2>1. QED BY <1>1, <1>2 DEF Sched
<1>4. MakeReady(s, t, p) = IF p > s.highPrio THEN DispatchIfUnlocked(u) ELSE q
  <2>1. q.highPrio = s.highPrio BY <1>2
  <2> HIDE DEF q
  <2>2. p > s.highPrio => RaiseHigh(q, t, p) = u BY <2>1 DEF RaiseHigh
  <2>3. QED BY <2>2 DEF MakeReady, q
<1> HIDE DEF q, u, p
<1>5. /\ \A o \in Prio : \A v : First(s.queue, o, v) => First(q.queue, o, v)
      /\ s.queue[p] = <<>> => First(q.queue, p, t)
      /\ \A o \in Prio : q.queue[o] # <<>> <=> s.queue[o] # <<>> \/ o = p
  <2> DEFINE x == InsertTail(s.queue, p, t)
  <2>1. /\ \A o \in Prio : \A v : First(s.queue, o, v) => First(x, o, v)
        /\ s.queue[p] = <<>> => First(x, p, t)
        /\ \A o \in Prio : x[o] # <<>> <=> s.queue[o] # <<>> \/ o = p
    BY <1>1, InsertTailFacts
  <2>2. q.queue = x BY <1>2
  <2> HIDE DEF x
  <2>3. QED BY <2>1, <2>2
<1>6. QueuesOK(q.queue, s.runPrio, s.interRes, R, S)
  BY <1>1, <1>2, InsertTailKeepsQueues DEF Sched, p
<1>7. /\ Core(q, R, S) /\ q.queue[0] # <<>> /\ RunningOK(q, S) /\ Locks(q, S, n)
  BY <1>1, <1>2, <1>5, <1>6 DEF Settled, Core, WaitersHoldNothing, RunningOK, Locks
<1>8. CASE p > s.highPrio
  <2>1. \A o \in Prio : q.queue[o] # <<>> => o <= p BY <1>1, <1>5, <1>8 DEF Settled, HighIsTop, Prio
  <2>2. s.queue[p] = <<>> BY <1>1, <1>8 DEF Settled, HighIsTop, Prio
  <2>3. HighIsTop(u) /\ HighIsFirst(u)
    BY <2>1, <2>2, <1>1, <1>3, <1>5 DEF HighIsTop, HighIsFirst, First
  <2>4. Core(u, R, S) /\ u.queue[0] # <<>> /\ RunningOK(u, S) /\ Locks(u, S, n)
    BY <1>2, <1>3, <1>7 DEF Core, WaitersHoldNothing, RunningOK, Locks
  <2>5. CASE u.locker = 0
    <3>1. n = 0 /\ \A v \in Task : Range(S[v]) = HeldByTask(S, v)
      BY <2>4, <2>5, UnlockedHoldsNoShared
    <3>2. Settled(SwitchTask(u), R, S, 0) /\ Entered(u, SwitchTask(u))
      BY <2>3, <2>4, <2>5, <3>1, SwitchTaskSettles
    <3>3. MakeReady(s, t, p) = SwitchTask(u) BY <1>4, <1>8, <2>5 DEF DispatchIfUnlocked
    <3>4. QED BY <3>1, <3>2, <3>3, <1>3 DEF Entered, p
  <2>6. CASE u.locker # 0
    <3>1. MakeReady(s, t, p) = u BY <1>4, <1>8, <2>6 DEF DispatchIfUnlocked
    <3>2. Settled(u, R, S, n) BY <2>3, <2>4, <2>6 DEF Settled, HighIsCurrent
    <3>3. QED BY <3>1, <3>2, <1>3 DEF Entered, p
  <2>7. QED BY <2>5, <2>6
<1>9. CASE ~ (p > s.highPrio)
  <2>1. MakeReady(s, t, p) = q BY <1>4, <1>9
  <2>2. p <= s.highPrio BY <1>1, <1>9 DEF Prio
  <2>3. HighIsTop(q) BY <2>2, <1>1, <1>2, <1>5 DEF Settled, HighIsTop
  <2>4. HighIsCurrent(q, S) /\ (q.locker = 0 => q.high = q.running)
    BY <1>1, <1>2, <1>5 DEF Settled, HighIsCurrent, HighIsFirst
  <2>5. Settled(q, R, S, n) BY <2>3, <2>4, <1>7 DEF Settled
  <2>6. QED BY <2>1, <2>5, <1>2 DEF Entered, p
<1>10. QED BY <1>8, <1>9

-----------------------------------------------------------------------------
(* Services that give the processor up                                      *)

(* The running task, holding no resource, drops its internal resource.      *)
LEMMA ReleaseInternalFacts ==
  ASSUME NEW s, NEW R, NEW S, NEW n \in Nat, Settled(s, R, S, n),
         NEW t, t = s.running, S[t] = <<>>
  PROVE  LET r == ReleaseInternalResource(s, t)
         IN  /\ r \in Sched /\ t \in Task
             /\ QueuesOK(r.queue, r.runPrio, r.interRes, R, S)
             /\ First(r.queue, TaskPriority[t], t)
             /\ r.runPrio[t] = TaskPriority[t] /\ ~ r.interRes[t]
             /\ \A u \in Task \ {t} : r.runPrio[u] = s.runPrio[u]
             /\ r.state = s.state /\ r.running = t /\ r.locker = s.locker
             /\ r.high = s.high /\ r.highPrio = s.highPrio /\ r.actCount = s.actCount
             /\ \A p \in Prio : r.queue[p] # <<>> => s.queue[p] # <<>>
             /\ r.queue[0] # <<>>
             /\ \A p \in Prio : \A u \in Task \ {t} :
                  First(s.queue, p, u) => First(r.queue, p, u)
<1> DEFINE r == ReleaseInternalResource(s, t)
           c == InterResCeiling[t]
<1>1. /\ s \in Sched /\ S \in Stacks /\ t \in Task
      /\ QueuesOK(s.queue, s.runPrio, s.interRes, R, S)
      /\ First(s.queue, TaskPriority[t], t) /\ s.queue[0] # <<>>
  BY DEF Settled, Core, RunningOK, Stacks
<1>2. /\ s.queue \in Queues /\ s.runPrio \in Prios /\ s.interRes \in [Task -> BOOLEAN]
      /\ c \in Prio /\ TaskPriority[t] \in Prio /\ 0 \in Prio
  BY <1>1, TaskConstants, QueueConstants DEF Sched, Queues, Prios, Prio
<1>3. s.interRes[t] => c > TaskPriority[t] /\ First(s.queue, c, t) /\ c # 0
  BY <1>1, <1>2 DEF QueuesOK, LevelsRestorable, Prio
<1>4. CASE ~ s.interRes[t] BY <1>4, <1>1, <1>2, NothingHeldMeansOwnPrio DEF ReleaseInternalResource
<1>5. CASE s.interRes[t]
  <2> DEFINE z == RemoveHead(s.queue, c)
  <2>1. r = [s EXCEPT !.runPrio[t] = TaskPriority[t],
                      !.queue = RemoveHead(@, c),
                      !.interRes[t] = FALSE]
    BY <1>3, <1>5 DEF ReleaseInternalResource
  <2>2. /\ z \in Queues
        /\ First(z, TaskPriority[t], t)
        /\ QueuesOK(z, [s.runPrio EXCEPT ![t] = TaskPriority[t]],
                    [s.interRes EXCEPT ![t] = FALSE], R, S)
    BY <1>1, <1>2, <1>5, ReleaseInternalKeepsQueues
  <2>3. EntriesInOrder(s.queue, s.runPrio) /\ First(s.queue, c, t) BY <1>1, <1>3, <1>5 DEF QueuesOK
  <2>4. /\ \A o \in Prio \ {c} : z[o] = s.queue[o]
        /\ \A o \in Prio : \A u : u # t /\ First(s.queue, o, u) => First(z, o, u)
    BY <2>3, <1>1, <1>2, RemoveKeepsOthers
  <2>5. \A o \in Prio : z[o] # <<>> => s.queue[o] # <<>> BY <2>3, <2>4 DEF First
  <2>6. z[0] # <<>> BY <2>4, <1>1, <1>2, <1>3, <1>5
  <2> HIDE DEF r, z
  <2>7. /\ r \in Sched
        /\ r.queue = z
        /\ r.runPrio = [s.runPrio EXCEPT ![t] = TaskPriority[t]]
        /\ r.interRes = [s.interRes EXCEPT ![t] = FALSE]
        /\ r.state = s.state /\ r.running = s.running /\ r.locker = s.locker
        /\ r.high = s.high /\ r.highPrio = s.highPrio /\ r.actCount = s.actCount
    BY <2>1, <2>2, <1>1, <1>2 DEF Sched, Queues, z
  <2>8. /\ r.runPrio[t] = TaskPriority[t] /\ ~ r.interRes[t]
        /\ \A u \in Task \ {t} : r.runPrio[u] = s.runPrio[u]
    BY <2>7, <1>1, <1>2 DEF Prios
  <2>9. QED BY <2>2, <2>4, <2>5, <2>6, <2>7, <2>8, <1>1 DEF r
<1>6. QED BY <1>4, <1>5

(* ... and leaves the queue of its own priority.                            *)
LEMMA LeaveFacts ==
  ASSUME NEW s, NEW R, NEW S, NEW n \in Nat, Settled(s, R, S, n),
         NEW t, t = s.running, S[t] = <<>>, t # Idle
  PROVE  LET r == ReleaseInternalResource(s, t)
             z == RemoveHead(r.queue, r.runPrio[t])
         IN  /\ z \in Queues /\ z[0] # <<>>
             /\ QueuesOK(z, r.runPrio, r.interRes, R, S)
             /\ ~ Occupied(r.runPrio, S, t)
             /\ \A u \in Task \ {t} : Occupied(r.runPrio, S, u) <=> Occupied(s.runPrio, S, u)
             /\ \A p \in Prio : z[p] # <<>> => s.queue[p] # <<>>
             /\ \A p \in Prio : \A u \in Task \ {t} :
                  First(s.queue, p, u) => First(z, p, u)
<1> DEFINE r == ReleaseInternalResource(s, t)
           z == RemoveHead(r.queue, r.runPrio[t])
<1>1. /\ r \in Sched /\ t \in Task
      /\ QueuesOK(r.queue, r.runPrio, r.interRes, R, S)
      /\ First(r.queue, TaskPriority[t], t)
      /\ r.runPrio[t] = TaskPriority[t] /\ ~ r.interRes[t]
      /\ \A u \in Task \ {t} : r.runPrio[u] = s.runPrio[u]
      /\ \A p \in Prio : r.queue[p] # <<>> => s.queue[p] # <<>>
      /\ r.queue[0] # <<>>
      /\ \A p \in Prio : \A u \in Task \ {t} :
           First(s.queue, p, u) => First(r.queue, p, u)
  BY ReleaseInternalFacts
<1> HIDE DEF r
<1>2. /\ S \in Stacks /\ r.queue \in Queues /\ r.runPrio \in Prios
      /\ r.interRes \in [Task -> BOOLEAN]
      /\ TaskPriority[t] \in Prio /\ TaskPriority[t] # 0 /\ 0 \in Prio
  <2>1. S \in Stacks BY DEF Settled, Core, Stacks
  <2>2. r.queue \in Queues /\ r.runPrio \in Prios /\ r.interRes \in [Task -> BOOLEAN]
    BY <1>1 DEF Sched, Queues, Prios
  <2>3. TaskPriority[t] \in Prio /\ TaskPriority[t] # 0 /\ 0 \in Prio
    BY <1>1, TaskConstants, QueueConstants DEF Prio
  <2>4. QED BY <2>1, <2>2, <2>3
<1>3. /\ z \in Queues
      /\ QueuesOK(z, r.runPrio, r.interRes, R, S)
  BY <1>1, <1>2, LeavingKeepsQueues
<1>4. ~ Occupied(r.runPrio, S, t) BY <1>1, <1>2, NothingHeldMeansOwnPrio
<1>5. \A u \in Task \ {t} : Occupied(r.runPrio, S, u) <=> Occupied(s.runPrio, S, u)
  BY <1>1 DEF Occupied
<1>6. /\ \A o \in Prio \ {TaskPriority[t]} : z[o] = r.queue[o]
      /\ \A o \in Prio : \A u : u # t /\ First(r.queue, o, u) => First(z, o, u)
  <2>1. EntriesInOrder(r.queue, r.runPrio) BY <1>1 DEF QueuesOK
  <2> DEFINE x == RemoveHead(r.queue, TaskPriority[t])
  <2>2. /\ \A o \in Prio \ {TaskPriority[t]} : x[o] = r.queue[o]
        /\ \A o \in Prio : \A u : u # t /\ First(r.queue, o, u) => First(x, o, u)
    BY <2>1, <1>1, <1>2, RemoveKeepsOthers
  <2>3. z = x BY <1>1
  <2> HIDE DEF x, z
  <2>4. QED BY <2>2, <2>3
<1> HIDE DEF z
<1>7. \A p \in Prio : z[p] # <<>> => s.queue[p] # <<>> BY <1>1, <1>6 DEF First
<1>8. z[0] # <<>> BY <1>1, <1>2, <1>6
<1>9. \A p \in Prio : \A u \in Task \ {t} : First(s.queue, p, u) => First(z, p, u) BY <1>1, <1>6
<1>10. QED BY <1>3, <1>4, <1>5, <1>7, <1>8, <1>9 DEF r, z

(* Resetting SysDispatchLocker and Os_Hal_Dispatch                          *)
LEMMA GiveUpSettles ==
  ASSUME NEW s, NEW R, NEW S, Core(s, R, S), s.queue[0] # <<>>,
         HighIsTop(s), HighIsFirst(s),
         \A u \in Task : Range(S[u]) = HeldByTask(S, u)
  PROVE  Settled(GiveUp(s), R, S, 0) /\ Entered(s, GiveUp(s))
<1> DEFINE u == [s EXCEPT !.locker = 0]
<1>1. /\ u \in Sched /\ u.locker = 0
      /\ u.queue = s.queue /\ u.runPrio = s.runPrio /\ u.interRes = s.interRes
      /\ u.state = s.state /\ u.running = s.running
      /\ u.high = s.high /\ u.highPrio = s.highPrio
  BY DEF Core, Sched
<1>2. GiveUp(s) = SwitchTask(u) BY DEF GiveUp
<1> HIDE DEF u
<1>3. Core(u, R, S) /\ u.queue[0] # <<>> /\ HighIsTop(u) /\ HighIsFirst(u)
  BY <1>1 DEF Core, WaitersHoldNothing, HighIsTop, HighIsFirst
<1>4. Settled(SwitchTask(u), R, S, 0) /\ Entered(u, SwitchTask(u)) BY <1>1, <1>3, SwitchTaskSettles
<1>5. QED BY <1>1, <1>2, <1>4 DEF Entered

\* A task without resources leaves none that is shared with interrupts.
LEMMA NoneHoldsShared ==
  ASSUME NEW s, NEW S, RunningOK(s, S), S[s.running] = <<>>
  PROVE  \A u \in Task : Range(S[u]) = HeldByTask(S, u)
BY DEF RunningOK, HeldByTask, Range

(* Os_TerminateTaskInternal                                                 *)
LEMMA TerminateInternalFacts ==
  ASSUME NEW s, NEW R, NEW S, NEW n \in Nat, Settled(s, R, S, n),
         NEW t, t = s.running, S[t] = <<>>, t # Idle
  PROVE  LET w == TerminateTaskInternal(s, t)
         IN  /\ Core(w, R, S) /\ w.queue[0] # <<>>
             /\ w.high = s.high /\ w.highPrio = s.highPrio
             /\ w.running = s.running /\ w.locker = s.locker
             /\ \A p \in Prio : w.queue[p] # <<>> => s.queue[p] # <<>>
             /\ \A p \in Prio : \A u \in Task \ {t} :
                  First(s.queue, p, u) => First(w.queue, p, u)
<1> DEFINE r == ReleaseInternalResource(s, t)
           z == RemoveHead(r.queue, r.runPrio[t])
           w == TerminateTaskInternal(s, t)
           m == IF r.actCount[t] > 0 THEN r.actCount[t] - 1 ELSE 0
           e == [r EXCEPT !.actCount[t] = m,
                          !.state[t] = IF m > 0 THEN "START" ELSE "SUSPENDED",
                          !.queue = z,
                          !.runPrio[t] = TaskPriority[t]]
<1>1. /\ r \in Sched /\ t \in Task
      /\ r.runPrio[t] = TaskPriority[t]
      /\ r.state = s.state /\ r.running = t /\ r.locker = s.locker
      /\ r.high = s.high /\ r.highPrio = s.highPrio
  BY ReleaseInternalFacts
<1>2. /\ z \in Queues /\ z[0] # <<>>
      /\ QueuesOK(z, r.runPrio, r.interRes, R, S)
      /\ ~ Occupied(r.runPrio, S, t)
      /\ \A u \in Task \ {t} : Occupied(r.runPrio, S, u) <=> Occupied(s.runPrio, S, u)
      /\ \A p \in Prio : z[p] # <<>> => s.queue[p] # <<>>
      /\ \A p \in Prio : \A u \in Task \ {t} : First(s.queue, p, u) => First(z, p, u)
  BY LeaveFacts
<1>3. w = e BY DEF TerminateTaskInternal
<1> HIDE DEF r, z
<1>4. m \in Nat BY <1>1 DEF Sched
<1> HIDE DEF m
<1>5. /\ e \in Sched /\ e.queue = z /\ e.interRes = r.interRes
      /\ e.runPrio = r.runPrio
      /\ e.running = r.running /\ e.locker = r.locker
      /\ e.high = r.high /\ e.highPrio = r.highPrio
      /\ e.state[t] # "WAITING"
      /\ \A u \in Task \ {t} : e.state[u] = r.state[u]
  BY <1>1, <1>2, <1>4, TaskConstants, ZenonT(30) DEF Sched, TaskStates, Queues
<1> HIDE DEF e, w
<1>6. WaitersHoldNothing(e, S) BY <1>1, <1>2, <1>5 DEF Settled, Core, WaitersHoldNothing
<1>7. Core(e, R, S) BY <1>2, <1>5, <1>6 DEF Settled, Core
<1>8. QED BY <1>1, <1>2, <1>3, <1>5, <1>7 DEF w

(* Looking the top up again after the running task left: if another task    *)
(* was the top, it still is.                                                *)
LEMMA UpdateAfterLeaving ==
  ASSUME NEW s, NEW R, NEW S, NEW n \in Nat, Settled(s, R, S, n),
         S[s.running] = <<>>,
         NEW w, Core(w, R, S), w.queue[0] # <<>>,
         w.high = s.high, w.highPrio = s.highPrio, w.running = s.running,
         \A p \in Prio : w.queue[p] # <<>> => s.queue[p] # <<>>,
         \A p \in Prio : \A u \in Task \ {s.running} :
           First(s.queue, p, u) => First(w.queue, p, u)
  PROVE  LET u == UpdateHighIfItWas(w, s.running)
         IN  /\ Core(u, R, S) /\ u.queue[0] # <<>>
             /\ HighIsTop(u) /\ HighIsFirst(u)
             /\ u.running = s.running
<1> DEFINE v == UpdateHighPrioTask(w)
<1>1. w \in Sched BY DEF Core
<1>2. CASE w.high = s.running
  <2>1. /\ v \in Sched /\ HighIsTop(v) /\ HighIsFirst(v)
        /\ v.queue = w.queue /\ v.runPrio = w.runPrio /\ v.interRes = w.interRes
        /\ v.state = w.state /\ v.running = w.running
    BY <1>1, UpdateHighFacts
  <2>2. UpdateHighIfItWas(w, s.running) = v BY <1>2 DEF UpdateHighIfItWas
  <2> HIDE DEF v
  <2>3. Core(v, R, S) BY <2>1 DEF Core, WaitersHoldNothing
  <2>4. QED BY <2>1, <2>2, <2>3
<1>3. CASE w.high # s.running
  BY <1>3 DEF UpdateHighIfItWas, Settled, HighIsCurrent, HighIsFirst, HighIsTop, First
<1>4. QED BY <1>2, <1>3

(* TerminateTask                                                            *)
LEMMA TerminateSettles ==
  ASSUME NEW s, NEW R, NEW S, NEW n \in Nat, Settled(s, R, S, n),
         S[s.running] = <<>>, s.running # Idle
  PROVE  /\ Settled(DoTerminateTask(s, s.running), R, S, 0)
         /\ Entered(s, DoTerminateTask(s, s.running))
<1> DEFINE t == s.running
           w == TerminateTaskInternal(s, t)
           u == UpdateHighIfItWas(w, t)
<1>1. /\ Core(w, R, S) /\ w.queue[0] # <<>>
      /\ w.high = s.high /\ w.highPrio = s.highPrio /\ w.running = s.running
      /\ \A p \in Prio : w.queue[p] # <<>> => s.queue[p] # <<>>
      /\ \A p \in Prio : \A v \in Task \ {t} : First(s.queue, p, v) => First(w.queue, p, v)
  BY TerminateInternalFacts
<1>2. DoTerminateTask(s, t) = GiveUp(u) BY DEF DoTerminateTask
<1> HIDE DEF w
<1>3. /\ Core(u, R, S) /\ u.queue[0] # <<>>
      /\ HighIsTop(u) /\ HighIsFirst(u) /\ u.running = s.running
  BY <1>1, UpdateAfterLeaving
<1>4. \A v \in Task : Range(S[v]) = HeldByTask(S, v) BY NoneHoldsShared DEF Settled
<1> HIDE DEF u
<1>5. Settled(GiveUp(u), R, S, 0) /\ Entered(u, GiveUp(u)) BY <1>3, <1>4, GiveUpSettles
<1>6. QED BY <1>2, <1>3, <1>5 DEF Entered

(* Counting an activation only touches the state of a suspended task.       *)
LEMMA CountActivationFacts ==
  ASSUME NEW s, NEW R, NEW S, Core(s, R, S), NEW t \in Task
  PROVE  LET a == CountActivation(s, t)
         IN  /\ Core(a, R, S)
             /\ a.queue = s.queue /\ a.runPrio = s.runPrio /\ a.interRes = s.interRes
             /\ a.running = s.running /\ a.locker = s.locker
             /\ a.high = s.high /\ a.highPrio = s.highPrio
             /\ \A u \in Task : s.state[u] # "SUSPENDED" => a.state[u] = s.state[u]
<1> DEFINE st == StartIfSuspended(s.state[t])
           n  == s.actCount[t] + 1
           a  == [s EXCEPT !.actCount[t] = n, !.state[t] = st]
<1>1. s \in Sched BY DEF Core
<1>2. st \in TaskStates /\ n \in Nat BY <1>1 DEF StartIfSuspended, Sched, TaskStates
<1> HIDE DEF st, n
<1>3. /\ a \in Sched
      /\ a.queue = s.queue /\ a.runPrio = s.runPrio /\ a.interRes = s.interRes
      /\ a.running = s.running /\ a.locker = s.locker
      /\ a.high = s.high /\ a.highPrio = s.highPrio
      /\ a.state[t] = st
      /\ \A u \in Task \ {t} : a.state[u] = s.state[u]
  BY <1>1, <1>2 DEF Sched
<1> HIDE DEF a
<1>4. /\ \A u \in Task : s.state[u] # "SUSPENDED" => a.state[u] = s.state[u]
      /\ \A u \in Task : a.state[u] = "WAITING" => s.state[u] = "WAITING"
  BY <1>3 DEF StartIfSuspended, st
<1>5. Core(a, R, S) BY <1>3, <1>4 DEF Core, WaitersHoldNothing
<1>6. CountActivation(s, t) = a BY DEF CountActivation, a, st, n
<1>7. QED BY <1>3, <1>4, <1>5, <1>6

(* ActivateTask                                                             *)
LEMMA ActivateSettles ==
  ASSUME NEW s, NEW R, NEW S, NEW n \in Nat, Settled(s, R, S, n), NEW t \in Task
  PROVE  /\ Settled(DoActivateTask(s, t), R, S, n)
         /\ Entered(s, DoActivateTask(s, t))
<1> DEFINE a == CountActivation(s, t)
<1>1. /\ Core(a, R, S)
      /\ a.queue = s.queue /\ a.runPrio = s.runPrio /\ a.interRes = s.interRes
      /\ a.running = s.running /\ a.locker = s.locker
      /\ a.high = s.high /\ a.highPrio = s.highPrio
      /\ \A u \in Task : s.state[u] # "SUSPENDED" => a.state[u] = s.state[u]
  BY CountActivationFacts DEF Settled
<1>2. DoActivateTask(s, t) = MakeReady(a, t, TaskPriority[t]) BY DEF DoActivateTask
<1> HIDE DEF a
<1>3. Settled(a, R, S, n)
  BY <1>1 DEF Settled, RunningOK, HighIsTop, HighIsFirst, HighIsCurrent, Locks
<1>4. /\ Settled(MakeReady(a, t, TaskPriority[t]), R, S, n)
      /\ Entered(a, MakeReady(a, t, TaskPriority[t]))
  BY <1>3, MakeReadySettles
<1>5. QED BY <1>1, <1>2, <1>4 DEF Entered

(* Os_SetTaskToReady of a waiting task                                      *)
LEMMA SetTaskToReadySettles ==
  ASSUME NEW s, NEW R, NEW S, NEW n \in Nat, Settled(s, R, S, n),
         NEW t \in Task, s.state[t] = "WAITING"
  PROVE  /\ Settled(SetTaskToReady(s, t), R, S, n)
         /\ Entered(s, SetTaskToReady(s, t))
<1> DEFINE a == [s EXCEPT !.state[t] = "READY"]
<1>1. s \in Sched /\ s.running \in Task /\ s.state[s.running] = "RUNNING"
  BY DEF Settled, Core, RunningOK
<1>2. s.runPrio[t] = TaskPriority[t]
  <2>1. s.runPrio[t] \in Prio /\ TaskPriority[t] \in Prio BY <1>1, TaskConstants DEF Sched
  <2>2. ~ Occupied(s.runPrio, S, t) /\ TaskPriority[t] <= s.runPrio[t]
    BY DEF Settled, Core, WaitersHoldNothing, QueuesOK, OccupiedTasksNest
  <2>3. QED BY <2>1, <2>2 DEF Occupied, Prio
<1>3. /\ a \in Sched
      /\ a.queue = s.queue /\ a.runPrio = s.runPrio /\ a.interRes = s.interRes
      /\ a.running = s.running /\ a.locker = s.locker
      /\ a.high = s.high /\ a.highPrio = s.highPrio
      /\ a.state[t] = "READY"
      /\ \A u \in Task \ {t} : a.state[u] = s.state[u]
  BY <1>1 DEF Sched, TaskStates
<1>4. SetTaskToReady(s, t) = MakeReady(a, t, TaskPriority[t]) BY <1>2 DEF SetTaskToReady
<1> HIDE DEF a
<1>5. s.running # t BY <1>1
<1>6. Core(a, R, S) BY <1>3 DEF Settled, Core, WaitersHoldNothing
<1>7. Settled(a, R, S, n)
  BY <1>1, <1>3, <1>5, <1>6
     DEF Settled, RunningOK, HighIsTop, HighIsFirst, HighIsCurrent, Locks
<1>8. /\ Settled(MakeReady(a, t, TaskPriority[t]), R, S, n)
      /\ Entered(a, MakeReady(a, t, TaskPriority[t]))
  BY <1>7, MakeReadySettles
<1>9. QED BY <1>3, <1>4, <1>8 DEF Entered

(* ChainTask by a preemptable task, at task level                           *)
LEMMA ChainSettles ==
  ASSUME NEW s, NEW R, NEW S, Settled(s, R, S, 0),
         S[s.running] = <<>>, s.running # Idle, s.running \notin NonPreemptable,
         NEW succ \in Task
  PROVE  /\ Settled(DoChainTask(s, s.running, succ), R, S, 0)
         /\ Entered(s, DoChainTask(s, s.running, succ))
<1> DEFINE t == s.running
           w == TerminateTaskInternal(s, t)
           a == CountActivation(w, succ)
           p == TaskPriority[succ]
           q == [a EXCEPT !.queue = InsertTail(@, p, succ)]
           u == UpdateHighPrioTask(q)
<1>1. /\ Core(w, R, S) /\ w.queue[0] # <<>>
      /\ w.high = s.high /\ w.running = s.running
  BY TerminateInternalFacts
<1> HIDE DEF w
<1>2. /\ Core(a, R, S) /\ a.queue = w.queue
      /\ a.running = s.running /\ a.high = s.high
  BY <1>1, CountActivationFacts
<1> HIDE DEF a
<1>3. s.high = t BY FS_EmptySet DEF SharedWithIsr, Settled, Locks
<1>4. /\ a \in Sched /\ a.queue \in Queues /\ a.runPrio \in Prios /\ S \in Stacks
      /\ a.interRes \in [Task -> BOOLEAN]
      /\ QueuesOK(a.queue, a.runPrio, a.interRes, R, S)
      /\ p \in Prio /\ 0 \in Prio
  <2>1. p \in Prio /\ 0 \in Prio BY TaskConstants, QueueConstants DEF Prio
  <2>2. a \in Sched /\ S \in Stacks /\ QueuesOK(a.queue, a.runPrio, a.interRes, R, S)
    BY <1>2 DEF Core, Stacks
  <2>3. QED BY <2>1, <2>2 DEF Sched, Queues, Prios
<1>5. /\ InsertTail(a.queue, p, succ) \in Queues
      /\ InsertTail(a.queue, p, succ)[0] # <<>>
      /\ QueuesOK(InsertTail(a.queue, p, succ), a.runPrio, a.interRes, R, S)
  BY <1>4, InsertTailFacts, InsertTailKeepsQueues, <1>1, <1>2
<1>6. /\ q \in Sched /\ q.queue = InsertTail(a.queue, p, succ)
      /\ q.runPrio = a.runPrio /\ q.interRes = a.interRes /\ q.state = a.state
      /\ q.running = a.running /\ q.high = a.high
  BY <1>4, <1>5 DEF Sched, Queues
<1>7. DoChainTask(s, t, succ) = GiveUp(UpdateHighIfItWas(q, t)) BY DEF DoChainTask, a, w
<1> HIDE DEF q, p
<1>8. Core(q, R, S) /\ q.queue[0] # <<>> BY <1>2, <1>5, <1>6 DEF Core, WaitersHoldNothing
<1>9. UpdateHighIfItWas(q, t) = u BY <1>2, <1>3, <1>6 DEF UpdateHighIfItWas
<1>10. /\ u \in Sched /\ HighIsTop(u) /\ HighIsFirst(u)
       /\ u.queue = q.queue /\ u.runPrio = q.runPrio /\ u.interRes = q.interRes
       /\ u.state = q.state /\ u.running = q.running
  BY <1>6, <1>8, UpdateHighFacts
<1> HIDE DEF u
<1>11. Core(u, R, S) /\ u.queue[0] # <<>> BY <1>8, <1>10 DEF Core, WaitersHoldNothing
<1>12. \A v \in Task : Range(S[v]) = HeldByTask(S, v) BY NoneHoldsShared DEF Settled
<1>13. Settled(GiveUp(u), R, S, 0) /\ Entered(u, GiveUp(u)) BY <1>10, <1>11, <1>12, GiveUpSettles
<1>14. QED BY <1>2, <1>6, <1>7, <1>9, <1>10, <1>13 DEF Entered

(* Os_SetTaskToWait                                                         *)
LEMMA SetTaskToWaitSettles ==
  ASSUME NEW s, NEW R, NEW S, NEW n \in Nat, Settled(s, R, S, n),
         NEW t, t = s.running, S[t] = <<>>, t # Idle
  PROVE  Settled(SetTaskToWait(s, t), R, S, 0) /\ Entered(s, SetTaskToWait(s, t))
<1> DEFINE r == ReleaseInternalResource(s, t)
           z == RemoveHead(r.queue, r.runPrio[t])
           w == [r EXCEPT !.state[t] = "WAITING",
                          !.queue = z,
                          !.runPrio[t] = TaskPriority[t]]
           u == UpdateHighPrioTask(w)
<1>1. /\ r \in Sched /\ t \in Task
      /\ r.runPrio[t] = TaskPriority[t]
      /\ r.state = s.state /\ r.running = t
  BY ReleaseInternalFacts
<1>2. /\ z \in Queues /\ z[0] # <<>>
      /\ QueuesOK(z, r.runPrio, r.interRes, R, S)
      /\ ~ Occupied(r.runPrio, S, t)
      /\ \A v \in Task \ {t} : Occupied(r.runPrio, S, v) <=> Occupied(s.runPrio, S, v)
  BY LeaveFacts
<1>3. SetTaskToWait(s, t) = GiveUp(u) BY DEF SetTaskToWait
<1> HIDE DEF r, z
<1>4. /\ w \in Sched /\ w.queue = z /\ w.interRes = r.interRes
      /\ w.runPrio = r.runPrio /\ w.running = r.running
      /\ w.state[t] = "WAITING"
      /\ \A v \in Task \ {t} : w.state[v] = r.state[v]
  BY <1>1, <1>2, TaskConstants DEF Sched, TaskStates, Queues
<1> HIDE DEF w
<1>5. WaitersHoldNothing(w, S) BY <1>1, <1>2, <1>4 DEF Settled, Core, WaitersHoldNothing
<1>6. Core(w, R, S) /\ w.queue[0] # <<>> BY <1>2, <1>4, <1>5 DEF Settled, Core
<1>7. /\ u \in Sched /\ HighIsTop(u) /\ HighIsFirst(u)
      /\ u.queue = w.queue /\ u.runPrio = w.runPrio /\ u.interRes = w.interRes
      /\ u.state = w.state /\ u.running = w.running
  BY <1>4, <1>6, UpdateHighFacts
<1> HIDE DEF u
<1>8. Core(u, R, S) /\ u.queue[0] # <<>> BY <1>6, <1>7 DEF Core, WaitersHoldNothing
<1>9. \A v \in Task : Range(S[v]) = HeldByTask(S, v) BY NoneHoldsShared DEF Settled
<1>10. Settled(GiveUp(u), R, S, 0) /\ Entered(u, GiveUp(u)) BY <1>7, <1>8, <1>9, GiveUpSettles
<1>11. QED BY <1>1, <1>3, <1>4, <1>7, <1>10 DEF Entered

(* Schedule, at task level                                                  *)
LEMMA ScheduleSettles ==
  ASSUME NEW s, NEW R, NEW S, Settled(s, R, S, 0),
         NEW t, t = s.running, S[t] = <<>>
  PROVE  Settled(DoSchedule(s, t), R, S, 0) /\ Entered(s, DoSchedule(s, t))
<1> DEFINE i == ReleaseInternalResource(s, t)
           r == IF InterResCeiling[t] # 0 THEN [i EXCEPT !.runPrio[t] = TaskPriority[t]] ELSE s
           u == UpdateHighPrioTask(r)
<1>1. /\ i \in Sched /\ t \in Task
      /\ QueuesOK(i.queue, i.runPrio, i.interRes, R, S)
      /\ First(i.queue, TaskPriority[t], t)
      /\ i.runPrio[t] = TaskPriority[t]
      /\ \A v \in Task \ {t} : i.runPrio[v] = s.runPrio[v]
      /\ i.state = s.state /\ i.running = t /\ i.locker = s.locker
      /\ i.queue[0] # <<>>
  BY ReleaseInternalFacts
<1>2. InterResCeiling[t] = 0 => i = s BY DEF ReleaseInternalResource
<1>3. DoSchedule(s, t) = IF u.high # t THEN GiveUp(u) ELSE GetInternalResource(u) BY DEF DoSchedule
<1> HIDE DEF i
<1>4. /\ r \in Sched
      /\ r.queue = i.queue /\ r.interRes = i.interRes /\ r.state = i.state
      /\ r.running = i.running /\ r.locker = i.locker /\ r.runPrio = i.runPrio
  BY <1>1, <1>2, TaskConstants DEF Sched
<1> HIDE DEF r
<1>5. WaitersHoldNothing(r, S)
  BY <1>1, <1>4 DEF Settled, RunningOK, Occupied, Core, WaitersHoldNothing
<1>6. Core(r, R, S) /\ r.queue[0] # <<>> BY <1>1, <1>4, <1>5 DEF Settled, Core
<1>7. /\ u \in Sched /\ HighIsTop(u) /\ HighIsFirst(u)
      /\ u.queue = r.queue /\ u.runPrio = r.runPrio /\ u.interRes = r.interRes
      /\ u.state = r.state /\ u.running = r.running /\ u.locker = r.locker
  BY <1>4, <1>6, UpdateHighFacts
<1> HIDE DEF u
<1>8. Core(u, R, S) /\ u.queue[0] # <<>> BY <1>6, <1>7 DEF Core, WaitersHoldNothing
<1>9. \A v \in Task : Range(S[v]) = HeldByTask(S, v) BY NoneHoldsShared DEF Settled
<1>10. CASE u.high # t
  <2>1. Settled(GiveUp(u), R, S, 0) /\ Entered(u, GiveUp(u)) BY <1>7, <1>8, <1>9, GiveUpSettles
  <2>2. QED BY <2>1, <1>1, <1>3, <1>4, <1>7, <1>10 DEF Entered
<1>11. CASE u.high = t
  <2> DEFINE z == GetInternalResource(u)
  <2>1. u.state[t] = "RUNNING" /\ u.running = u.high /\ u.highPrio \in Prio
    BY <1>1, <1>4, <1>7, <1>11 DEF Settled, RunningOK, HighIsTop
  <2>2. /\ z \in Sched /\ z.state = u.state /\ z.locker = u.locker
        /\ z.running = u.running /\ z.high = u.high
        /\ RaisedIfInternal(u, z)
    BY <2>1, <1>1, <1>7, <1>11, GetInternalFields
  <2> HIDE DEF z
  <2>3. /\ Core(z, R, S) /\ z.queue[0] # <<>>
        /\ RunningOK(z, S) /\ HighIsTop(z) /\ HighIsFirst(z)
    BY <2>1, <2>2, <1>11, <1>7, <1>8, <1>9, EnterKeepsQueues
  <2>4. Locks(z, S, 0) BY <2>1, <2>2, <1>1, <1>4, <1>7, <1>11 DEF Settled, Locks
  <2>5. Settled(z, R, S, 0) BY <2>1, <2>2, <2>3, <2>4 DEF Settled, HighIsCurrent
  <2>6. QED BY <2>2, <2>5, <1>1, <1>3, <1>4, <1>7, <1>11 DEF Entered, z
<1>12. QED BY <1>10, <1>11

-----------------------------------------------------------------------------
(* Services on resources                                                    *)

(* The ceiling protocol: a resource the running task may take, and does not *)
(* hold, is held by no task.                                                *)
LEMMA NobodyHolds ==
  ASSUME NEW s, NEW R, NEW S, NEW n \in Nat, Settled(s, R, S, n),
         NEW t, t = s.running, NEW r \in Resource,
         TaskPriority[t] <= Ceiling[r], r \notin Range(S[t])
  PROVE  \A u \in Task : r \notin Range(S[u])
<1>1. /\ s \in Sched /\ S \in Stacks /\ t \in Task /\ s.runPrio \in Prios
      /\ QueuesOK(s.queue, s.runPrio, s.interRes, R, S)
      /\ TaskPriority[t] \in Prio
      /\ \A u \in Task \ {t} :
           /\ Occupied(s.runPrio, S, u) => s.runPrio[u] < TaskPriority[t]
           /\ Range(S[u]) = HeldByTask(S, u)
  BY TaskConstants DEF Settled, Core, Stacks, RunningOK, Sched, Prios
<1>2. ASSUME NEW u \in Task \ {t}, r \in HeldByTask(S, u)
      PROVE  FALSE
  <2>1. Occupied(s.runPrio, S, u) BY <1>2 DEF Occupied, HeldByTask, Range
  <2>2. Ceiling[r] <= s.runPrio[u] BY <1>1, <1>2 DEF QueuesOK, LevelsRestorable, LevelRestorable
  <2>3. Ceiling[r] \in Prio BY <1>1, <1>2, HeldAreResources
  <2>4. QED BY <2>1, <2>2, <2>3, <1>1 DEF Prios, Prio
<1>3. QED BY <1>1, <1>2

(* GetResource of a resource of tasks, at task level                        *)
LEMMA TakeByTaskSettles ==
  ASSUME NEW s, NEW R, NEW S, Settled(s, R, S, 0),
         NEW t, t = s.running, NEW r \in Resource, OccupyType[r] = "BY_TASK",
         TaskPriority[t] <= Ceiling[r], r \notin Range(S[t])
  PROVE  LET z == RaiseToCeiling(s, t, Ceiling[r])
         IN  /\ Settled(z, Saved(R, r, Len(S[t]) + 1, s.runPrio[t]), Pushed(S, t, r), 0)
             /\ z.running = s.running
<1> DEFINE Q == Saved(R, r, Len(S[t]) + 1, s.runPrio[t])
           Z == Pushed(S, t, r)
           c == Ceiling[r]
           z == RaiseToCeiling(s, t, c)
<1>1. /\ s \in Sched /\ S \in Stacks /\ R \in Rcbs /\ t \in Task
      /\ s.queue \in Queues /\ s.runPrio \in Prios /\ s.interRes \in [Task -> BOOLEAN]
      /\ QueuesOK(s.queue, s.runPrio, s.interRes, R, S)
      /\ EntriesInOrder(s.queue, s.runPrio) /\ OccupiedTasksNest(s.queue, s.runPrio, S)
      /\ StacksMatch(R, S) /\ WaitersHoldNothing(s, S)
      /\ c \in Prio /\ 0 \in Prio /\ s.runPrio[t] \in Prio /\ s.highPrio \in Prio
  <2>1. /\ s \in Sched /\ S \in Stacks /\ R \in Rcbs
        /\ QueuesOK(s.queue, s.runPrio, s.interRes, R, S)
        /\ StacksMatch(R, S) /\ WaitersHoldNothing(s, S)
    BY DEF Settled, Core, Stacks, Rcbs
  <2>2. EntriesInOrder(s.queue, s.runPrio) /\ OccupiedTasksNest(s.queue, s.runPrio, S)
    BY <2>1 DEF QueuesOK
  <2>3. t \in Task /\ s.highPrio \in Prio BY DEF Settled, RunningOK, HighIsTop
  <2>4. c \in Prio /\ 0 \in Prio BY ResourceConstants, QueueConstants DEF Prio
  <2>5. QED BY <2>1, <2>2, <2>3, <2>4 DEF Sched, Queues, Prios
<1>2. /\ First(s.queue, TaskPriority[t], t) /\ First(s.queue, s.runPrio[t], t)
      /\ InterResCeiling[t] <= s.runPrio[t] /\ s.state[t] = "RUNNING"
      /\ \A u \in Task \ {t} :
           /\ Occupied(s.runPrio, S, u) => s.runPrio[u] < TaskPriority[t]
           /\ Range(S[u]) = HeldByTask(S, u)
  BY DEF Settled, RunningOK
<1>3. \A u \in Task : r \notin Range(S[u]) /\ r \notin HeldByTask(S, u)
  BY NobodyHolds DEF HeldByTask
<1>4. /\ c <= s.runPrio[t] => QueuesOK(s.queue, s.runPrio, s.interRes, Q, Z)
      /\ c > s.runPrio[t] =>
           QueuesOK(InsertHead(s.queue, c, t), [s.runPrio EXCEPT ![t] = c], s.interRes, Q, Z)
  BY <1>1, <1>2, <1>3, TakeByTaskKeepsQueues
<1>5. StacksMatch(Q, Z) BY <1>1, <1>3, PushKeepsStacksMatch DEF Prio
<1>6. /\ Z \in Stacks /\ Z[t] # <<>>
      /\ \A u \in Task \ {t} : Z[u] = S[u]
      /\ SharedWithIsr(Z[t]) = SharedWithIsr(S[t])
  <2>1. S[t] \in Seq(Resource) /\ Len(S[t]) \in Nat BY <1>1 DEF Stacks
  <2>2. Z \in Stacks /\ Z[t] = Append(S[t], r) /\ \A u \in Task \ {t} : Z[u] = S[u]
    BY <1>1, <2>1 DEF Stacks, Pushed
  <2> HIDE DEF Z
  <2>3. /\ DOMAIN Z[t] = 1 .. Len(S[t]) + 1 /\ DOMAIN S[t] = 1 .. Len(S[t])
        /\ Z[t][Len(S[t]) + 1] = r /\ Z[t] # <<>>
        /\ \A k \in 1 .. Len(S[t]) : Z[t][k] = S[t][k] /\ k \in 1 .. Len(S[t]) + 1
        /\ \A k \in 1 .. Len(S[t]) + 1 : k = Len(S[t]) + 1 \/ k \in 1 .. Len(S[t])
    BY <2>1, <2>2
  <2>4. \A k : k \in SharedWithIsr(Z[t]) <=> k \in SharedWithIsr(S[t]) BY <2>3 DEF SharedWithIsr
  <2>5. QED BY <2>2, <2>3, <2>4
<1>7. Q \in Rcbs BY <1>1 DEF Stacks, Prio, Rcbs, Rcb, Saved
<1> HIDE DEF Q, Z, z, c
<1>8. s.highPrio >= s.runPrio[t] BY <1>1, <1>2 DEF Settled, HighIsTop, First, Prio
<1>9. ASSUME t \notin NonPreemptable, SharedWithIsr(S[t]) = {}
      PROVE  s.high = t /\ HighIsFirst(s) /\ s.highPrio = s.runPrio[t]
  <2>1. Cardinality(SharedWithIsr(S[t])) = 0 BY <1>9, FS_EmptySet
  <2>2. s.high = t /\ HighIsFirst(s) BY <2>1, <1>9 DEF Settled, Locks, HighIsCurrent
  <2>3. QED BY <2>2, <1>1, <1>8, FirstIsBelowPrio DEF HighIsFirst, Prio
<1>10. CASE ~ (c > s.runPrio[t])
  <2>1. c <= s.runPrio[t] /\ ~ (c > s.highPrio) BY <1>1, <1>8, <1>10 DEF Prio
  <2>2. z = s BY <2>1, <1>10 DEF RaiseToCeiling, RaiseHigh, z
  <2>3. WaitersHoldNothing(s, Z) BY <1>1, <1>2, <1>6 DEF WaitersHoldNothing, Occupied
  <2>4. Core(s, Q, Z) BY <2>1, <2>3, <1>1, <1>4, <1>5, <1>6, <1>7 DEF Core, Stacks, Rcbs
  <2>5. RunningOK(s, Z) BY <1>1, <1>2, <1>6 DEF Settled, RunningOK, Occupied, HeldByTask
  <2>6. HighIsCurrent(s, Z) BY <1>6, <1>9 DEF HighIsCurrent
  <2>7. Settled(s, Q, Z, 0) BY <2>4, <2>5, <2>6, <1>6 DEF Settled, Locks
  <2>8. QED BY <2>2, <2>7 DEF Q, Z, z, c
<1>11. CASE c > s.runPrio[t]
  <2> DEFINE x == [s EXCEPT !.queue = InsertHead(@, c, t), !.runPrio[t] = c]
  <2>1. /\ InsertHead(s.queue, c, t) \in Queues
        /\ First(InsertHead(s.queue, c, t), c, t)
        /\ \A o \in Prio \ {c} : InsertHead(s.queue, c, t)[o] = s.queue[o]
    BY <1>1, InsertHeadFacts
  <2>2. /\ x \in Sched /\ x.queue = InsertHead(s.queue, c, t)
        /\ x.runPrio = [s.runPrio EXCEPT ![t] = c]
        /\ x.interRes = s.interRes /\ x.state = s.state
        /\ x.running = s.running /\ x.locker = s.locker
        /\ x.high = s.high /\ x.highPrio = s.highPrio
    BY <1>1, <2>1 DEF Sched, Queues
  <2>3. z = IF c > s.highPrio THEN [x EXCEPT !.high = t, !.highPrio = c] ELSE x
    BY <1>11, <2>2 DEF RaiseToCeiling, RaiseHigh, z
  <2> HIDE DEF x
  <2>4. /\ z \in Sched /\ z.queue = x.queue /\ z.runPrio = x.runPrio
        /\ z.interRes = s.interRes /\ z.state = s.state
        /\ z.running = s.running /\ z.locker = s.locker
        /\ c > s.highPrio => z.high = t /\ z.highPrio = c
        /\ ~ (c > s.highPrio) => z.high = s.high /\ z.highPrio = s.highPrio
    BY <2>2, <2>3, <1>1 DEF Sched
  <2>5. /\ z.runPrio[t] = c
        /\ \A u \in Task \ {t} : z.runPrio[u] = s.runPrio[u]
    BY <2>2, <2>4, <1>1 DEF Prios
  <2>6. \A u \in Task \ {t} : Occupied(z.runPrio, Z, u) <=> Occupied(s.runPrio, S, u)
    BY <2>5, <1>6 DEF Occupied
  <2>7. QueuesOK(z.queue, z.runPrio, z.interRes, Q, Z) BY <2>2, <2>4, <1>4, <1>11
  <2>8. WaitersHoldNothing(z, Z) BY <2>4, <2>6, <1>1, <1>2 DEF WaitersHoldNothing
  <2>9. Core(z, Q, Z) BY <2>4, <2>7, <2>8, <1>5, <1>6, <1>7 DEF Core, Stacks, Rcbs
  <2>10. z.queue[0] # <<>> /\ First(z.queue, TaskPriority[t], t) /\ First(z.queue, c, t)
    BY <2>1, <2>2, <2>4, <1>1, <1>2, TaskConstants DEF Settled, First
  <2>11. RunningOK(z, Z)
    <3>1. InterResCeiling[t] <= c BY <1>1, <1>2, <1>11, TaskConstants DEF Prio
    <3>2. \A u \in Task \ {t} : Range(Z[u]) = HeldByTask(Z, u) BY <1>2, <1>6 DEF HeldByTask
    <3>3. QED BY <3>1, <3>2, <2>4, <2>5, <2>6, <2>10, <1>1, <1>2 DEF RunningOK
  <2>12. HighIsTop(z) BY <2>1, <2>2, <2>4, <1>1 DEF First, Settled, HighIsTop, Prio
  <2>13. HighIsCurrent(z, Z) BY <2>4, <2>10, <1>6, <1>9, <1>11 DEF HighIsCurrent, HighIsFirst
  <2>14. z.locker = 0 => z.high = z.running BY <2>4 DEF Settled
  <2>15. Settled(z, Q, Z, 0)
    BY <2>4, <2>9, <2>10, <2>11, <2>12, <2>13, <2>14, <1>6 DEF Settled, Locks
  <2>16. QED BY <2>4, <2>15 DEF Q, Z, z, c
<1>12. QED BY <1>10, <1>11

\* How pushing and popping change the number of resources shared with interrupts
LEMMA SharedAfterPush ==
  ASSUME NEW S \in Stacks, NEW t \in Task, NEW r \in Resource,
         OccupyType[r] = "BY_TASK_OR_INTERRUPT"
  PROVE  /\ Pushed(S, t, r) \in Stacks
         /\ \A u \in Task \ {t} : Pushed(S, t, r)[u] = S[u]
         /\ Pushed(S, t, r)[t] # <<>>
         /\ SharedWithIsr(Pushed(S, t, r)[t]) # {}
         /\ Cardinality(SharedWithIsr(Pushed(S, t, r)[t])) = Cardinality(SharedWithIsr(S[t])) + 1
<1> DEFINE Z == Pushed(S, t, r)
           n == Len(S[t])
<1>1. S[t] \in Seq(Resource) /\ n \in Nat BY DEF Stacks
<1>2. Z \in Stacks /\ Z[t] = Append(S[t], r) /\ \A u \in Task \ {t} : Z[u] = S[u]
  BY <1>1 DEF Stacks, Pushed
<1> HIDE DEF Z
<1>3. /\ DOMAIN Z[t] = 1 .. n + 1 /\ DOMAIN S[t] = 1 .. n
      /\ Z[t][n + 1] = r /\ Z[t] # <<>>
      /\ \A k \in 1 .. n : Z[t][k] = S[t][k] /\ k \in 1 .. n + 1
      /\ \A k \in 1 .. n + 1 : k = n + 1 \/ k \in 1 .. n
      /\ n + 1 \in 1 .. n + 1 /\ n + 1 \notin 1 .. n
  BY <1>1, <1>2
<1> HIDE DEF n
<1>4. \A k : k \in SharedWithIsr(Z[t]) <=> k \in SharedWithIsr(S[t]) \/ k = n + 1
  BY <1>3 DEF SharedWithIsr
<1>5. SharedWithIsr(Z[t]) = SharedWithIsr(S[t]) \cup {n + 1} /\ n + 1 \notin SharedWithIsr(S[t])
  BY <1>3, <1>4 DEF SharedWithIsr
<1>6. IsFiniteSet(SharedWithIsr(S[t])) BY SharedIsFinite
<1>7. Cardinality(SharedWithIsr(S[t]) \cup {n + 1}) = Cardinality(SharedWithIsr(S[t])) + 1
  BY <1>5, <1>6, FS_AddElement
<1>8. QED BY <1>2, <1>3, <1>5, <1>7 DEF Z

\* One resource less, and one shared with interrupts less if it was one.
LEMMA SharedAfterPop ==
  ASSUME NEW S \in Stacks, NEW t \in Task, S[t] # <<>>
  PROVE  LET r == S[t][Len(S[t])]
         IN  /\ Popped(S, t) \in Stacks
             /\ \A u \in Task \ {t} : Popped(S, t)[u] = S[u]
             /\ OccupyType[r] = "BY_TASK" =>
                  Cardinality(SharedWithIsr(Popped(S, t)[t])) = Cardinality(SharedWithIsr(S[t]))
             /\ OccupyType[r] = "BY_TASK_OR_INTERRUPT" =>
                  Cardinality(SharedWithIsr(Popped(S, t)[t])) = Cardinality(SharedWithIsr(S[t])) - 1
<1> DEFINE Z == Popped(S, t)
           n == Len(S[t])
           r == S[t][n]
<1>1. S[t] \in Seq(Resource) /\ n \in Nat \ {0} BY DEF Stacks
<1>2. Z \in Stacks /\ Z[t] = Front(S[t]) /\ \A u \in Task \ {t} : Z[u] = S[u]
  BY <1>1 DEF Stacks, Popped, Front
<1> HIDE DEF Z
<1>3. /\ DOMAIN Z[t] = 1 .. n - 1 /\ DOMAIN S[t] = 1 .. n
      /\ \A k \in 1 .. n - 1 : Z[t][k] = S[t][k] /\ k \in 1 .. n
      /\ \A k \in 1 .. n : k = n \/ k \in 1 .. n - 1
      /\ n \in 1 .. n /\ n \notin 1 .. n - 1
  BY <1>1, <1>2 DEF Front
<1> HIDE DEF n
<1>4. \A k : k \in SharedWithIsr(S[t]) <=>
               k \in SharedWithIsr(Z[t]) \/ (k = n /\ OccupyType[r] = "BY_TASK_OR_INTERRUPT")
  BY <1>3 DEF SharedWithIsr
<1>5. ASSUME OccupyType[r] = "BY_TASK"
      PROVE  Cardinality(SharedWithIsr(Z[t])) = Cardinality(SharedWithIsr(S[t]))
  <2>1. SharedWithIsr(Z[t]) = SharedWithIsr(S[t]) BY <1>4, <1>5
  <2>2. QED BY <2>1
<1>6. ASSUME OccupyType[r] = "BY_TASK_OR_INTERRUPT"
      PROVE  Cardinality(SharedWithIsr(Z[t])) = Cardinality(SharedWithIsr(S[t])) - 1
  <2>1. SharedWithIsr(S[t]) = SharedWithIsr(Z[t]) \cup {n} /\ n \notin SharedWithIsr(Z[t])
    BY <1>3, <1>4, <1>6 DEF SharedWithIsr
  <2>2. IsFiniteSet(SharedWithIsr(Z[t])) /\ Cardinality(SharedWithIsr(Z[t])) \in Nat
    BY <1>2, SharedIsFinite
  <2>3. Cardinality(SharedWithIsr(Z[t]) \cup {n}) = Cardinality(SharedWithIsr(Z[t])) + 1
    BY <2>1, <2>2, FS_AddElement
  <2>4. QED BY <2>1, <2>2, <2>3
<1>7. QED BY <1>2, <1>5, <1>6 DEF Z, n

(* GetResource of a resource shared with interrupts, at task level          *)
LEMMA TakeSharedSettles ==
  ASSUME NEW s, NEW R, NEW S, Settled(s, R, S, 0),
         NEW t, t = s.running, NEW r \in Resource,
         OccupyType[r] = "BY_TASK_OR_INTERRUPT",
         TaskPriority[t] <= Ceiling[r], r \notin Range(S[t]), NEW save \in Nat
  PROVE  Settled([s EXCEPT !.locker = @ + 1],
                 Saved(R, r, Len(S[t]) + 1, save), Pushed(S, t, r), 0)
<1> DEFINE Q == Saved(R, r, Len(S[t]) + 1, save)
           Z == Pushed(S, t, r)
           z == [s EXCEPT !.locker = @ + 1]
<1>1. /\ s \in Sched /\ S \in Stacks /\ R \in Rcbs /\ t \in Task
      /\ QueuesOK(s.queue, s.runPrio, s.interRes, R, S)
      /\ StacksMatch(R, S) /\ WaitersHoldNothing(s, S) /\ s.locker \in Nat
  BY DEF Settled, Core, Stacks, Rcbs, RunningOK, Sched
<1>2. /\ First(s.queue, TaskPriority[t], t) /\ First(s.queue, s.runPrio[t], t)
      /\ s.state[t] = "RUNNING"
      /\ \A u \in Task \ {t} :
           /\ Occupied(s.runPrio, S, u) => s.runPrio[u] < TaskPriority[t]
           /\ Range(S[u]) = HeldByTask(S, u)
  BY DEF Settled, RunningOK
<1>3. \A u \in Task : r \notin Range(S[u]) BY NobodyHolds
<1>4. Len(S[t]) \in Nat BY <1>1 DEF Stacks
<1>5. QueuesOK(s.queue, s.runPrio, s.interRes, Q, Z)
  <2>1. s.queue \in Queues /\ s.runPrio \in Prios /\ s.interRes \in [Task -> BOOLEAN]
    BY <1>1 DEF Sched, Queues, Prios
  <2>2. Len(S[t]) + 1 \in Nat BY <1>4
  <2>3. QED BY <2>1, <2>2, <1>1, <1>2, TakeSharedKeepsQueues
<1>6. StacksMatch(Q, Z) BY <1>1, <1>3, PushKeepsStacksMatch
<1>7. /\ Z \in Stacks /\ Z[t] # <<>>
      /\ \A u \in Task \ {t} : Z[u] = S[u]
      /\ SharedWithIsr(Z[t]) # {}
      /\ Cardinality(SharedWithIsr(Z[t])) = Cardinality(SharedWithIsr(S[t])) + 1
  BY <1>1, SharedAfterPush
<1>8. Q \in Rcbs BY <1>1, <1>4 DEF Rcbs, Rcb, Saved
<1>9. Cardinality(SharedWithIsr(S[t])) \in Nat BY <1>1, SharedIsFinite
<1>10. /\ z \in Sched /\ z.locker = s.locker + 1
       /\ z.queue = s.queue /\ z.runPrio = s.runPrio /\ z.interRes = s.interRes
       /\ z.state = s.state /\ z.running = s.running
       /\ z.high = s.high /\ z.highPrio = s.highPrio
  <2> HIDE DEF Q, Z
  <2>1. s \in Sched /\ s.locker + 1 \in Nat BY <1>1
  <2>2. QED BY <2>1 DEF Sched
<1> HIDE DEF Q, Z, z
<1>11. WaitersHoldNothing(z, Z) BY <1>1, <1>2, <1>7, <1>10 DEF WaitersHoldNothing, Occupied
<1>12. Core(z, Q, Z) BY <1>5, <1>6, <1>7, <1>8, <1>10, <1>11 DEF Core, Stacks, Rcbs
<1>13. RunningOK(z, Z) BY <1>7, <1>10, <1>1, <1>2 DEF Occupied, HeldByTask, Settled, RunningOK
<1>14. HighIsTop(z) /\ HighIsCurrent(z, Z) BY <1>7, <1>10 DEF Settled, HighIsTop, HighIsCurrent
<1>15. Locks(z, Z, 0) BY <1>7, <1>9, <1>10 DEF Settled, Locks
<1>16. z.locker # 0 /\ z.queue[0] # <<>> BY <1>1, <1>10 DEF Settled
<1>17. QED BY <1>12, <1>13, <1>14, <1>15, <1>16 DEF Settled, Q, Z, z

(* ReleaseResource compares numbers only, yet the resource it takes off the *)
(* running task's stack is the one it was called with.                      *)
LEMMA LastIsReleased ==
  ASSUME NEW s, NEW R, NEW S, NEW n \in Nat, Settled(s, R, S, n),
         NEW t, t = s.running, NEW r \in Resource,
         R[r].saveCount > 0, R[r].saveCount = Len(S[t]),
         \/ OccupyType[r] = "BY_TASK" /\ TaskPriority[t] <= Ceiling[r]
         \/ OccupyType[r] = "BY_TASK_OR_INTERRUPT" /\ R[r].saveLevel = "TASK"
  PROVE  S[t] # <<>> /\ r = S[t][Len(S[t])] /\ r \in Range(S[t])
<1>1. /\ s \in Sched /\ S \in Stacks /\ t \in Task /\ s.runPrio \in Prios
      /\ QueuesOK(s.queue, s.runPrio, s.interRes, R, S)
      /\ StacksMatch(R, S)
      /\ TaskPriority[t] \in Prio
      /\ \A u \in Task \ {t} :
           /\ Occupied(s.runPrio, S, u) => s.runPrio[u] < TaskPriority[t]
           /\ Range(S[u]) = HeldByTask(S, u)
  BY TaskConstants DEF Settled, Core, Stacks, RunningOK, Sched, Prios
<1>2. PICK u \in Task : R[r].saveCount <= Len(S[u]) /\ S[u][R[r].saveCount] = r
  BY <1>1 DEF StacksMatch
<1> DEFINE k == R[r].saveCount
<1>3. S[u] \in Seq(Resource) /\ S[t] \in Seq(Resource) /\ k \in Nat BY <1>1 DEF Stacks
<1> HIDE DEF k
<1>4. k \in 1 .. Len(S[u]) /\ S[u][k] = r BY <1>2, <1>3 DEF k
<1>5. r \in Range(S[u]) BY <1>3, <1>4 DEF Range
<1>6. u = t
  <2> SUFFICES ASSUME u # t PROVE FALSE OBVIOUS
  <2>1. r \in HeldByTask(S, u) BY <1>1, <1>2, <1>5
  <2>2. Occupied(s.runPrio, S, u) BY <1>3, <1>4 DEF Occupied
  <2>3. Ceiling[r] <= s.runPrio[u]
    BY <1>1, <1>2, <2>1 DEF QueuesOK, LevelsRestorable, LevelRestorable
  <2>4. Ceiling[r] \in Prio /\ OccupyType[r] = "BY_TASK" BY <1>1, <1>2, <2>1, HeldAreResources
  <2>5. TaskPriority[t] <= Ceiling[r] /\ s.runPrio[u] < TaskPriority[t] BY <1>1, <1>2, <2>2, <2>4
  <2>6. QED BY <2>3, <2>4, <2>5, <1>1, <1>2 DEF Prios, Prio
<1>7. QED BY <1>3, <1>4, <1>5, <1>6 DEF k

(* The record and the queue after Os_ReleaseResourceByTask, for a control   *)
(* block that saved priority b and a resource of ceiling c.                 *)
Lowered(s, t, c, b) ==
  IF c > b
  THEN [s EXCEPT !.queue = RemoveHead(@, s.runPrio[t]), !.runPrio[t] = b]
  ELSE s

(* ReleaseResource of a resource of tasks                                   *)
LEMMA ReleaseByTaskSettles ==
  ASSUME NEW s, NEW R, NEW S, NEW n \in Nat, Settled(s, R, S, n),
         NEW t, t = s.running, NEW r \in Resource, OccupyType[r] = "BY_TASK",
         TaskPriority[t] <= Ceiling[r],
         R[r].saveCount > 0, R[r].saveCount = Len(S[t])
  PROVE  LET x == Lowered(s, t, Ceiling[r], R[r].savePrio)
         IN  /\ Settled(AfterRelease(x), [R EXCEPT ![r] = FreeRcb], Popped(S, t), n)
             /\ Entered(s, AfterRelease(x))
             /\ Core(x, [R EXCEPT ![r] = FreeRcb], Popped(S, t)) /\ x.queue[0] # <<>>
<1> DEFINE Q == [R EXCEPT ![r] = FreeRcb]
           Z == Popped(S, t)
           b == R[r].savePrio
           z == RemoveHead(s.queue, s.runPrio[t])
           x == Lowered(s, t, Ceiling[r], b)
<1>1. /\ s \in Sched /\ S \in Stacks /\ R \in Rcbs /\ t \in Task
      /\ s.queue \in Queues /\ s.runPrio \in Prios /\ s.interRes \in [Task -> BOOLEAN]
      /\ QueuesOK(s.queue, s.runPrio, s.interRes, R, S)
      /\ StacksMatch(R, S) /\ WaitersHoldNothing(s, S)
      /\ 0 \in Prio /\ s.runPrio[t] \in Prio
  <2>1. /\ s \in Sched /\ S \in Stacks /\ R \in Rcbs
        /\ QueuesOK(s.queue, s.runPrio, s.interRes, R, S)
        /\ StacksMatch(R, S) /\ WaitersHoldNothing(s, S)
    BY DEF Settled, Core, Stacks, Rcbs
  <2>2. t \in Task BY DEF Settled, RunningOK
  <2>3. 0 \in Prio BY QueueConstants DEF Prio
  <2>4. QED BY <2>1, <2>2, <2>3 DEF Sched, Queues, Prios
<1>2. /\ First(s.queue, TaskPriority[t], t) /\ First(s.queue, s.runPrio[t], t)
      /\ InterResCeiling[t] <= s.runPrio[t] /\ s.state[t] = "RUNNING"
      /\ s.queue[0] # <<>> /\ Locks(s, S, n)
      /\ \A u \in Task \ {t} :
           /\ Occupied(s.runPrio, S, u) => s.runPrio[u] < TaskPriority[t]
           /\ Range(S[u]) = HeldByTask(S, u)
  BY DEF Settled, RunningOK
<1>3. S[t] # <<>> /\ r = S[t][Len(S[t])] /\ r \in Range(S[t]) BY LastIsReleased
<1>4. r \in HeldByTask(S, t) BY <1>3 DEF HeldByTask
<1>5. /\ b \in Prio /\ InterResCeiling[t] <= b
      /\ ~ (Ceiling[r] > b) => QueuesOK(s.queue, s.runPrio, s.interRes, Q, Z)
      /\ Ceiling[r] > b =>
           /\ z \in Queues
           /\ \A p \in Prio : p # s.runPrio[t] => z[p] = s.queue[p]
           /\ s.runPrio[t] > b
           /\ First(z, TaskPriority[t], t)
           /\ First(z, b, t)
           /\ QueuesOK(z, [s.runPrio EXCEPT ![t] = b], s.interRes, Q, Z)
  BY <1>1, <1>3, <1>4, ReleaseByTaskKeepsQueues, SMTT(60)
<1>6. StacksMatch(Q, Z) BY <1>1, <1>3, PopKeepsStacksMatch
<1>7. /\ Z \in Stacks /\ \A u \in Task \ {t} : Z[u] = S[u]
      /\ Cardinality(SharedWithIsr(Z[t])) = Cardinality(SharedWithIsr(S[t]))
  BY <1>1, <1>3, SharedAfterPop
<1> HIDE DEF Z, b, z, x
<1>8. Q \in Rcbs BY <1>1 DEF Rcbs, Rcb, FreeRcb, OS_PRIORITY_INVALID
<1>9. \A u \in Task \ {t} : Range(Z[u]) = HeldByTask(Z, u) BY <1>2, <1>7 DEF HeldByTask
<1> HIDE DEF Q
<1>10. CASE ~ (Ceiling[r] > b)
  <2>1. x = s BY <1>10 DEF Lowered, x
  <2>2. \A u \in Task \ {t} : Occupied(s.runPrio, Z, u) <=> Occupied(s.runPrio, S, u)
    BY <1>7 DEF Occupied
  <2>3. WaitersHoldNothing(s, Z) BY <1>1, <1>2, <2>2 DEF WaitersHoldNothing
  <2>4. Core(s, Q, Z) BY <2>3, <1>1, <1>5, <1>6, <1>7, <1>8, <1>10 DEF Core, Stacks, Rcbs
  <2>5. RunningOK(s, Z) BY <2>2, <1>1, <1>2, <1>9 DEF RunningOK
  <2>6. Locks(s, Z, n) BY <1>2, <1>7 DEF Locks
  <2>7. Settled(AfterRelease(s), Q, Z, n) /\ Entered(s, AfterRelease(s))
    BY <2>4, <2>5, <2>6, <1>2, AfterReleaseSettles
  <2>8. QED BY <2>1, <2>4, <2>7, <1>2 DEF Q, Z, b, x
<1>11. CASE Ceiling[r] > b
  <2>1. x = [s EXCEPT !.queue = z, !.runPrio[t] = b] BY <1>11 DEF Lowered, z, x
  <2>2. /\ x \in Sched /\ x.queue = z
        /\ x.runPrio = [s.runPrio EXCEPT ![t] = b]
        /\ x.interRes = s.interRes /\ x.state = s.state
        /\ x.running = s.running /\ x.locker = s.locker
    <3> HIDE DEF x
    <3>1. z \in Queues BY <1>5, <1>11
    <3>2. QED BY <2>1, <3>1, <1>1, <1>5 DEF Sched, Queues
  <2> HIDE DEF x
  <2>3. x.runPrio[t] = b /\ \A u \in Task \ {t} : x.runPrio[u] = s.runPrio[u]
    BY <2>2, <1>1 DEF Prios
  <2>4. \A u \in Task \ {t} : Occupied(x.runPrio, Z, u) <=> Occupied(s.runPrio, S, u)
    BY <2>3, <1>7 DEF Occupied
  <2>5. WaitersHoldNothing(x, Z) BY <2>2, <2>4, <1>1, <1>2 DEF WaitersHoldNothing
  <2>6. Core(x, Q, Z) BY <2>2, <2>5, <1>5, <1>6, <1>7, <1>8, <1>11 DEF Core, Stacks, Rcbs
  <2>7. x.queue[0] # <<>> BY <1>1, <1>5, <1>11, <2>2, <1>2 DEF Prio
  <2>8. RunningOK(x, Z) BY <2>2, <2>3, <2>4, <1>1, <1>2, <1>5, <1>9, <1>11 DEF RunningOK
  <2>9. Locks(x, Z, n) BY <2>2, <1>2, <1>7 DEF Locks
  <2>10. Settled(AfterRelease(x), Q, Z, n) /\ Entered(x, AfterRelease(x))
    BY <2>6, <2>7, <2>8, <2>9, AfterReleaseSettles
  <2>11. Entered(s, AfterRelease(x)) BY <2>2, <2>10 DEF Entered
  <2>12. QED BY <2>6, <2>7, <2>10, <2>11 DEF Q, Z, b, x
<1>12. QED BY <1>10, <1>11

(* ReleaseResource of a resource shared with interrupts, taken by a task    *)
LEMMA ReleaseSharedSettles ==
  ASSUME NEW s, NEW R, NEW S, NEW n \in Nat, Settled(s, R, S, n),
         NEW t, t = s.running, NEW r \in Resource,
         OccupyType[r] = "BY_TASK_OR_INTERRUPT", R[r].saveLevel = "TASK",
         R[r].saveCount > 0, R[r].saveCount = Len(S[t])
  PROVE  LET x == [s EXCEPT !.locker = @ - 1]
         IN  /\ Settled(AfterRelease(x), [R EXCEPT ![r] = FreeRcb], Popped(S, t), n)
             /\ Entered(s, AfterRelease(x))
             /\ Core(x, [R EXCEPT ![r] = FreeRcb], Popped(S, t)) /\ x.queue[0] # <<>>
<1> DEFINE Q == [R EXCEPT ![r] = FreeRcb]
           Z == Popped(S, t)
           x == [s EXCEPT !.locker = @ - 1]
<1>1. /\ s \in Sched /\ S \in Stacks /\ R \in Rcbs /\ t \in Task
      /\ s.queue \in Queues /\ s.runPrio \in Prios /\ s.interRes \in [Task -> BOOLEAN]
      /\ QueuesOK(s.queue, s.runPrio, s.interRes, R, S)
      /\ StacksMatch(R, S) /\ WaitersHoldNothing(s, S)
  BY DEF Settled, Core, Stacks, Rcbs, RunningOK, Sched, Queues, Prios
<1>2. /\ First(s.queue, TaskPriority[t], t) /\ First(s.queue, s.runPrio[t], t)
      /\ InterResCeiling[t] <= s.runPrio[t] /\ s.state[t] = "RUNNING"
      /\ s.queue[0] # <<>> /\ Locks(s, S, n)
      /\ \A u \in Task \ {t} :
           /\ Occupied(s.runPrio, S, u) => s.runPrio[u] < TaskPriority[t]
           /\ Range(S[u]) = HeldByTask(S, u)
  BY DEF Settled, RunningOK
<1>3. S[t] # <<>> /\ r = S[t][Len(S[t])] BY LastIsReleased
<1>4. QueuesOK(s.queue, s.runPrio, s.interRes, Q, Z) BY <1>1, <1>3, ReleaseSharedKeepsQueues
<1>5. StacksMatch(Q, Z) BY <1>1, <1>3, PopKeepsStacksMatch
<1>6. /\ Z \in Stacks /\ \A u \in Task \ {t} : Z[u] = S[u]
      /\ Cardinality(SharedWithIsr(Z[t])) = Cardinality(SharedWithIsr(S[t])) - 1
  BY <1>1, <1>3, SharedAfterPop
<1>7. Q \in Rcbs BY <1>1 DEF Rcbs, Rcb, FreeRcb, OS_PRIORITY_INVALID
<1>8. \A u \in Task \ {t} : Range(Z[u]) = HeldByTask(Z, u) BY <1>2, <1>6 DEF HeldByTask
<1>9. \A u \in Task \ {t} : Occupied(s.runPrio, Z, u) <=> Occupied(s.runPrio, S, u)
  BY <1>6 DEF Occupied
<1> HIDE DEF Q, Z
<1>10. s.locker - 1 = n + Cardinality(SharedWithIsr(Z[t]))
                      + (IF t \in NonPreemptable THEN 1 ELSE 0)
  BY <1>1, <1>6, SharedIsFinite, <1>2 DEF Locks
<1>11. s.locker - 1 \in Nat BY <1>1, <1>6, SharedIsFinite, <1>10
<1>12. /\ x \in Sched /\ x.locker = s.locker - 1
       /\ x.queue = s.queue /\ x.runPrio = s.runPrio /\ x.interRes = s.interRes
       /\ x.state = s.state /\ x.running = s.running
  BY <1>1, <1>11 DEF Sched
<1> HIDE DEF x
<1>13. WaitersHoldNothing(x, Z) BY <1>1, <1>2, <1>9, <1>12 DEF WaitersHoldNothing
<1>14. Core(x, Q, Z) BY <1>4, <1>5, <1>6, <1>7, <1>12, <1>13 DEF Core, Stacks, Rcbs
<1>15. RunningOK(x, Z) /\ Locks(x, Z, n)
  BY <1>1, <1>2, <1>8, <1>9, <1>10, <1>12 DEF RunningOK, Locks
<1>16. Settled(AfterRelease(x), Q, Z, n) /\ Entered(x, AfterRelease(x))
  BY <1>2, <1>12, <1>14, <1>15, AfterReleaseSettles
<1>17. Entered(s, AfterRelease(x)) BY <1>12, <1>16 DEF Entered
<1>18. QED BY <1>2, <1>12, <1>14, <1>16, <1>17 DEF Q, Z, x

-----------------------------------------------------------------------------
(* Interrupts                                                               *)

\* Os_EnterISR2 adds one to SysDispatchLocker and nothing else.
LEMMA EnterIsrSettles ==
  ASSUME NEW s, NEW R, NEW S, NEW n \in Nat, Settled(s, R, S, n)
  PROVE  Settled([s EXCEPT !.locker = @ + 1], R, S, n + 1)
<1> DEFINE z == [s EXCEPT !.locker = @ + 1]
<1>1. s \in Sched /\ s.locker \in Nat /\ s.locker + 1 \in Nat /\ s.locker + 1 # 0
  BY DEF Settled, Core, Sched
<1>2. /\ z \in Sched /\ z.locker = s.locker + 1
      /\ z.queue = s.queue /\ z.runPrio = s.runPrio /\ z.interRes = s.interRes
      /\ z.state = s.state /\ z.running = s.running
      /\ z.high = s.high /\ z.highPrio = s.highPrio
  BY <1>1 DEF Sched
<1> HIDE DEF z
<1>3. Core(z, R, S) /\ RunningOK(z, S) /\ z.queue[0] # <<>>
  BY <1>2 DEF Settled, Core, RunningOK, WaitersHoldNothing
<1>4. HighIsTop(z) /\ HighIsCurrent(z, S) BY <1>2 DEF Settled, HighIsTop, HighIsCurrent, HighIsFirst
<1>5. Locks(z, S, n + 1)
  <2>1. Locks(s, S, n) /\ S \in Stacks /\ s.running \in Task BY DEF Settled, Core, RunningOK, Stacks
  <2>2. Cardinality(SharedWithIsr(S[s.running])) \in Nat BY <2>1, SharedIsFinite
  <2>3. QED BY <2>1, <2>2, <1>1, <1>2 DEF Locks
<1>6. QED BY <1>1, <1>2, <1>3, <1>4, <1>5 DEF Settled, z

(* The outermost exit makes up for the preemptions the lock held back.      *)
LEMMA ExitIsrSettles ==
  ASSUME NEW s, NEW R, NEW S, NEW n \in Nat, Settled(s, R, S, n + 1)
  PROVE  LET x == [s EXCEPT !.locker = @ - 1]
         IN  /\ n # 0 => Settled(x, R, S, n) /\ x.running = s.running
             /\ n = 0 => /\ Settled(ExitISR2SwitchTask(x), R, S, 0)
                         /\ Entered(s, ExitISR2SwitchTask(x))
                         /\ ExitISR2SwitchTask(x) # x =>
                              Core(x, R, S) /\ HighIsTop(x) /\ HighIsFirst(x)
<1> DEFINE x == [s EXCEPT !.locker = @ - 1]
           held == Cardinality(SharedWithIsr(S[s.running]))
           fix == IF s.running \in NonPreemptable THEN 1 ELSE 0
<1>1. /\ s \in Sched /\ S \in Stacks /\ s.running \in Task
      /\ Locks(s, S, n + 1)
  BY DEF Settled, Core, RunningOK, Stacks
<1>2. held \in Nat /\ fix \in Nat BY <1>1, SharedIsFinite
<1>3. s.locker - 1 = n + held + fix
  <2>1. s.locker = n + 1 + held + fix BY <1>1 DEF Locks
  <2> HIDE DEF held, fix
  <2>2. QED BY <2>1, <1>2
<1>4. s.locker - 1 \in Nat /\ (n # 0 => s.locker - 1 # 0)
  <2> HIDE DEF held, fix
  <2>1. QED BY <1>2, <1>3
<1>5. /\ x \in Sched /\ x.locker = s.locker - 1
      /\ x.queue = s.queue /\ x.runPrio = s.runPrio /\ x.interRes = s.interRes
      /\ x.state = s.state /\ x.running = s.running
      /\ x.high = s.high /\ x.highPrio = s.highPrio
  <2> HIDE DEF held, fix
  <2>1. QED BY <1>1, <1>4 DEF Sched
<1>6. Locks(x, S, n) BY <1>3, <1>5 DEF Locks, x
<1> HIDE DEF x, held, fix
<1>7. Core(x, R, S) /\ RunningOK(x, S) /\ x.queue[0] # <<>>
  BY <1>5 DEF Settled, Core, RunningOK, WaitersHoldNothing
<1>8. HighIsTop(x) /\ HighIsCurrent(x, S) BY <1>5 DEF Settled, HighIsTop, HighIsCurrent, HighIsFirst
<1>9. ASSUME x.locker # 0 \/ x.high = x.running
      PROVE  Settled(x, R, S, n)
  BY <1>6, <1>7, <1>8, <1>9 DEF Settled
<1>10. CASE n # 0 BY <1>4, <1>5, <1>9, <1>10 DEF x
<1>11. CASE n = 0 /\ x.locker = 0 /\ x.high # x.running
  <2>1. /\ x.running \notin NonPreemptable
        /\ SharedWithIsr(S[x.running]) = {}
        /\ \A u \in Task : Range(S[u]) = HeldByTask(S, u)
    BY <1>6, <1>7, <1>11, UnlockedHoldsNoShared
  <2>2. HighIsFirst(x) BY <2>1, <1>8 DEF HighIsCurrent
  <2>3. Settled(SwitchTask(x), R, S, 0) /\ Entered(x, SwitchTask(x))
    BY <2>1, <2>2, <1>7, <1>8, <1>11, SwitchTaskSettles
  <2>4. ExitISR2SwitchTask(x) = SwitchTask(x) BY <1>11 DEF ExitISR2SwitchTask
  <2>5. QED BY <2>2, <2>3, <2>4, <1>5, <1>7, <1>8, <1>11 DEF Entered, x
<1>12. CASE n = 0 /\ ~ (x.locker = 0 /\ x.high # x.running)
  BY <1>12, <1>5, <1>9 DEF ExitISR2SwitchTask, Entered, x
<1>13. QED BY <1>10, <1>11, <1>12

(* The control block of a resource that no task holds is of no concern to   *)
(* the scheduler.                                                           *)
LEMMA IsrResourceKeepsCore ==
  ASSUME NEW s, NEW R, NEW S, Core(s, R, S),
         NEW r \in Resource, OccupyType[r] # "BY_TASK",
         R[r].saveCount = 0 \/ R[r].saveLevel # "TASK",
         NEW v \in Rcb, v.saveLevel # "TASK"
  PROVE  Core(s, [R EXCEPT ![r] = v], S)
<1> DEFINE Q == [R EXCEPT ![r] = v]
<1>1. /\ s \in Sched /\ R \in Rcbs /\ S \in Stacks /\ StacksMatch(R, S)
      /\ QueuesOK(s.queue, s.runPrio, s.interRes, R, S) /\ WaitersHoldNothing(s, S)
  BY DEF Core, Rcbs, Stacks
<1>2. Q \in Rcbs /\ Q[r] = v /\ \A o \in Resource \ {r} : Q[o] = R[o] BY <1>1 DEF Rcbs
<1> HIDE DEF Q
<1>3. \A u \in Task : \A k \in 1 .. Len(S[u]) : S[u][k] \in Resource \ {r}
  BY <1>1 DEF Stacks, StacksMatch
<1>4. \A u \in Task : \A o \in HeldByTask(S, u) : o \in Resource \ {r} BY <1>1, HeldAreResources
<1>5. StacksMatch(Q, S)
  <2>1. \A o \in Resource :
          Q[o].saveCount > 0 /\ (OccupyType[o] = "BY_TASK" \/ Q[o].saveLevel = "TASK") =>
            Q[o] = R[o]
    BY <1>2
  <2>2. \A u \in Task : \A k \in 1 .. Len(S[u]) : Q[S[u][k]] = R[S[u][k]] BY <1>2, <1>3
  <2>3. \A u \in Task : \A k \in 1 .. Len(S[u]) :
          /\ Q[S[u][k]].saveCount = k
          /\ Q[S[u][k]].saveLevel = "TASK"
          /\ OccupyType[S[u][k]] # "BY_INTERRUPT"
    BY <2>2, <1>1 DEF StacksMatch
  <2>4. \A o \in Resource :
          Q[o].saveCount > 0 /\ (OccupyType[o] = "BY_TASK" \/ Q[o].saveLevel = "TASK") =>
            \E u \in Task : Q[o].saveCount <= Len(S[u]) /\ S[u][Q[o].saveCount] = o
    BY <2>1, <1>1 DEF StacksMatch
  <2>5. QED BY <2>3, <2>4, <1>1 DEF StacksMatch
<1>6. QueuesOK(s.queue, s.runPrio, s.interRes, Q, S)
  BY <1>2, <1>4, <1>1 DEF QueuesOK, LevelsRestorable, LevelRestorable
<1>7. QED BY <1>1, <1>2, <1>5, <1>6 DEF Core, Rcbs, Stacks, Q

-----------------------------------------------------------------------------
(* Startup                                                                  *)

TopKnown(s) ==
  \/ HighIsTop(s) /\ HighIsFirst(s)
  \/ s.highPrio = OS_PRIORITY_INVALID /\ s.queue = InitReadyTable

\* An autostarted task is queued, and noted when it is the new top.
LEMMA AutoStartFacts ==
  ASSUME NEW s, NEW R, NEW S, Core(s, R, S), s.runPrio = TaskPriority, TopKnown(s),
         NEW t \in Task
  PROVE  LET z == AutoStartTask(s, t)
         IN  /\ Core(z, R, S) /\ TopKnown(z)
             /\ z.runPrio = s.runPrio /\ z.running = s.running /\ z.locker = s.locker
             /\ \A p \in Prio : s.queue[p] # <<>> \/ p = TaskPriority[t] => z.queue[p] # <<>>
<1> DEFINE p == TaskPriority[t]
           q == InsertTail(s.queue, p, t)
           a == [s EXCEPT !.actCount[t] = @ + 1, !.state[t] = "START", !.queue = q]
           z == AutoStartTask(s, t)
<1>1. /\ s \in Sched /\ S \in Stacks /\ R \in Rcbs
      /\ QueuesOK(s.queue, s.runPrio, s.interRes, R, S)
      /\ StacksMatch(R, S) /\ WaitersHoldNothing(s, S)
  BY DEF Core, Stacks, Rcbs
<1>2. s.queue \in Queues /\ s.runPrio \in Prios /\ p \in Prio /\ 0 \in Prio
  BY TaskConstants, QueueConstants, <1>1 DEF Prio, Sched, Queues, Prios
<1>3. /\ q \in Queues
      /\ \A o \in Prio : \A u : First(s.queue, o, u) => First(q, o, u)
      /\ s.queue[p] = <<>> => First(q, p, t)
      /\ \A o \in Prio : q[o] # <<>> <=> s.queue[o] # <<>> \/ o = p
  BY <1>2, InsertTailFacts
<1>4. QueuesOK(q, s.runPrio, s.interRes, R, S) BY <1>1, <1>2, InsertTailKeepsQueues
<1> HIDE DEF q
<1>5. s.actCount[t] + 1 \in Nat BY <1>1 DEF Sched
<1>6. /\ a \in Sched /\ a.queue = q /\ a.runPrio = s.runPrio /\ a.interRes = s.interRes
      /\ a.running = s.running /\ a.locker = s.locker
      /\ a.high = s.high /\ a.highPrio = s.highPrio
      /\ \A u \in Task : a.state[u] = "WAITING" => s.state[u] = "WAITING"
  <2>1. a.state = [s.state EXCEPT ![t] = "START"] BY <1>1 DEF Sched
  <2>2. /\ a \in Sched /\ a.queue = q /\ a.runPrio = s.runPrio /\ a.interRes = s.interRes
        /\ a.running = s.running /\ a.locker = s.locker
        /\ a.high = s.high /\ a.highPrio = s.highPrio
    BY <1>1, <1>3, <1>5 DEF Sched, Queues, TaskStates
  <2> HIDE DEF a
  <2>3. s.state \in [Task -> TaskStates] BY <1>1 DEF Sched
  <2>4. QED BY <2>1, <2>2, <2>3
<1>7. z = IF s.highPrio = OS_PRIORITY_INVALID \/ p > s.highPrio
          THEN [a EXCEPT !.high = t, !.highPrio = p] ELSE a
  BY DEF AutoStartTask, q
<1> HIDE DEF a, z
<1>8. /\ z \in Sched /\ z.queue = q /\ z.runPrio = s.runPrio /\ z.interRes = s.interRes
      /\ z.running = s.running /\ z.locker = s.locker /\ z.state = a.state
      /\ s.highPrio = OS_PRIORITY_INVALID \/ p > s.highPrio => z.high = t /\ z.highPrio = p
      /\ ~ (s.highPrio = OS_PRIORITY_INVALID \/ p > s.highPrio) =>
           z.high = s.high /\ z.highPrio = s.highPrio
  <2>1. a \in Sched /\ t \in Task /\ p \in Prio BY <1>2, <1>6
  <2> HIDE DEF p
  <2>2. QED BY <2>1, <1>6, <1>7 DEF Sched
<1>9. Core(z, R, S) BY <1>1, <1>4, <1>6, <1>8 DEF Core, Stacks, Rcbs, WaitersHoldNothing
<1> HIDE DEF p
<1>10. TopKnown(z)
  <2>1. CASE s.highPrio = OS_PRIORITY_INVALID
    <3>1. s.queue = InitReadyTable
      <4>1. OS_PRIORITY_INVALID \notin Prio BY QueueConstants DEF Prio, OS_PRIORITY_INVALID
      <4>2. ~ HighIsTop(s) BY <2>1, <4>1 DEF HighIsTop
      <4>3. QED BY <4>2 DEF TopKnown
    <3>2. \A o \in Prio : s.queue[o] = <<>> BY <3>1 DEF InitReadyTable
    <3>3. HighIsTop(z) /\ HighIsFirst(z)
      <4>1. First(q, p, t) /\ \A o \in Prio : q[o] # <<>> => o = p BY <3>2, <1>2, <1>3
      <4>2. p <= p BY <1>2 DEF Prio
      <4>3. QED BY <4>1, <4>2, <2>1, <1>2, <1>8 DEF HighIsTop, HighIsFirst, First
    <3>4. QED BY <3>3 DEF TopKnown
  <2>2. CASE s.highPrio # OS_PRIORITY_INVALID
    <3>1. HighIsTop(s) /\ HighIsFirst(s) BY <2>2 DEF TopKnown
    <3>2. /\ s.highPrio \in Prio /\ s.high \in Task /\ s.queue[s.highPrio] # <<>>
          /\ \A o \in Prio : s.queue[o] # <<>> => o <= s.highPrio
          /\ First(s.queue, s.highPrio, s.high)
      BY <3>1 DEF HighIsTop, HighIsFirst
    <3>3. CASE p > s.highPrio
      <4>1. s.queue[p] = <<>> /\ (\A o \in Prio : o <= s.highPrio => o <= p) /\ p <= p
        BY <3>2, <3>3, <1>2 DEF Prio
      <4>2. z.high = t /\ z.highPrio = p BY <3>3, <1>8
      <4>3. QED BY <4>1, <4>2, <3>2, <1>2, <1>3, <1>8 DEF TopKnown, HighIsTop, HighIsFirst, First
    <3>4. CASE ~ (p > s.highPrio)
      <4>1. p <= s.highPrio BY <3>2, <3>4, <1>2 DEF Prio
      <4>2. z.high = s.high /\ z.highPrio = s.highPrio BY <2>2, <3>4, <1>8
      <4>3. QED BY <4>1, <4>2, <3>2, <1>2, <1>3, <1>8 DEF TopKnown, HighIsTop, HighIsFirst, First
    <3>5. QED BY <3>3, <3>4
  <2>3. QED BY <2>1, <2>2
<1>11. QED BY <1>3, <1>8, <1>9, <1>10 DEF z, p

-----------------------------------------------------------------------------
(* The types of all variables *)

(* TypeOK but for the record, the control blocks and the stacks, which Core *)
(* has the types of.                                                        *)
OtherTypesOK ==
  /\ isrNest \in Seq(Isr)
  /\ savedIpl \in Seq(Nat)
  /\ Len(savedIpl) = Len(isrNest)
  /\ ipl \in Nat
  /\ isrRes \in [Isr -> Seq(Resource)]
  /\ ecb \in [Extended -> Ecb]
  /\ blockedIn \in [Extended -> {"none", "WaitEvent", "WaitAllEvents"}]
  /\ booted \in 0 .. TaskMax
  /\ call \in [Task -> Call]

\* The types of all variables together are TypeOK.
LEMMA TypesOfCore ==
  ASSUME OtherTypesOK, BootOK \/ RunOK
  PROVE  TypeOK
BY DEF OtherTypesOK, TypeOK, BootOK, RunOK, Settled, Core

\* Both conversions between priorities and levels give numbers.
LEMMA LevelsAreNat ==
  ASSUME NEW p \in Nat
  PROVE  PrioToIpl(p) \in Nat /\ IplToPrio(p) \in Nat
BY QueueConstants DEF PrioToIpl, IplToPrio

-----------------------------------------------------------------------------
(* Initial states                                                           *)

\* The fields of the record before the first task is initialised.
LEMMA InitSchedFacts ==
  /\ InitSched \in Sched
  /\ InitSched.queue = InitReadyTable /\ InitSched.runPrio = TaskPriority
  /\ InitSched.highPrio = OS_PRIORITY_INVALID /\ InitSched.running = OS_TASK_INVALID
  /\ InitSched.locker = 0
  /\ \A t \in Task : InitSched.state[t] = "SUSPENDED" /\ ~ InitSched.interRes[t]
BY TaskConstants DEF InitReadyTable, InitSched, Sched, TaskStates

(* Before the first task is initialised nothing is queued, held or raised.  *)
LEMMA InitEstablishes == Init => IInv
<1> SUFFICES ASSUME Init PROVE IInv OBVIOUS
<1>1. OtherTypesOK BY QueueConstants DEF Init, OtherTypesOK, Ecb, ClearedEcb, Call, NoCall
<1>2. /\ rcb \in [Resource -> Rcb] /\ taskRes \in [Task -> Seq(Resource)]
      /\ \A t \in Task : taskRes[t] = <<>>
      /\ \A r \in Resource : rcb[r].saveCount = 0
  BY DEF Init, Rcb, FreeRcb, OS_PRIORITY_INVALID
<1>3. sched = InitSched BY DEF Init
<1>4. QueuesOK(sched.queue, sched.runPrio, sched.interRes, rcb, taskRes)
  <2>1. \A p \in Prio : sched.queue[p] = <<>> BY <1>3, InitSchedFacts DEF InitReadyTable
  <2>2. \A t \in Task : /\ sched.runPrio[t] = TaskPriority[t] /\ TaskPriority[t] \in Prio
                        /\ taskRes[t] = <<>> /\ ~ sched.interRes[t]
    BY <1>2, <1>3, InitSchedFacts, TaskConstants
  <2>3. \A t \in Task : HeldByTask(taskRes, t) = {} BY <2>2 DEF HeldByTask, Range
  <2>4. EntriesInOrder(sched.queue, sched.runPrio) BY <2>1 DEF EntriesInOrder
  <2>5. OccupiedTasksNest(sched.queue, sched.runPrio, taskRes)
    BY <2>2 DEF OccupiedTasksNest, Occupied, Prio
  <2>6. LevelsRestorable(sched.queue, sched.runPrio, sched.interRes, rcb, taskRes)
    BY <2>1, <2>2, <2>3 DEF LevelsRestorable, First
  <2>7. QED BY <2>4, <2>5, <2>6 DEF QueuesOK
<1>5. StacksMatch(rcb, taskRes) BY <1>2 DEF Range, StacksMatch
<1>6. WaitersHoldNothing(sched, taskRes) BY <1>3, InitSchedFacts DEF WaitersHoldNothing
<1>7. Core(sched, rcb, taskRes) BY <1>2, <1>3, <1>4, <1>5, <1>6, InitSchedFacts DEF Core
<1>8. BootOK BY <1>3, <1>7, InitSchedFacts DEF BootOK, Init
<1>9. IdleIsReady /\ CallsOK BY TaskConstants DEF Init, IdleIsReady, CallsOK, NoCall, Task
<1>10. QED BY <1>1, <1>8, <1>9, TypesOfCore DEF IInv

-----------------------------------------------------------------------------
(* Types of the variables beside the scheduler's record                     *)

\* The last entry of a stack and what is left below it.
LEMMA FrontAndLast ==
  ASSUME NEW T, NEW s \in Seq(T), s # <<>>
  PROVE  Front(s) \in Seq(T) /\ Len(Front(s)) = Len(s) - 1 /\ Last(s) \in T
<1>1. Len(s) \in Nat /\ Len(s) >= 1 /\ Len(s) \in 1 .. Len(s) OBVIOUS
<1>2. s[Len(s)] \in T BY <1>1
<1> DEFINE n == Len(s) - 1
<1>3. n \in Int /\ n >= 0 /\ 1 \in Int /\ \A i \in 1 .. n : s[i] \in T BY <1>1
<1>4. Front(s) = SubSeq(s, 1, n) BY DEF Front
<1> HIDE DEF n
<1>5. SubSeq(s, 1, n) \in Seq(T) /\ Len(SubSeq(s, 1, n)) = IF 1 <= n THEN n - 1 + 1 ELSE 0
  BY ONLY <1>3, SubSeqProperties
<1>6. Len(SubSeq(s, 1, n)) = n BY <1>3, <1>5
<1>7. QED BY <1>2, <1>4, <1>5, <1>6 DEF Last, n

(* The mask and the flags of an event control block stay in their sets      *)
LEMMA EcbTypes ==
  ASSUME ecb \in [Extended -> Ecb],
         blockedIn \in [Extended -> {"none", "WaitEvent", "WaitAllEvents"}],
         NEW t \in Task, NEW mask \in Masks,
         WaitEvent(t, mask) \/ WaitAllEvents(t, mask) \/ ClearEvent(t, mask)
           \/ SetEvent(t, mask)
  PROVE  /\ ecb' \in [Extended -> Ecb]
         /\ blockedIn' \in [Extended -> {"none", "WaitEvent", "WaitAllEvents"}]
<1>1. mask \subseteq Event BY DEF Masks
<1>2. CASE WaitEvent(t, mask) BY <1>1, <1>2 DEF WaitEvent, WaitUnless, Ecb
<1>3. CASE WaitAllEvents(t, mask) BY <1>1, <1>3 DEF WaitAllEvents, WaitUnless, Ecb
<1>4. CASE ClearEvent(t, mask) BY <1>1, <1>4 DEF ClearEvent, Ecb
<1>5. CASE SetEvent(t, mask)
  <2> DEFINE set  == ecb[t].setMask \cup mask
             wake == sched.state[t] = "WAITING" /\ Awaited(set, ecb[t])
  <2>1. /\ ecb' = [ecb EXCEPT ![t].setMask = set,
                              ![t].waitAll = IF wake THEN FALSE ELSE @]
        /\ blockedIn' = IF wake THEN [blockedIn EXCEPT ![t] = "none"] ELSE blockedIn
    BY <1>5 DEF SetEvent
  <2>2. t \in Extended => set \subseteq Event BY <1>1 DEF Ecb
  <2> HIDE DEF set, wake
  <2>3. CASE wake BY <2>1, <2>2, <2>3 DEF Ecb
  <2>4. CASE ~ wake BY <2>1, <2>2, <2>4 DEF Ecb
  <2>5. QED BY <2>3, <2>4
<1>6. QED BY <1>2, <1>3, <1>4, <1>5

\* Every step keeps the types of the variables beside the record.
LEMMA OtherTypesKept == TypeOK /\ CallsOK /\ [Next]_vars => OtherTypesOK'
<1> SUFFICES ASSUME TypeOK, CallsOK, [Next]_vars PROVE OtherTypesOK' OBVIOUS
<1>1. OtherTypesOK BY DEF TypeOK, OtherTypesOK
<1>2. rcb \in [Resource -> Rcb] BY DEF TypeOK
<1>3. \A r \in Resource : PrioToIpl(Ceiling[r]) \in Nat /\ PrioToIpl(rcb[r].savePrio) \in Nat
  BY <1>2, ResourceConstants, LevelsAreNat DEF Rcb
<1>4. NoCall \in Call BY DEF Call
<1>5. CASE InitTaskTCB
  BY <1>1, <1>5, QueueConstants DEF InitTaskTCB, OtherTypesOK, isrVars, resVars, evtVars
<1>6. CASE StartScheduler BY <1>1, <1>6 DEF StartScheduler, OtherTypesOK, isrVars, resVars, evtVars
<1>7. ASSUME NEW t \in Task, ActivateTask(t) PROVE OtherTypesOK'
  BY <1>1, <1>7 DEF ActivateTask, OtherTypesOK, isrVars, resVars, evtVars
<1>8. ASSUME NEW t \in Task,
             TerminateTask(t) \/ \E succ \in Task : ChainTask(t, succ)
      PROVE  OtherTypesOK'
  <2>1. /\ ecb' = IF t \in Extended THEN [ecb EXCEPT ![t] = ClearedEcb] ELSE ecb
        /\ UNCHANGED <<isrVars, resVars, blockedIn, booted, call>>
    BY <1>8 DEF TerminateTask, ChainTask, ClearECB
  <2>2. ClearedEcb \in Ecb BY DEF ClearedEcb, Ecb
  <2>3. QED BY <2>1, <2>2, <1>1 DEF OtherTypesOK, isrVars, resVars
<1>9. ASSUME NEW t \in Task, Schedule(t) PROVE OtherTypesOK'
  BY <1>1, <1>9 DEF Schedule, OtherTypesOK, isrVars, resVars, evtVars
<1>10. ASSUME NEW t \in Task, NEW r \in Resource, GetResourceCheck(t, r)
       PROVE  OtherTypesOK'
  BY <1>1, <1>10 DEF Call, GetResourceCheck, OtherTypesOK, isrVars, resVars, evtVars
<1>11. ASSUME NEW t \in Task, GetResource(t) PROVE OtherTypesOK'
  <2>1. call[t].res \in Resource BY <1>11, ResourceConstants DEF GetResource, CallsOK
  <2>2. ipl' \in Nat
    BY <2>1, <1>1, <1>3, <1>11
       DEF GetResource, GetResourceAtTaskLevel, GetResourceByTask,
           GetResourceByTaskOrInterrupt, OtherTypesOK
  <2>3. UNCHANGED <<isrRes, isrVars, evtVars, booted>> /\ call' = [call EXCEPT ![t] = NoCall]
    BY <1>11 DEF GetResource, GetResourceAtTaskLevel, GetResourceByTask,
                 GetResourceByTaskOrInterrupt
  <2>4. QED BY <2>2, <2>3, <1>1, <1>4 DEF OtherTypesOK, isrVars, evtVars
<1>12. ASSUME NEW t \in Task, NEW mask \in Masks,
              WaitForEvents(t, mask) \/ ClearEvents(t, mask)
       PROVE  OtherTypesOK'
  BY <1>12, <1>1, EcbTypes DEF WaitForEvents, ClearEvents, OtherTypesOK, isrVars, resVars
<1>13. ASSUME NEW t \in Task, NEW target \in Extended, NEW mask \in Masks,
              SetEventCheck(t, target, mask)
       PROVE  OtherTypesOK'
  <2>1. [op |-> "SetEvent", task |-> target, mask |-> mask] \in Call BY EventConstants DEF Call
  <2>2. QED BY <2>1, <1>1, <1>13 DEF SetEventCheck, OtherTypesOK, isrVars, resVars, evtVars
<1>14. ASSUME NEW t \in Task, SetEventByTask(t) PROVE OtherTypesOK'
  <2>1. call[t] \in Call /\ call[t].op = "SetEvent" BY <1>1, <1>14 DEF SetEventByTask, OtherTypesOK
  <2>2. call[t].task \in Task /\ call[t].mask \in Masks BY <2>1 DEF Call, NoCall
  <2>3. /\ ecb' \in [Extended -> Ecb]
        /\ blockedIn' \in [Extended -> {"none", "WaitEvent", "WaitAllEvents"}]
    BY <2>2, <1>1, <1>14, EcbTypes DEF SetEventByTask, OtherTypesOK
  <2>4. QED BY <2>3, <1>1, <1>4, <1>14 DEF SetEventByTask, OtherTypesOK, isrVars, resVars
<1>15. ASSUME NEW r \in Resource, IsrGetResource(r) PROVE OtherTypesOK'
  <2>1. /\ UNCHANGED <<isrVars, evtVars, booted, call>>
        /\ isrRes' = [isrRes EXCEPT ![RunningIsr] = Append(@, r)]
        /\ ipl' = IF Ceiling[r] > IplToPrio(ipl) THEN PrioToIpl(Ceiling[r]) ELSE ipl
    BY <1>15 DEF IsrGetResource, GetResourceAtIsrLevel, GetResourceByInterrupt
  <2>2. isrNest # <<>> BY <1>15 DEF IsrGetResource, InIsr, SysOsLevel
  <2>3. RunningIsr \in Isr BY <2>2, <1>1, FrontAndLast DEF OtherTypesOK, RunningIsr
  <2>4. Append(isrRes[RunningIsr], r) \in Seq(Resource) BY <2>3, <1>1 DEF OtherTypesOK
  <2>5. isrRes' \in [Isr -> Seq(Resource)] /\ ipl' \in Nat
    BY <2>1, <2>4, <1>1, <1>3 DEF OtherTypesOK
  <2>6. QED BY <2>1, <2>5, <1>1 DEF OtherTypesOK, isrVars, evtVars
<1>16. ASSUME NEW r \in Resource, ReleaseAnyResource(r) PROVE OtherTypesOK'
  <2>1. UNCHANGED <<isrVars, evtVars, booted, call>> BY <1>16 DEF ReleaseAnyResource
  <2>2. ipl' = ipl \/ ipl' = PrioToIpl(rcb[r].savePrio)
    BY <1>16 DEF ReleaseAnyResource, ReleaseResource, ReleaseResourceByTask,
                 ReleaseResourceByTaskOrInterrupt, ReleaseResourceByInterrupt
  <2>3. isrRes' \in [Isr -> Seq(Resource)]
    <3>1. CASE UNCHANGED isrRes BY <3>1, <1>1 DEF OtherTypesOK
    <3>2. CASE ~ UNCHANGED isrRes
      <4>1. /\ isrRes' = [isrRes EXCEPT ![RunningIsr] = Front(@)]
            /\ rcb[r].saveCount = Len(isrRes[RunningIsr]) /\ rcb[r].saveCount > 0
            /\ isrNest # <<>>
        BY <3>2, <1>16 DEF ReleaseAnyResource, ReleaseResource, ReleaseResourceByTask,
             ReleaseResourceByTaskOrInterrupt, ReleaseResourceByInterrupt, SysOsLevel
      <4>2. RunningIsr \in Isr BY <4>1, <1>1, FrontAndLast DEF OtherTypesOK, RunningIsr
      <4>3. isrRes[RunningIsr] \in Seq(Resource) BY <4>2, <1>1 DEF OtherTypesOK
      <4>4. isrRes[RunningIsr] # <<>> BY <4>1
      <4>5. Front(isrRes[RunningIsr]) \in Seq(Resource) BY <4>3, <4>4, FrontAndLast
      <4>6. QED BY <4>1, <4>5, <1>1 DEF OtherTypesOK
    <3>3. QED BY <3>1, <3>2
  <2>4. QED BY <2>1, <2>2, <2>3, <1>1, <1>3 DEF OtherTypesOK, isrVars, evtVars
<1>17. ASSUME NEW target \in Extended, NEW mask \in Masks, SetEventByIsr(target, mask)
       PROVE  OtherTypesOK'
  BY EventConstants, <1>1, <1>17, EcbTypes DEF SetEventByIsr, OtherTypesOK, isrVars, resVars
<1>18. ASSUME NEW i \in Isr, TakeInterrupt(i) PROVE OtherTypesOK'
  <2>1. IsrPrio[i] \in Nat BY IsrConstants
  <2>2. QED BY <2>1, <1>1, <1>18 DEF TakeInterrupt, EnterISR2, OtherTypesOK, evtVars
<1>19. CASE ReturnFromInterrupt
  <2>1. /\ isrNest # <<>> /\ isrNest' = Front(isrNest)
        /\ ipl' = Last(savedIpl) /\ savedIpl' = Front(savedIpl)
        /\ UNCHANGED <<isrRes, evtVars, booted, call>>
    BY <1>19 DEF ReturnFromInterrupt, ExitISR2
  <2>2. savedIpl # <<>> BY <2>1, <1>1 DEF OtherTypesOK
  <2>3. /\ isrNest' \in Seq(Isr) /\ savedIpl' \in Seq(Nat) /\ ipl' \in Nat
        /\ Len(savedIpl') = Len(savedIpl) - 1 /\ Len(isrNest') = Len(isrNest) - 1
    BY <2>1, <2>2, <1>1, FrontAndLast DEF OtherTypesOK
  <2>4. QED BY <2>1, <2>3, <1>1 DEF OtherTypesOK, evtVars
<1>20. CASE UNCHANGED vars BY <1>1, <1>20 DEF vars, OtherTypesOK
<1>21. QED
  BY <1>5, <1>6, <1>7, <1>8, <1>9, <1>10, <1>11, <1>12, <1>13, <1>14, <1>15, <1>16,
     <1>17, <1>18, <1>19, <1>20 DEF Next

-----------------------------------------------------------------------------
(* Startup                                                                  *)

\* Os_InitTask and Os_Hal_StartScheduler
LEMMA BootStep ==
  ASSUME TypeOK, IdleIsReady, BootOK, InitTaskTCB \/ StartScheduler
  PROVE  (BootOK \/ RunOK)' /\ IdleIsReady' /\ Entered(sched, sched')
<1>1. /\ Core(sched, rcb, taskRes) /\ sched.running = OS_TASK_INVALID
      /\ sched.locker = 0 /\ isrNest = <<>> /\ taskRes = [t \in Task |-> <<>>]
      /\ sched.runPrio = TaskPriority /\ TopKnown(sched)
      /\ booted \in Nat /\ TaskMax \in Nat /\ booted <= TaskMax
  BY QueueConstants DEF BootOK, TopKnown, TypeOK
<1>2. Idle \in Task /\ Idle \in AutoStart /\ TaskPriority[Idle] = 0 /\ 0 \in Prio
  BY TaskConstants, QueueConstants DEF Prio
<1>4. CASE InitTaskTCB
  <2>1. /\ booted \in Task /\ booted' = booted + 1
        /\ rcb' = rcb /\ taskRes' = taskRes /\ isrNest' = isrNest
        /\ sched' = IF booted \in AutoStart THEN AutoStartTask(sched, booted) ELSE sched
    BY <1>1, <1>4 DEF InitTaskTCB, isrVars, resVars, Task
  <2>2. CASE booted \in AutoStart
    <3>1. /\ Core(sched', rcb, taskRes) /\ TopKnown(sched')
          /\ sched'.runPrio = sched.runPrio /\ sched'.running = sched.running
          /\ sched'.locker = sched.locker
          /\ \A p \in Prio :
               sched.queue[p] # <<>> \/ p = TaskPriority[booted] => sched'.queue[p] # <<>>
      BY <2>1, <2>2, <1>1, AutoStartFacts
    <3>2. BootOK' BY <3>1, <2>1, <1>1 DEF BootOK, TopKnown
    <3>3. booted + 1 > Idle => booted > Idle \/ booted = Idle BY <1>1, <1>2 DEF Task
    <3>4. IdleIsReady' BY <3>1, <3>3, <2>1, <1>2 DEF IdleIsReady
    <3>5. QED BY <3>1, <3>2, <3>4 DEF Entered
  <2>3. CASE booted \notin AutoStart
    BY <2>1, <2>3, <1>1, <1>2 DEF BootOK, Task, IdleIsReady, Entered
  <2>4. QED BY <2>2, <2>3
<1>5. CASE StartScheduler
  <2>1. /\ booted = TaskMax /\ booted' = booted /\ sched' = SwitchTask(sched)
        /\ rcb' = rcb /\ taskRes' = taskRes /\ isrNest' = isrNest
    BY <1>5 DEF StartScheduler, isrVars, resVars
  <2>2. sched.queue[0] # <<>> BY <2>1, <1>1, <1>2 DEF Task, IdleIsReady
  <2>3. HighIsTop(sched) /\ HighIsFirst(sched) BY <2>2, <1>1, <1>2 DEF TopKnown, InitReadyTable
  <2>4. \A u \in Task : Range(taskRes[u]) = HeldByTask(taskRes, u) BY <1>1 DEF Range, HeldByTask
  <2>5. Settled(sched', rcb, taskRes, 0) /\ Entered(sched, sched')
    BY <2>1, <2>2, <2>3, <2>4, <1>1, SwitchTaskSettles
  <2>6. RunOK' BY <2>1, <2>5, <1>1 DEF RunOK
  <2>7. IdleIsReady' BY <2>5 DEF IdleIsReady, Settled
  <2>8. QED BY <2>5, <2>6, <2>7
<1>6. QED BY <1>4, <1>5

-----------------------------------------------------------------------------
(* The running system                                                       *)

(* A service acts on the running task.                                      *)
LEMMA RunningFacts ==
  ASSUME TypeOK, RunOK
  PROVE  /\ sched.running \in Task /\ Started /\ booted = TaskMax
         /\ Settled(sched, rcb, taskRes, Len(isrNest)) /\ Len(isrNest) \in Nat
         /\ SysOsLevel = "TASK" <=> Len(isrNest) = 0
         /\ SysOsLevel = "ISR2" <=> isrNest # <<>>
         /\ isrNest # <<>> => RunningIsr \in Isr
         /\ rcb \in Rcbs /\ taskRes \in Stacks
<1>1. Settled(sched, rcb, taskRes, Len(isrNest)) /\ booted = TaskMax BY DEF RunOK
<1>2. sched.running \in Task /\ Started
  <2>1. sched.running \in Task BY <1>1 DEF Settled, RunningOK
  <2>2. OS_TASK_INVALID \notin Task BY QueueConstants DEF Task, OS_TASK_INVALID
  <2>3. QED BY <2>1, <2>2 DEF Started
<1>3. isrNest \in Seq(Isr) BY DEF TypeOK
<1>4. isrNest # <<>> => RunningIsr \in Isr BY <1>3, FrontAndLast DEF RunningIsr
<1>5. Len(isrNest) \in Nat /\ (isrNest = <<>> <=> Len(isrNest) = 0) BY <1>3
<1>6. QED BY <1>1, <1>2, <1>4, <1>5 DEF SysOsLevel, TypeOK, Rcbs, Stacks

(* What a step keeps: RunOK and the promise of a GetResource under way.     *)
Kept == RunOK' /\ CallsOK' /\ Entered(sched, sched')

\* A step that changes neither stacks nor control blocks nor interrupts.
LEMMA KeptBySched ==
  ASSUME RunOK, CallsOK,
         Settled(sched', rcb, taskRes, Len(isrNest)), Entered(sched, sched'),
         UNCHANGED <<rcb, taskRes, isrNest, booted, call>>
  PROVE  Kept
BY DEF Kept, RunOK, CallsOK

\* ActivateTask, TerminateTask, ChainTask and Schedule
LEMMA TaskServicesKeep ==
  ASSUME TypeOK, RunOK, CallsOK, NoChainWhileNonPreemptable, NEW t \in Task,
         \/ ActivateTask(t)
         \/ TerminateTask(t)
         \/ \E succ \in Task : ChainTask(t, succ)
         \/ Schedule(t)
  PROVE  Kept
<1>1. /\ Settled(sched, rcb, taskRes, Len(isrNest)) /\ Len(isrNest) \in Nat
      /\ SysOsLevel = "TASK" => Len(isrNest) = 0
  BY RunningFacts
<1>2. CASE ActivateTask(t)
  BY <1>2, <1>1, ActivateSettles, KeptBySched DEF ActivateTask, isrVars, resVars
<1>3. CASE TerminateTask(t)
  <2>1. /\ sched' = DoTerminateTask(sched, t) /\ UNCHANGED <<rcb, taskRes, isrNest, booted, call>>
        /\ taskRes[t] = <<>> /\ sched.running = t /\ t # Idle /\ Len(isrNest) = 0
    BY <1>1, <1>3 DEF TerminateTask, Calling, InTask, isrVars, resVars
  <2>2. Settled(sched', rcb, taskRes, Len(isrNest)) /\ Entered(sched, sched')
    BY <2>1, <1>1, TerminateSettles
  <2>3. QED BY <2>1, <2>2, KeptBySched
<1>4. ASSUME NEW succ \in Task, ChainTask(t, succ) PROVE Kept
  <2>1. /\ sched' = DoChainTask(sched, t, succ)
        /\ UNCHANGED <<rcb, taskRes, isrNest, booted, call>>
        /\ taskRes[t] = <<>> /\ sched.running = t /\ t # Idle /\ Len(isrNest) = 0
        /\ t \notin NonPreemptable
    BY <1>1, <1>4 DEF ChainTask, Calling, InTask, isrVars, resVars, NoChainWhileNonPreemptable
  <2>2. Settled(sched', rcb, taskRes, Len(isrNest)) /\ Entered(sched, sched')
    BY <2>1, <1>1, ChainSettles
  <2>3. QED BY <2>1, <2>2, KeptBySched
<1>5. CASE Schedule(t)
  <2>1. /\ sched' = DoSchedule(sched, t) /\ UNCHANGED <<rcb, taskRes, isrNest, booted, call>>
        /\ taskRes[t] = <<>> /\ sched.running = t /\ Len(isrNest) = 0
    BY <1>1, <1>5 DEF Schedule, Calling, InTask, isrVars, resVars
  <2>2. Settled(sched', rcb, taskRes, Len(isrNest)) /\ Entered(sched, sched')
    BY <2>1, <1>1, ScheduleSettles
  <2>3. QED BY <2>1, <2>2, KeptBySched
<1>6. QED BY <1>2, <1>3, <1>4, <1>5

\* Both halves of GetResource at task level
LEMMA GetResourceKeeps ==
  ASSUME TypeOK, RunOK, CallsOK, NEW t \in Task,
         (\E r \in Resource : GetResourceCheck(t, r)) \/ GetResource(t)
  PROVE  Kept
<1>1. /\ Settled(sched, rcb, taskRes, Len(isrNest)) /\ booted = TaskMax
      /\ SysOsLevel = "TASK" => Len(isrNest) = 0
      /\ rcb \in Rcbs /\ taskRes \in Stacks /\ call \in [Task -> Call]
  BY RunningFacts DEF TypeOK
<1>2. ASSUME NEW r \in Resource, GetResourceCheck(t, r) PROVE Kept
  <2>1. /\ call' = [call EXCEPT ![t] = [op |-> "GetResource", res |-> r]]
        /\ UNCHANGED <<sched, rcb, taskRes, isrNest, booted>>
        /\ rcb[r].saveCount = 0 /\ r \in TaskAccess[t]
    BY <1>2 DEF GetResourceCheck, GetResourceSafetyCheck, isrVars, resVars
  <2>2. r \notin Range(taskRes[t])
    <3>1. StacksMatch(rcb, taskRes) /\ taskRes[t] \in Seq(Resource)
      BY <1>1 DEF Settled, Core, Stacks
    <3>2. \A k \in 1 .. Len(taskRes[t]) : rcb[taskRes[t][k]].saveCount = k /\ k # 0
      BY <3>1 DEF StacksMatch
    <3>3. QED BY <2>1, <3>1, <3>2 DEF Range
  <2>3. CallsOK' BY <2>1, <2>2, <1>1 DEF CallsOK
  <2>4. RunOK' BY <2>1, <1>1 DEF RunOK
  <2>5. QED BY <2>1, <2>3, <2>4 DEF Kept, Entered
<1>3. CASE GetResource(t)
  <2> DEFINE r == call[t].res
             save == IF OccupyType[r] = "BY_TASK" THEN sched.runPrio[t] ELSE IplToPrio(ipl)
  <2>1. /\ t = sched.running /\ SysOsLevel = "TASK"
        /\ call' = [call EXCEPT ![t] = NoCall] /\ isrNest' = isrNest /\ booted' = booted
        /\ call[t].op = "GetResource" /\ GetResourceAtTaskLevel(t, r)
    BY <1>3 DEF GetResource, InTask, isrVars
  <2>2. /\ r \in Resource /\ r \notin Range(taskRes[t])
        /\ TaskPriority[t] <= Ceiling[r]
    BY <2>1, ResourceConstants DEF CallsOK
  <2>3. Len(isrNest) = 0 /\ Settled(sched, rcb, taskRes, 0) BY <2>1, <1>1
  <2> HIDE DEF r
  <2>4. /\ taskRes' = Pushed(taskRes, t, r)
        /\ rcb' = Saved(rcb, r, Len(taskRes[t]) + 1, save)
    BY <2>1 DEF GetResourceAtTaskLevel, GetResourceByTask, GetResourceByTaskOrInterrupt,
                SaveResourceByTaskOrder, Pushed, Saved
  <2>5. Settled(sched', rcb', taskRes', 0) /\ sched'.running = sched.running
    <3>1. CASE OccupyType[r] = "BY_TASK"
      BY <2>1, <3>1, <2>2, <2>3, <2>4, TakeByTaskSettles DEF GetResourceAtTaskLevel, GetResourceByTask
    <3>2. CASE OccupyType[r] = "BY_TASK_OR_INTERRUPT"
      <4>1. sched' = [sched EXCEPT !.locker = @ + 1] /\ save = IplToPrio(ipl)
        BY <2>1, <3>2 DEF GetResourceAtTaskLevel, GetResourceByTaskOrInterrupt
      <4>2. save \in Nat BY <4>1, LevelsAreNat DEF TypeOK
      <4> HIDE DEF save
      <4>3. Settled(sched', rcb', taskRes', 0)
        BY <4>1, <4>2, <3>2, <2>1, <2>2, <2>3, <2>4, TakeSharedSettles
      <4>4. sched'.running = sched.running BY <4>1 DEF TypeOK, Sched
      <4>5. QED BY <4>3, <4>4
    <3>3. QED BY <2>1, <3>1, <3>2 DEF GetResourceAtTaskLevel
  <2>6. CallsOK' BY <2>1, <1>1, <2>4 DEF NoCall, Stacks, Pushed, CallsOK
  <2>7. RunOK' BY <2>1, <2>3, <2>5, <1>1 DEF RunOK
  <2>8. QED BY <2>5, <2>6, <2>7 DEF Kept, Entered
<1>4. QED BY <1>2, <1>3

\* WaitEvent, WaitAllEvents, ClearEvent and both halves of SetEvent
LEMMA EventServicesKeep ==
  ASSUME TypeOK, RunOK, CallsOK, NEW t \in Task,
         \/ \E mask \in Masks : WaitForEvents(t, mask)
         \/ \E mask \in Masks : ClearEvents(t, mask)
         \/ \E target \in Extended, mask \in Masks : SetEventCheck(t, target, mask)
         \/ SetEventByTask(t)
         \/ \E target \in Extended, mask \in Masks : SetEventByIsr(target, mask)
  PROVE  Kept
<1>1. /\ Settled(sched, rcb, taskRes, Len(isrNest)) /\ Len(isrNest) \in Nat
      /\ SysOsLevel = "TASK" => Len(isrNest) = 0
      /\ booted = TaskMax /\ call \in [Task -> Call]
  BY RunningFacts DEF TypeOK
<1>2. ASSUME NEW mask \in Masks, WaitForEvents(t, mask) PROVE Kept
  <2>1. /\ UNCHANGED <<rcb, taskRes, isrNest, booted, call>>
        /\ t = sched.running /\ t # Idle /\ Len(isrNest) = 0 /\ taskRes[t] = <<>>
        /\ sched' = sched \/ sched' = SetTaskToWait(sched, t)
    BY <1>1, <1>2 DEF WaitForEvents, WaitEvent, WaitAllEvents, WaitEventSafetyCheck,
                      WaitUnless, Calling, InTask, isrVars, resVars
  <2>2. CASE sched' = sched BY <2>1, <2>2, <1>1, KeptBySched DEF Entered
  <2>3. CASE sched' = SetTaskToWait(sched, t) BY <2>1, <2>3, <1>1, SetTaskToWaitSettles, KeptBySched
  <2>4. QED BY <2>1, <2>2, <2>3
<1>3. ASSUME NEW mask \in Masks, ClearEvents(t, mask) PROVE Kept
  BY <1>3, <1>1, KeptBySched DEF ClearEvents, ClearEvent, isrVars, resVars, Entered
<1>4. ASSUME NEW target \in Extended, NEW mask \in Masks, SetEventCheck(t, target, mask)
      PROVE  Kept
  <2>1. /\ UNCHANGED <<sched, rcb, taskRes, isrNest, booted>>
        /\ call' = [call EXCEPT ![t] = [op |-> "SetEvent", task |-> target, mask |-> mask]]
    BY <1>4 DEF SetEventCheck, isrVars, resVars
  <2>2. CallsOK' BY <2>1, <1>1 DEF CallsOK
  <2>3. QED BY <2>1, <2>2, <1>1 DEF Kept, RunOK, Entered
<1>5. ASSUME NEW target \in Task, NEW mask \in Masks, SetEvent(target, mask)
      PROVE  Settled(sched', rcb, taskRes, Len(isrNest)) /\ Entered(sched, sched')
  BY <1>5, <1>1, SetTaskToReadySettles DEF SetEvent, Entered
<1>6. CASE SetEventByTask(t)
  <2>1. /\ UNCHANGED <<rcb, taskRes, isrNest, booted>> /\ call' = [call EXCEPT ![t] = NoCall]
        /\ call[t].op = "SetEvent" /\ SetEvent(call[t].task, call[t].mask)
    BY <1>6 DEF SetEventByTask, isrVars, resVars
  <2>2. call[t].task \in Task /\ call[t].mask \in Masks BY <2>1, <1>1 DEF Call, NoCall
  <2>3. Settled(sched', rcb, taskRes, Len(isrNest)) /\ Entered(sched, sched') BY <2>1, <2>2, <1>5
  <2>4. CallsOK' BY <2>1, <1>1 DEF NoCall, CallsOK
  <2>5. QED BY <2>1, <2>3, <2>4, <1>1 DEF Kept, RunOK
<1>7. ASSUME NEW target \in Extended, NEW mask \in Masks, SetEventByIsr(target, mask)
      PROVE  Kept
  BY <1>7, EventConstants, <1>5, KeptBySched DEF SetEventByIsr, isrVars, resVars
<1>8. QED BY <1>2, <1>3, <1>4, <1>6, <1>7

\* GetResource at interrupt level
LEMMA IsrGetResourceKeeps ==
  ASSUME TypeOK, RunOK, CallsOK, NEW r \in Resource, IsrGetResource(r)
  PROVE  Kept
<1>1. /\ Settled(sched, rcb, taskRes, Len(isrNest)) /\ booted = TaskMax
      /\ SysOsLevel = "ISR2" => RunningIsr \in Isr
      /\ isrRes \in [Isr -> Seq(Resource)] /\ ipl \in Nat
  BY RunningFacts DEF TypeOK
<1>2. /\ SysOsLevel = "ISR2" /\ rcb[r].saveCount = 0 /\ r \in IsrAccess[RunningIsr]
      /\ rcb' = [rcb EXCEPT ![r] = [saveCount |-> Len(isrRes[RunningIsr]) + 1,
                                    savePrio  |-> IplToPrio(ipl),
                                    saveLevel |-> "ISR2"]]
      /\ UNCHANGED <<sched, taskRes, isrNest, booted, call>>
  BY DEF IsrGetResource, InIsr, GetResourceAtIsrLevel, GetResourceSafetyCheck,
         GetResourceByInterrupt, isrVars, SysOsLevel
<1>3. OccupyType[r] # "BY_TASK" BY <1>1, <1>2, ResourceConstants
<1>4. [saveCount |-> Len(isrRes[RunningIsr]) + 1,
       savePrio  |-> IplToPrio(ipl), saveLevel |-> "ISR2"] \in Rcb
  BY <1>1, <1>2, LevelsAreNat DEF Rcb
<1>5. Core(sched, rcb', taskRes) BY <1>1, <1>2, <1>3, <1>4, IsrResourceKeepsCore DEF Settled
<1>6. Settled(sched, rcb', taskRes, Len(isrNest)) BY <1>1, <1>5 DEF Settled
<1>7. QED BY <1>1, <1>2, <1>6 DEF Kept, RunOK, CallsOK, Entered

\* ReleaseResource, whoever calls it
LEMMA ReleaseResourceKeeps ==
  ASSUME TypeOK, RunOK, CallsOK, NEW r \in Resource, ReleaseAnyResource(r)
  PROVE  Kept
<1> DEFINE t == sched.running
           Q == [rcb EXCEPT ![r] = FreeRcb]
<1>1. /\ Settled(sched, rcb, taskRes, Len(isrNest)) /\ Len(isrNest) \in Nat
      /\ booted = TaskMax /\ rcb \in Rcbs /\ taskRes \in Stacks /\ t \in Task
  BY RunningFacts
<1>2. /\ rcb[r].saveCount > 0 /\ rcb' = Q
      /\ UNCHANGED <<isrNest, booted, call>>
      /\ \/ OccupyType[r] = "BY_TASK" /\ ReleaseResourceByTask(t, r)
         \/ /\ OccupyType[r] = "BY_TASK_OR_INTERRUPT"
            /\ rcb[r].saveLevel = "TASK"
            /\ ReleaseResourceByTaskOrInterrupt(t, r)
         \/ /\ OccupyType[r] # "BY_TASK"
            /\ rcb[r].saveLevel # "TASK"
            /\ ReleaseResourceByInterrupt(RunningIsr, r)
  BY DEF ReleaseAnyResource, ReleaseResource, isrVars
<1> HIDE DEF t, Q
<1>3. Core(sched, rcb, taskRes) /\ StacksMatch(rcb, taskRes) BY <1>1 DEF Settled, Core
<1>4. ASSUME taskRes' = Popped(taskRes, t), taskRes[t] # <<>> PROVE CallsOK'
  <2>1. /\ Range(Popped(taskRes, t)[t]) = Range(taskRes[t]) \ {taskRes[t][Len(taskRes[t])]}
        /\ \A u \in Task \ {t} : Popped(taskRes, t)[u] = taskRes[u]
    BY <1>1, <1>3, <1>4, PopFacts
  <2>2. \A u \in Task : Range(taskRes'[u]) \subseteq Range(taskRes[u]) BY <2>1, <1>4
  <2>3. QED BY <2>2, <1>2 DEF CallsOK
<1>5. CASE OccupyType[r] = "BY_TASK"
  <2>1. /\ TaskPriority[t] <= Ceiling[r] /\ rcb[r].saveCount = Len(taskRes[t])
        /\ taskRes' = Popped(taskRes, t)
        /\ sched' = AfterRelease(Lowered(sched, t, Ceiling[r], rcb[r].savePrio))
    BY <1>2, <1>5 DEF ReleaseResourceByTask, LowerFromCeiling, Lowered, Popped
  <2>2. taskRes[t] # <<>> BY <2>1, <1>2
  <2>3. Settled(sched', Q, taskRes', Len(isrNest)) /\ Entered(sched, sched')
    BY <2>1, <1>1, <1>2, <1>5, ReleaseByTaskSettles DEF t, Q
  <2>4. QED BY <2>1, <2>2, <2>3, <1>1, <1>2, <1>4 DEF Kept, RunOK
<1>6. CASE OccupyType[r] = "BY_TASK_OR_INTERRUPT" /\ rcb[r].saveLevel = "TASK"
  <2>1. /\ rcb[r].saveCount = Len(taskRes[t])
        /\ taskRes' = Popped(taskRes, t)
        /\ sched' = AfterRelease([sched EXCEPT !.locker = @ - 1])
    BY <1>2, <1>6 DEF ReleaseResourceByTaskOrInterrupt, Popped
  <2>2. taskRes[t] # <<>> BY <2>1, <1>2
  <2>3. Settled(sched', Q, taskRes', Len(isrNest)) /\ Entered(sched, sched')
    BY <2>1, <1>1, <1>2, <1>6, ReleaseSharedSettles DEF t, Q
  <2>4. QED BY <2>1, <2>2, <2>3, <1>1, <1>2, <1>4 DEF Kept, RunOK
<1>7. CASE OccupyType[r] # "BY_TASK" /\ rcb[r].saveLevel # "TASK"
  <2>1. taskRes' = taskRes /\ sched' = AfterRelease(sched)
    BY <1>2, <1>7 DEF ReleaseResourceByInterrupt
  <2>2. FreeRcb \in Rcb /\ FreeRcb.saveLevel # "TASK" BY DEF FreeRcb, Rcb, OS_PRIORITY_INVALID
  <2>3. Core(sched, Q, taskRes) BY <2>2, <1>3, <1>7, IsrResourceKeepsCore DEF Q
  <2>4. /\ sched.queue[0] # <<>> /\ RunningOK(sched, taskRes)
        /\ Locks(sched, taskRes, Len(isrNest))
    BY <1>1 DEF Settled
  <2>5. Settled(sched', Q, taskRes, Len(isrNest)) /\ Entered(sched, sched')
    BY <2>1, <2>3, <2>4, <1>1, AfterReleaseSettles
  <2>6. QED BY <2>1, <2>5, <1>1, <1>2 DEF Kept, RunOK, CallsOK
<1>8. QED BY <1>2, <1>5, <1>6, <1>7

\* Os_EnterISR2 and Os_ExitISR2
LEMMA InterruptsKeep ==
  ASSUME TypeOK, RunOK, CallsOK,
         (\E i \in Isr : TakeInterrupt(i)) \/ ReturnFromInterrupt
  PROVE  Kept
<1>1. /\ Settled(sched, rcb, taskRes, Len(isrNest)) /\ Len(isrNest) \in Nat
      /\ booted = TaskMax /\ isrNest \in Seq(Isr) /\ sched \in Sched
  BY RunningFacts DEF TypeOK
<1>2. ASSUME NEW i \in Isr, TakeInterrupt(i) PROVE Kept
  <2>1. /\ isrNest' = Append(isrNest, i) /\ sched' = [sched EXCEPT !.locker = @ + 1]
        /\ UNCHANGED <<rcb, taskRes, booted, call>>
    BY <1>2 DEF TakeInterrupt, EnterISR2
  <2>2. Len(isrNest') = Len(isrNest) + 1 BY <2>1, <1>1
  <2>3. Settled(sched', rcb, taskRes, Len(isrNest')) BY <2>1, <2>2, <1>1, EnterIsrSettles
  <2>4. sched'.running = sched.running BY <2>1, <1>1 DEF Sched
  <2>5. QED BY <2>1, <2>3, <2>4, <1>1 DEF Kept, RunOK, CallsOK, Entered
<1>3. CASE ReturnFromInterrupt
  <2> DEFINE n == Len(isrNest) - 1
             x == [sched EXCEPT !.locker = @ - 1]
  <2>1. /\ isrNest # <<>> /\ isrNest' = Front(isrNest)
        /\ sched' = IF isrNest' = <<>> THEN ExitISR2SwitchTask(x) ELSE x
        /\ UNCHANGED <<rcb, taskRes, booted, call>>
    BY <1>3 DEF ReturnFromInterrupt, ExitISR2
  <2>2. isrNest' \in Seq(Isr) /\ Len(isrNest') = n BY <2>1, <1>1, FrontAndLast
  <2>3. n \in Nat /\ Len(isrNest) = n + 1 /\ (isrNest' = <<>> <=> n = 0)
    <3>1. Len(isrNest) \in Nat /\ Len(isrNest) >= 1 BY <2>1, <1>1
    <3>2. isrNest' = <<>> <=> Len(isrNest') = 0 BY <2>2
    <3>3. QED BY <3>1, <3>2, <2>2
  <2> HIDE DEF n
  <2>4. Settled(sched, rcb, taskRes, n + 1) BY <2>3, <1>1
  <2>5. /\ n # 0 => Settled(x, rcb, taskRes, n) /\ x.running = sched.running
        /\ n = 0 => /\ Settled(ExitISR2SwitchTask(x), rcb, taskRes, 0)
                    /\ Entered(sched, ExitISR2SwitchTask(x))
    BY <2>3, <2>4, ExitIsrSettles
  <2> HIDE DEF x
  <2>6. Settled(sched', rcb, taskRes, n) /\ Entered(sched, sched') BY <2>1, <2>3, <2>5 DEF Entered
  <2>7. QED BY <2>1, <2>2, <2>6, <1>1 DEF Kept, RunOK, CallsOK
<1>4. QED BY <1>2, <1>3

-----------------------------------------------------------------------------
(* Every step                                                               *)

\* Every step of the running system
LEMMA RunningStepKeeps ==
  ASSUME TypeOK, RunOK, CallsOK, NoChainWhileNonPreemptable, Next
  PROVE  Kept
<1>1. /\ sched.running \in Task /\ sched.running # OS_TASK_INVALID
      /\ booted = TaskMax /\ 0 \in Task
  BY RunningFacts, QueueConstants DEF Started, Task
<1>2. ~ InitTaskTCB /\ ~ StartScheduler BY <1>1, QueueConstants DEF InitTaskTCB, StartScheduler
<1>3. ASSUME NEW target \in Extended, NEW mask \in Masks, SetEventByIsr(target, mask)
      PROVE  Kept
  BY <1>1, <1>3, EventServicesKeep
<1>4. QED
  BY <1>2, <1>3, TaskServicesKeep, GetResourceKeeps, EventServicesKeep,
     IsrGetResourceKeeps, ReleaseResourceKeeps, InterruptsKeep DEF Next

(* Before the scheduler runs only startup steps are possible.               *)
LEMMA BootOnlyStarts ==
  ASSUME BootOK, Next
  PROVE  InitTaskTCB \/ StartScheduler
<1>1. ~ Started /\ SysOsLevel = "TASK" /\ isrNest = <<>> BY DEF BootOK, Started, SysOsLevel
<1>2. OS_TASK_INVALID \notin Task BY QueueConstants DEF Task, OS_TASK_INVALID
<1>3. \A t \in Task : ~ InTask(t) /\ ~ Calling(t) BY <1>1, <1>2 DEF InTask, Calling, Started
<1>4. QED
  BY <1>1, <1>3 DEF Next, ActivateTask, TerminateTask, ChainTask, Schedule,
       GetResourceCheck, GetResource, WaitForEvents, ClearEvents, SetEventCheck,
       SetEventByTask, IsrGetResource, ReleaseAnyResource, SetEventByIsr,
       TakeInterrupt, EnterISR2, ReturnFromInterrupt, ExitISR2, InIsr, Started

(* The invariant is inductive, and a task that gets the processor is the    *)
(* first of the highest priority.                                           *)
LEMMA NextKeepsInvariant ==
  ASSUME NoChainWhileNonPreemptable, IInv, [Next]_vars
  PROVE  IInv' /\ Entered(sched, sched')
<1>1. TypeOK /\ IdleIsReady /\ CallsOK BY DEF IInv
<1>2. OtherTypesOK' BY <1>1, OtherTypesKept
<1>3. CASE UNCHANGED vars
  BY <1>3 DEF vars, IInv, TypeOK, IdleIsReady, CallsOK, BootOK, RunOK, Entered
<1>4. CASE Next /\ RunOK
  <2>1. Kept BY <1>1, <1>4, RunningStepKeeps
  <2>2. IdleIsReady' BY <2>1 DEF Kept, RunOK, Settled, IdleIsReady
  <2>3. TypeOK' BY <2>1, <1>2 DEF Kept, OtherTypesOK, TypeOK, RunOK, Settled, Core
  <2>4. QED BY <2>1, <2>2, <2>3 DEF Kept, IInv
<1>5. CASE Next /\ BootOK
  <2>1. InitTaskTCB \/ StartScheduler BY <1>5, BootOnlyStarts
  <2>2. (BootOK \/ RunOK)' /\ IdleIsReady' /\ Entered(sched, sched') BY <2>1, <1>1, <1>5, BootStep
  <2>3. CallsOK' BY <2>1, <1>1 DEF InitTaskTCB, StartScheduler, resVars, CallsOK
  <2>4. TypeOK' BY <2>2, <1>2 DEF OtherTypesOK, TypeOK, BootOK, RunOK, Settled, Core
  <2>5. QED BY <2>2, <2>3, <2>4 DEF IInv
<1>6. QED BY <1>3, <1>4, <1>5 DEF IInv

-----------------------------------------------------------------------------
(* What the invariant says                                                  *)

\* With the top of the queue up to date the processor belongs to its task.
LEMMA TopIsHigh ==
  ASSUME NEW s \in Sched, s.queue[0] # <<>>, HighIsTop(s), HighIsFirst(s)
  PROVE  TopOfQueue(s) = s.high
<1> DEFINE p == GetHighPrio(s.queue)
<1>1. /\ p \in Prio /\ s.queue[p] # <<>>
      /\ \A o \in Prio : s.queue[o] # <<>> => o <= p
  BY GetHighPrioIsTop DEF Sched, Queues
<1> HIDE DEF p
<1>2. /\ s.highPrio \in Prio /\ s.queue[s.highPrio] # <<>>
      /\ \A o \in Prio : s.queue[o] # <<>> => o <= s.highPrio
  BY DEF HighIsTop
<1>3. p = s.highPrio BY <1>1, <1>2 DEF Prio
<1>4. QED BY <1>3 DEF TopOfQueue, GetFirst, HighIsFirst, First, p

\* Occupied tasks are first at the priority they run at.
LEMMA InvariantMeansRaisedFirst == IInv => RaisedTasksAreFirst
<1> SUFFICES ASSUME IInv PROVE RaisedTasksAreFirst OBVIOUS
<1>1. CASE BootOK BY <1>1, TaskConstants DEF BootOK, Started, Prio, RaisedTasksAreFirst
<1>2. CASE RunOK
  <2>1. First(sched.queue, sched.runPrio[sched.running], sched.running)
    BY <1>2 DEF RunOK, Settled, RunningOK
  <2>2. OccupiedTasksNest(sched.queue, sched.runPrio, taskRes)
    BY <1>2 DEF RunOK, Settled, Core, QueuesOK
  <2>3. \A t \in Task :
          sched.runPrio[t] > TaskPriority[t] => First(sched.queue, sched.runPrio[t], t)
    BY <2>2 DEF OccupiedTasksNest, Occupied
  <2>4. QED BY <2>1, <2>3 DEF RaisedTasksAreFirst, First
<1>3. QED BY <1>1, <1>2 DEF IInv

\* Locks is DispatchLockerCounts without the test for startup.
LEMMA InvariantMeansLocks == IInv => DispatchLockerCounts
BY DEF BootOK, DispatchLockerCounts, Started, RunOK, Settled, Locks, IInv

\* Unlocked, the running task is SysHighTaskId, the first of the top.
LEMMA InvariantMeansHighest == IInv => HighestRuns
<1> SUFFICES ASSUME IInv, Started, sched.locker = 0
             PROVE  sched.running = TopOfQueue(sched)
  BY DEF HighestRuns
<1>1. RunOK BY DEF IInv, BootOK, Started
<1>2. /\ Core(sched, rcb, taskRes) /\ RunningOK(sched, taskRes) /\ HighIsTop(sched)
      /\ HighIsCurrent(sched, taskRes) /\ sched.queue[0] # <<>>
      /\ sched.high = sched.running /\ Locks(sched, taskRes, Len(isrNest))
      /\ Len(isrNest) \in Nat
  BY <1>1, RunningFacts DEF RunOK, Settled, IInv
<1>3. sched.running \notin NonPreemptable /\ SharedWithIsr(taskRes[sched.running]) = {}
  BY <1>2, UnlockedHoldsNoShared
<1>4. HighIsFirst(sched) BY <1>2, <1>3 DEF HighIsCurrent
<1>5. QED BY <1>2, <1>4, TopIsHigh DEF Core

(* The set RunPrioIsCeiling takes the maximum of                            *)
LEMMA InvariantMeansRunPrio == IInv => RunPrioIsCeiling
<1> SUFFICES ASSUME IInv, NEW t \in Task
             PROVE  sched.runPrio[t] =
                      Max({TaskPriority[t]}
                          \cup {InterResCeiling[t] : x \in {y \in {t} : sched.interRes[y]}}
                          \cup {Ceiling[r] : r \in {x \in Range(taskRes[t]) :
                                                      OccupyType[x] = "BY_TASK"}})
  BY DEF RunPrioIsCeiling
<1> DEFINE p == sched.runPrio[t]
           A == {TaskPriority[t]}
                \cup {InterResCeiling[t] : x \in {y \in {t} : sched.interRes[y]}}
                \cup {Ceiling[r] : r \in {x \in Range(taskRes[t]) : OccupyType[x] = "BY_TASK"}}
<1>1. Core(sched, rcb, taskRes) BY DEF IInv, BootOK, RunOK, Settled
<1>2. /\ sched.queue \in Queues /\ sched.runPrio \in Prios /\ taskRes \in Stacks
      /\ EntriesInOrder(sched.queue, sched.runPrio)
      /\ OccupiedTasksNest(sched.queue, sched.runPrio, taskRes)
      /\ LevelsRestorable(sched.queue, sched.runPrio, sched.interRes, rcb, taskRes)
  BY <1>1 DEF Core, Stacks, Sched, Queues, Prios, QueuesOK
<1>3. /\ p \in Prio /\ TaskPriority[t] \in Prio /\ InterResCeiling[t] \in Prio
      /\ \A r \in HeldByTask(taskRes, t) : Ceiling[r] \in Prio
  BY <1>2, TaskConstants, HeldAreResources DEF Prios
<1>4. \A a : a \in A <=> \/ a = TaskPriority[t]
                         \/ sched.interRes[t] /\ a = InterResCeiling[t]
                         \/ \E r \in HeldByTask(taskRes, t) : a = Ceiling[r]
  BY DEF HeldByTask
<1> HIDE DEF p, A
<1>5. TaskPriority[t] <= p /\ \A r \in HeldByTask(taskRes, t) : Ceiling[r] <= p
  BY <1>2 DEF OccupiedTasksNest, LevelsRestorable, LevelRestorable, p
<1>6. sched.interRes[t] => InterResCeiling[t] <= p
  BY <1>2, <1>3, FirstIsBelowPrio DEF LevelsRestorable, p
<1>7. p \in A
  <2>1. CASE p > TaskPriority[t]
    BY <2>1, <1>2, <1>3, <1>4 DEF OccupiedTasksNest, Occupied, p, LevelsRestorable
  <2>2. CASE ~ (p > TaskPriority[t]) BY <2>2, <1>3, <1>4, <1>5 DEF Prio
  <2>3. QED BY <2>1, <2>2
<1>8. \A a \in A : a \in Prio /\ p >= a BY <1>3, <1>4, <1>5, <1>6 DEF Prio
<1>9. \A x \in A : (\A a \in A : x >= a) => x = p BY <1>3, <1>7, <1>8 DEF Prio
<1>10. Max(A) = p BY <1>7, <1>8, <1>9 DEF Max
<1>11. QED BY <1>10 DEF A, p

(* The ceiling protocol among tasks: whatever task runs, a resource of tasks*)
(* that it has access to is free or its own.                                *)
CeilingExcludesTasks ==
  Started =>
    \A r \in TaskAccess[sched.running] :
      OccupyType[r] = "BY_TASK" /\ rcb[r].saveCount > 0 =>
        r \in Range(taskRes[sched.running])

\* NobodyHolds, for every resource the running task has access to
LEMMA InvariantMeansExclusion == IInv => CeilingExcludesTasks
<1> SUFFICES ASSUME IInv, Started, NEW r \in TaskAccess[sched.running],
                    OccupyType[r] = "BY_TASK", rcb[r].saveCount > 0,
                    r \notin Range(taskRes[sched.running])
             PROVE  FALSE
  BY DEF CeilingExcludesTasks
<1>1. RunOK /\ TypeOK BY DEF IInv, BootOK, Started
<1>2. /\ Settled(sched, rcb, taskRes, Len(isrNest)) /\ Len(isrNest) \in Nat
      /\ sched.running \in Task /\ rcb \in Rcbs /\ taskRes \in Stacks
  BY <1>1, RunningFacts
<1>3. r \in Resource /\ TaskPriority[sched.running] <= Ceiling[r] BY <1>2, ResourceConstants
<1>4. \A u \in Task : r \notin Range(taskRes[u]) BY <1>2, <1>3, NobodyHolds
<1>5. StacksMatch(rcb, taskRes) /\ rcb[r].saveCount \in Nat
  BY <1>2, <1>3 DEF Settled, Core, Rcbs, Rcb
<1>6. PICK u \in Task : /\ rcb[r].saveCount <= Len(taskRes[u])
                        /\ taskRes[u][rcb[r].saveCount] = r
  BY <1>3, <1>5 DEF StacksMatch
<1>7. taskRes[u] \in Seq(Resource) BY <1>2 DEF Stacks
<1>8. rcb[r].saveCount \in 1 .. Len(taskRes[u]) BY <1>5, <1>6, <1>7
<1>9. r \in Range(taskRes[u]) BY <1>6, <1>7, <1>8 DEF Range
<1>10. QED BY <1>4, <1>9

-----------------------------------------------------------------------------
(* The theorems                                                             *)

(* The invariant holds in every state of every configuration in which no    *)
(* non-preemptable task calls ChainTask (Os_Task.c, Os_Resource.c,          *)
(* Os_Event.c, Os_Interrupt.c).                                             *)
THEOREM InvariantHolds ==
  ASSUME NoChainWhileNonPreemptable
  PROVE  Spec => []IInv
<1>1. Init => IInv BY InitEstablishes
<1>2. IInv /\ [Next]_vars => IInv' BY NextKeepsInvariant
<1>3. QED BY <1>1, <1>2, PTL DEF Spec

(* Type correctness: also that SysDispatchLocker never falls below zero and *)
(* TaskRunPrio never leaves the priorities of tasks.                        *)
THEOREM TypeCorrect ==
  ASSUME NoChainWhileNonPreemptable
  PROVE  Spec => []TypeOK
<1>1. IInv => TypeOK BY DEF IInv
<1>2. QED BY <1>1, InvariantHolds, PTL

(* Os_GetHighPrio always finds a task: the idle task never leaves its queue.*)
THEOREM IdleStaysReady ==
  ASSUME NoChainWhileNonPreemptable
  PROVE  Spec => []IdleIsReady
<1>1. IInv => IdleIsReady BY DEF IInv
<1>2. QED BY <1>1, InvariantHolds, PTL

(* Os_ReadyQueueRemove drops the task its caller means.                     *)
THEOREM RaisedStayFirst ==
  ASSUME NoChainWhileNonPreemptable
  PROVE  Spec => []RaisedTasksAreFirst
BY InvariantHolds, InvariantMeansRaisedFirst, PTL

(* SysDispatchLocker counts interrupts, shared resources and a              *)
(* non-preemptable task.                                                    *)
THEOREM LockerCounts ==
  ASSUME NoChainWhileNonPreemptable
  PROVE  Spec => []DispatchLockerCounts
BY InvariantHolds, InvariantMeansLocks, PTL

(* With the dispatcher unlocked the first task of the highest priority runs.*)
THEOREM HighestTaskRuns ==
  ASSUME NoChainWhileNonPreemptable
  PROVE  Spec => []HighestRuns
BY InvariantHolds, InvariantMeansHighest, PTL

(* Whatever order resources are taken in and tasks preempt each other, a    *)
(* task runs at the highest of the ceilings it is entitled to.              *)
THEOREM RunsAtCeiling ==
  ASSUME NoChainWhileNonPreemptable
  PROVE  Spec => []RunPrioIsCeiling
BY InvariantHolds, InvariantMeansRunPrio, PTL

(* No task meets an occupied resource of tasks: mutual exclusion by ceiling.*)
THEOREM CeilingExcludesOtherTasks ==
  ASSUME NoChainWhileNonPreemptable
  PROVE  Spec => []CeilingExcludesTasks
BY InvariantHolds, InvariantMeansExclusion, PTL

(* A task that is switched in is the first of the highest priority.         *)
THEOREM SwitchesEnterHighest ==
  ASSUME NoChainWhileNonPreemptable
  PROVE  Spec => SwitchEntersHighest
<1>1. IInv /\ [Next]_vars => [sched'.running # sched.running =>
                                sched'.running = TopOfQueue(sched')]_vars
  <2> SUFFICES ASSUME IInv, [Next]_vars, sched'.running # sched.running
               PROVE  sched'.running = TopOfQueue(sched')
    OBVIOUS
  <2>1. IInv' /\ Entered(sched, sched') BY NextKeepsInvariant
  <2>2. HighIsFirst(sched') /\ sched'.high = sched'.running BY <2>1 DEF Entered
  <2>3. RunOK' BY <2>1, RunningStepKeeps DEF IInv, BootOK, vars, Kept
  <2>4. QED BY <2>2, <2>3, TopIsHigh DEF RunOK, Settled, Core
<1>2. QED BY <1>1, InvariantHolds, PTL DEF Spec, SwitchEntersHighest


-----------------------------------------------------------------------------
(* Counting the entries of a task in a queue                                *)

\* A task has finitely many entries.
LEMMA OccurrencesAreFinite ==
  ASSUME NEW x \in Seq(Task), NEW t
  PROVE  /\ IsFiniteSet({i \in DOMAIN x : x[i] = t})
         /\ Occurrences(x, t) \in Nat
         /\ \A i \in 1 .. Len(x) : x[i] = t => Occurrences(x, t) # 0
<1> DEFINE X == {i \in DOMAIN x : x[i] = t}
<1>1. Len(x) \in Nat /\ DOMAIN x = 1 .. Len(x) OBVIOUS
<1>2. IsFiniteSet(1 .. Len(x)) /\ X \subseteq 1 .. Len(x) BY <1>1, FS_Interval
<1>3. IsFiniteSet(X) BY <1>2, FS_Subset
<1>4. \A i \in 1 .. Len(x) : x[i] = t => i \in X BY <1>1
<1> HIDE DEF X
<1>5. Cardinality(X) \in Nat /\ (Cardinality(X) = 0 => X = {})
  BY <1>3, FS_CardinalityType, FS_EmptySet
<1>6. QED BY <1>3, <1>4, <1>5 DEF Occurrences, X

\* Queueing a task at the tail adds an entry of that task.
LEMMA OccurrencesAppend ==
  ASSUME NEW x \in Seq(Task), NEW u \in Task, NEW t
  PROVE  Occurrences(Append(x, u), t) = Occurrences(x, t) + IF u = t THEN 1 ELSE 0
<1> DEFINE X == {i \in DOMAIN x : x[i] = t}
           y == Append(x, u)
           Y == {i \in DOMAIN y : y[i] = t}
           n == Len(x) + 1
<1>1. /\ Len(x) \in Nat /\ DOMAIN x = 1 .. Len(x) /\ DOMAIN y = 1 .. n
      /\ \A i \in 1 .. Len(x) : y[i] = x[i]
      /\ y[n] = u
  OBVIOUS
<1> HIDE DEF y
<1>2. IsFiniteSet(X) BY OccurrencesAreFinite
<1>3. n \notin X BY <1>1
<1>4. Occurrences(x, t) = Cardinality(X) /\ Occurrences(Append(x, u), t) = Cardinality(Y)
  BY DEF Occurrences, y
<1>5. Cardinality(X) \in Nat BY <1>2, FS_CardinalityType
<1>6. CASE u = t
  <2>1. Y = X \cup {n} BY <1>1, <1>6
  <2>2. Cardinality(X \cup {n}) = Cardinality(X) + 1 BY <1>2, <1>3, FS_AddElement
  <2> HIDE DEF X, Y
  <2>3. QED BY <2>1, <2>2, <1>6, <1>4
<1>7. CASE u # t
  <2>1. Y = X BY <1>1, <1>7
  <2> HIDE DEF X, Y
  <2>2. QED BY <2>1, <1>7, <1>4, <1>5
<1>8. QED BY <1>6, <1>7

\* Dropping the first entry takes one from its task.
LEMMA OccurrencesTail ==
  ASSUME NEW x \in Seq(Task), x # <<>>, NEW t
  PROVE  Occurrences(x, t) = Occurrences(Tail(x), t) + IF Head(x) = t THEN 1 ELSE 0
<1> DEFINE X == {i \in DOMAIN x : x[i] = t}
           y == Tail(x)
           Y == {i \in DOMAIN y : y[i] = t}
           f == [i \in Y |-> i + 1]
<1>1. /\ Len(x) \in Nat \ {0} /\ DOMAIN x = 1 .. Len(x) /\ DOMAIN y = 1 .. Len(x) - 1
      /\ \A i \in 1 .. Len(x) - 1 : y[i] = x[i + 1]
      /\ Head(x) = x[1] /\ y \in Seq(Task)
  OBVIOUS
<1> HIDE DEF y
<1>2. IsFiniteSet(Y) /\ IsFiniteSet(X) BY <1>1, OccurrencesAreFinite
<1>3. f \in Bijection(Y, X \ {1})
  <2>1. \A i \in Y : i + 1 \in X \ {1} BY <1>1
  <2>2. f \in [Y -> X \ {1}] BY <2>1
  <2>3. \A i, j \in Y : f[i] = f[j] => i = j BY <1>1
  <2>4. \A i \in X \ {1} : \E j \in Y : f[j] = i
    <3> SUFFICES ASSUME NEW i \in X \ {1} PROVE \E j \in Y : f[j] = i OBVIOUS
    <3>1. i - 1 \in Y /\ f[i - 1] = i BY <1>1
    <3>2. QED BY <3>1
  <2> HIDE DEF f, X, Y
  <2>5. QED BY <2>2, <2>3, <2>4 DEF Bijection, Injection, Surjection, IsInjective
<1> HIDE DEF f
<1>4. Cardinality(X \ {1}) = Cardinality(Y) BY <1>2, <1>3, FS_Bijection DEF ExistsBijection
<1>5. Cardinality(Y) \in Nat /\ Cardinality(X) \in Nat BY <1>2, FS_CardinalityType
<1>6. 1 \in X <=> Head(x) = t BY <1>1
<1>7. Cardinality(X \ {1}) = IF 1 \in X THEN Cardinality(X) - 1 ELSE Cardinality(X)
  BY <1>2, FS_RemoveElement
<1>8. Occurrences(x, t) = Cardinality(X) /\ Occurrences(Tail(x), t) = Cardinality(Y)
  BY DEF Occurrences, y
<1> HIDE DEF X, Y
<1>9. QED BY <1>4, <1>5, <1>6, <1>7, <1>8

\* The entries of a task at its own priority.
Own(q, t) == Occurrences(q[TaskPriority[t]], t)

LEMMA OwnIsNat ==
  ASSUME NEW q \in Queues, NEW t \in Task
  PROVE  /\ Own(q, t) \in Nat
         /\ First(q, TaskPriority[t], t) => Own(q, t) # 0
BY TaskConstants, OccurrencesAreFinite, FirstIsEntry DEF Queues, Own

\* Os_ReadyQueueInsert of an activation or a wakeup
LEMMA OwnAfterInsertTail ==
  ASSUME NEW q \in Queues, NEW t \in Task, NEW u \in Task
  PROVE  Own(InsertTail(q, TaskPriority[t], t), u) = Own(q, u) + IF t = u THEN 1 ELSE 0
<1> DEFINE p == TaskPriority[t]
           z == InsertTail(q, p, t)
<1>1. /\ p \in Prio /\ TaskPriority[u] \in Prio
      /\ q[p] \in Seq(Task) /\ q[TaskPriority[u]] \in Seq(Task)
  BY TaskConstants DEF Queues
<1>2. z[p] = Append(q[p], t) /\ \A o \in Prio \ {p} : z[o] = q[o] BY <1>1 DEF InsertTail, Queues
<1> HIDE DEF z
<1>3. CASE TaskPriority[u] = p
  <2>1. Occurrences(z[p], u) = Occurrences(q[p], u) + IF t = u THEN 1 ELSE 0
    BY <1>1, <1>2, OccurrencesAppend
  <2>2. QED BY <2>1, <1>3 DEF Own, z
<1>4. CASE TaskPriority[u] # p BY <1>1, <1>2, <1>4, OwnIsNat DEF Own, z
<1>5. QED BY <1>3, <1>4

\* Os_ReadyQueueInsert of a task that is raised
LEMMA OwnAfterInsertHead ==
  ASSUME NEW q \in Queues, NEW t \in Task, NEW c \in Prio, c # TaskPriority[t],
         NEW u \in Task
  PROVE  Own(InsertHead(q, c, t), u) = Own(q, u)
<1> DEFINE z == InsertHead(q, c, t)
<1>1. TaskPriority[u] \in Prio /\ q[c] \in Seq(Task) /\ q[TaskPriority[u]] \in Seq(Task)
  BY TaskConstants DEF Queues
<1>2. z[c] = <<t>> \o q[c] /\ \A o \in Prio \ {c} : z[o] = q[o] BY <1>1 DEF InsertHead, Queues
<1>3. /\ z[c] \in Seq(Task) /\ z[c] # <<>>
      /\ Head(z[c]) = t /\ Tail(z[c]) = q[c]
  BY <1>1, <1>2
<1> HIDE DEF z
<1>4. CASE TaskPriority[u] = c
  <2>1. Occurrences(z[c], u) = Occurrences(q[c], u) + IF t = u THEN 1 ELSE 0
    BY <1>3, OccurrencesTail
  <2>2. Occurrences(q[c], u) \in Nat BY <1>1, OccurrencesAreFinite
  <2>3. QED BY <2>1, <2>2, <1>4 DEF Own, z
<1>5. CASE TaskPriority[u] # c BY <1>1, <1>2, <1>5 DEF Own, z
<1>6. QED BY <1>4, <1>5

\* Os_ReadyQueueRemove of the task its caller means
LEMMA OwnAfterRemove ==
  ASSUME NEW q \in Queues, NEW t \in Task, NEW p \in Prio, First(q, p, t),
         NEW u \in Task
  PROVE  Own(RemoveHead(q, p), u) =
           Own(q, u) - IF t = u /\ p = TaskPriority[t] THEN 1 ELSE 0
<1> DEFINE z == RemoveHead(q, p)
<1>1. /\ TaskPriority[u] \in Prio /\ q[p] \in Seq(Task) /\ q[TaskPriority[u]] \in Seq(Task)
      /\ q[p] # <<>> /\ Head(q[p]) = t
  BY TaskConstants DEF Queues, First
<1>2. z[p] = Tail(q[p]) /\ \A o \in Prio \ {p} : z[o] = q[o] BY <1>1 DEF RemoveHead, Queues
<1> HIDE DEF z
<1>3. Own(q, u) \in Nat BY OwnIsNat
<1>4. CASE TaskPriority[u] = p
  <2>1. Occurrences(q[p], u) = Occurrences(z[p], u) + IF t = u THEN 1 ELSE 0
    BY <1>1, <1>2, OccurrencesTail
  <2>2. Tail(q[p]) \in Seq(Task) BY <1>1
  <2>3. Occurrences(z[p], u) \in Nat BY <2>2, <1>2, OccurrencesAreFinite
  <2>4. QED BY <2>1, <2>3, <1>3, <1>4 DEF Own, z
<1>5. CASE TaskPriority[u] # p BY <1>1, <1>2, <1>3, <1>5 DEF Own, z
<1>6. QED BY <1>4, <1>5

-----------------------------------------------------------------------------
(* What a task is owed: its activations, and whether it waits               *)

ActivationsOK(s) == \A t \in Task : ActivationOK(s, t)

\* Whatever else a step does to the record, it owes every task the same.
SameLoad(s, z) ==
  /\ z.actCount = s.actCount
  /\ \A t \in Task :
       /\ Own(z.queue, t) = Own(s.queue, t)
       /\ z.state[t] = "WAITING" <=> s.state[t] = "WAITING"
       /\ z.state[t] = "SUSPENDED" <=> s.state[t] = "SUSPENDED"

LEMMA SameLoadKeeps ==
  ASSUME NEW s, NEW z, SameLoad(s, z), ActivationsOK(s)
  PROVE  ActivationsOK(z)
BY DEF SameLoad, ActivationsOK, ActivationOK, Own

LEMMA SameLoadTwice ==
  ASSUME NEW s, NEW z, NEW y, SameLoad(s, z), SameLoad(z, y)
  PROVE  SameLoad(s, y)
BY DEF SameLoad

\* A task that is first at its own priority can run.
LEMMA FirstIsActive ==
  ASSUME NEW s \in Sched, ActivationsOK(s), NEW t \in Task, First(s.queue, TaskPriority[t], t)
  PROVE  s.state[t] \notin {"SUSPENDED", "WAITING"} /\ s.actCount[t] # 0
BY OwnIsNat DEF Sched, Queues, ActivationsOK, ActivationOK, Own

LEMMA GetInternalKeepsCounts ==
  ASSUME NEW s \in Sched
  PROVE  /\ GetInternalResource(s).actCount = s.actCount
         /\ GetInternalResource(s).state = s.state
<1> DEFINE t == s.running
           c == InterResCeiling[t]
           in == [s EXCEPT !.runPrio[t] = c, !.queue = InsertHead(@, c, t), !.interRes[t] = TRUE]
<1>1. in.actCount = s.actCount /\ in.state = s.state BY DEF Sched
<1>2. GetInternalResource(s) = IF c > s.runPrio[t] THEN RaiseHigh(in, t, c) ELSE s
  BY DEF GetInternalResource
<1>3. \/ RaiseHigh(in, t, c) = in
      \/ RaiseHigh(in, t, c) = [in EXCEPT !.high = t, !.highPrio = c]
  BY DEF RaiseHigh
<1>4. RaiseHigh(in, t, c).actCount = in.actCount /\ RaiseHigh(in, t, c).state = in.state
  BY <1>3, ZenonT(30) DEF Sched
<1> HIDE DEF in
<1>5. QED BY <1>1, <1>2, <1>4

(* The states Os_SwitchTask leaves behind                                   *)
LEMMA SwitchTaskStates ==
  ASSUME NEW s \in Sched, s.high \in Task, s.highPrio \in Prio
  PROVE  LET z == SwitchTask(s)
             h == s.high
         IN  /\ z.actCount = s.actCount
             /\ z.state[h] = "RUNNING"
             /\ \A u \in Task \ {h} :
                  z.state[u] = IF u = s.running /\ s.state[u] = "RUNNING"
                               THEN "READY" ELSE s.state[u]
<1> DEFINE h == s.high
           left == IF s.running # OS_TASK_INVALID /\ s.state[s.running] = "RUNNING"
                   THEN [s EXCEPT !.state[s.running] = "READY"]
                   ELSE s
           next == [left EXCEPT !.running = h,
                                !.locker = IF h \in NonPreemptable THEN 1 ELSE @]
           got == GetInternalResource(next)
           z == [got EXCEPT !.state[h] = "RUNNING"]
<1>1. OS_TASK_INVALID \notin Task BY QueueConstants DEF Task, OS_TASK_INVALID
<1>2. /\ left \in Sched /\ left.actCount = s.actCount
      /\ \A u \in Task : left.state[u] = IF u = s.running /\ s.state[u] = "RUNNING"
                                         THEN "READY" ELSE s.state[u]
  BY <1>1 DEF Sched, TaskStates
<1> HIDE DEF left
<1>3. next \in Sched /\ next.actCount = left.actCount /\ next.state = left.state
      /\ next.running = h /\ next.high = left.high /\ next.highPrio = left.highPrio
  BY <1>2 DEF Sched
<1> HIDE DEF next
<1>4. got.actCount = next.actCount /\ got.state = next.state BY <1>3, GetInternalKeepsCounts
<1>5. got \in [state : [Task -> TaskStates], actCount : [Task -> Nat],
               runPrio : [Task -> Prio], interRes : [Task -> BOOLEAN],
               queue : [Prio -> Seq(Task)],
               highPrio : Prio \cup {OS_PRIORITY_INVALID},
               high : Task \cup {OS_TASK_INVALID},
               running : Task \cup {OS_TASK_INVALID}, locker : Nat]
  BY <1>3, GetInternalFields DEF left, Sched
<1> HIDE DEF got
<1>6. /\ z.actCount = got.actCount /\ z.state[h] = "RUNNING"
      /\ \A u \in Task \ {h} : z.state[u] = got.state[u]
  BY <1>5
<1>7. z = SwitchTask(s) BY DEF SwitchTask, got, next, left
<1> HIDE DEF z
<1>8. QED BY <1>2, <1>3, <1>4, <1>6, <1>7

(* ... and the entries                                                      *)
LEMMA SwitchKeepsLoad ==
  ASSUME NEW s \in Sched, s.high \in Task, s.highPrio \in Prio,
         TaskPriority[s.high] <= s.runPrio[s.high],
         s.state[s.high] \notin {"SUSPENDED", "WAITING"}
  PROVE  SameLoad(s, SwitchTask(s))
<1> DEFINE z == SwitchTask(s)
           h == s.high
           c == InterResCeiling[h]
<1>1. /\ z.actCount = s.actCount /\ z.state[h] = "RUNNING"
      /\ \A u \in Task \ {h} :
           z.state[u] = IF u = s.running /\ s.state[u] = "RUNNING" THEN "READY" ELSE s.state[u]
  BY SwitchTaskStates
<1>2. RaisedIfInternal(s, z) BY SwitchTaskFields
<1>3. \A u \in Task : Own(z.queue, u) = Own(s.queue, u)
  <2>1. CASE ~ (c > s.runPrio[h]) BY <2>1, <1>2 DEF RaisedIfInternal
  <2>2. CASE c > s.runPrio[h]
    <3>1. z.queue = InsertHead(s.queue, c, h) BY <2>2, <1>2 DEF RaisedIfInternal
    <3>2. s.queue \in Queues /\ c \in Prio /\ TaskPriority[h] \in Prio /\ s.runPrio[h] \in Prio
      BY TaskConstants DEF Sched, Queues
    <3>3. c # TaskPriority[h] BY <2>2, <3>2 DEF Prio
    <3>4. QED BY <3>1, <3>2, <3>3, OwnAfterInsertHead
  <2>3. QED BY <2>1, <2>2
<1> HIDE DEF z
<1>4. QED BY <1>1, <1>3 DEF SameLoad, z

(* Os_SwitchTask enters a task that has an activation to run.               *)
LEMMA SwitchToTopKeepsLoad ==
  ASSUME NEW s, NEW R, NEW S, Core(s, R, S), HighIsTop(s), HighIsFirst(s), ActivationsOK(s)
  PROVE  SameLoad(s, SwitchTask(s))
<1>1. /\ s \in Sched /\ S \in Stacks /\ s.high \in Task /\ s.highPrio \in Prio
      /\ QueuesOK(s.queue, s.runPrio, s.interRes, R, S)
  BY DEF Core, Stacks, HighIsTop
<1>2. s.queue \in Queues /\ s.runPrio \in Prios BY <1>1 DEF Sched, Queues, Prios
<1>3. /\ First(s.queue, TaskPriority[s.high], s.high)
      /\ s.runPrio[s.high] = s.highPrio
  BY <1>1, <1>2, TopRunsAtItsPrio DEF HighIsTop, HighIsFirst, QueuesOK
<1>4. s.state[s.high] \notin {"SUSPENDED", "WAITING"} BY <1>1, <1>3, FirstIsActive
<1>5. TaskPriority[s.high] <= s.runPrio[s.high] BY <1>1 DEF QueuesOK, OccupiedTasksNest
<1>6. QED BY <1>1, <1>4, <1>5, SwitchKeepsLoad

\* Resetting SysDispatchLocker and Os_Hal_Dispatch
LEMMA GiveUpKeepsLoad ==
  ASSUME NEW s, NEW R, NEW S, Core(s, R, S), HighIsTop(s), HighIsFirst(s), ActivationsOK(s)
  PROVE  SameLoad(s, GiveUp(s))
<1> DEFINE u == [s EXCEPT !.locker = 0]
<1>1. /\ u \in Sched
      /\ u.queue = s.queue /\ u.runPrio = s.runPrio /\ u.interRes = s.interRes
      /\ u.state = s.state /\ u.actCount = s.actCount
      /\ u.high = s.high /\ u.highPrio = s.highPrio
  BY DEF Core, Sched
<1>2. GiveUp(s) = SwitchTask(u) BY DEF GiveUp
<1> HIDE DEF u
<1>3. SameLoad(s, u) BY <1>1 DEF SameLoad
<1>4. Core(u, R, S) /\ HighIsTop(u) /\ HighIsFirst(u)
  BY <1>1 DEF Core, WaitersHoldNothing, HighIsTop, HighIsFirst
<1>5. SameLoad(u, SwitchTask(u)) BY <1>3, <1>4, SameLoadKeeps, SwitchToTopKeepsLoad
<1>6. QED BY <1>2, <1>3, <1>5, SameLoadTwice

LEMMA UpdateHighKeepsLoad ==
  ASSUME NEW s \in Sched
  PROVE  SameLoad(s, UpdateHighPrioTask(s))
<1> DEFINE u == UpdateHighPrioTask(s)
<1>1. u.actCount = s.actCount /\ u.state = s.state /\ u.queue = s.queue
  BY DEF UpdateHighPrioTask, Sched
<1>2. QED BY <1>1 DEF SameLoad

\* The end of ReleaseResource
LEMMA AfterReleaseKeepsLoad ==
  ASSUME NEW s, NEW R, NEW S, Core(s, R, S), s.queue[0] # <<>>, ActivationsOK(s)
  PROVE  SameLoad(s, AfterRelease(s))
<1> DEFINE u == UpdateHighPrioTask(s)
<1>1. /\ s \in Sched /\ u \in Sched /\ HighIsTop(u) /\ HighIsFirst(u)
      /\ u.queue = s.queue /\ u.runPrio = s.runPrio /\ u.interRes = s.interRes
      /\ u.state = s.state
  BY UpdateHighFacts DEF Core
<1>2. SameLoad(s, u) BY <1>1, UpdateHighKeepsLoad
<1>3. \/ AfterRelease(s) = u
      \/ AfterRelease(s) = SwitchTask(u)
  BY DEF AfterRelease, DispatchIfUnlocked
<1> HIDE DEF u
<1>4. Core(u, R, S) BY <1>1 DEF Core, WaitersHoldNothing
<1>5. SameLoad(u, SwitchTask(u)) BY <1>1, <1>2, <1>4, SameLoadKeeps, SwitchToTopKeepsLoad
<1>6. QED BY <1>2, <1>3, <1>5, SameLoadTwice

-----------------------------------------------------------------------------
(* Services that change what a task is owed                                 *)

(* An activation is counted, or a wait is over: one entry of the task has   *)
(* still to be queued.                                                      *)
EntryMissing(s, t) ==
  /\ \A u \in Task \ {t} : ActivationOK(s, u)
  /\ Own(s.queue, t) + 1 = s.actCount[t]
  /\ s.actCount[t] <= TaskActivation[t]
  /\ s.state[t] \notin {"SUSPENDED", "WAITING"}

\* Queueing it
LEMMA InsertCompletes ==
  ASSUME NEW s \in Sched, NEW t \in Task, EntryMissing(s, t), NEW z \in Sched,
         z.queue = InsertTail(s.queue, TaskPriority[t], t),
         z.state = s.state, z.actCount = s.actCount
  PROVE  ActivationsOK(z)
<1>1. s.queue \in Queues BY DEF Sched, Queues
<1>2. \A u \in Task : Own(z.queue, u) = Own(s.queue, u) + IF t = u THEN 1 ELSE 0
  BY <1>1, OwnAfterInsertTail
<1>3. \A u \in Task : Own(s.queue, u) \in Nat BY <1>1, OwnIsNat
<1>4. ActivationOK(z, t)
  <2>1. s.actCount[t] \in Nat BY DEF Sched
  <2>2. z.actCount[t] # 0 BY <2>1, <1>3 DEF EntryMissing
  <2>3. QED BY <2>2, <1>2 DEF EntryMissing, ActivationOK, Own
<1>5. ASSUME NEW u \in Task \ {t} PROVE ActivationOK(z, u)
  BY <1>2, <1>3 DEF EntryMissing, ActivationOK, Own
<1>6. QED BY <1>4, <1>5 DEF ActivationsOK

(* Os_ActivateTask and Os_SetTaskToReady, at their end                      *)
LEMMA MakeReadyCompletes ==
  ASSUME NEW s \in Sched, NEW t \in Task, EntryMissing(s, t),
         TaskPriority[t] <= s.runPrio[t]
  PROVE  LET z == MakeReady(s, t, TaskPriority[t])
         IN  /\ ActivationsOK(z)
             /\ \A u \in Task : z.state[u] = "WAITING" <=> s.state[u] = "WAITING"
<1> DEFINE p == TaskPriority[t]
           q == [s EXCEPT !.queue = InsertTail(@, p, t)]
           v == [q EXCEPT !.high = t, !.highPrio = p]
<1>1. s.queue \in Queues /\ p \in Prio /\ InsertTail(s.queue, p, t) \in Queues
  <2>1. p \in Prio BY TaskConstants
  <2>2. s.queue \in Queues BY DEF Sched, Queues
  <2>3. QED BY <2>1, <2>2, InsertTailFacts
<1>2. /\ q \in Sched /\ q.queue = InsertTail(s.queue, p, t)
      /\ q.state = s.state /\ q.actCount = s.actCount /\ q.runPrio = s.runPrio
      /\ q.highPrio = s.highPrio
  BY <1>1 DEF Sched, Queues
<1> HIDE DEF q
<1>3. /\ v \in Sched /\ v.queue = q.queue /\ v.state = q.state /\ v.actCount = q.actCount
      /\ v.runPrio = q.runPrio /\ v.high = t /\ v.highPrio = p
  BY <1>1, <1>2 DEF Sched
<1> HIDE DEF v
<1>4. ActivationsOK(q) /\ ActivationsOK(v) BY <1>1, <1>2, <1>3, InsertCompletes DEF p
<1>5. \/ MakeReady(s, t, p) = q
      \/ MakeReady(s, t, p) = v
      \/ MakeReady(s, t, p) = SwitchTask(v)
  BY <1>2 DEF MakeReady, RaiseHigh, DispatchIfUnlocked, q, v
<1>6. SameLoad(v, SwitchTask(v)) BY <1>2, <1>3, <1>1, SwitchKeepsLoad DEF EntryMissing
<1>7. ActivationsOK(SwitchTask(v)) BY <1>4, <1>6, SameLoadKeeps
<1>8. \A u \in Task : SwitchTask(v).state[u] = "WAITING" <=> s.state[u] = "WAITING"
  BY <1>2, <1>3, <1>6 DEF SameLoad
<1>9. QED BY <1>2, <1>3, <1>4, <1>5, <1>7, <1>8 DEF p

\* One more activation of a task with room for it
LEMMA CountActivationMisses ==
  ASSUME NEW s \in Sched, ActivationsOK(s), NEW t \in Task,
         s.actCount[t] < TaskActivation[t]
  PROVE  LET a == CountActivation(s, t)
         IN  /\ EntryMissing(a, t)
             /\ a \in Sched /\ a.queue = s.queue
             /\ \A u \in Task : a.state[u] = "WAITING" <=> s.state[u] = "WAITING"
<1> DEFINE a == CountActivation(s, t)
           st == StartIfSuspended(s.state[t])
<1>1. st \in TaskStates /\ s.actCount[t] \in Nat /\ TaskActivation[t] \in Nat
  BY TaskConstants DEF Sched, TaskStates, StartIfSuspended
<1>2. a = [s EXCEPT !.actCount[t] = @ + 1, !.state[t] = st] BY DEF CountActivation, Sched
<1> HIDE DEF a, st
<1>3. /\ a \in Sched /\ a.queue = s.queue
      /\ a.actCount[t] = s.actCount[t] + 1 /\ a.state[t] = st
      /\ \A u \in Task \ {t} : a.actCount[u] = s.actCount[u] /\ a.state[u] = s.state[u]
  <2>1. /\ a.actCount = [s.actCount EXCEPT ![t] = @ + 1] /\ a.state = [s.state EXCEPT ![t] = st]
        /\ a.queue = s.queue
    BY <1>2 DEF Sched
  <2>2. s.actCount \in [Task -> Nat] /\ s.state \in [Task -> TaskStates] BY DEF Sched
  <2>3. a \in Sched
    <3> DEFINE counts == [s.actCount EXCEPT ![t] = @ + 1]
               states == [s.state EXCEPT ![t] = st]
    <3>1. counts \in [Task -> Nat] /\ states \in [Task -> TaskStates] BY <1>1, <2>2
    <3>2. a = [s EXCEPT !.actCount = counts, !.state = states] BY <1>2 DEF Sched
    <3> HIDE DEF counts, states
    <3>3. QED BY <3>1, <3>2 DEF Sched
  <2>4. QED BY <2>1, <2>2, <2>3, <1>1
<1>4. s.state[t] # "WAITING" BY <1>1, EventConstants DEF ActivationsOK, ActivationOK
<1>5. st \notin {"SUSPENDED", "WAITING"} BY <1>4 DEF st, StartIfSuspended
<1>6. Own(s.queue, t) = s.actCount[t] BY <1>4 DEF ActivationsOK, ActivationOK, Own
<1>7. \A u \in Task \ {t} : ActivationOK(a, u) BY <1>3 DEF ActivationsOK, ActivationOK
<1>8. EntryMissing(a, t) BY <1>1, <1>3, <1>5, <1>6, <1>7 DEF EntryMissing
<1>9. QED BY <1>3, <1>4, <1>5, <1>8 DEF a

\* The same tasks wait.
SameWaiters(s, z) == \A u \in Task : z.state[u] = "WAITING" <=> s.state[u] = "WAITING"

\* ActivateTask
LEMMA ActivateKeepsActivations ==
  ASSUME NEW s, NEW R, NEW S, Core(s, R, S), ActivationsOK(s),
         NEW t \in Task, s.actCount[t] < TaskActivation[t]
  PROVE  ActivationsOK(DoActivateTask(s, t)) /\ SameWaiters(s, DoActivateTask(s, t))
<1> DEFINE a == CountActivation(s, t)
           z == MakeReady(a, t, TaskPriority[t])
<1>1. s \in Sched /\ TaskPriority[t] <= s.runPrio[t] BY DEF Core, QueuesOK, OccupiedTasksNest
<1>2. /\ EntryMissing(a, t) /\ a \in Sched
      /\ \A u \in Task : a.state[u] = "WAITING" <=> s.state[u] = "WAITING"
  BY <1>1, CountActivationMisses
<1>3. a.runPrio = s.runPrio BY CountActivationFacts
<1>4. DoActivateTask(s, t) = z BY DEF DoActivateTask
<1> HIDE DEF a
<1>5. /\ ActivationsOK(z)
      /\ \A u \in Task : z.state[u] = "WAITING" <=> a.state[u] = "WAITING"
  BY <1>1, <1>2, <1>3, MakeReadyCompletes
<1> HIDE DEF z
<1>6. QED BY <1>2, <1>4, <1>5 DEF SameWaiters

\* Os_SetTaskToReady
LEMMA SetTaskToReadyKeepsActivations ==
  ASSUME NEW s, NEW R, NEW S, Core(s, R, S), ActivationsOK(s),
         NEW t \in Task, s.state[t] = "WAITING"
  PROVE  LET z == SetTaskToReady(s, t)
         IN  /\ ActivationsOK(z)
             /\ \A u \in Task : z.state[u] = "WAITING" <=> s.state[u] = "WAITING" /\ u # t
<1> DEFINE a == [s EXCEPT !.state[t] = "READY"]
           z == MakeReady(a, t, TaskPriority[t])
<1>1. s \in Sched /\ S \in Stacks /\ ~ Occupied(s.runPrio, S, t) /\ TaskPriority[t] <= s.runPrio[t]
  BY DEF Core, QueuesOK, OccupiedTasksNest, WaitersHoldNothing, Stacks
<1>2. s.runPrio[t] = TaskPriority[t] BY <1>1, TaskConstants DEF Sched, Occupied, Prio
<1>3. /\ a \in Sched /\ a.queue = s.queue /\ a.actCount = s.actCount /\ a.runPrio = s.runPrio
      /\ a.state[t] = "READY" /\ \A u \in Task \ {t} : a.state[u] = s.state[u]
  BY <1>1 DEF Sched, TaskStates
<1>4. SetTaskToReady(s, t) = z BY <1>2 DEF SetTaskToReady
<1> HIDE DEF a
<1>5. EntryMissing(a, t)
  <2>1. /\ Own(s.queue, t) = 0 /\ s.actCount[t] # 0 /\ t \in Extended
        /\ s.actCount[t] <= TaskActivation[t]
    BY DEF ActivationsOK, ActivationOK, Own
  <2>2. s.actCount[t] = 1 BY <2>1, <1>1, EventConstants DEF Sched
  <2>3. \A u \in Task \ {t} : ActivationOK(a, u) BY <1>3 DEF ActivationsOK, ActivationOK
  <2>4. QED BY <2>1, <2>2, <2>3, <1>3 DEF EntryMissing
<1>6. /\ ActivationsOK(z)
      /\ \A u \in Task : z.state[u] = "WAITING" <=> a.state[u] = "WAITING"
  BY <1>1, <1>2, <1>3, <1>5, MakeReadyCompletes
<1> HIDE DEF z
<1>7. QED BY <1>3, <1>4, <1>6

\* Os_ReleaseInternalResource
LEMMA ReleaseInternalKeepsLoad ==
  ASSUME NEW s, NEW R, NEW S, NEW n \in Nat, Settled(s, R, S, n),
         NEW t, t = s.running, S[t] = <<>>
  PROVE  SameLoad(s, ReleaseInternalResource(s, t))
<1> DEFINE r == ReleaseInternalResource(s, t)
           c == InterResCeiling[t]
<1>1. /\ s \in Sched /\ t \in Task
      /\ s.interRes[t] => c > TaskPriority[t] /\ First(s.queue, c, t)
  BY DEF Settled, Core, RunningOK, QueuesOK, LevelsRestorable
<1>2. s.queue \in Queues /\ c \in Prio /\ TaskPriority[t] \in Prio
  BY <1>1, TaskConstants DEF Sched, Queues
<1>3. CASE ~ s.interRes[t] \/ c = 0 BY <1>3 DEF ReleaseInternalResource, SameLoad
<1>4. CASE s.interRes[t] /\ c # 0
  <2>1. r = [s EXCEPT !.runPrio[t] = TaskPriority[t],
                      !.queue = RemoveHead(@, c),
                      !.interRes[t] = FALSE]
    BY <1>4 DEF ReleaseInternalResource
  <2>2. r.queue = RemoveHead(s.queue, c) /\ r.state = s.state /\ r.actCount = s.actCount
    BY <2>1, <1>1 DEF Sched
  <2>3. c # TaskPriority[t] BY <1>1, <1>2, <1>4 DEF Prio
  <2> HIDE DEF r
  <2>4. \A u \in Task : Own(s.queue, u) \in Nat BY <1>2, OwnIsNat
  <2>5. \A u \in Task : Own(RemoveHead(s.queue, c), u) =
                          Own(s.queue, u) - IF t = u /\ c = TaskPriority[t] THEN 1 ELSE 0
    BY <1>1, <1>2, <1>4, OwnAfterRemove
  <2>6. \A u \in Task : Own(r.queue, u) = Own(s.queue, u) BY <2>2, <2>3, <2>4, <2>5
  <2>7. QED BY <2>2, <2>6 DEF SameLoad, r
<1>5. QED BY <1>3, <1>4

\* The running task leaves its queue, which has an entry of it.
LEMMA LeavingTakesOwn ==
  ASSUME NEW s, NEW R, NEW S, NEW n \in Nat, Settled(s, R, S, n), ActivationsOK(s),
         NEW t, t = s.running, S[t] = <<>>
  PROVE  LET r == ReleaseInternalResource(s, t)
             z == RemoveHead(r.queue, r.runPrio[t])
         IN  /\ r \in Sched /\ t \in Task /\ ActivationsOK(r)
             /\ r.state = s.state /\ r.actCount = s.actCount /\ s.state[t] = "RUNNING"
             /\ s.actCount[t] \in Nat \ {0}
             /\ z \in Queues
             /\ Own(z, t) + 1 = s.actCount[t]
             /\ \A u \in Task \ {t} : Own(z, u) = Own(r.queue, u)
<1> DEFINE r == ReleaseInternalResource(s, t)
           z == RemoveHead(r.queue, r.runPrio[t])
           p == TaskPriority[t]
<1>1. /\ r \in Sched /\ t \in Task /\ First(r.queue, p, t)
      /\ r.runPrio[t] = p /\ r.state = s.state /\ r.actCount = s.actCount
  BY ReleaseInternalFacts
<1>2. ActivationsOK(r) BY ReleaseInternalKeepsLoad, SameLoadKeeps
<1>3. s.state[t] = "RUNNING" BY DEF Settled, RunningOK
<1> HIDE DEF r
<1>4. r.queue \in Queues /\ p \in Prio /\ r.queue[p] # <<>>
  BY <1>1, TaskConstants DEF Sched, Queues, First
<1>5. z \in Queues BY <1>1, <1>4, RemoveHeadFacts
<1>6. \A u \in Task : /\ Own(r.queue, u) \in Nat
                      /\ Own(z, u) = Own(r.queue, u) - IF t = u /\ p = TaskPriority[t] THEN 1 ELSE 0
  BY <1>1, <1>4, OwnIsNat, OwnAfterRemove
<1> HIDE DEF z
<1>7. Own(r.queue, t) = s.actCount[t] /\ s.actCount[t] # 0 /\ s.actCount[t] \in Nat
  BY <1>1, <1>3, <1>2 DEF Sched, ActivationsOK, ActivationOK, Own
<1>8. Own(z, t) + 1 = s.actCount[t] /\ \A u \in Task \ {t} : Own(z, u) = Own(r.queue, u)
  BY <1>1, <1>6, <1>7
<1>9. QED BY <1>1, <1>2, <1>3, <1>5, <1>7, <1>8 DEF r, z

\* Os_TerminateTaskInternal
LEMMA TerminateInternalKeepsActivations ==
  ASSUME NEW s, NEW R, NEW S, NEW n \in Nat, Settled(s, R, S, n), ActivationsOK(s),
         NEW t, t = s.running, S[t] = <<>>
  PROVE  LET w == TerminateTaskInternal(s, t)
         IN  /\ ActivationsOK(w)
             /\ w.actCount[t] < TaskActivation[t]
             /\ w.state[t] \in {"START", "SUSPENDED"}
             /\ \A u \in Task \ {t} : w.actCount[u] = s.actCount[u]
             /\ w.running = s.running
             /\ SameWaiters(s, w)
<1> DEFINE r == ReleaseInternalResource(s, t)
           z == RemoveHead(r.queue, r.runPrio[t])
           w == TerminateTaskInternal(s, t)
           m == IF r.actCount[t] > 0 THEN r.actCount[t] - 1 ELSE 0
           st == IF m > 0 THEN "START" ELSE "SUSPENDED"
<1>1. /\ r \in Sched /\ t \in Task /\ ActivationsOK(r)
      /\ r.state = s.state /\ r.actCount = s.actCount /\ s.state[t] = "RUNNING"
      /\ s.actCount[t] \in Nat \ {0}
      /\ z \in Queues /\ Own(z, t) + 1 = s.actCount[t]
      /\ \A u \in Task \ {t} : Own(z, u) = Own(r.queue, u)
  BY LeavingTakesOwn
<1>2. r.running = t BY ReleaseInternalFacts
<1>3. w = [r EXCEPT !.actCount[t] = m, !.state[t] = st, !.queue = z,
                    !.runPrio[t] = TaskPriority[t]]
  BY DEF TerminateTaskInternal
<1>4. s.actCount[t] <= TaskActivation[t] /\ TaskActivation[t] \in Nat
  BY <1>1, TaskConstants DEF ActivationsOK, ActivationOK
<1> HIDE DEF r, z
<1>5. m = s.actCount[t] - 1 /\ m \in Nat /\ (st = "SUSPENDED" <=> m = 0)
      /\ st \in {"START", "SUSPENDED"} /\ m < TaskActivation[t]
  BY <1>1, <1>4
<1> HIDE DEF m, st, w
<1>6. /\ w.queue = z /\ w.running = r.running
      /\ w.actCount = [r.actCount EXCEPT ![t] = m] /\ w.state = [r.state EXCEPT ![t] = st]
  BY <1>1, <1>3 DEF Sched
<1>7. /\ w.actCount[t] = m /\ w.state[t] = st
      /\ \A u \in Task \ {t} : w.actCount[u] = r.actCount[u] /\ w.state[u] = r.state[u]
  BY <1>1, <1>6 DEF Sched
<1>8. ActivationOK(w, t)
  <2>1. Own(z, t) = m BY <1>1, <1>5, OwnIsNat
  <2>2. Own(w.queue, t) = w.actCount[t] /\ w.state[t] # "WAITING" BY <2>1, <1>5, <1>6, <1>7
  <2>3. w.actCount[t] <= TaskActivation[t] /\ (w.state[t] = "SUSPENDED" <=> w.actCount[t] = 0)
    BY <1>4, <1>5, <1>7
  <2>4. QED BY <2>2, <2>3 DEF ActivationOK, Own
<1>9. \A u \in Task \ {t} : ActivationOK(w, u)
  BY <1>1, <1>6, <1>7 DEF ActivationsOK, ActivationOK, Own
<1>10. SameWaiters(s, w) BY <1>1, <1>5, <1>7 DEF SameWaiters
<1>11. QED BY <1>1, <1>2, <1>5, <1>6, <1>7, <1>8, <1>9, <1>10 DEF ActivationsOK, w

\* Looking the top up again changes no task's load.
LEMMA UpdateIfItWasKeepsLoad ==
  ASSUME NEW s \in Sched, NEW t
  PROVE  SameLoad(s, UpdateHighIfItWas(s, t))
BY UpdateHighKeepsLoad DEF UpdateHighIfItWas, SameLoad

\* TerminateTask
LEMMA TerminateKeepsActivations ==
  ASSUME NEW s, NEW R, NEW S, NEW n \in Nat, Settled(s, R, S, n), ActivationsOK(s),
         S[s.running] = <<>>, s.running # Idle
  PROVE  LET z == DoTerminateTask(s, s.running)
         IN  ActivationsOK(z) /\ SameWaiters(s, z)
<1> DEFINE t == s.running
           w == TerminateTaskInternal(s, t)
           u == UpdateHighIfItWas(w, t)
<1>1. /\ Core(w, R, S) /\ w.queue[0] # <<>>
      /\ w.high = s.high /\ w.highPrio = s.highPrio /\ w.running = s.running
      /\ \A p \in Prio : w.queue[p] # <<>> => s.queue[p] # <<>>
      /\ \A p \in Prio : \A v \in Task \ {t} : First(s.queue, p, v) => First(w.queue, p, v)
  BY TerminateInternalFacts
<1>2. ActivationsOK(w) /\ SameWaiters(s, w) BY TerminateInternalKeepsActivations
<1>3. DoTerminateTask(s, t) = GiveUp(u) BY DEF DoTerminateTask
<1> HIDE DEF w
<1>4. Core(u, R, S) /\ HighIsTop(u) /\ HighIsFirst(u) BY <1>1, UpdateAfterLeaving
<1>5. SameLoad(w, u) BY <1>1, UpdateIfItWasKeepsLoad DEF Core
<1> HIDE DEF u
<1>6. SameLoad(u, GiveUp(u)) BY <1>2, <1>4, <1>5, SameLoadKeeps, GiveUpKeepsLoad
<1>7. ActivationsOK(GiveUp(u)) /\ SameWaiters(s, GiveUp(u))
  BY <1>2, <1>5, <1>6, SameLoadKeeps DEF SameWaiters, SameLoad
<1>8. QED BY <1>3, <1>7

\* ChainTask by a preemptable task
LEMMA ChainKeepsActivations ==
  ASSUME NEW s, NEW R, NEW S, Settled(s, R, S, 0), ActivationsOK(s),
         S[s.running] = <<>>, s.running # Idle, s.running \notin NonPreemptable,
         NEW succ \in Task,
         s.actCount[succ] < TaskActivation[succ] \/ succ = s.running
  PROVE  LET z == DoChainTask(s, s.running, succ)
         IN  ActivationsOK(z) /\ SameWaiters(s, z)
<1> DEFINE t == s.running
           w == TerminateTaskInternal(s, t)
           a == CountActivation(w, succ)
           p == TaskPriority[succ]
           q == [a EXCEPT !.queue = InsertTail(@, p, succ)]
           u == UpdateHighIfItWas(q, t)
<1>1. /\ Core(w, R, S) /\ w.queue[0] # <<>>
      /\ w.high = s.high /\ w.highPrio = s.highPrio /\ w.running = s.running
  BY TerminateInternalFacts
<1>2. /\ ActivationsOK(w) /\ SameWaiters(s, w)
      /\ w.actCount[t] < TaskActivation[t] /\ w.actCount[succ] < TaskActivation[succ]
  BY TerminateInternalKeepsActivations
<1>3. DoChainTask(s, t, succ) = GiveUp(u) BY DEF DoChainTask
<1> HIDE DEF w
<1>4. /\ EntryMissing(a, succ) /\ a \in Sched /\ a.queue = w.queue
      /\ \A v \in Task : a.state[v] = "WAITING" <=> w.state[v] = "WAITING"
  BY <1>1, <1>2, CountActivationMisses DEF Core
<1>5. /\ Core(a, R, S) /\ a.running = w.running /\ a.high = w.high BY <1>1, CountActivationFacts
<1> HIDE DEF a
<1>6. /\ a.queue \in Queues /\ p \in Prio /\ InsertTail(a.queue, p, succ) \in Queues
      /\ InsertTail(a.queue, p, succ)[0] # <<>>
      /\ QueuesOK(InsertTail(a.queue, p, succ), a.runPrio, a.interRes, R, S)
  <2>1. a.queue \in Queues /\ p \in Prio /\ a.runPrio \in Prios /\ S \in Stacks
        /\ a.interRes \in [Task -> BOOLEAN] /\ 0 \in Prio
    BY <1>4, <1>5, TaskConstants, QueueConstants DEF Sched, Queues, Prios, Prio, Core, Stacks
  <2>2. /\ InsertTail(a.queue, p, succ) \in Queues
        /\ \A o \in Prio : InsertTail(a.queue, p, succ)[o] # <<>> <=> a.queue[o] # <<>> \/ o = p
    BY <2>1, InsertTailFacts
  <2>3. QueuesOK(InsertTail(a.queue, p, succ), a.runPrio, a.interRes, R, S)
    BY <2>1, <1>5, InsertTailKeepsQueues DEF Core
  <2>4. QED BY <2>1, <2>2, <2>3, <1>1, <1>4
<1>7. /\ q \in Sched /\ q.queue = InsertTail(a.queue, p, succ)
      /\ q.state = a.state /\ q.actCount = a.actCount /\ q.high = a.high
      /\ q.runPrio = a.runPrio /\ q.interRes = a.interRes
  BY <1>4, <1>6 DEF Sched, Queues
<1> HIDE DEF q
<1>8. ActivationsOK(q) BY <1>4, <1>7, InsertCompletes DEF p
<1>9. Core(q, R, S) /\ q.queue[0] # <<>> BY <1>5, <1>6, <1>7 DEF Core, WaitersHoldNothing
<1>10. q.high = t BY FS_EmptySet, <1>1, <1>5, <1>7 DEF SharedWithIsr, Settled, Locks
<1>11. HighIsTop(u) /\ HighIsFirst(u) /\ Core(u, R, S)
  <2>1. u = UpdateHighPrioTask(q) BY <1>10 DEF UpdateHighIfItWas
  <2> HIDE DEF u
  <2>2. /\ u \in Sched /\ HighIsTop(u) /\ HighIsFirst(u)
        /\ u.queue = q.queue /\ u.runPrio = q.runPrio /\ u.interRes = q.interRes
        /\ u.state = q.state
    BY <2>1, <1>7, <1>9, UpdateHighFacts
  <2>3. QED BY <2>2, <1>9 DEF Core, WaitersHoldNothing
<1>12. SameLoad(q, u) BY <1>7, UpdateIfItWasKeepsLoad
<1> HIDE DEF u
<1>13. SameLoad(u, GiveUp(u)) BY <1>8, <1>11, <1>12, SameLoadKeeps, GiveUpKeepsLoad
<1>14. SameWaiters(s, GiveUp(u)) BY <1>2, <1>4, <1>7, <1>12, <1>13 DEF SameWaiters, SameLoad
<1>15. QED BY <1>3, <1>8, <1>12, <1>13, <1>14, SameLoadKeeps

\* Os_SetTaskToWait of an extended task
LEMMA SetTaskToWaitKeepsActivations ==
  ASSUME NEW s, NEW R, NEW S, NEW n \in Nat, Settled(s, R, S, n), ActivationsOK(s),
         NEW t, t = s.running, S[t] = <<>>, t # Idle, t \in Extended
  PROVE  LET z == SetTaskToWait(s, t)
         IN  /\ ActivationsOK(z)
             /\ \A u \in Task : z.state[u] = "WAITING" <=> s.state[u] = "WAITING" \/ u = t
<1> DEFINE r == ReleaseInternalResource(s, t)
           z == RemoveHead(r.queue, r.runPrio[t])
           w == [r EXCEPT !.state[t] = "WAITING",
                          !.queue = z,
                          !.runPrio[t] = TaskPriority[t]]
           u == UpdateHighPrioTask(w)
<1>1. /\ r \in Sched /\ t \in Task /\ ActivationsOK(r)
      /\ r.state = s.state /\ r.actCount = s.actCount
      /\ s.actCount[t] \in Nat \ {0}
      /\ z \in Queues /\ Own(z, t) + 1 = s.actCount[t]
      /\ \A v \in Task \ {t} : Own(z, v) = Own(r.queue, v)
  BY LeavingTakesOwn
<1>2. /\ r.runPrio[t] = TaskPriority[t] /\ z[0] # <<>>
      /\ QueuesOK(z, r.runPrio, r.interRes, R, S)
      /\ ~ Occupied(r.runPrio, S, t)
      /\ \A v \in Task \ {t} : Occupied(r.runPrio, S, v) <=> Occupied(s.runPrio, S, v)
  BY LeaveFacts, ReleaseInternalFacts
<1>3. SetTaskToWait(s, t) = GiveUp(u) BY DEF SetTaskToWait
<1> HIDE DEF r, z
<1>4. /\ w \in Sched /\ w.queue = z /\ w.actCount = r.actCount
      /\ w.runPrio = r.runPrio /\ w.interRes = r.interRes
      /\ w.state[t] = "WAITING"
      /\ \A v \in Task \ {t} : w.state[v] = r.state[v]
  BY <1>1, <1>2, TaskConstants, ZenonT(30) DEF Sched, TaskStates, Queues
<1> HIDE DEF w
<1>5. ActivationsOK(w) BY <1>1, EventConstants, OwnIsNat, <1>4 DEF ActivationsOK, ActivationOK, Own
<1>6. WaitersHoldNothing(w, S) BY <1>1, <1>2, <1>4 DEF Settled, Core, WaitersHoldNothing
<1>7. Core(w, R, S) /\ w.queue[0] # <<>> BY <1>2, <1>4, <1>6 DEF Settled, Core
<1>8. /\ u \in Sched /\ HighIsTop(u) /\ HighIsFirst(u)
      /\ u.queue = w.queue /\ u.runPrio = w.runPrio /\ u.interRes = w.interRes
      /\ u.state = w.state
  BY <1>4, <1>7, UpdateHighFacts
<1>9. SameLoad(w, u) BY <1>4, UpdateHighKeepsLoad
<1> HIDE DEF u
<1>10. Core(u, R, S) BY <1>7, <1>8 DEF Core, WaitersHoldNothing
<1>11. SameLoad(u, GiveUp(u)) /\ ActivationsOK(GiveUp(u))
  BY <1>5, <1>8, <1>9, <1>10, SameLoadKeeps, GiveUpKeepsLoad
<1>12. QED BY <1>1, <1>3, <1>4, <1>9, <1>11 DEF SameLoad

\* Schedule
LEMMA ScheduleKeepsActivations ==
  ASSUME NEW s, NEW R, NEW S, Settled(s, R, S, 0), ActivationsOK(s),
         NEW t, t = s.running, S[t] = <<>>
  PROVE  SameLoad(s, DoSchedule(s, t))
<1> DEFINE i == ReleaseInternalResource(s, t)
           r == IF InterResCeiling[t] # 0 THEN [i EXCEPT !.runPrio[t] = TaskPriority[t]] ELSE s
           u == UpdateHighPrioTask(r)
<1>1. /\ i \in Sched /\ t \in Task
      /\ QueuesOK(i.queue, i.runPrio, i.interRes, R, S)
      /\ i.runPrio[t] = TaskPriority[t]
      /\ \A v \in Task \ {t} : i.runPrio[v] = s.runPrio[v]
      /\ i.state = s.state /\ i.running = t /\ i.queue[0] # <<>>
  BY ReleaseInternalFacts
<1>2. SameLoad(s, i) BY ReleaseInternalKeepsLoad
<1>3. InterResCeiling[t] = 0 => i = s BY DEF ReleaseInternalResource
<1>4. DoSchedule(s, t) = IF u.high # t THEN GiveUp(u) ELSE GetInternalResource(u) BY DEF DoSchedule
<1> HIDE DEF i
<1>5. /\ r \in Sched /\ r.actCount = i.actCount
      /\ r.queue = i.queue /\ r.interRes = i.interRes /\ r.state = i.state
      /\ r.running = i.running /\ r.runPrio = i.runPrio
  BY <1>1, <1>3, TaskConstants DEF Sched
<1> HIDE DEF r
<1>6. WaitersHoldNothing(r, S)
  BY <1>1, <1>5 DEF Settled, RunningOK, Occupied, Core, WaitersHoldNothing
<1>7. Core(r, R, S) /\ r.queue[0] # <<>> BY <1>1, <1>5, <1>6 DEF Settled, Core
<1>8. /\ u \in Sched /\ HighIsTop(u) /\ HighIsFirst(u)
      /\ u.queue = r.queue /\ u.runPrio = r.runPrio /\ u.interRes = r.interRes
      /\ u.state = r.state /\ u.running = r.running
  BY <1>5, <1>7, UpdateHighFacts
<1>9. SameLoad(s, u) BY <1>5, UpdateHighKeepsLoad, <1>2, SameLoadTwice DEF SameLoad
<1> HIDE DEF u
<1>10. Core(u, R, S) /\ ActivationsOK(u)
  BY <1>7, <1>8, <1>9, SameLoadKeeps DEF Core, WaitersHoldNothing
<1>11. CASE u.high # t BY <1>8, <1>10, GiveUpKeepsLoad, <1>4, <1>9, <1>11, SameLoadTwice
<1>12. CASE u.high = t
  <2> DEFINE z == GetInternalResource(u)
  <2>1. u.running = u.high /\ u.highPrio \in Prio BY <1>1, <1>5, <1>8, <1>12 DEF HighIsTop
  <2>2. RaisedIfInternal(u, z) /\ z.state = u.state /\ z.actCount = u.actCount
    BY <2>1, <1>1, <1>8, <1>12, GetInternalFields, GetInternalKeepsCounts
  <2> HIDE DEF z
  <2>3. SameLoad(u, z)
    <3>1. TaskPriority[t] <= u.runPrio[t] BY <1>1, <1>10 DEF Core, QueuesOK, OccupiedTasksNest
    <3>2. u.queue \in Queues /\ InterResCeiling[t] \in Prio /\ TaskPriority[t] \in Prio
          /\ u.runPrio[t] \in Prio
      BY <1>1, <1>8, TaskConstants DEF Sched, Queues
    <3>3. CASE InterResCeiling[t] > u.runPrio[t]
      <4>1. z.queue = InsertHead(u.queue, InterResCeiling[t], t)
        BY <2>2, <3>3, <1>12 DEF RaisedIfInternal
      <4>2. InterResCeiling[t] # TaskPriority[t] BY <3>1, <3>2, <3>3 DEF Prio
      <4>3. \A v \in Task : Own(z.queue, v) = Own(u.queue, v)
        BY <4>1, <4>2, <3>2, <1>1, OwnAfterInsertHead
      <4>4. QED BY <4>3, <2>2 DEF SameLoad
    <3>4. CASE ~ (InterResCeiling[t] > u.runPrio[t])
      BY <3>4, <2>2, <1>12 DEF RaisedIfInternal, SameLoad
    <3>5. QED BY <3>3, <3>4
  <2>4. QED BY <2>3, <1>4, <1>9, <1>12, SameLoadTwice DEF z
<1>13. QED BY <1>11, <1>12

\* GetResource of a resource of tasks
LEMMA RaiseKeepsLoad ==
  ASSUME NEW s, NEW R, NEW S, Core(s, R, S), NEW t \in Task, NEW c \in Prio
  PROVE  SameLoad(s, RaiseToCeiling(s, t, c))
<1> DEFINE in == [s EXCEPT !.queue = InsertHead(@, c, t), !.runPrio[t] = c]
           up == IF c > s.runPrio[t] THEN in ELSE s
           z == RaiseHigh(up, t, c)
<1>1. /\ s \in Sched /\ s.queue \in Queues
      /\ TaskPriority[t] <= s.runPrio[t]
      /\ TaskPriority[t] \in Prio /\ s.runPrio[t] \in Prio
  BY TaskConstants DEF Core, QueuesOK, OccupiedTasksNest, Sched, Queues
<1>2. in.actCount = s.actCount /\ in.state = s.state /\ in.queue = InsertHead(s.queue, c, t)
  BY <1>1 DEF Sched
<1> HIDE DEF in
<1>3. SameLoad(s, up) BY <1>1, <1>2, OwnAfterInsertHead DEF Prio, SameLoad
<1>4. RaiseToCeiling(s, t, c) = z BY DEF RaiseToCeiling, in
<1>5. up \in Sched
  <2>1. InsertHead(s.queue, c, t) \in Queues BY <1>1, InsertHeadFacts
  <2> DEFINE q == InsertHead(s.queue, c, t)
             rp == [s.runPrio EXCEPT ![t] = c]
  <2>2. q \in [Prio -> Seq(Task)] /\ rp \in [Task -> Prio] BY <2>1, <1>1 DEF Sched, Queues
  <2>3. in = [s EXCEPT !.queue = q, !.runPrio = rp] BY <1>1 DEF Sched, in
  <2> HIDE DEF q, rp
  <2>4. in \in Sched BY <2>2, <2>3, <1>1 DEF Sched
  <2>5. QED BY <2>4, <1>1
<1> HIDE DEF up
<1>6. z.actCount = up.actCount /\ z.state = up.state /\ z.queue = up.queue
  BY <1>5 DEF RaiseHigh, Sched
<1>7. QED BY <1>3, <1>4, <1>6 DEF SameLoad

\* ReleaseResource of a resource of tasks
LEMMA LowerKeepsLoad ==
  ASSUME NEW s, NEW R, NEW S, NEW n \in Nat, Settled(s, R, S, n),
         NEW t, t = s.running, NEW r \in HeldByTask(S, t)
  PROVE  SameLoad(s, Lowered(s, t, Ceiling[r], R[r].savePrio))
<1> DEFINE p == s.runPrio[t]
           b == R[r].savePrio
           x == [s EXCEPT !.queue = RemoveHead(@, p), !.runPrio[t] = b]
<1>1. /\ s \in Sched /\ S \in Stacks /\ t \in Task /\ First(s.queue, p, t)
      /\ TaskPriority[t] <= b /\ Ceiling[r] <= p /\ b \in Prio
  BY DEF Settled, Core, Stacks, RunningOK, QueuesOK, LevelsRestorable, LevelRestorable
<1>2. /\ s.queue \in Queues /\ p \in Prio /\ TaskPriority[t] \in Prio /\ Ceiling[r] \in Prio
  BY <1>1, TaskConstants, HeldAreResources DEF Sched, Queues
<1>3. CASE Ceiling[r] > b
  <2>1. p # TaskPriority[t] BY <1>1, <1>2, <1>3 DEF Prio
  <2>2. \A u \in Task : /\ Own(s.queue, u) \in Nat
                        /\ Own(RemoveHead(s.queue, p), u) =
                             Own(s.queue, u) - IF t = u /\ p = TaskPriority[t] THEN 1 ELSE 0
    BY <1>1, <1>2, OwnIsNat, OwnAfterRemove
  <2>3. x.queue = RemoveHead(s.queue, p) /\ x.state = s.state /\ x.actCount = s.actCount
    BY <1>1 DEF Sched
  <2> HIDE DEF x
  <2>4. SameLoad(s, x) BY <2>1, <2>2, <2>3 DEF SameLoad
  <2>5. QED BY <2>4, <1>3 DEF Lowered, x
<1>4. CASE ~ (Ceiling[r] > b) BY <1>4 DEF Lowered, SameLoad
<1>5. QED BY <1>3, <1>4

LEMMA ReleaseByTaskKeepsLoad ==
  ASSUME NEW s, NEW R, NEW S, NEW n \in Nat, Settled(s, R, S, n), ActivationsOK(s),
         NEW t, t = s.running, NEW r \in Resource, OccupyType[r] = "BY_TASK",
         TaskPriority[t] <= Ceiling[r],
         R[r].saveCount > 0, R[r].saveCount = Len(S[t])
  PROVE  SameLoad(s, AfterRelease(Lowered(s, t, Ceiling[r], R[r].savePrio)))
<1> DEFINE x == Lowered(s, t, Ceiling[r], R[r].savePrio)
<1>1. r \in HeldByTask(S, t) BY LastIsReleased DEF HeldByTask
<1>2. SameLoad(s, x) BY <1>1, LowerKeepsLoad
<1>3. Core(x, [R EXCEPT ![r] = FreeRcb], Popped(S, t)) /\ x.queue[0] # <<>> BY ReleaseByTaskSettles
<1> HIDE DEF x
<1>4. SameLoad(x, AfterRelease(x)) BY <1>2, <1>3, SameLoadKeeps, AfterReleaseKeepsLoad
<1>5. QED BY <1>2, <1>4, SameLoadTwice DEF x

\* ReleaseResource of a resource shared with interrupts
LEMMA ReleaseSharedKeepsLoad ==
  ASSUME NEW s, NEW R, NEW S, NEW n \in Nat, Settled(s, R, S, n), ActivationsOK(s),
         NEW t, t = s.running, NEW r \in Resource,
         OccupyType[r] = "BY_TASK_OR_INTERRUPT", R[r].saveLevel = "TASK",
         R[r].saveCount > 0, R[r].saveCount = Len(S[t])
  PROVE  SameLoad(s, AfterRelease([s EXCEPT !.locker = @ - 1]))
<1> DEFINE x == [s EXCEPT !.locker = @ - 1]
<1>1. Core(x, [R EXCEPT ![r] = FreeRcb], Popped(S, t)) /\ x.queue[0] # <<>> BY ReleaseSharedSettles
<1>2. SameLoad(s, x) BY DEF Settled, Core, Sched, SameLoad
<1> HIDE DEF x
<1>3. SameLoad(x, AfterRelease(x)) BY <1>1, <1>2, SameLoadKeeps, AfterReleaseKeepsLoad
<1>4. QED BY <1>2, <1>3, SameLoadTwice DEF x

\* Taking an interrupt, and returning from one
LEMMA InterruptsKeepLoad ==
  ASSUME NEW s, NEW R, NEW S, NEW n \in Nat, Settled(s, R, S, n), ActivationsOK(s)
  PROVE  /\ SameLoad(s, [s EXCEPT !.locker = @ + 1])
         /\ SameLoad(s, [s EXCEPT !.locker = @ - 1])
         /\ n = 1 => SameLoad(s, ExitISR2SwitchTask([s EXCEPT !.locker = @ - 1]))
<1> DEFINE up == [s EXCEPT !.locker = @ + 1]
           x == [s EXCEPT !.locker = @ - 1]
<1>1. /\ up.queue = s.queue /\ up.state = s.state /\ up.actCount = s.actCount
      /\ x.queue = s.queue /\ x.state = s.state /\ x.actCount = s.actCount
  BY DEF Settled, Core, Sched
<1>2. n = 1 => \/ ExitISR2SwitchTask(x) = x
               \/ Core(x, R, S) /\ HighIsTop(x) /\ HighIsFirst(x)
  <2> SUFFICES ASSUME n = 1
               PROVE  \/ ExitISR2SwitchTask(x) = x
                      \/ Core(x, R, S) /\ HighIsTop(x) /\ HighIsFirst(x)
    OBVIOUS
  <2>1. Settled(s, R, S, 0 + 1) OBVIOUS
  <2>2. QED BY <2>1, ExitIsrSettles
<1>3. ExitISR2SwitchTask(x) = x \/ ExitISR2SwitchTask(x) = SwitchTask(x) BY DEF ExitISR2SwitchTask
<1> HIDE DEF x, up
<1>4. SameLoad(s, up) /\ SameLoad(s, x) BY <1>1 DEF SameLoad
<1>5. n = 1 => SameLoad(x, ExitISR2SwitchTask(x))
  BY <1>4, SameLoadKeeps, <1>2, <1>3, SwitchToTopKeepsLoad DEF SameLoad
<1>6. QED BY <1>4, <1>5, SameLoadTwice DEF x, up
-----------------------------------------------------------------------------
(* The steps of the system                                                  *)

\* What a step that starts or ends no wait does
KeepsLoad == ActivationsOK(sched') /\ SameWaiters(sched, sched')

LEMMA KeptLoad ==
  ASSUME ActivationsOK(sched), SameLoad(sched, sched')
  PROVE  KeepsLoad
BY SameLoadKeeps DEF KeepsLoad, SameWaiters, SameLoad

LEMMA KeptRecord ==
  ASSUME ActivationsOK(sched), sched' = sched
  PROVE  KeepsLoad
BY DEF KeepsLoad, SameWaiters, ActivationsOK

\* ActivateTask, TerminateTask, ChainTask and Schedule
LEMMA TaskServicesKeepLoad ==
  ASSUME TypeOK, RunOK, NoChainWhileNonPreemptable, ActivationsOK(sched), NEW t \in Task,
         \/ ActivateTask(t)
         \/ TerminateTask(t)
         \/ \E succ \in Task : ChainTask(t, succ)
         \/ Schedule(t)
  PROVE  KeepsLoad
<1>1. /\ Settled(sched, rcb, taskRes, Len(isrNest)) /\ Len(isrNest) \in Nat
      /\ SysOsLevel = "TASK" => Len(isrNest) = 0
      /\ Core(sched, rcb, taskRes)
  BY RunningFacts DEF Settled
<1>2. CASE ActivateTask(t) BY <1>2, <1>1, ActivateKeepsActivations DEF ActivateTask, KeepsLoad
<1>3. CASE TerminateTask(t)
  BY <1>3, <1>1, TerminateKeepsActivations DEF TerminateTask, Calling, InTask, KeepsLoad
<1>4. ASSUME NEW succ \in Task, ChainTask(t, succ) PROVE KeepsLoad
  BY <1>1, <1>4, ChainKeepsActivations DEF ChainTask, Calling, InTask, NoChainWhileNonPreemptable, KeepsLoad
<1>5. CASE Schedule(t)
  BY <1>1, <1>5, ScheduleKeepsActivations, KeptLoad DEF Schedule, Calling, InTask
<1>6. QED BY <1>2, <1>3, <1>4, <1>5

\* GetResource and ReleaseResource
LEMMA ResourceServicesKeepLoad ==
  ASSUME TypeOK, RunOK, CallsOK, ActivationsOK(sched),
         \/ \E t \in Task : GetResource(t)
         \/ \E r \in Resource : ReleaseAnyResource(r)
  PROVE  KeepsLoad
<1>1. /\ Settled(sched, rcb, taskRes, Len(isrNest)) /\ Len(isrNest) \in Nat
      /\ Core(sched, rcb, taskRes) /\ sched \in Sched /\ sched.queue[0] # <<>>
  BY RunningFacts DEF Settled, Core
<1>2. ASSUME NEW t \in Task, GetResource(t) PROVE KeepsLoad
  <2> DEFINE r == call[t].res
  <2>1. r \in Resource /\ GetResourceAtTaskLevel(t, r)
    BY <1>2, ResourceConstants DEF GetResource, CallsOK
  <2> HIDE DEF r
  <2>2. CASE OccupyType[r] = "BY_TASK"
    BY <2>1, <2>2, ResourceConstants, <1>1, RaiseKeepsLoad, KeptLoad DEF GetResourceAtTaskLevel,
       GetResourceByTask
  <2>3. CASE OccupyType[r] # "BY_TASK"
    BY <2>1, <2>3, <1>1, InterruptsKeepLoad, KeptLoad DEF GetResourceAtTaskLevel, GetResourceByTaskOrInterrupt
  <2>4. QED BY <2>2, <2>3
<1>3. ASSUME NEW r \in Resource, ReleaseAnyResource(r) PROVE KeepsLoad
  <2>1. /\ rcb[r].saveCount > 0
        /\ \/ OccupyType[r] = "BY_TASK" /\ ReleaseResourceByTask(sched.running, r)
           \/ /\ OccupyType[r] = "BY_TASK_OR_INTERRUPT"
              /\ rcb[r].saveLevel = "TASK"
              /\ ReleaseResourceByTaskOrInterrupt(sched.running, r)
           \/ ReleaseResourceByInterrupt(RunningIsr, r)
    BY <1>3 DEF ReleaseAnyResource, ReleaseResource
  <2>2. CASE OccupyType[r] = "BY_TASK" /\ ReleaseResourceByTask(sched.running, r)
    BY <2>2, <2>1, <1>1, ReleaseByTaskKeepsLoad, KeptLoad DEF ReleaseResourceByTask, LowerFromCeiling, Lowered
  <2>3. CASE /\ OccupyType[r] = "BY_TASK_OR_INTERRUPT"
             /\ rcb[r].saveLevel = "TASK"
             /\ ReleaseResourceByTaskOrInterrupt(sched.running, r)
    BY <2>3, <2>1, <1>1, ReleaseSharedKeepsLoad, KeptLoad DEF ReleaseResourceByTaskOrInterrupt
  <2>4. CASE ReleaseResourceByInterrupt(RunningIsr, r)
    BY <2>4, <1>1, AfterReleaseKeepsLoad, KeptLoad DEF ReleaseResourceByInterrupt
  <2>5. QED BY <2>1, <2>2, <2>3, <2>4
<1>4. QED BY <1>2, <1>3

\* Interrupts begin and end.
LEMMA InterruptStepsKeepLoad ==
  ASSUME TypeOK, RunOK, ActivationsOK(sched),
         (\E i \in Isr : TakeInterrupt(i)) \/ ReturnFromInterrupt
  PROVE  KeepsLoad
<1>1. /\ Settled(sched, rcb, taskRes, Len(isrNest)) /\ Len(isrNest) \in Nat
      /\ isrNest \in Seq(Isr)
  BY RunningFacts DEF TypeOK
<1>2. CASE \E i \in Isr : TakeInterrupt(i)
  BY <1>2, <1>1, InterruptsKeepLoad, KeptLoad DEF TakeInterrupt, EnterISR2
<1>3. CASE ReturnFromInterrupt
  <2> DEFINE x == [sched EXCEPT !.locker = @ - 1]
  <2>1. /\ isrNest # <<>> /\ isrNest' = Front(isrNest)
        /\ sched' = IF isrNest' = <<>> THEN ExitISR2SwitchTask(x) ELSE x
    BY <1>3 DEF ReturnFromInterrupt, ExitISR2
  <2>2. isrNest' = <<>> => Len(isrNest) = 1
    <3>1. isrNest' \in Seq(Isr) /\ Len(isrNest') = Len(isrNest) - 1 BY <2>1, <1>1, FrontAndLast
    <3>2. isrNest' = <<>> => Len(isrNest') = 0 OBVIOUS
    <3>3. QED BY <3>1, <3>2, <1>1
  <2>3. SameLoad(sched, x) /\ (Len(isrNest) = 1 => SameLoad(sched, ExitISR2SwitchTask(x)))
    BY <1>1, InterruptsKeepLoad
  <2> HIDE DEF x
  <2>4. SameLoad(sched, sched') BY <2>1, <2>2, <2>3
  <2>5. QED BY <2>4, KeptLoad
<1>4. QED BY <1>2, <1>3

\* WaitEvent and WaitAllEvents: the caller waits, or nothing happens.
LEMMA WaitStepKeepsActivations ==
  ASSUME TypeOK, RunOK, ActivationsOK(sched), NEW t \in Task, NEW mask \in Masks,
         WaitForEvents(t, mask)
  PROVE  /\ t = sched.running /\ t \in Extended
         /\ ActivationsOK(sched')
         /\ sched' # sched =>
              \A u \in Task : sched'.state[u] = "WAITING" <=> sched.state[u] = "WAITING" \/ u = t
<1>1. Settled(sched, rcb, taskRes, Len(isrNest)) /\ Len(isrNest) \in Nat BY RunningFacts
<1>2. /\ t = sched.running /\ t # Idle /\ taskRes[t] = <<>> /\ t \in Extended
      /\ sched' = sched \/ sched' = SetTaskToWait(sched, t)
  BY DEF WaitForEvents, WaitEvent, WaitAllEvents, WaitEventSafetyCheck,
         WaitUnless, Calling, InTask
<1>3. CASE sched' = sched BY <1>2, <1>3 DEF ActivationsOK
<1>4. CASE sched' = SetTaskToWait(sched, t) BY <1>1, <1>2, <1>4, SetTaskToWaitKeepsActivations
<1>5. QED BY <1>2, <1>3, <1>4

\* SetEvent: a waiting target may become ready.
LEMMA SetEventKeepsActivations ==
  ASSUME TypeOK, RunOK, ActivationsOK(sched), NEW target \in Task, NEW mask \in Masks,
         SetEvent(target, mask)
  PROVE  /\ ActivationsOK(sched')
         /\ LET set  == ecb[target].setMask \cup mask
                wake == sched.state[target] = "WAITING" /\ Awaited(set, ecb[target])
            IN  \A u \in Task :
                  sched'.state[u] = "WAITING"
                  <=> sched.state[u] = "WAITING" /\ ~ (wake /\ u = target)
<1> DEFINE set  == ecb[target].setMask \cup mask
           wake == sched.state[target] = "WAITING" /\ Awaited(set, ecb[target])
<1>1. sched' = IF wake THEN SetTaskToReady(sched, target) ELSE sched BY DEF SetEvent
<1>2. Core(sched, rcb, taskRes) BY RunningFacts DEF Settled
<1>3. wake => sched.state[target] = "WAITING" OBVIOUS
<1> HIDE DEF wake
<1>4. CASE wake BY <1>2, <1>3, <1>4, SetTaskToReadyKeepsActivations, <1>1 DEF wake
<1>5. CASE ~ wake BY <1>1, <1>5 DEF wake, ActivationsOK
<1>6. QED BY <1>4, <1>5
-----------------------------------------------------------------------------
(* Activations are queued                                                   *)

\* Os_InitTask activates each task of AutoStart once.
LEMMA BootKeepsActivations ==
  ASSUME TypeOK, IdleIsReady, BootOK, ActivationInvariant, InitTaskTCB \/ StartScheduler
  PROVE  /\ ActivationInvariant'
         /\ SameWaiters(sched, sched')
<1>1. /\ Core(sched, rcb, taskRes) /\ sched \in Sched
      /\ sched.runPrio = TaskPriority /\ TopKnown(sched)
      /\ booted \in Nat /\ TaskMax \in Nat /\ booted <= TaskMax
      /\ sched.queue \in Queues /\ ActivationsOK(sched)
  BY QueueConstants DEF BootOK, TopKnown, TypeOK, ActivationInvariant, ActivationsOK,
                        Sched, Queues
<1>2. CASE InitTaskTCB
  <2> DEFINE t == booted
             p == sched.runPrio[t]
             a == [sched EXCEPT !.actCount[t] = @ + 1,
                                !.state[t] = "START",
                                !.queue = InsertTail(@, p, t)]
             z == AutoStartTask(sched, t)
  <2>1. /\ t \in Task /\ booted' = t + 1
        /\ sched' = IF t \in AutoStart THEN z ELSE sched
        /\ sched.actCount[t] = 0
    BY <1>1, <1>2 DEF InitTaskTCB, Task, ActivationInvariant
  <2>2. p = TaskPriority[t] /\ p \in Prio /\ InsertTail(sched.queue, p, t) \in Queues
    BY <2>1, <1>1, TaskConstants, InsertTailFacts
  <2>3. /\ a.queue = InsertTail(sched.queue, p, t)
        /\ a.actCount = [sched.actCount EXCEPT ![t] = @ + 1]
        /\ a.state = [sched.state EXCEPT ![t] = "START"]
    BY <1>1 DEF Sched
  <2>4. z.queue = a.queue /\ z.actCount = a.actCount /\ z.state = a.state
    <3>1. a \in [state : [Task -> TaskStates], actCount : [Task -> Nat],
                 runPrio : [Task -> Prio], interRes : [Task -> BOOLEAN],
                 queue : [Prio -> Seq(Task)],
                 highPrio : Prio \cup {OS_PRIORITY_INVALID},
                 high : Task \cup {OS_TASK_INVALID},
                 running : Task \cup {OS_TASK_INVALID}, locker : Nat]
      <4> DEFINE counts == [sched.actCount EXCEPT ![t] = @ + 1]
                 states == [sched.state EXCEPT ![t] = "START"]
                 q == InsertTail(sched.queue, p, t)
      <4>1. counts \in [Task -> Nat] /\ states \in [Task -> TaskStates] /\ q \in Queues
        BY <1>1, <2>1, <2>2 DEF Sched, TaskStates
      <4>2. a = [sched EXCEPT !.actCount = counts, !.state = states, !.queue = q] BY <1>1 DEF Sched
      <4> HIDE DEF counts, states, q, a
      <4>3. QED BY <4>1, <4>2, <1>1 DEF Sched, Queues
    <3>2. z = [a EXCEPT !.high = t, !.highPrio = p] \/ z = a BY DEF AutoStartTask
    <3> HIDE DEF a, z
    <3>3. QED BY <3>1, <3>2
  <2> HIDE DEF a, z
  <2>5. CASE t \in AutoStart
    <3>1. /\ sched'.actCount[t] = 1 /\ sched'.state[t] = "START"
          /\ \A u \in Task \ {t} : /\ sched'.actCount[u] = sched.actCount[u]
                                   /\ sched'.state[u] = sched.state[u]
          /\ sched'.queue = InsertTail(sched.queue, TaskPriority[t], t)
      BY <1>1, <2>1, <2>2, <2>3, <2>4, <2>5 DEF Sched
    <3>2. \A u \in Task : Own(sched'.queue, u) = Own(sched.queue, u) + IF t = u THEN 1 ELSE 0
      BY <3>1, <2>1, <1>1, OwnAfterInsertTail
    <3>3. Own(sched.queue, t) = 0 /\ sched.state[t] = "SUSPENDED"
      BY <2>1, <1>1 DEF ActivationsOK, ActivationOK, Own
    <3>4. ActivationOK(sched', t) BY <3>2, <3>3, <2>1, TaskConstants, <3>1 DEF ActivationOK, Own
    <3>5. ASSUME NEW u \in Task \ {t} PROVE ActivationOK(sched', u)
      BY <3>2, <1>1, OwnIsNat, <3>1 DEF ActivationsOK, ActivationOK, Own
    <3>6. \A u \in Task : u >= booted' => u # t /\ u >= booted BY <2>1, <1>1 DEF Task
    <3>7. ActivationInvariant' BY <3>1, <3>4, <3>5, <3>6 DEF ActivationInvariant
    <3>8. SameWaiters(sched, sched') BY <3>1, <3>3 DEF SameWaiters
    <3>9. QED BY <3>7, <3>8
  <2>6. CASE t \notin AutoStart BY <2>1, <2>6, <1>1 DEF Task, ActivationInvariant, SameWaiters
  <2>7. QED BY <2>5, <2>6
<1>3. CASE StartScheduler
  <2>1. booted = TaskMax /\ booted' = booted /\ sched' = SwitchTask(sched)
    BY <1>3 DEF StartScheduler
  <2>2. Idle \in Task /\ booted > Idle /\ 0 \in Prio
    BY <2>1, <1>1, TaskConstants, QueueConstants DEF Task, Prio
  <2>3. sched.queue[0] # <<>> BY <2>2 DEF IdleIsReady
  <2>4. HighIsTop(sched) /\ HighIsFirst(sched) BY <2>2, <2>3, <1>1 DEF TopKnown, InitReadyTable
  <2>5. SameLoad(sched, sched') BY <2>1, <2>4, <1>1, SwitchToTopKeepsLoad
  <2>6. KeepsLoad BY <2>5, <1>1, KeptLoad
  <2>7. \A u \in Task : ~ (u >= booted') BY <2>1, <1>1 DEF Task
  <2>8. QED BY <2>6, <2>7 DEF KeepsLoad, ActivationsOK, ActivationInvariant
<1>4. QED BY <1>2, <1>3

\* The second part of ActivationInvariant is about startup only.
LEMMA RunningActivations ==
  ASSUME TypeOK, RunOK
  PROVE  ActivationInvariant <=> ActivationsOK(sched)
BY QueueConstants DEF RunOK, Task, ActivationInvariant, ActivationsOK

\* The steps of the running system that start and end no wait
QuietStep ==
  \/ \E t \in Task :
       \/ ActivateTask(t)
       \/ TerminateTask(t)
       \/ \E succ \in Task : ChainTask(t, succ)
       \/ Schedule(t)
       \/ \E r \in Resource : GetResourceCheck(t, r)
       \/ GetResource(t)
       \/ \E mask \in Masks : ClearEvents(t, mask)
       \/ \E target \in Extended, mask \in Masks : SetEventCheck(t, target, mask)
  \/ \E r \in Resource : IsrGetResource(r)
  \/ \E r \in Resource : ReleaseAnyResource(r)
  \/ \E i \in Isr : TakeInterrupt(i)
  \/ ReturnFromInterrupt

LEMMA QuietStepsKeepLoad ==
  ASSUME TypeOK, RunOK, CallsOK, NoChainWhileNonPreemptable, ActivationsOK(sched), QuietStep
  PROVE  KeepsLoad
<1>1. ASSUME NEW t \in Task,
             \/ \E r \in Resource : GetResourceCheck(t, r)
             \/ \E mask \in Masks : ClearEvents(t, mask)
             \/ \E target \in Extended, mask \in Masks : SetEventCheck(t, target, mask)
      PROVE  KeepsLoad
  BY <1>1, KeptRecord DEF GetResourceCheck, ClearEvents, ClearEvent, SetEventCheck
<1>2. ASSUME NEW r \in Resource, IsrGetResource(r) PROVE KeepsLoad
  BY <1>2, KeptRecord DEF IsrGetResource, GetResourceAtIsrLevel, GetResourceByInterrupt
<1>3. QED
  BY <1>1, <1>2, TaskServicesKeepLoad, ResourceServicesKeepLoad, InterruptStepsKeepLoad
     DEF QuietStep

\* Every step of the running system
LEMMA RunningSteps ==
  ASSUME TypeOK, RunOK, Next
  PROVE  \/ QuietStep
         \/ \E t \in Task, mask \in Masks : WaitForEvents(t, mask)
         \/ \E target \in Task, mask \in Masks : SetEvent(target, mask)
<1>1. ~ InitTaskTCB /\ ~ StartScheduler
  BY RunningFacts, QueueConstants DEF InitTaskTCB, StartScheduler, Started
<1>2. ASSUME NEW t \in Task, SetEventByTask(t)
      PROVE  \E target \in Task, mask \in Masks : SetEvent(target, mask)
  <2>1. call[t] \in Call /\ call[t].op = "SetEvent" /\ SetEvent(call[t].task, call[t].mask)
    BY <1>2 DEF SetEventByTask, TypeOK
  <2>2. call[t].task \in Task /\ call[t].mask \in Masks BY <2>1 DEF Call, NoCall
  <2>3. QED BY <2>1, <2>2
<1>3. ASSUME NEW target \in Extended, NEW mask \in Masks, SetEventByIsr(target, mask)
      PROVE  target \in Task /\ SetEvent(target, mask)
  BY <1>3, EventConstants DEF SetEventByIsr
<1>4. QED BY <1>1, <1>2, <1>3 DEF Next, QuietStep

(* ActivationInvariant is inductive on top of IInv.                         *)
LEMMA NextKeepsActivations ==
  ASSUME NoChainWhileNonPreemptable, IInv, ActivationInvariant, [Next]_vars
  PROVE  ActivationInvariant'
<1>1. TypeOK /\ IdleIsReady /\ CallsOK /\ IInv' BY NextKeepsInvariant DEF IInv
<1>2. CASE UNCHANGED vars BY <1>2 DEF vars, ActivationInvariant
<1>3. CASE Next /\ BootOK BY <1>1, <1>3, BootOnlyStarts, BootKeepsActivations
<1>4. CASE Next /\ RunOK
  <2>1. ActivationsOK(sched) BY <1>1, <1>4, RunningActivations
  <2>2. ActivationsOK(sched')
    BY <2>1, <1>1, <1>4, RunningSteps, QuietStepsKeepLoad, WaitStepKeepsActivations,
       SetEventKeepsActivations DEF KeepsLoad
  <2>3. RunOK' BY <1>1, <1>4, RunningStepKeeps DEF Kept
  <2>4. \A t \in Task : ~ (t >= booted') BY <2>3, QueueConstants DEF RunOK, Task
  <2>5. QED BY <2>2, <2>4 DEF ActivationInvariant, ActivationsOK
<1>5. QED BY <1>2, <1>3, <1>4 DEF IInv

\* Initially no task is activated.
LEMMA InitActivations == Init => ActivationInvariant
<1> SUFFICES ASSUME Init, NEW t \in Task
             PROVE  ActivationOK(sched, t) /\ sched.actCount[t] = 0
  BY DEF ActivationInvariant
<1>1. /\ sched = InitSched /\ sched.queue = InitReadyTable
      /\ sched.state[t] = "SUSPENDED" /\ sched.actCount[t] = 0
  BY DEF Init, InitSched
<1>2. TaskPriority[t] \in Prio /\ TaskActivation[t] \in Nat BY TaskConstants
<1>3. sched.queue[TaskPriority[t]] = <<>> BY <1>1, <1>2 DEF InitReadyTable
<1>4. Occurrences(<<>>, t) = 0 BY FS_EmptySet DEF Occurrences
<1>5. QED BY <1>1, <1>2, <1>3, <1>4 DEF ActivationOK
-----------------------------------------------------------------------------
(* No wakeup is lost                                                        *)

\* Steps that leave the event control blocks alone, or clear one of a task
\* that does not wait.
LEMMA SameWaitsKept ==
  ASSUME WaitInvariant, SameWaiters(sched, sched'), blockedIn' = blockedIn,
         \A t \in Extended :
           \/ ecb'[t] = ecb[t]
           \/ sched.state[t] # "WAITING" /\ ecb'[t].waitAll \in {ecb[t].waitAll, FALSE}
  PROVE  WaitInvariant'
BY EventConstants DEF WaitInvariant, SameWaiters, WaitOK, Awaited

\* Services that end no wait but TerminateTask, ChainTask and ClearEvent,
\* which act on the running task, leave the event control blocks alone.
LEMMA QuietStepsKeepWaits ==
  ASSUME TypeOK, RunOK, CallsOK, NoChainWhileNonPreemptable, ActivationsOK(sched),
         WaitInvariant, QuietStep
  PROVE  WaitInvariant'
<1>1. SameWaiters(sched, sched') BY QuietStepsKeepLoad DEF KeepsLoad
<1>2. /\ sched.state[sched.running] = "RUNNING"
      /\ ecb \in [Extended -> Ecb]
  BY DEF RunOK, Settled, RunningOK, TypeOK
<1>3. ASSUME NEW t \in Task, TerminateTask(t) \/ \E succ \in Task : ChainTask(t, succ)
      PROVE  WaitInvariant'
  <2>1. /\ t = sched.running /\ blockedIn' = blockedIn
        /\ ecb' = IF t \in Extended THEN [ecb EXCEPT ![t] = ClearedEcb] ELSE ecb
    BY <1>3 DEF TerminateTask, ChainTask, ClearECB, Calling, InTask
  <2>2. \A u \in Extended : \/ ecb'[u] = ecb[u]
                            \/ u = t /\ ecb'[u].waitAll = FALSE
    BY <2>1, <1>2 DEF ClearedEcb
  <2>3. QED BY <2>1, <2>2, <1>1, <1>2, SameWaitsKept
<1>4. ASSUME NEW t \in Task, NEW mask \in Masks, ClearEvents(t, mask)
      PROVE  WaitInvariant'
  <2>1. /\ t = sched.running /\ blockedIn' = blockedIn
        /\ ecb' = [ecb EXCEPT ![t].setMask = @ \ mask]
    BY <1>4 DEF ClearEvents, ClearEvent, Calling, InTask
  <2>2. \A u \in Extended : \/ ecb'[u] = ecb[u]
                            \/ u = t /\ ecb'[u].waitAll = ecb[u].waitAll
    BY <2>1, <1>2 DEF Ecb
  <2>3. QED BY <2>1, <2>2, <1>1, <1>2, SameWaitsKept
<1>5. CASE UNCHANGED evtVars BY <1>1, <1>5, SameWaitsKept DEF evtVars
<1>6. ASSUME NEW t \in Task,
             \/ ActivateTask(t)
             \/ Schedule(t)
             \/ \E r \in Resource : GetResourceCheck(t, r)
             \/ GetResource(t)
             \/ \E target \in Extended, mask \in Masks : SetEventCheck(t, target, mask)
      PROVE  UNCHANGED evtVars
  BY <1>6 DEF ActivateTask, Schedule, GetResourceCheck, GetResource, SetEventCheck
<1>7. ASSUME \/ \E r \in Resource : IsrGetResource(r)
             \/ \E r \in Resource : ReleaseAnyResource(r)
             \/ \E i \in Isr : TakeInterrupt(i)
             \/ ReturnFromInterrupt
      PROVE  UNCHANGED evtVars
  BY <1>7 DEF IsrGetResource, ReleaseAnyResource, TakeInterrupt, ReturnFromInterrupt
<1>8. QED BY <1>3, <1>4, <1>5, <1>6, <1>7 DEF QuietStep

\* The caller waits only for events that are not yet set, and for all of them
\* only if it uses WaitAllEvents.
LEMMA WaitStepKeepsWaits ==
  ASSUME OneWaitService, TypeOK, RunOK, ActivationsOK(sched), WaitInvariant,
         NEW t \in Task, NEW mask \in Masks, WaitForEvents(t, mask)
  PROVE  WaitInvariant'
<1>1. /\ t = sched.running /\ t \in Extended
      /\ sched' # sched =>
           \A u \in Task : sched'.state[u] = "WAITING" <=> sched.state[u] = "WAITING" \/ u = t
  BY WaitStepKeepsActivations
<1>2. /\ sched.state[t] # "WAITING" /\ ecb \in [Extended -> Ecb]
      /\ blockedIn \in [Extended -> {"none", "WaitEvent", "WaitAllEvents"}]
  BY <1>1 DEF RunOK, Settled, RunningOK, TypeOK
<1>3. WaitServices[t] \in SUBSET {"WaitEvent", "WaitAllEvents"} BY ApplicationConstants
<1>4. \A u \in Task \ {t} : sched'.state[u] = "WAITING" <=> sched.state[u] = "WAITING" BY <1>1
<1>5. ASSUME NEW u \in Extended \ {t}, ecb'[u] = ecb[u], blockedIn'[u] = blockedIn[u]
      PROVE  WaitOK(u)'
  BY <1>4, <1>5, EventConstants DEF WaitInvariant, WaitOK, Awaited
<1>6. CASE "WaitEvent" \in WaitServices[t] /\ WaitEvent(t, mask)
  <2>1. /\ ecb' = [ecb EXCEPT ![t].waitMask = mask]
        /\ WaitUnless(ecb[t].setMask \cap mask # {}, t, "WaitEvent")
    BY <1>6 DEF WaitEvent
  <2>2. /\ ecb'[t].waitMask = mask /\ ecb'[t].setMask = ecb[t].setMask
        /\ ecb'[t].waitAll = ecb[t].waitAll
        /\ \A u \in Extended \ {t} : ecb'[u] = ecb[u]
    BY <2>1, <1>1, <1>2 DEF Ecb
  <2>3. ~ ecb[t].waitAll BY <1>1, <1>3, <1>6 DEF WaitInvariant, WaitOK, OneWaitService
  <2>4. CASE ecb[t].setMask \cap mask # {}
    <3>1. sched' = sched /\ blockedIn' = blockedIn BY <2>1, <2>4 DEF WaitUnless
    <3>2. WaitOK(t)' BY <3>1, <2>2, <2>3, <1>2 DEF WaitOK
    <3>3. QED BY <3>1, <3>2, <2>2, <1>5 DEF WaitInvariant
  <2>5. CASE ~ (ecb[t].setMask \cap mask # {})
    <3>1. blockedIn' = [blockedIn EXCEPT ![t] = "WaitEvent"] BY <2>1, <2>5 DEF WaitUnless
    <3>2. blockedIn'[t] = "WaitEvent" /\ \A u \in Extended \ {t} : blockedIn'[u] = blockedIn[u]
      BY <3>1, <1>1, <1>2
    <3>3. WaitOK(t)' BY <3>2, <2>2, <2>3, <2>5, <1>6 DEF WaitOK, Awaited
    <3>4. QED BY <3>2, <3>3, <2>2, <1>5 DEF WaitInvariant
  <2>6. QED BY <2>4, <2>5
<1>7. CASE "WaitAllEvents" \in WaitServices[t] /\ WaitAllEvents(t, mask)
  <2>1. /\ ecb' = [ecb EXCEPT ![t].waitMask = mask, ![t].waitAll = TRUE]
        /\ WaitUnless(mask \subseteq ecb[t].setMask, t, "WaitAllEvents")
    BY <1>7 DEF WaitAllEvents
  <2>2. /\ ecb'[t].waitMask = mask /\ ecb'[t].setMask = ecb[t].setMask
        /\ ecb'[t].waitAll = TRUE
        /\ \A u \in Extended \ {t} : ecb'[u] = ecb[u]
    BY <2>1, <1>1, <1>2 DEF Ecb
  <2>3. CASE mask \subseteq ecb[t].setMask
    <3>1. sched' = sched /\ blockedIn' = blockedIn BY <2>1, <2>3 DEF WaitUnless
    <3>2. WaitOK(t)' BY <3>1, <2>2, <1>2, <1>7 DEF WaitOK
    <3>3. QED BY <3>1, <3>2, <2>2, <1>5 DEF WaitInvariant
  <2>4. CASE ~ (mask \subseteq ecb[t].setMask)
    <3>1. blockedIn' = [blockedIn EXCEPT ![t] = "WaitAllEvents"] BY <2>1, <2>4 DEF WaitUnless
    <3>2. /\ blockedIn'[t] = "WaitAllEvents"
          /\ \A u \in Extended \ {t} : blockedIn'[u] = blockedIn[u]
      BY <3>1, <1>1, <1>2
    <3>3. WaitOK(t)' BY <3>2, <2>2, <2>4, <1>7 DEF WaitOK, Awaited
    <3>4. QED BY <3>2, <3>3, <2>2, <1>5 DEF WaitInvariant
  <2>5. QED BY <2>3, <2>4
<1>8. QED BY <1>6, <1>7 DEF WaitForEvents

\* A task that still waits after SetEvent waits for something else.
LEMMA SetEventKeepsWaits ==
  ASSUME TypeOK, RunOK, ActivationsOK(sched), WaitInvariant,
         NEW target \in Task, NEW mask \in Masks, SetEvent(target, mask)
  PROVE  WaitInvariant'
<1> DEFINE set  == ecb[target].setMask \cup mask
           wake == sched.state[target] = "WAITING" /\ Awaited(set, ecb[target])
<1>1. \A u \in Task : sched'.state[u] = "WAITING"
                      <=> sched.state[u] = "WAITING" /\ ~ (wake /\ u = target)
  BY SetEventKeepsActivations
<1>2. /\ ecb' = [ecb EXCEPT ![target].setMask = set,
                            ![target].waitAll = IF wake THEN FALSE ELSE @]
      /\ blockedIn' = IF wake THEN [blockedIn EXCEPT ![target] = "none"] ELSE blockedIn
  BY DEF SetEvent
<1>3. /\ ecb \in [Extended -> Ecb]
      /\ blockedIn \in [Extended -> {"none", "WaitEvent", "WaitAllEvents"}]
  BY DEF TypeOK
<1>4. \A u \in Extended \ {target} : ecb'[u] = ecb[u] /\ blockedIn'[u] = blockedIn[u] BY <1>2, <1>3
<1>5. ASSUME NEW u \in Extended \ {target} PROVE WaitOK(u)'
  BY <1>1, EventConstants, <1>4 DEF WaitInvariant, WaitOK, Awaited
<1>6. ASSUME target \in Extended PROVE WaitOK(target)'
  <2>1. WaitOK(target) /\ ecb[target] \in Ecb BY <1>3, <1>6 DEF WaitInvariant
  <2>2. /\ ecb'[target].setMask = set /\ ecb'[target].waitMask = ecb[target].waitMask
        /\ ecb'[target].waitAll = IF wake THEN FALSE ELSE ecb[target].waitAll
        /\ ~ wake => blockedIn' = blockedIn
    <3> HIDE DEF set, wake
    <3>1. QED BY <1>2, <1>3, <1>6 DEF Ecb
  <2>3. wake => sched'.state[target] # "WAITING" BY <1>1
  <2>4. ~ wake /\ sched.state[target] = "WAITING" => ~ Awaited(set, ecb[target]) OBVIOUS
  <2>5. sched'.state[target] = "WAITING" => sched.state[target] = "WAITING" BY <1>1
  <2> HIDE DEF set, wake
  <2>6. CASE wake BY <2>1, <2>2, <2>3, <2>6 DEF WaitOK
  <2>7. CASE ~ wake BY <2>1, <2>2, <2>4, <2>5, <2>7 DEF WaitOK, Awaited
  <2>8. QED BY <2>6, <2>7
<1>7. QED BY <1>5, <1>6 DEF WaitInvariant

(* WaitInvariant is inductive on top of the others.                         *)
LEMMA NextKeepsWaits ==
  ASSUME NoChainWhileNonPreemptable, OneWaitService, IInv, ActivationInvariant,
         WaitInvariant, [Next]_vars
  PROVE  WaitInvariant'
<1>1. TypeOK /\ IdleIsReady /\ CallsOK BY DEF IInv
<1>2. CASE UNCHANGED vars BY <1>2 DEF vars, WaitInvariant, WaitOK
<1>3. CASE Next /\ BootOK
  BY <1>3, BootOnlyStarts, <1>1, BootKeepsActivations, SameWaitsKept DEF InitTaskTCB, StartScheduler, evtVars
<1>4. CASE Next /\ RunOK
  BY <1>1, <1>4, RunningActivations, RunningSteps, QuietStepsKeepWaits, WaitStepKeepsWaits, SetEventKeepsWaits
<1>5. QED BY <1>2, <1>3, <1>4 DEF IInv

\* Initially no task waits.
LEMMA InitWaits == Init => WaitInvariant
BY EventConstants DEF WaitInvariant, Init, InitSched, ClearedEcb, WaitOK

-----------------------------------------------------------------------------
(* A non-preemptable task keeps the processor                               *)

\* An activation or a wakeup while the dispatcher is locked
LEMMA LockedMakeReady ==
  ASSUME NEW s \in Sched, NEW t \in Task, s.locker # 0
  PROVE  MakeReady(s, t, TaskPriority[t]).running = s.running
<1> DEFINE p == TaskPriority[t]
           q == [s EXCEPT !.queue = InsertTail(@, p, t)]
           v == [q EXCEPT !.high = t, !.highPrio = p]
<1>1. q.running = s.running /\ q.locker = s.locker BY DEF Sched
<1>2. v.running = q.running /\ v.locker = q.locker BY DEF Sched
<1> HIDE DEF q, v
<1>3. RaiseHigh(q, t, p) = v \/ RaiseHigh(q, t, p) = q BY DEF RaiseHigh, v
<1>4. MakeReady(s, t, p) = q \/ MakeReady(s, t, p) = DispatchIfUnlocked(RaiseHigh(q, t, p))
  BY DEF MakeReady, q
<1>5. QED BY <1>1, <1>2, <1>3, <1>4 DEF DispatchIfUnlocked

\* A release while the dispatcher stays locked
LEMMA LockedAfterRelease ==
  ASSUME NEW s \in Sched, s.locker # 0
  PROVE  AfterRelease(s).running = s.running
<1> DEFINE u == UpdateHighPrioTask(s)
<1>1. u.running = s.running /\ u.locker = s.locker BY DEF UpdateHighPrioTask, Sched
<1>2. AfterRelease(s) = u BY <1>1 DEF AfterRelease, DispatchIfUnlocked
<1>3. QED BY <1>1, <1>2

\* A task that gave the processor up in a state of its own choice keeps it.
LEMMA GiveUpStates ==
  ASSUME NEW s, NEW R, NEW S, Core(s, R, S), HighIsTop(s), NEW t \in Task,
         s.state[t] \notin {"RUNNING", "READY"}
  PROVE  GiveUp(s).state[t] # "READY"
<1> DEFINE u == [s EXCEPT !.locker = 0]
<1>1. u \in Sched /\ u.state = s.state /\ u.high = s.high /\ u.highPrio = s.highPrio
  BY DEF Core, Sched
<1>2. GiveUp(s) = SwitchTask(u) BY DEF GiveUp
<1> HIDE DEF u
<1>3. u.high \in Task /\ u.highPrio \in Prio BY <1>1 DEF HighIsTop
<1>4. QED BY <1>1, <1>2, <1>3, SwitchTaskStates
\* The dispatcher is locked while a non-preemptable task runs.
LEMMA NonPreemptableLocks ==
  ASSUME TypeOK, RunOK, sched.running \in NonPreemptable
  PROVE  /\ sched \in Sched /\ sched.locker \in Nat \ {0}
         /\ sched.locker >= Len(isrNest) + 1
         /\ SharedWithIsr(taskRes[sched.running]) # {} => sched.locker >= 2
<1>1. /\ Settled(sched, rcb, taskRes, Len(isrNest)) /\ Len(isrNest) \in Nat
      /\ sched \in Sched /\ taskRes \in Stacks /\ sched.running \in Task
  BY RunningFacts DEF Settled, Core
<1> DEFINE k == Cardinality(SharedWithIsr(taskRes[sched.running]))
<1>2. k \in Nat /\ (k = 0 => SharedWithIsr(taskRes[sched.running]) = {}) BY <1>1, SharedIsFinite
<1>3. sched.locker = Len(isrNest) + k + 1 BY <1>1 DEF Settled, Locks
<1> HIDE DEF k
<1>4. QED BY <1>1, <1>2, <1>3

\* TerminateTask leaves the task suspended, ready to start again, or running.
LEMMA TerminateStates ==
  ASSUME TypeOK, RunOK, ActivationsOK(sched), NEW t \in Task, TerminateTask(t)
  PROVE  sched'.state[t] # "READY"
<1> DEFINE w == TerminateTaskInternal(sched, t)
           u == UpdateHighIfItWas(w, t)
<1>1. /\ Settled(sched, rcb, taskRes, Len(isrNest)) /\ Len(isrNest) \in Nat
      /\ sched' = GiveUp(u)
      /\ taskRes[t] = <<>> /\ sched.running = t /\ t # Idle
  BY RunningFacts DEF TerminateTask, Calling, InTask, DoTerminateTask
<1>2. /\ Core(w, rcb, taskRes) /\ w.queue[0] # <<>>
      /\ w.high = sched.high /\ w.highPrio = sched.highPrio /\ w.running = sched.running
      /\ \A p \in Prio : w.queue[p] # <<>> => sched.queue[p] # <<>>
      /\ \A p \in Prio : \A v \in Task \ {t} :
           First(sched.queue, p, v) => First(w.queue, p, v)
  BY <1>1, TerminateInternalFacts
<1>3. w.state[t] \in {"START", "SUSPENDED"} BY <1>1, TerminateInternalKeepsActivations
<1> HIDE DEF w
<1>4. Core(u, rcb, taskRes) /\ HighIsTop(u) BY <1>1, <1>2, UpdateAfterLeaving
<1>5. u.state = w.state BY <1>2 DEF UpdateHighIfItWas, UpdateHighPrioTask, Core, Sched
<1> HIDE DEF u
<1>6. QED BY <1>1, <1>3, <1>4, <1>5, GiveUpStates

(* Nothing but the task itself ends the run of a non-preemptable task.      *)
LEMMA NonPreemptableStep ==
  ASSUME TypeOK, RunOK, CallsOK, NoChainWhileNonPreemptable, ActivationsOK(sched), Next,
         NEW t, t = sched.running, t \in NonPreemptable, sched'.running # t
  PROVE  sched'.state[t] # "READY" \/ Schedule(t)
<1> SUFFICES ASSUME sched'.state[t] = "READY", ~ Schedule(t) PROVE FALSE OBVIOUS
<1>1. /\ Settled(sched, rcb, taskRes, Len(isrNest)) /\ Len(isrNest) \in Nat
      /\ Core(sched, rcb, taskRes) /\ t \in Task /\ isrNest \in Seq(Isr)
      /\ rcb \in Rcbs /\ taskRes \in Stacks
      /\ SysOsLevel = "TASK" => Len(isrNest) = 0
  BY RunningFacts DEF Settled, TypeOK
<1>2. /\ sched \in Sched /\ sched.locker \in Nat \ {0}
      /\ sched.locker >= Len(isrNest) + 1
      /\ SharedWithIsr(taskRes[t]) # {} => sched.locker >= 2
  BY NonPreemptableLocks
<1>3. [sched EXCEPT !.locker = @ - 1].running = t /\ [sched EXCEPT !.locker = @ + 1].running = t
  BY <1>2 DEF Sched
<1>4. ASSUME NEW v \in Task, ActivateTask(v) PROVE FALSE
  <2> DEFINE a == CountActivation(sched, v)
  <2>1. a \in Sched /\ a.running = sched.running /\ a.locker = sched.locker
    BY <1>1, CountActivationFacts DEF Core
  <2> HIDE DEF a
  <2>2. sched' = MakeReady(a, v, TaskPriority[v]) BY <1>4 DEF ActivateTask, DoActivateTask, a
  <2>3. QED BY <2>1, <2>2, <1>2, LockedMakeReady
<1>5. ASSUME NEW v \in Task, TerminateTask(v) PROVE FALSE
  BY <1>5, TerminateStates DEF TerminateTask, Calling, InTask
<1>6. ASSUME NEW v \in Task, \E succ \in Task : ChainTask(v, succ) PROVE FALSE
  BY <1>6 DEF ChainTask, Calling, InTask, NoChainWhileNonPreemptable
<1>7. ASSUME NEW v \in Task, Schedule(v) PROVE FALSE BY <1>7 DEF Schedule, Calling, InTask
<1>8. sched' # sched OBVIOUS
<1>9. ASSUME NEW v \in Task,
             \/ \E r \in Resource : GetResourceCheck(v, r)
             \/ \E mask \in Masks : ClearEvents(v, mask)
             \/ \E target \in Extended, mask \in Masks : SetEventCheck(v, target, mask)
      PROVE  FALSE
  BY <1>8, <1>9 DEF GetResourceCheck, ClearEvents, ClearEvent, SetEventCheck
<1>10. ASSUME NEW r \in Resource, IsrGetResource(r) PROVE FALSE
  BY <1>8, <1>10 DEF IsrGetResource, GetResourceAtIsrLevel, GetResourceByInterrupt
<1>11. ASSUME NEW v \in Task, GetResource(v) PROVE FALSE
  <2> DEFINE r == call[v].res
  <2>1. /\ v = sched.running /\ SysOsLevel = "TASK" /\ GetResourceAtTaskLevel(v, r)
        /\ r \in Resource /\ r \notin Range(taskRes[v]) /\ TaskPriority[v] <= Ceiling[r]
    BY <1>11, ResourceConstants DEF GetResource, InTask, CallsOK
  <2> HIDE DEF r
  <2>2. CASE OccupyType[r] = "BY_TASK"
    BY <2>1, <2>2, <1>1, TakeByTaskSettles DEF GetResourceAtTaskLevel, GetResourceByTask
  <2>3. CASE OccupyType[r] # "BY_TASK"
    BY <2>1, <2>3, <1>3 DEF GetResourceAtTaskLevel, GetResourceByTaskOrInterrupt
  <2>4. QED BY <2>2, <2>3
<1>12. ASSUME NEW r \in Resource, ReleaseAnyResource(r) PROVE FALSE
  <2>1. /\ rcb[r].saveCount > 0
        /\ \/ OccupyType[r] = "BY_TASK" /\ ReleaseResourceByTask(t, r)
           \/ /\ OccupyType[r] = "BY_TASK_OR_INTERRUPT"
              /\ rcb[r].saveLevel = "TASK"
              /\ ReleaseResourceByTaskOrInterrupt(t, r)
           \/ ReleaseResourceByInterrupt(RunningIsr, r)
    BY <1>12 DEF ReleaseAnyResource, ReleaseResource
  <2>2. ASSUME NEW x \in Sched, x.running = t, x.locker # 0, sched' = AfterRelease(x)
        PROVE  FALSE
    BY <2>2, LockedAfterRelease
  <2>3. CASE OccupyType[r] = "BY_TASK" /\ ReleaseResourceByTask(t, r)
    <3> DEFINE x == Lowered(sched, t, Ceiling[r], rcb[r].savePrio)
    <3>1. /\ TaskPriority[t] <= Ceiling[r] /\ rcb[r].saveCount = Len(taskRes[t])
          /\ sched' = AfterRelease(x)
      BY <2>3 DEF ReleaseResourceByTask, LowerFromCeiling, Lowered
    <3>2. x \in Sched BY <3>1, <2>1, <2>3, <1>1, ReleaseByTaskSettles DEF Core
    <3>3. x.running = t /\ x.locker = sched.locker BY <1>2 DEF Lowered, Sched
    <3> HIDE DEF x
    <3>4. QED BY <3>1, <3>2, <3>3, <2>2, <1>2
  <2>4. CASE /\ OccupyType[r] = "BY_TASK_OR_INTERRUPT"
             /\ rcb[r].saveLevel = "TASK"
             /\ ReleaseResourceByTaskOrInterrupt(t, r)
    <3> DEFINE x == [sched EXCEPT !.locker = @ - 1]
    <3>1. /\ rcb[r].saveCount = Len(taskRes[t]) /\ sched' = AfterRelease(x)
      BY <2>4 DEF ReleaseResourceByTaskOrInterrupt
    <3>2. SharedWithIsr(taskRes[t]) # {}
      <4>1. taskRes[t] # <<>> /\ r = taskRes[t][Len(taskRes[t])]
        BY <3>1, <2>1, <2>4, <1>1, LastIsReleased
      <4>2. Len(taskRes[t]) \in DOMAIN taskRes[t] BY <4>1, <1>1 DEF Stacks
      <4>3. QED BY <4>1, <4>2, <2>4 DEF SharedWithIsr
    <3>3. x \in Sched /\ x.locker # 0
      <4> DEFINE l == sched.locker - 1
      <4>1. l \in Nat /\ l # 0 /\ x = [sched EXCEPT !.locker = l] BY <3>2, <1>2
      <4> HIDE DEF l, x
      <4>2. QED BY <4>1, <1>2 DEF Sched
    <3>4. QED BY <3>1, <3>3, <2>2, <1>3
  <2>5. CASE ReleaseResourceByInterrupt(RunningIsr, r)
    BY <2>5, <2>2, <1>2 DEF ReleaseResourceByInterrupt
  <2>6. QED BY <2>1, <2>3, <2>4, <2>5
<1>13. ASSUME NEW i \in Isr, TakeInterrupt(i) PROVE FALSE
  BY <1>13, <1>3 DEF TakeInterrupt, EnterISR2
<1>14. CASE ReturnFromInterrupt
  <2> DEFINE x == [sched EXCEPT !.locker = @ - 1]
  <2>1. isrNest # <<>> /\ sched' = IF isrNest' = <<>> THEN ExitISR2SwitchTask(x) ELSE x
    BY <1>14 DEF ReturnFromInterrupt, ExitISR2
  <2>2. Len(isrNest) >= 1 BY <2>1, <1>1
  <2>3. x.locker # 0 BY <2>2, <1>1, <1>2 DEF Sched
  <2>4. sched' = x BY <2>1, <2>3 DEF ExitISR2SwitchTask
  <2>5. QED BY <2>4, <1>3
<1>15. ASSUME NEW v \in Task, NEW mask \in Masks, WaitForEvents(v, mask) PROVE FALSE
  BY <1>8, <1>15, <1>1, WaitStepKeepsActivations
<1>16. ASSUME NEW target \in Task, NEW mask \in Masks, SetEvent(target, mask) PROVE FALSE
  <2> DEFINE a == [sched EXCEPT !.state[target] = "READY"]
  <2>1. sched' = MakeReady(a, target, sched.runPrio[target]) /\ sched.state[target] = "WAITING"
    BY <1>8, <1>16, <1>2 DEF SetEvent, Sched, SetTaskToReady
  <2>2. a \in Sched /\ a.running = t /\ a.locker = sched.locker BY <1>2 DEF Sched, TaskStates
  <2>3. sched.runPrio[target] = TaskPriority[target]
    <3>1. ~ Occupied(sched.runPrio, taskRes, target)
          /\ TaskPriority[target] <= sched.runPrio[target]
      BY <2>1, <1>1 DEF Core, QueuesOK, OccupiedTasksNest, WaitersHoldNothing
    <3>2. sched.runPrio[target] \in Prio /\ TaskPriority[target] \in Prio
      BY <1>2, TaskConstants DEF Sched
    <3>3. QED BY <3>1, <3>2 DEF Occupied, Prio
  <2> HIDE DEF a
  <2>4. QED BY <2>1, <2>2, <2>3, <1>2, LockedMakeReady
<1>17. ~ QuietStep BY <1>4, <1>5, <1>6, <1>7, <1>9, <1>10, <1>11, <1>12, <1>13, <1>14 DEF QuietStep
<1>18. QED BY <1>15, <1>16, <1>17, RunningSteps
-----------------------------------------------------------------------------
(* Interrupt levels and the resources of interrupts                         *)

NestTypes(nest, saved, level) ==
  /\ nest \in Seq(Isr) /\ saved \in Seq(Nat)
  /\ Len(saved) = Len(nest) /\ level \in Nat

IsrStacks == [Isr -> Seq(Resource)]

\* The parts of InterruptInvariant, for any of its pieces of state
InterruptOK(nest, saved, level, R, S, I) ==
  /\ LevelsExclude(nest, saved, level, I)
  /\ TasksExclude(nest, saved, level, S)
  /\ IsrStacksMatch(nest, R, I)
  /\ TaskLevelsRestorable(R, S)

\* Going back to a saved level restores it.
LEMMA LevelIsRestored ==
  ASSUME NEW level \in Nat
  PROVE  PrioToIpl(IplToPrio(level)) = level /\ IplToPrio(level) \in Nat
BY QueueConstants DEF PrioToIpl, IplToPrio

\* The level GetResource sets at interrupt level is the higher of the two.
LEMMA LevelIsRaised ==
  ASSUME NEW level \in Nat, NEW c \in Nat
  PROVE  LET z == IF c > IplToPrio(level) THEN PrioToIpl(c) ELSE level
         IN  z \in Nat /\ level <= z /\ PrioToIpl(c) <= z
BY QueueConstants DEF PrioToIpl, IplToPrio

\* The levels rise with the nesting, so that no interrupt nests in itself.
LEMMA LevelsRise ==
  ASSUME NEW nest, NEW saved, NEW level, NEW I,
         NestTypes(nest, saved, level), LevelsExclude(nest, saved, level, I)
  PROVE  /\ Len(nest) \in Nat
         /\ \A k \in 1 .. Len(nest) :
              /\ nest[k] \in Isr /\ IsrPrio[nest[k]] \in Nat /\ saved[k] \in Nat
              /\ IsrPrio[nest[k]] <= level
              /\ saved[k] < level
         /\ \A k \in 0 .. Len(nest) :
              /\ LevelAbove(nest, saved, level, k) \in Nat
              /\ LevelAbove(nest, saved, level, k) <= level
         /\ \A k \in 1 .. Len(nest) : \A j \in 0 .. k - 1 :
              LevelAbove(nest, saved, level, j) <= saved[k]
         /\ \A k \in 1 .. Len(nest) : \A j \in 1 .. k - 1 :
              IsrPrio[nest[j]] < IsrPrio[nest[k]]
<1> DEFINE n == Len(nest)
           LA(k) == LevelAbove(nest, saved, level, k)
<1>1. n \in Nat /\ level \in Nat BY DEF NestTypes
<1>2. \A k \in 1 .. n : nest[k] \in Isr /\ IsrPrio[nest[k]] \in Nat /\ saved[k] \in Nat
  BY IsrConstants DEF NestTypes
<1>3. \A k \in 1 .. n : /\ \A j \in 1 .. k - 1 : saved[j] < saved[k]
                        /\ saved[k] < IsrPrio[nest[k]]
                        /\ IsrPrio[nest[k]] <= LA(k)
  BY DEF LevelsExclude
<1>4. \A k \in 0 .. n : LA(k) = IF k = n THEN level ELSE saved[k + 1] BY DEF LevelAbove
<1> HIDE DEF LA, n
<1>5. \A k \in 0 .. n : LA(k) \in Nat BY <1>1, <1>2, <1>4
<1>6. \A k \in 1 .. n : saved[k] < level BY <1>1, <1>3, <1>4, <1>2
<1>7. \A k \in 0 .. n : LA(k) <= level BY <1>1, <1>2, <1>4, <1>6
<1>8. \A k \in 1 .. n : \A j \in 0 .. k - 1 : LA(j) <= saved[k] BY <1>1, <1>4, <1>3, <1>2
<1>9. \A k \in 1 .. n : IsrPrio[nest[k]] <= level BY <1>1, <1>2, <1>3, <1>5, <1>7
<1>10. \A k \in 1 .. n : \A j \in 1 .. k - 1 : IsrPrio[nest[j]] < IsrPrio[nest[k]]
  BY <1>1, <1>3, <1>8, <1>2, <1>5
<1>11. QED BY <1>1, <1>2, <1>5, <1>6, <1>7, <1>8, <1>9, <1>10 DEF LA, n

(* A resource the running interrupt has access to is free or its own: the   *)
(* level keeps the interrupt out while a task or another interrupt holds it.*)
LEMMA IsrFindsItsOwn ==
  ASSUME NEW nest, NEW saved, NEW level, NEW R \in Rcbs, NEW S \in Stacks, NEW I \in IsrStacks,
         NestTypes(nest, saved, level), InterruptOK(nest, saved, level, R, S, I),
         StacksMatch(R, S), nest # <<>>,
         NEW r, r \in IsrAccess[Last(nest)], R[r].saveCount > 0
  PROVE  /\ R[r].saveLevel # "TASK"
         /\ R[r].saveCount \in 1 .. Len(I[Last(nest)])
         /\ I[Last(nest)][R[r].saveCount] = r
<1> DEFINE n == Len(nest)
           i == Last(nest)
           c == PrioToIpl(Ceiling[r])
           m == R[r].saveCount
<1>1. n \in Nat /\ n \in 1 .. n /\ i = nest[n] BY DEF NestTypes, Last
<1>2. /\ \A k \in 1 .. n : nest[k] \in Isr /\ IsrPrio[nest[k]] \in Nat /\ saved[k] \in Nat
      /\ \A k \in 0 .. n : LevelAbove(nest, saved, level, k) \in Nat
      /\ \A j \in 0 .. n - 1 : LevelAbove(nest, saved, level, j) <= saved[n]
  BY <1>1, LevelsRise DEF InterruptOK
<1>3. saved[n] < IsrPrio[i] BY <1>1 DEF InterruptOK, LevelsExclude
<1>4. /\ r \in Resource /\ OccupyType[r] # "BY_TASK" /\ IsrPrio[i] <= c
      /\ c \in Nat /\ m \in Nat
  BY <1>1, <1>2, ResourceConstants, LevelsAreNat DEF Rcbs, Rcb
<1> HIDE DEF n, i, c
<1>5. \A j \in 0 .. n - 1 : ~ (c <= LevelAbove(nest, saved, level, j)) BY <1>1, <1>2, <1>3, <1>4
<1>6. CASE R[r].saveLevel = "TASK"
  <2>1. PICK t \in Task : m <= Len(S[t]) /\ S[t][m] = r BY <1>4, <1>6 DEF StacksMatch
  <2>2. S[t] \in Seq(Resource) BY DEF Stacks
  <2>3. m \in 1 .. Len(S[t]) /\ m \in DOMAIN S[t] BY <2>1, <2>2, <1>4
  <2>4. OccupyType[r] # "BY_INTERRUPT" BY <2>1, <2>3 DEF StacksMatch
  <2>5. OccupyType[r] = "BY_TASK_OR_INTERRUPT" BY <2>4, <1>4, ResourceConstants DEF OccupyTypes
  <2>6. m \in SharedWithIsr(S[t]) BY <2>1, <2>3, <2>5 DEF SharedWithIsr
  <2>7. c <= LevelAbove(nest, saved, level, 0) BY <2>1, <2>6 DEF InterruptOK, TasksExclude, c
  <2>8. QED BY <2>7, <1>1, <1>5
<1>7. CASE R[r].saveLevel # "TASK"
  <2>1. PICK j \in Isr : m <= Len(I[j]) /\ I[j][m] = r BY <1>4, <1>7 DEF InterruptOK, IsrStacksMatch
  <2>2. I[j] \in Seq(Resource) BY DEF IsrStacks
  <2>3. m \in 1 .. Len(I[j]) BY <2>1, <2>2, <1>4
  <2>4. j \in Range(nest) /\ r \in Range(I[j])
    BY <2>1, <2>2, <2>3 DEF InterruptOK, IsrStacksMatch, Range
  <2>5. PICK k \in 1 .. n : nest[k] = j BY <2>4 DEF Range, NestTypes, n
  <2>6. c <= LevelAbove(nest, saved, level, k) BY <2>4, <2>5 DEF InterruptOK, LevelsExclude, c, n
  <2>7. k = n BY <2>6, <1>1, <1>5
  <2>8. QED BY <2>1, <2>3, <2>5, <2>7, <1>1, <1>7 DEF i
<1>8. QED BY <1>6, <1>7

\* Taking an interrupt
LEMMA EnterKeepsInterrupts ==
  ASSUME NEW nest, NEW saved, NEW level, NEW R \in Rcbs, NEW S \in Stacks, NEW I \in IsrStacks,
         NestTypes(nest, saved, level), InterruptOK(nest, saved, level, R, S, I),
         NEW i \in Isr, IsrPrio[i] > level
  PROVE  InterruptOK(Append(nest, i), Append(saved, level), IsrPrio[i], R, S, I)
<1> DEFINE n == Len(nest)
           nn == Append(nest, i)
           ns == Append(saved, level)
           nl == IsrPrio[i]
           LA(k) == LevelAbove(nest, saved, level, k)
           NA(k) == LevelAbove(nn, ns, nl, k)
<1>1. /\ n \in Nat /\ level \in Nat /\ Len(saved) = n /\ nl \in Nat
      /\ Len(nn) = n + 1 /\ nn[n + 1] = i /\ ns[n + 1] = level
      /\ \A k \in 1 .. n : nn[k] = nest[k] /\ ns[k] = saved[k]
  BY IsrConstants DEF NestTypes
<1>2. /\ \A k \in 1 .. n : /\ nest[k] \in Isr /\ IsrPrio[nest[k]] \in Nat /\ saved[k] \in Nat
                           /\ IsrPrio[nest[k]] <= level
                           /\ saved[k] < level
  BY LevelsRise DEF InterruptOK
<1>3. \A k \in 0 .. n : NA(k) = LA(k) BY <1>1 DEF LevelAbove
<1>4. NA(n + 1) = nl BY <1>1 DEF LevelAbove
<1>5. Range(nest) \subseteq Range(nn)
  <2>1. DOMAIN nest = 1 .. n /\ DOMAIN nn = 1 .. n + 1 BY <1>1 DEF NestTypes
  <2> HIDE DEF nn, n
  <2>2. QED BY <2>1, <1>1 DEF Range
<1>6. Range(I[i]) = {}
  <2>1. i \notin Range(nest) BY <1>2, <1>1 DEF NestTypes, Range
  <2>2. I[i] \in Seq(Resource) BY DEF IsrStacks
  <2>3. ~ (1 \in 1 .. Len(I[i])) BY <2>1 DEF InterruptOK, IsrStacksMatch
  <2>4. DOMAIN I[i] = {} BY <2>2, <2>3
  <2>5. QED BY <2>4 DEF Range
<1> HIDE DEF nn, ns, nl, LA, NA, n
<1>7. LevelsExclude(nn, ns, nl, I)
  <2> SUFFICES ASSUME NEW k \in 1 .. n + 1
               PROVE  /\ \A j \in 1 .. k - 1 : ns[j] < ns[k]
                      /\ ns[k] < IsrPrio[nn[k]]
                      /\ IsrPrio[nn[k]] <= NA(k)
                      /\ \A r \in Range(I[nn[k]]) : PrioToIpl(Ceiling[r]) <= NA(k)
    BY <1>1 DEF LevelsExclude, NA
  <2>1. CASE k = n + 1 BY <2>1, <1>1, <1>2, <1>4, <1>6 DEF nl
  <2>2. CASE k \in 1 .. n BY <2>2, <1>1, <1>3 DEF InterruptOK, LevelsExclude, LA, n
  <2>3. QED BY <2>1, <2>2, <1>1
<1>8. TasksExclude(nn, ns, nl, S) BY <1>1, <1>3 DEF InterruptOK, TasksExclude, NA, LA
<1>9. IsrStacksMatch(nn, R, I) BY <1>5 DEF InterruptOK, IsrStacksMatch
<1>10. QED BY <1>7, <1>8, <1>9 DEF InterruptOK, nn, ns, nl
\* The entries below the last one
LEMMA FrontEntries ==
  ASSUME NEW T, NEW s \in Seq(T), s # <<>>
  PROVE  /\ Front(s) \in Seq(T) /\ Len(s) \in Nat \ {0} /\ Len(Front(s)) = Len(s) - 1
         /\ Last(s) = s[Len(s)]
         /\ \A k \in 1 .. Len(s) - 1 : Front(s)[k] = s[k]
BY FrontAndLast DEF Front, Last

\* Returning from an interrupt that holds nothing
LEMMA ExitKeepsInterrupts ==
  ASSUME NEW nest, NEW saved, NEW level, NEW R \in Rcbs, NEW S \in Stacks, NEW I \in IsrStacks,
         NestTypes(nest, saved, level), InterruptOK(nest, saved, level, R, S, I),
         nest # <<>>, I[Last(nest)] = <<>>
  PROVE  InterruptOK(Front(nest), Front(saved), Last(saved), R, S, I)
<1> DEFINE n == Len(nest)
           nn == Front(nest)
           ns == Front(saved)
           nl == Last(saved)
           LA(k) == LevelAbove(nest, saved, level, k)
           NA(k) == LevelAbove(nn, ns, nl, k)
<1>1. /\ n \in Nat \ {0} /\ Len(nn) = n - 1 /\ nl = saved[n] /\ nn \in Seq(Isr)
      /\ Last(nest) = nest[n]
      /\ \A k \in 1 .. n - 1 : nn[k] = nest[k] /\ ns[k] = saved[k]
  <2>1. nest \in Seq(Isr) /\ saved \in Seq(Nat) /\ saved # <<>> /\ Len(saved) = n BY DEF NestTypes
  <2>2. QED BY <2>1, FrontEntries
<1>2. \A k \in 0 .. n - 1 : NA(k) = LA(k) BY <1>1 DEF LevelAbove
<1> HIDE DEF nn, ns, nl, LA, NA, n
<1>3. LevelsExclude(nn, ns, nl, I) BY <1>1, <1>2 DEF LevelsExclude, NA, InterruptOK, LA, n
<1>4. TasksExclude(nn, ns, nl, S) BY <1>1, <1>2 DEF InterruptOK, TasksExclude, NA, LA
<1>5. IsrStacksMatch(nn, R, I)
  <2>1. ASSUME NEW i \in Isr, NEW k \in 1 .. Len(I[i]) PROVE i \in Range(nn)
    <3>1. i \in Range(nest) BY <2>1 DEF InterruptOK, IsrStacksMatch
    <3>2. PICK j \in 1 .. n : nest[j] = i BY <3>1 DEF Range, NestTypes, n
    <3>3. I[i] # <<>> BY <2>1
    <3>4. j # n BY <3>2, <3>3, <1>1
    <3>5. j \in DOMAIN nn /\ nn[j] = i BY <3>2, <3>4, <1>1
    <3>6. QED BY <3>5 DEF Range
  <2>2. QED BY <2>1 DEF InterruptOK, IsrStacksMatch
<1>6. QED BY <1>3, <1>4, <1>5 DEF InterruptOK, nn, ns, nl

\* What the stacks of the tasks say of the resources of interrupts
LEMMA TaskResourcesDiffer ==
  ASSUME NEW R \in Rcbs, NEW S \in Stacks, StacksMatch(R, S),
         NEW r, R[r].saveLevel # "TASK" \/ R[r].saveCount = 0
  PROVE  \A t \in Task : \A k \in 1 .. Len(S[t]) : S[t][k] # r
BY DEF StacksMatch

\* GetResource by the running interrupt
LEMMA TakeKeepsInterrupts ==
  ASSUME NEW nest, NEW saved, NEW level, NEW R \in Rcbs, NEW S \in Stacks, NEW I \in IsrStacks,
         NestTypes(nest, saved, level), InterruptOK(nest, saved, level, R, S, I),
         StacksMatch(R, S), nest # <<>>,
         NEW r \in Resource, r \in IsrAccess[Last(nest)], R[r].saveCount = 0
  PROVE  LET i == Last(nest)
             c == Ceiling[r]
         IN  InterruptOK(nest, saved,
                         IF c > IplToPrio(level) THEN PrioToIpl(c) ELSE level,
                         [R EXCEPT ![r] = [saveCount |-> Len(I[i]) + 1,
                                           savePrio  |-> IplToPrio(level),
                                           saveLevel |-> "ISR2"]],
                         S, [I EXCEPT ![i] = Append(@, r)])
<1> DEFINE n == Len(nest)
           i == Last(nest)
           c == Ceiling[r]
           nl == IF c > IplToPrio(level) THEN PrioToIpl(c) ELSE level
           new == [saveCount |-> Len(I[i]) + 1, savePrio  |-> IplToPrio(level),
                   saveLevel |-> "ISR2"]
           Q == [R EXCEPT ![r] = new]
           J == [I EXCEPT ![i] = Append(@, r)]
           m == Len(I[i]) + 1
           LA(k) == LevelAbove(nest, saved, level, k)
           NA(k) == LevelAbove(nest, saved, nl, k)
<1>1. /\ n \in Nat \ {0} /\ i = nest[n] /\ n \in 1 .. n /\ i \in Isr /\ i \in Range(nest)
      /\ level \in Nat
  BY DEF NestTypes, Last, Range
<1>2. /\ \A k \in 1 .. n : /\ nest[k] \in Isr /\ IsrPrio[nest[k]] \in Nat /\ saved[k] \in Nat
                           /\ IsrPrio[nest[k]] <= level
      /\ \A k \in 0 .. n : LA(k) \in Nat
      /\ \A k \in 1 .. n : \A j \in 1 .. k - 1 : IsrPrio[nest[j]] < IsrPrio[nest[k]]
  BY LevelsRise DEF InterruptOK
<1>3. nl \in Nat /\ level <= nl /\ PrioToIpl(c) <= nl BY <1>1, ResourceConstants, LevelIsRaised
<1>4. /\ \A k \in 0 .. n - 1 : NA(k) = LA(k)
      /\ LA(n) = level /\ NA(n) = nl
  BY <1>1 DEF LevelAbove
<1>5. /\ I[i] \in Seq(Resource) /\ m \in Nat /\ m \in 1 .. m
      /\ J[i] = Append(I[i], r) /\ Len(J[i]) = m
      /\ J[i][m] = r /\ \A k \in 1 .. m - 1 : J[i][k] = I[i][k]
      /\ \A j \in Isr \ {i} : J[j] = I[j]
  BY <1>1 DEF IsrStacks
<1>6. /\ Q[r].saveCount = m /\ Q[r].saveLevel = "ISR2" /\ Q[r].savePrio = IplToPrio(level)
      /\ \A o \in Resource \ {r} : Q[o] = R[o]
      /\ PrioToIpl(Q[r].savePrio) = level
  BY <1>1, LevelIsRestored DEF Rcbs
<1>7. \A j \in Isr : \A k \in 1 .. Len(I[j]) :
         I[j][k] \in Resource \ {r} /\ Q[I[j][k]] = R[I[j][k]]
  BY <1>6 DEF IsrStacks, InterruptOK, IsrStacksMatch
<1>8. \A t \in Task : \A k \in 1 .. Len(S[t]) : S[t][k] # r /\ S[t][k] \in Resource
  BY TaskResourcesDiffer DEF Stacks
<1>9. Range(J[i]) = Range(I[i]) \cup {r}
  <2>1. DOMAIN I[i] = 1 .. m - 1 /\ DOMAIN J[i] = 1 .. m BY <1>5
  <2> HIDE DEF m, J
  <2>2. QED BY <2>1, <1>5 DEF Range
<1> HIDE DEF n, i, c, nl, new, Q, J, m, LA, NA
<1>10. LevelsExclude(nest, saved, nl, J)
  <2> SUFFICES ASSUME NEW k \in 1 .. n
               PROVE  /\ \A j \in 1 .. k - 1 : saved[j] < saved[k]
                      /\ saved[k] < IsrPrio[nest[k]]
                      /\ IsrPrio[nest[k]] <= NA(k)
                      /\ \A o \in Range(J[nest[k]]) : PrioToIpl(Ceiling[o]) <= NA(k)
    BY DEF LevelsExclude, NA, n
  <2>1. /\ \A j \in 1 .. k - 1 : saved[j] < saved[k]
        /\ saved[k] < IsrPrio[nest[k]]
        /\ IsrPrio[nest[k]] <= LA(k)
        /\ \A o \in Range(I[nest[k]]) : PrioToIpl(Ceiling[o]) <= LA(k)
    BY DEF InterruptOK, LevelsExclude, LA, n
  <2>2. CASE k = n
    <3>1. IsrPrio[nest[k]] <= NA(k) BY <2>1, <2>2, <1>1, <1>2, <1>3, <1>4
    <3>2. ASSUME NEW o \in Range(I[i]) PROVE PrioToIpl(Ceiling[o]) <= NA(k)
      <4>1. o \in Resource BY <1>5 DEF Range
      <4>2. PrioToIpl(Ceiling[o]) \in Nat BY <4>1, ResourceConstants, LevelsAreNat
      <4>3. QED BY <4>2, <3>2, <2>1, <2>2, <1>1, <1>3, <1>4
    <3>3. PrioToIpl(Ceiling[r]) <= NA(k) BY <2>2, <1>3, <1>4 DEF c
    <3>4. QED BY <3>1, <3>2, <3>3, <2>1, <2>2, <1>1, <1>9
  <2>3. CASE k # n
    <3>1. k \in 1 .. n - 1 /\ NA(k) = LA(k) BY <2>3, <1>1, <1>4
    <3>2. nest[k] # i BY <3>1, <1>1, <1>2
    <3>3. J[nest[k]] = I[nest[k]] BY <3>2, <1>2, <1>5
    <3>4. QED BY <3>1, <3>3, <2>1
  <2>4. QED BY <2>2, <2>3
<1>11. TasksExclude(nest, saved, nl, S) BY <1>1, <1>4 DEF InterruptOK, TasksExclude, NA, LA
<1>12. IsrStacksMatch(nest, Q, J)
  <2>1. ASSUME NEW j \in Isr, NEW k \in 1 .. Len(J[j])
        PROVE  /\ j \in Range(nest)
               /\ J[j][k] \in IsrAccess[j]
               /\ Q[J[j][k]].saveCount = k
               /\ Q[J[j][k]].saveLevel # "TASK"
               /\ IsrPrio[j] <= PrioToIpl(Q[J[j][k]].savePrio)
               /\ \A l \in 1 .. k - 1 :
                    PrioToIpl(Ceiling[J[j][l]]) <= PrioToIpl(Q[J[j][k]].savePrio)
    <3>1. CASE j = i /\ k = m
      <4>1. J[j][k] = r /\ r \in IsrAccess[j] BY <3>1, <1>5 DEF i
      <4>2. IsrPrio[j] <= level BY <3>1, <1>1, <1>2
      <4>3. ASSUME NEW l \in 1 .. k - 1 PROVE PrioToIpl(Ceiling[J[j][l]]) <= level
        <5>1. J[j][l] = I[i][l] /\ l \in DOMAIN I[i] BY <3>1, <1>5 DEF m
        <5>2. J[j][l] \in Range(I[nest[n]]) BY <5>1, <1>1 DEF Range
        <5>3. QED BY <5>2, <1>1, <1>4 DEF InterruptOK, LevelsExclude, LA, n
      <4>4. QED BY <4>1, <4>2, <4>3, <3>1, <1>1, <1>6
    <3>2. CASE ~ (j = i /\ k = m)
      <4>1. k \in 1 .. Len(I[j]) /\ \A l \in 1 .. k : J[j][l] = I[j][l] BY <3>2, <1>5 DEF m
      <4>2. Q[I[j][k]] = R[I[j][k]] /\ J[j][k] = I[j][k] /\ \A l \in 1 .. k - 1 : J[j][l] = I[j][l]
        BY <4>1, <1>7
      <4>3. QED BY <4>1, <4>2 DEF InterruptOK, IsrStacksMatch
    <3>3. QED BY <3>1, <3>2
  <2>2. ASSUME NEW j \in Isr, NEW l \in Isr, j # l PROVE Range(J[j]) \cap Range(J[l]) = {}
    <3>1. \A h \in Isr : r \notin Range(I[h]) BY <1>7 DEF IsrStacks, Range
    <3>2. Range(I[j]) \cap Range(I[l]) = {} BY <2>2 DEF InterruptOK, IsrStacksMatch
    <3>3. \A h \in Isr : h # i => Range(J[h]) = Range(I[h]) BY <1>5
    <3>4. CASE j = i BY <3>3, <3>4, <2>2, <1>9, <3>1, <3>2
    <3>5. CASE l = i BY <3>3, <3>5, <2>2, <1>9, <3>1, <3>2
    <3>6. CASE j # i /\ l # i BY <3>2, <3>3, <3>6, <2>2
    <3>7. QED BY <3>4, <3>5, <3>6
  <2>3. ASSUME NEW o \in Resource, Q[o].saveCount > 0, Q[o].saveLevel # "TASK"
        PROVE  \E j \in Isr : Q[o].saveCount <= Len(J[j]) /\ J[j][Q[o].saveCount] = o
    <3>1. CASE o = r BY <3>1, <1>1, <1>5, <1>6
    <3>2. CASE o # r
      <4>1. Q[o] = R[o] /\ R[o].saveCount \in Nat BY <3>2, <1>6 DEF Rcbs, Rcb
      <4>2. PICK j \in Isr : R[o].saveCount <= Len(I[j]) /\ I[j][R[o].saveCount] = o
        BY <4>1, <2>3 DEF InterruptOK, IsrStacksMatch
      <4>3. Len(I[j]) \in Nat /\ R[o].saveCount \in 1 .. Len(I[j]) BY <4>1, <4>2, <2>3 DEF IsrStacks
      <4>4. R[o].saveCount <= Len(J[j]) /\ J[j][R[o].saveCount] = o BY <4>2, <4>3, <1>5 DEF m
      <4>5. QED BY <4>1, <4>4
    <3>3. QED BY <3>1, <3>2
  <2>4. QED BY <2>1, <2>2, <2>3 DEF IsrStacksMatch
<1>13. TaskLevelsRestorable(Q, S)
  <2>1. \A t \in Task : \A k \in SharedWithIsr(S[t]) : Q[S[t][k]] = R[S[t][k]]
    <3> SUFFICES ASSUME NEW t \in Task, NEW k \in SharedWithIsr(S[t])
                 PROVE  Q[S[t][k]] = R[S[t][k]]
      OBVIOUS
    <3>1. k \in 1 .. Len(S[t]) BY DEF SharedWithIsr, Stacks
    <3>2. QED BY <3>1, <1>6, <1>8
  <2>2. QED BY <2>1 DEF InterruptOK, TaskLevelsRestorable
<1>14. QED BY <1>10, <1>11, <1>12, <1>13 DEF InterruptOK, i, c, nl, new, Q, J

\* ReleaseResource by the running interrupt, of the last resource it took
LEMMA GiveBackKeepsInterrupts ==
  ASSUME NEW nest, NEW saved, NEW level, NEW R \in Rcbs, NEW S \in Stacks, NEW I \in IsrStacks,
         NestTypes(nest, saved, level), InterruptOK(nest, saved, level, R, S, I),
         StacksMatch(R, S), nest # <<>>,
         NEW r \in Resource, R[r].saveLevel # "TASK",
         I[Last(nest)] # <<>>, r = I[Last(nest)][Len(I[Last(nest)])]
  PROVE  LET i == Last(nest)
             b == R[r].savePrio
         IN  InterruptOK(nest, saved,
                         IF Ceiling[r] > b THEN PrioToIpl(b) ELSE level,
                         [R EXCEPT ![r] = FreeRcb], S, [I EXCEPT ![i] = Front(@)])
<1> DEFINE n == Len(nest)
           i == Last(nest)
           b == R[r].savePrio
           nl == IF Ceiling[r] > b THEN PrioToIpl(b) ELSE level
           Q == [R EXCEPT ![r] = FreeRcb]
           J == [I EXCEPT ![i] = Front(@)]
           m == Len(I[i])
           LA(k) == LevelAbove(nest, saved, level, k)
           NA(k) == LevelAbove(nest, saved, nl, k)
<1>1. /\ n \in Nat \ {0} /\ i = nest[n] /\ n \in 1 .. n /\ i \in Isr /\ level \in Nat
  BY DEF NestTypes, Last
<1>2. /\ \A k \in 1 .. n : nest[k] \in Isr
      /\ \A k \in 1 .. n : \A j \in 1 .. k - 1 : IsrPrio[nest[j]] < IsrPrio[nest[k]]
      /\ \A k \in 1 .. n : IsrPrio[nest[k]] \in Nat
  BY LevelsRise DEF InterruptOK
<1>3. /\ \A k \in 0 .. n - 1 : NA(k) = LA(k)
      /\ LA(n) = level /\ NA(n) = nl
  BY <1>1 DEF LevelAbove
<1>4. /\ m \in Nat \ {0} /\ m \in 1 .. m /\ I[i][m] = r
      /\ Len(J[i]) = m - 1
      /\ \A k \in 1 .. m - 1 : J[i][k] = I[i][k] /\ k \in 1 .. m
      /\ \A j \in Isr \ {i} : J[j] = I[j]
      /\ \A j \in Isr : J[j] \in Seq(Resource) /\ I[j] \in Seq(Resource)
  <2>1. I[i] \in Seq(Resource) /\ \A j \in Isr : I[j] \in Seq(Resource) BY <1>1 DEF IsrStacks
  <2>2. /\ J[i] = Front(I[i]) /\ \A j \in Isr \ {i} : J[j] = I[j] BY <1>1 DEF IsrStacks
  <2>3. /\ Front(I[i]) \in Seq(Resource) /\ m \in Nat \ {0} /\ Len(Front(I[i])) = m - 1
        /\ \A k \in 1 .. m - 1 : Front(I[i])[k] = I[i][k]
    BY <2>1, FrontEntries
  <2> HIDE DEF J
  <2>4. \A j \in Isr : J[j] \in Seq(Resource) BY <2>1, <2>2, <2>3
  <2>5. m \in 1 .. m /\ \A k \in 1 .. m - 1 : k \in 1 .. m BY <2>3
  <2>6. QED BY <2>1, <2>2, <2>3, <2>4, <2>5
<1>5. Q[r] = FreeRcb /\ \A o \in Resource \ {r} : Q[o] = R[o] BY DEF Rcbs
<1> HIDE DEF n, i, b, nl, Q, J, m, LA, NA
<1>6. \A j \in Isr : \A k \in 1 .. Len(J[j]) :
         k \in 1 .. Len(I[j]) /\ J[j][k] = I[j][k]
  BY <1>4 DEF m
<1>7. \A j \in Isr : \A k \in 1 .. Len(I[j]) :
         /\ R[I[j][k]].saveCount = k
         /\ IsrPrio[j] <= PrioToIpl(R[I[j][k]].savePrio)
         /\ \A l \in 1 .. k - 1 :
              PrioToIpl(Ceiling[I[j][l]]) <= PrioToIpl(R[I[j][k]].savePrio)
  BY DEF InterruptOK, IsrStacksMatch
<1>8. /\ R[r].saveCount = m /\ IsrPrio[i] <= PrioToIpl(b)
       /\ \A l \in 1 .. m - 1 : PrioToIpl(Ceiling[I[i][l]]) <= PrioToIpl(b)
  BY <1>1, <1>4, <1>7 DEF m, b
<1>9. \A j \in Isr : \A k \in 1 .. Len(J[j]) : I[j][k] # r
  <2> SUFFICES ASSUME NEW j \in Isr, NEW k \in 1 .. Len(J[j]), I[j][k] = r PROVE FALSE OBVIOUS
  <2>1. k \in 1 .. Len(I[j]) /\ R[r].saveCount = k /\ R[r].saveCount = m BY <1>6, <1>7, <1>8
  <2>2. CASE j = i BY <2>1, <2>2, <1>4
  <2>3. CASE j # i
    <3>1. r \in Range(I[j]) /\ r \in Range(I[i])
      <4>1. k \in DOMAIN I[j] /\ m \in DOMAIN I[i] BY <2>1, <1>1, <1>4 DEF m
      <4>2. QED BY <4>1, <1>4 DEF Range
    <3>2. QED BY <3>1, <2>3, <1>1 DEF InterruptOK, IsrStacksMatch
  <2>4. QED BY <2>2, <2>3
<1>10. \A j \in Isr : \A o \in Range(J[j]) :
        \E k \in 1 .. Len(J[j]) : o = I[j][k] /\ k \in 1 .. Len(I[j]) /\ o \in Range(I[j])
  <2> SUFFICES ASSUME NEW j \in Isr, NEW o \in Range(J[j])
               PROVE  \E k \in 1 .. Len(J[j]) :
                        o = I[j][k] /\ k \in 1 .. Len(I[j]) /\ o \in Range(I[j])
    OBVIOUS
  <2>1. PICK k \in DOMAIN J[j] : o = J[j][k] BY DEF Range
  <2>2. k \in 1 .. Len(J[j]) BY <2>1, <1>4
  <2>3. o = I[j][k] /\ k \in 1 .. Len(I[j]) BY <2>1, <2>2, <1>6
  <2>4. k \in DOMAIN I[j] BY <2>3, <1>4
  <2>5. QED BY <2>2, <2>3, <2>4 DEF Range
<1>11. \A t \in Task : \A k \in 1 .. Len(S[t]) : S[t][k] # r /\ S[t][k] \in Resource
  BY TaskResourcesDiffer DEF Stacks
<1>12. LevelsExclude(nest, saved, nl, J)
  <2> SUFFICES ASSUME NEW k \in 1 .. n
               PROVE  /\ \A j \in 1 .. k - 1 : saved[j] < saved[k]
                      /\ saved[k] < IsrPrio[nest[k]]
                      /\ IsrPrio[nest[k]] <= NA(k)
                      /\ \A o \in Range(J[nest[k]]) : PrioToIpl(Ceiling[o]) <= NA(k)
    BY DEF LevelsExclude, NA, n
  <2>1. /\ \A j \in 1 .. k - 1 : saved[j] < saved[k]
        /\ saved[k] < IsrPrio[nest[k]]
        /\ IsrPrio[nest[k]] <= LA(k)
        /\ \A o \in Range(I[nest[k]]) : PrioToIpl(Ceiling[o]) <= LA(k)
    BY DEF InterruptOK, LevelsExclude, LA, n
  <2>2. CASE k = n
    <3>1. CASE nl = PrioToIpl(b)
      <4>1. IsrPrio[i] <= PrioToIpl(b) BY <1>8
      <4>2. ASSUME NEW o \in Range(J[i]) PROVE PrioToIpl(Ceiling[o]) <= PrioToIpl(b)
        <5>1. PICK j \in 1 .. Len(J[i]) : o = I[i][j] BY <1>1, <1>10
        <5>2. j \in 1 .. m - 1 BY <5>1, <1>4
        <5>3. QED BY <5>1, <5>2, <1>8
      <4>3. NA(k) = PrioToIpl(b) /\ nest[k] = i BY <2>2, <3>1, <1>1, <1>3
      <4>4. QED BY <4>1, <4>2, <4>3, <2>1
    <3>2. CASE nl = level BY <2>2, <3>2, <1>1, <1>3, <2>1, <1>10
    <3>3. QED BY <3>1, <3>2 DEF nl
  <2>3. CASE k # n
    <3>1. k \in 1 .. n - 1 /\ NA(k) = LA(k) BY <2>3, <1>1, <1>3
    <3>2. nest[k] # i BY <3>1, <1>1, <1>2
    <3>3. J[nest[k]] = I[nest[k]] BY <3>2, <1>2, <1>4
    <3>4. QED BY <3>1, <3>3, <2>1
  <2>4. QED BY <2>2, <2>3
<1>13. TasksExclude(nest, saved, nl, S) BY <1>1, <1>3 DEF InterruptOK, TasksExclude, NA, LA
<1>14. IsrStacksMatch(nest, Q, J)
  <2>1. ASSUME NEW j \in Isr, NEW k \in 1 .. Len(J[j])
        PROVE  /\ j \in Range(nest)
               /\ J[j][k] \in IsrAccess[j]
               /\ Q[J[j][k]].saveCount = k
               /\ Q[J[j][k]].saveLevel # "TASK"
               /\ IsrPrio[j] <= PrioToIpl(Q[J[j][k]].savePrio)
               /\ \A l \in 1 .. k - 1 :
                    PrioToIpl(Ceiling[J[j][l]]) <= PrioToIpl(Q[J[j][k]].savePrio)
    <3>1. k \in 1 .. Len(I[j]) /\ J[j][k] = I[j][k] /\ I[j][k] # r /\ I[j][k] \in Resource
      BY <1>4, <1>6, <1>9
    <3>2. \A l \in 1 .. k - 1 : J[j][l] = I[j][l] BY <1>4, <1>6
    <3>3. Q[J[j][k]] = R[I[j][k]] BY <3>1, <1>5
    <3>4. QED BY <3>1, <3>2, <3>3 DEF InterruptOK, IsrStacksMatch
  <2>2. ASSUME NEW j \in Isr, NEW l \in Isr, j # l PROVE Range(J[j]) \cap Range(J[l]) = {}
    BY <2>2, <1>10 DEF InterruptOK, IsrStacksMatch
  <2>3. ASSUME NEW o \in Resource, Q[o].saveCount > 0, Q[o].saveLevel # "TASK"
        PROVE  \E j \in Isr : Q[o].saveCount <= Len(J[j]) /\ J[j][Q[o].saveCount] = o
    <3>1. o # r BY <2>3, <1>5 DEF FreeRcb
    <3>2. Q[o] = R[o] /\ R[o].saveCount \in Nat BY <3>1, <1>5 DEF Rcbs, Rcb
    <3>3. PICK j \in Isr : R[o].saveCount <= Len(I[j]) /\ I[j][R[o].saveCount] = o
      BY <3>2, <2>3 DEF InterruptOK, IsrStacksMatch
    <3>4. Len(I[j]) \in Nat /\ R[o].saveCount \in 1 .. Len(I[j]) BY <3>2, <3>3, <2>3 DEF IsrStacks
    <3>5. CASE j = i
      <4>1. R[o].saveCount # m BY <3>1, <3>3, <3>5, <1>4
      <4>2. R[o].saveCount \in 1 .. m - 1 BY <4>1, <3>4, <3>5, <1>4 DEF m
      <4>3. R[o].saveCount <= Len(J[j]) /\ J[j][R[o].saveCount] = o BY <4>2, <3>3, <3>5, <1>4
      <4>4. QED BY <4>3, <3>2
    <3>6. CASE j # i BY <3>2, <3>3, <3>6, <1>4
    <3>7. QED BY <3>5, <3>6
  <2>4. QED BY <2>1, <2>2, <2>3 DEF IsrStacksMatch
<1>15. TaskLevelsRestorable(Q, S)
  <2>1. \A t \in Task : \A k \in SharedWithIsr(S[t]) : Q[S[t][k]] = R[S[t][k]]
    BY <1>5, <1>11 DEF SharedWithIsr, Stacks
  <2>2. QED BY <2>1 DEF InterruptOK, TaskLevelsRestorable
<1>16. QED BY <1>12, <1>13, <1>14, <1>15 DEF InterruptOK, i, b, nl, Q, J

\* With no interrupt active none holds a resource.
LEMMA NoIsrHolds ==
  ASSUME NEW I \in IsrStacks, NEW R \in Rcbs, IsrStacksMatch(<<>>, R, I)
  PROVE  /\ \A i \in Isr : Len(I[i]) = 0 /\ Range(I[i]) = {}
         /\ \A r \in Resource : R[r].saveCount > 0 => R[r].saveLevel = "TASK"
<1>1. ASSUME NEW i \in Isr PROVE Len(I[i]) = 0 /\ Range(I[i]) = {}
  BY DEF Range, IsrStacks, IsrStacksMatch
<1>2. ASSUME NEW r \in Resource, R[r].saveCount > 0, R[r].saveLevel # "TASK" PROVE FALSE
  <2>1. PICK i \in Isr : R[r].saveCount <= Len(I[i]) BY <1>2 DEF IsrStacksMatch
  <2>2. R[r].saveCount \in Nat BY DEF Rcbs, Rcb
  <2>3. QED BY <1>1, <1>2, <2>1, <2>2
<1>3. QED BY <1>1, <1>2

\* Control blocks whose resources no interrupt took
LEMMA NoIsrTakes ==
  ASSUME NEW I \in IsrStacks, NEW R \in Rcbs, IsrStacksMatch(<<>>, R, I), NEW Q,
         \A r \in Resource :
           Q[r] = R[r] \/ Q[r].saveLevel = "TASK" \/ Q[r] = FreeRcb
  PROVE  IsrStacksMatch(<<>>, Q, I)
<1>1. /\ \A i \in Isr : Len(I[i]) = 0 /\ Range(I[i]) = {}
      /\ \A r \in Resource : R[r].saveCount > 0 => R[r].saveLevel = "TASK"
  BY NoIsrHolds
<1>2. \A i \in Isr : 1 .. Len(I[i]) = {} BY <1>1
<1>3. ~ (FreeRcb.saveCount > 0) BY DEF FreeRcb
<1>4. QED BY <1>1, <1>2, <1>3 DEF IsrStacksMatch

\* GetResource at task level
LEMMA TaskTakeKeepsInterrupts ==
  ASSUME NEW saved, NEW level \in Nat, NEW next,
         NEW R \in Rcbs, NEW S \in Stacks, NEW I \in IsrStacks,
         InterruptOK(<<>>, saved, level, R, S, I), StacksMatch(R, S), SharedCeilingsAgree,
         NEW t \in Task, NEW r \in Resource, r \in TaskAccess[t],
         \A u \in Task : r \notin Range(S[u]),
         \A u \in Task \ {t} : Range(S[u]) = HeldByTask(S, u), NEW save \in Nat,
         \/ OccupyType[r] = "BY_TASK" /\ next = level
         \/ /\ OccupyType[r] = "BY_TASK_OR_INTERRUPT"
            /\ next = PrioToIpl(Ceiling[r]) /\ save = IplToPrio(level)
  PROVE  InterruptOK(<<>>, saved, next,
                     Saved(R, r, Len(S[t]) + 1, save), Pushed(S, t, r), I)
<1> DEFINE n == Len(S[t]) + 1
           Z == Pushed(S, t, r)
           Q == Saved(R, r, n, save)
           P(o) == PrioToIpl(Ceiling[o])
<1>1. /\ n \in Nat \ {0} /\ Z[t][n] = r
      /\ DOMAIN S[t] = 1 .. n - 1 /\ DOMAIN Z[t] = 1 .. n
      /\ \A k \in 1 .. n - 1 : Z[t][k] = S[t][k]
      /\ \A u \in Task \ {t} : Z[u] = S[u]
  <2>1. S[t] \in Seq(Resource) /\ n \in Nat \ {0} BY DEF Stacks
  <2>2. Z[t] = Append(S[t], r) /\ \A u \in Task \ {t} : Z[u] = S[u] BY DEF Stacks, Pushed
  <2> HIDE DEF Z
  <2>3. QED BY <2>1, <2>2
<1>2. /\ Q[r] = [saveCount |-> n, savePrio |-> save, saveLevel |-> "TASK"]
      /\ \A o \in Resource \ {r} : Q[o] = R[o]
  BY DEF Saved, Rcbs
<1>3. \A u \in Task : \A k \in DOMAIN S[u] : S[u][k] \in Resource \ {r} BY DEF Stacks, Range
<1> HIDE DEF Z, Q, n, P
<1>4. \A u \in Task \ {t} : SharedWithIsr(Z[u]) = {} BY <1>1 DEF SharedWithIsr, Range, HeldByTask
<1>5. \A k \in SharedWithIsr(Z[t]) :
        \/ /\ k = n /\ Z[t][k] = r /\ OccupyType[r] = "BY_TASK_OR_INTERRUPT"
        \/ /\ k \in SharedWithIsr(S[t]) /\ k \in 1 .. n - 1
           /\ Z[t][k] = S[t][k] /\ Q[S[t][k]] = R[S[t][k]]
           /\ S[t][k] \in TaskAccess[t] /\ OccupyType[S[t][k]] = "BY_TASK_OR_INTERRUPT"
  BY <1>1, <1>2, <1>3 DEF SharedWithIsr, InterruptOK, TaskLevelsRestorable, Range
<1>6. /\ LevelAbove(<<>>, saved, level, 0) = level
      /\ LevelAbove(<<>>, saved, next, 0) = next
  BY DEF LevelAbove
<1>7. LevelsExclude(<<>>, saved, next, I) BY DEF LevelsExclude
<1>8. \A k \in SharedWithIsr(S[t]) : P(S[t][k]) <= level BY <1>6 DEF InterruptOK, TasksExclude, P
<1>9. \A o \in Resource : P(o) \in Nat BY ResourceConstants, LevelsAreNat DEF P
<1>10. ASSUME NEW k \in SharedWithIsr(Z[t]) PROVE P(Z[t][k]) <= next
  BY <1>5, <1>8, <1>9 DEF SharedCeilingsAgree, P
<1>11. TasksExclude(<<>>, saved, next, Z) BY <1>4, <1>6, <1>10 DEF TasksExclude, P
<1>12. IsrStacksMatch(<<>>, Q, I) BY <1>2, NoIsrTakes DEF InterruptOK
<1>13. \A u \in Task : Range(Z[u]) \subseteq TaskAccess[u]
  <2>1. \A u \in Task : Range(S[u]) \subseteq TaskAccess[u] BY DEF InterruptOK, TaskLevelsRestorable
  <2>2. Range(Z[t]) \subseteq TaskAccess[t]
    <3> SUFFICES ASSUME NEW k \in 1 .. n PROVE Z[t][k] \in TaskAccess[t] BY <1>1 DEF Range
    <3>1. CASE k = n BY <3>1, <1>1
    <3>2. CASE k # n
      <4>1. k \in DOMAIN S[t] /\ Z[t][k] = S[t][k] BY <3>2, <1>1
      <4>2. QED BY <4>1, <2>1 DEF Range
    <3>3. QED BY <3>1, <3>2
  <2>3. QED BY <2>1, <2>2, <1>1
<1>14. ASSUME NEW k \in SharedWithIsr(Z[t]), NEW j \in SharedWithIsr(Z[t]), j < k
       PROVE  P(Z[t][j]) <= PrioToIpl(Q[Z[t][k]].savePrio)
  <2>1. j \in 1 .. n /\ k \in 1 .. n BY <1>1 DEF SharedWithIsr
  <2>2. j # n BY <2>1, <1>1, <1>14
  <2>3. j \in SharedWithIsr(S[t]) /\ Z[t][j] = S[t][j] BY <2>2, <1>5
  <2>4. CASE k = n
    <3>1. OccupyType[r] = "BY_TASK_OR_INTERRUPT" /\ Z[t][k] = r BY <2>4, <1>1, <1>5
    <3>2. PrioToIpl(Q[Z[t][k]].savePrio) = level BY <3>1, <1>2, LevelIsRestored
    <3>3. QED BY <3>2, <2>3, <1>8
  <2>5. CASE k # n BY <2>5, <1>5, <2>3, <1>14 DEF InterruptOK, TaskLevelsRestorable, P
  <2>6. QED BY <2>4, <2>5
<1>15. TaskLevelsRestorable(Q, Z) BY <1>4, <1>13, <1>14 DEF TaskLevelsRestorable, P
<1>16. QED BY <1>7, <1>11, <1>12, <1>15 DEF InterruptOK, Z, Q, n

\* ReleaseResource at task level, of the last resource the task took
LEMMA TaskReleaseKeepsInterrupts ==
  ASSUME NEW saved, NEW level, NEW next,
         NEW R \in Rcbs, NEW S \in Stacks, NEW I \in IsrStacks,
         InterruptOK(<<>>, saved, level, R, S, I), StacksMatch(R, S),
         NEW t \in Task, NEW r \in Resource, S[t] # <<>>, r = S[t][Len(S[t])],
         \A u \in Task \ {t} : Range(S[u]) = HeldByTask(S, u),
         \/ OccupyType[r] = "BY_TASK" /\ next = level
         \/ OccupyType[r] = "BY_TASK_OR_INTERRUPT" /\ next = PrioToIpl(R[r].savePrio)
  PROVE  InterruptOK(<<>>, saved, next, [R EXCEPT ![r] = FreeRcb], Popped(S, t), I)
<1> DEFINE n == Len(S[t])
           Z == Popped(S, t)
           Q == [R EXCEPT ![r] = FreeRcb]
           P(o) == PrioToIpl(Ceiling[o])
<1>1. /\ n \in Nat \ {0} /\ S[t][n] = r /\ Z \in Stacks
      /\ Len(Z[t]) = n - 1
      /\ \A k \in 1 .. n - 1 : Z[t][k] = S[t][k]
      /\ Range(Z[t]) = Range(S[t]) \ {r}
      /\ \A u \in Task \ {t} : Z[u] = S[u]
  BY PopFacts
<1>2. \A o \in Resource \ {r} : Q[o] = R[o] BY DEF Rcbs
<1>3. Q[r] = FreeRcb BY DEF Rcbs
<1> HIDE DEF Z, Q, n, P
<1>4. \A u \in Task \ {t} : SharedWithIsr(Z[u]) = {} BY <1>1 DEF SharedWithIsr, Range, HeldByTask
<1>5. DOMAIN S[t] = 1 .. n /\ DOMAIN Z[t] = 1 .. n - 1
      /\ \A k \in 1 .. n - 1 : k \in 1 .. n /\ k # n
      /\ n \in 1 .. n
  BY <1>1 DEF Stacks, n
<1>6. \A k \in SharedWithIsr(Z[t]) :
        /\ k \in SharedWithIsr(S[t]) /\ k \in 1 .. n - 1
        /\ Z[t][k] = S[t][k] /\ Q[S[t][k]] = R[S[t][k]]
  <2> SUFFICES ASSUME NEW k \in SharedWithIsr(Z[t])
               PROVE  /\ k \in SharedWithIsr(S[t])
                      /\ Z[t][k] = S[t][k] /\ Q[S[t][k]] = R[S[t][k]]
    BY <1>5 DEF SharedWithIsr
  <2>1. k \in 1 .. n - 1 /\ OccupyType[Z[t][k]] = "BY_TASK_OR_INTERRUPT" BY <1>5 DEF SharedWithIsr
  <2>2. Z[t][k] = S[t][k] /\ k \in DOMAIN S[t] BY <2>1, <1>1, <1>5
  <2>3. S[t][k] \in Resource /\ S[t][k] # r
    <3>1. Z[t][k] \in Range(Z[t]) BY <2>1, <1>5 DEF Range
    <3>2. Range(S[t]) \subseteq Resource BY DEF Stacks, Range
    <3>3. QED BY <3>1, <3>2, <2>2, <1>1
  <2>4. QED BY <2>1, <2>2, <2>3, <1>2 DEF SharedWithIsr
<1>7. /\ LevelAbove(<<>>, saved, level, 0) = level
      /\ LevelAbove(<<>>, saved, next, 0) = next
  BY DEF LevelAbove
<1>8. LevelsExclude(<<>>, saved, next, I) BY DEF LevelsExclude
<1>9. ASSUME NEW k \in SharedWithIsr(Z[t]) PROVE P(Z[t][k]) <= next
  <2>1. CASE OccupyType[r] = "BY_TASK" BY <1>6, <1>7, <2>1 DEF InterruptOK, TasksExclude, P
  <2>2. CASE OccupyType[r] = "BY_TASK_OR_INTERRUPT"
    BY <2>2, <1>1, <1>5, <1>6 DEF SharedWithIsr, InterruptOK, TaskLevelsRestorable, P
  <2>3. QED BY <2>1, <2>2
<1>10. TasksExclude(<<>>, saved, next, Z) BY <1>4, <1>7, <1>9 DEF TasksExclude, P
<1>11. IsrStacksMatch(<<>>, Q, I) BY <1>2, <1>3, NoIsrTakes DEF InterruptOK
<1>12. \A u \in Task : Range(Z[u]) \subseteq TaskAccess[u]
  BY <1>1 DEF InterruptOK, TaskLevelsRestorable
<1>13. \A k, j \in SharedWithIsr(Z[t]) :
         j < k => P(Z[t][j]) <= PrioToIpl(Q[Z[t][k]].savePrio)
  BY <1>6 DEF InterruptOK, TaskLevelsRestorable, P
<1>14. TaskLevelsRestorable(Q, Z) BY <1>4, <1>12, <1>13 DEF TaskLevelsRestorable, P
<1>15. QED BY <1>8, <1>10, <1>11, <1>14 DEF InterruptOK, Z, Q, n

-----------------------------------------------------------------------------
(* The interrupt levels in every step                                       *)

\* The pieces of state of InterruptInvariant
LEMMA InterruptPieces ==
  InterruptInvariant <=> InterruptOK(isrNest, savedIpl, ipl, rcb, taskRes, isrRes)
BY DEF InterruptInvariant, InterruptOK

LEMMA InterruptPiecesNext ==
  ASSUME InterruptOK(isrNest', savedIpl', ipl', rcb', taskRes', isrRes')
  PROVE  InterruptInvariant'
BY DEF InterruptInvariant, InterruptOK

\* What the steps of the running system start from
LEMMA RunningInterrupts ==
  ASSUME TypeOK, RunOK, InterruptInvariant
  PROVE  /\ InterruptOK(isrNest, savedIpl, ipl, rcb, taskRes, isrRes)
         /\ NestTypes(isrNest, savedIpl, ipl) /\ isrRes \in IsrStacks
         /\ rcb \in Rcbs /\ taskRes \in Stacks /\ StacksMatch(rcb, taskRes)
         /\ sched.running \in Task
         /\ \A u \in Task \ {sched.running} : Range(taskRes[u]) = HeldByTask(taskRes, u)
         /\ isrNest = <<>> => Settled(sched, rcb, taskRes, 0)
<1>1. InterruptOK(isrNest, savedIpl, ipl, rcb, taskRes, isrRes) BY InterruptPieces
<1>2. /\ isrRes \in IsrStacks /\ NestTypes(isrNest, savedIpl, ipl)
      /\ rcb \in Rcbs /\ taskRes \in Stacks
  BY DEF TypeOK, IsrStacks, NestTypes, Rcbs, Stacks
<1>3. /\ StacksMatch(rcb, taskRes) /\ sched.running \in Task
      /\ \A u \in Task \ {sched.running} : Range(taskRes[u]) = HeldByTask(taskRes, u)
  BY DEF RunOK, Settled, Core, RunningOK
<1>4. isrNest = <<>> => Settled(sched, rcb, taskRes, 0) BY DEF RunOK
<1>5. QED BY <1>1, <1>2, <1>3, <1>4

\* GetResource by a task
LEMMA TaskTakeStep ==
  ASSUME TypeOK, RunOK, CallsOK, SharedCeilingsAgree, InterruptInvariant,
         NEW t \in Task, GetResource(t)
  PROVE  InterruptInvariant'
<1> DEFINE r == call[t].res
           save == IF OccupyType[r] = "BY_TASK" THEN sched.runPrio[t] ELSE IplToPrio(ipl)
<1>1. /\ t = sched.running /\ isrNest = <<>> /\ isrNest' = isrNest /\ savedIpl' = savedIpl
      /\ call[t].op = "GetResource" /\ GetResourceAtTaskLevel(t, r)
  BY DEF GetResource, InTask, isrVars, SysOsLevel
<1>2. r \in Resource /\ r \in TaskAccess[t] /\ r \notin Range(taskRes[t])
  BY <1>1, ResourceConstants DEF CallsOK
<1> HIDE DEF r
<1>3. /\ taskRes' = Pushed(taskRes, t, r) /\ isrRes' = isrRes
      /\ rcb' = Saved(rcb, r, Len(taskRes[t]) + 1, save)
      /\ \/ OccupyType[r] = "BY_TASK" /\ ipl' = ipl
         \/ OccupyType[r] = "BY_TASK_OR_INTERRUPT" /\ ipl' = PrioToIpl(Ceiling[r])
  BY <1>1 DEF GetResourceAtTaskLevel, GetResourceByTask, SaveResourceByTaskOrder, Pushed, Saved, SysOsLevel,
     GetResourceByTaskOrInterrupt
<1>4. save \in Nat /\ (OccupyType[r] = "BY_TASK_OR_INTERRUPT" => save = IplToPrio(ipl))
  <2>1. sched.runPrio[t] \in Nat BY QueueConstants DEF TypeOK, Sched, Prio
  <2>2. ipl \in Nat /\ IplToPrio(ipl) \in Nat BY LevelIsRestored DEF TypeOK
  <2>3. QED BY <2>1, <2>2
<1> HIDE DEF save
<1>5. \A u \in Task : r \notin Range(taskRes[u])
  BY <1>2, ResourceConstants, <1>1, RunningInterrupts, NobodyHolds
<1>6. /\ InterruptOK(<<>>, savedIpl, ipl, rcb, taskRes, isrRes)
      /\ isrRes \in IsrStacks /\ rcb \in Rcbs /\ taskRes \in Stacks
      /\ StacksMatch(rcb, taskRes) /\ ipl \in Nat
      /\ \A u \in Task \ {t} : Range(taskRes[u]) = HeldByTask(taskRes, u)
  BY <1>1, RunningInterrupts DEF NestTypes
<1>7. InterruptOK(<<>>, savedIpl, ipl', rcb', taskRes', isrRes)
  BY <1>2, <1>3, <1>4, <1>5, <1>6, TaskTakeKeepsInterrupts
<1>8. QED BY <1>1, <1>3, <1>7, InterruptPiecesNext

\* GetResource by an interrupt
LEMMA IsrTakeStep ==
  ASSUME TypeOK, RunOK, InterruptInvariant, NEW r \in Resource, IsrGetResource(r)
  PROVE  InterruptInvariant'
<1> DEFINE i == Last(isrNest)
<1>1. /\ isrNest # <<>> /\ isrNest' = isrNest /\ savedIpl' = savedIpl
      /\ rcb[r].saveCount = 0 /\ r \in IsrAccess[i] /\ taskRes' = taskRes
      /\ ipl' = IF Ceiling[r] > IplToPrio(ipl) THEN PrioToIpl(Ceiling[r]) ELSE ipl
      /\ isrRes' = [isrRes EXCEPT ![i] = Append(@, r)]
      /\ rcb' = [rcb EXCEPT ![r] = [saveCount |-> Len(isrRes[i]) + 1,
                                    savePrio  |-> IplToPrio(ipl),
                                    saveLevel |-> "ISR2"]]
  BY DEF IsrGetResource, InIsr, isrVars, GetResourceAtIsrLevel, GetResourceByInterrupt,
         GetResourceSafetyCheck, RunningIsr, SysOsLevel
<1>2. InterruptOK(isrNest, savedIpl, ipl', rcb', taskRes, isrRes')
  BY <1>1, RunningInterrupts, TakeKeepsInterrupts
<1>3. QED BY <1>1, <1>2, InterruptPiecesNext

\* ReleaseResource
LEMMA ReleaseStep ==
  ASSUME TypeOK, RunOK, InterruptInvariant, NEW r \in Resource, ReleaseAnyResource(r)
  PROVE  InterruptInvariant'
<1> DEFINE t == sched.running
           i == Last(isrNest)
<1>1. /\ isrNest' = isrNest /\ savedIpl' = savedIpl /\ rcb[r].saveCount > 0
      /\ rcb' = [rcb EXCEPT ![r] = FreeRcb]
      /\ isrNest # <<>> => r \in IsrAccess[i]
      /\ \/ /\ OccupyType[r] = "BY_TASK"
            /\ ReleaseResourceByTask(t, r)
         \/ /\ OccupyType[r] = "BY_TASK_OR_INTERRUPT"
            /\ rcb[r].saveLevel = "TASK"
            /\ ReleaseResourceByTaskOrInterrupt(t, r)
         \/ /\ OccupyType[r] # "BY_TASK"
            /\ rcb[r].saveLevel # "TASK"
            /\ isrNest # <<>>
            /\ ReleaseResourceByInterrupt(i, r)
  BY DEF ReleaseAnyResource, ReleaseResource, isrVars, InIsr, SysOsLevel, RunningIsr
<1>2. /\ InterruptOK(isrNest, savedIpl, ipl, rcb, taskRes, isrRes)
      /\ NestTypes(isrNest, savedIpl, ipl) /\ isrRes \in IsrStacks
      /\ rcb \in Rcbs /\ taskRes \in Stacks /\ StacksMatch(rcb, taskRes) /\ t \in Task
      /\ \A u \in Task \ {t} : Range(taskRes[u]) = HeldByTask(taskRes, u)
      /\ isrNest = <<>> => Settled(sched, rcb, taskRes, 0)
  BY RunningInterrupts
<1>3. isrNest # <<>> => /\ rcb[r].saveLevel # "TASK"
                        /\ rcb[r].saveCount \in 1 .. Len(isrRes[i])
                        /\ isrRes[i][rcb[r].saveCount] = r
                        /\ OccupyType[r] # "BY_TASK" /\ i \in Isr
  <2> SUFFICES ASSUME isrNest # <<>>
               PROVE  /\ rcb[r].saveLevel # "TASK"
                      /\ rcb[r].saveCount \in 1 .. Len(isrRes[i])
                      /\ isrRes[i][rcb[r].saveCount] = r
                      /\ OccupyType[r] # "BY_TASK" /\ i \in Isr
    OBVIOUS
  <2>1. /\ rcb[r].saveLevel # "TASK"
        /\ rcb[r].saveCount \in 1 .. Len(isrRes[i])
        /\ isrRes[i][rcb[r].saveCount] = r
    BY <1>1, <1>2, IsrFindsItsOwn
  <2>2. i \in Isr BY <1>2, FrontAndLast DEF NestTypes
  <2>3. QED BY <2>1, <2>2, <1>1, ResourceConstants
<1> HIDE DEF t, i
<1>4. CASE isrNest # <<>>
  <2>1. /\ rcb[r].saveCount = Len(isrRes[i]) /\ taskRes' = taskRes
        /\ isrRes' = [isrRes EXCEPT ![i] = Front(@)]
        /\ ipl' = IF Ceiling[r] > rcb[r].savePrio THEN PrioToIpl(rcb[r].savePrio) ELSE ipl
    BY <1>1, <1>3, <1>4 DEF ReleaseResourceByInterrupt
  <2>2. isrRes[i] # <<>> /\ r = isrRes[i][Len(isrRes[i])] BY <2>1, <1>3, <1>4
  <2>3. InterruptOK(isrNest, savedIpl, ipl', rcb', taskRes, isrRes')
    BY <2>1, <2>2, <1>1, <1>2, <1>3, <1>4, GiveBackKeepsInterrupts DEF i
  <2>4. QED BY <2>1, <2>3, <1>1, InterruptPiecesNext
<1>5. CASE isrNest = <<>>
  <2>1. /\ rcb[r].saveCount = Len(taskRes[t])
        /\ taskRes' = Popped(taskRes, t) /\ isrRes' = isrRes
        /\ \/ /\ OccupyType[r] = "BY_TASK" /\ ipl' = ipl
              /\ TaskPriority[t] <= Ceiling[r]
           \/ /\ OccupyType[r] = "BY_TASK_OR_INTERRUPT" /\ rcb[r].saveLevel = "TASK"
              /\ ipl' = PrioToIpl(rcb[r].savePrio)
    BY <1>1, <1>5 DEF ReleaseResourceByTask, ReleaseResourceByTaskOrInterrupt, Popped
  <2>2. taskRes[t] # <<>> /\ r = taskRes[t][Len(taskRes[t])]
    BY <2>1, <1>1, <1>2, <1>5, LastIsReleased DEF t
  <2>3. InterruptOK(<<>>, savedIpl, ipl', rcb', taskRes', isrRes)
    BY <2>1, <2>2, <1>1, <1>2, <1>5, TaskReleaseKeepsInterrupts
  <2>4. QED BY <2>1, <2>3, <1>1, <1>5, InterruptPiecesNext
<1>6. QED BY <1>4, <1>5

\* Os_EnterISR2 and Os_ExitISR2
LEMMA InterruptSteps ==
  ASSUME TypeOK, RunOK, InterruptInvariant,
         (\E i \in Isr : TakeInterrupt(i)) \/ ReturnFromInterrupt
  PROVE  InterruptInvariant'
<1>1. ASSUME NEW i \in Isr, TakeInterrupt(i) PROVE InterruptInvariant'
  BY <1>1, RunningInterrupts, EnterKeepsInterrupts, InterruptPiecesNext DEF TakeInterrupt, EnterISR2
<1>2. CASE ReturnFromInterrupt
  BY <1>2, RunningInterrupts, ExitKeepsInterrupts, InterruptPiecesNext DEF ReturnFromInterrupt, ExitISR2,
     RunningIsr
<1>3. QED BY <1>1, <1>2

(* InterruptInvariant is inductive on top of IInv.                          *)
LEMMA NextKeepsInterrupts ==
  ASSUME SharedCeilingsAgree, IInv, InterruptInvariant, [Next]_vars
  PROVE  InterruptInvariant'
<1>1. TypeOK /\ CallsOK BY DEF IInv
<1>2. CASE UNCHANGED <<isrVars, resVars>>
  BY <1>2, InterruptPieces, InterruptPiecesNext DEF isrVars, resVars
<1>3. CASE UNCHANGED vars BY <1>2, <1>3 DEF vars, isrVars, resVars
<1>4. CASE Next /\ BootOK BY <1>4, BootOnlyStarts, <1>2 DEF InitTaskTCB, StartScheduler
<1>5. CASE Next /\ RunOK
  <2>1. ASSUME NEW t \in Task,
               \/ ActivateTask(t)
               \/ TerminateTask(t)
               \/ \E succ \in Task : ChainTask(t, succ)
               \/ Schedule(t)
               \/ \E r \in Resource : GetResourceCheck(t, r)
        PROVE  InterruptInvariant'
    BY <2>1, <1>2 DEF ActivateTask, TerminateTask, ChainTask, Schedule, GetResourceCheck
  <2>2. ASSUME NEW t \in Task,
               \/ \E mask \in Masks : WaitForEvents(t, mask)
               \/ \E mask \in Masks : ClearEvents(t, mask)
               \/ \E target \in Extended, mask \in Masks : SetEventCheck(t, target, mask)
               \/ SetEventByTask(t)
        PROVE  InterruptInvariant'
    BY <2>2, <1>2 DEF WaitForEvents, ClearEvents, SetEventCheck, SetEventByTask
  <2>3. ASSUME NEW target \in Extended, NEW mask \in Masks, SetEventByIsr(target, mask)
        PROVE  InterruptInvariant'
    BY <2>3, <1>2 DEF SetEventByIsr
  <2>4. ASSUME InitTaskTCB \/ StartScheduler
        PROVE  InterruptInvariant'
    BY <2>4, <1>2 DEF InitTaskTCB, StartScheduler
  <2>5. QED
    BY <2>1, <2>2, <2>3, <2>4, <1>1, <1>5, TaskTakeStep, IsrTakeStep, ReleaseStep,
       InterruptSteps DEF Next
<1>6. QED BY <1>3, <1>4, <1>5 DEF IInv

\* Initially no interrupt is active and no resource is taken.
LEMMA InitInterrupts == Init => InterruptInvariant
<1> SUFFICES ASSUME Init PROVE InterruptInvariant OBVIOUS
<1>1. /\ isrNest = <<>> /\ savedIpl = <<>> /\ ipl = 0
      /\ rcb = [r \in Resource |-> FreeRcb]
      /\ taskRes = [t \in Task |-> <<>>]
      /\ isrRes = [i \in Isr |-> <<>>]
  BY DEF Init
<1>2. DOMAIN <<>> = {} /\ 1 .. Len(<<>>) = {} /\ Range(<<>>) = {} BY DEF Range
<1>3. \A t \in Task : SharedWithIsr(taskRes[t]) = {} /\ Range(taskRes[t]) = {}
  BY <1>1, <1>2 DEF SharedWithIsr
<1>4. \A i \in Isr : 1 .. Len(isrRes[i]) = {} /\ Range(isrRes[i]) = {} BY <1>1, <1>2
<1>5. LevelsExclude(isrNest, savedIpl, ipl, isrRes) BY <1>1, <1>2 DEF LevelsExclude
<1>6. TasksExclude(isrNest, savedIpl, ipl, taskRes) BY <1>3 DEF TasksExclude
<1>7. \A r \in Resource : ~ (rcb[r].saveCount > 0) BY <1>1 DEF FreeRcb
<1>8. IsrStacksMatch(isrNest, rcb, isrRes) BY <1>4, <1>7 DEF IsrStacksMatch
<1>9. TaskLevelsRestorable(rcb, taskRes) BY <1>3 DEF TaskLevelsRestorable
<1>10. QED BY <1>5, <1>6, <1>8, <1>9 DEF InterruptInvariant

-----------------------------------------------------------------------------
(* What the invariants say                                                  *)

\* A place of a resource, and the stack it is on
LEMMA PlacesFacts ==
  ASSUME NEW H, NEW T \in [H -> Seq(Resource)], NEW r
  PROVE  /\ \A h \in H : \A k \in 1 .. Len(T[h]) :
              T[h][k] = r => <<h, k>> \in Places(T, r) /\ r \in Range(T[h])
         /\ \A x \in Places(T, r) : \E h \in H : \E k \in 1 .. Len(T[h]) :
              x = <<h, k>> /\ T[h][k] = r /\ r \in Range(T[h])
<1>1. DOMAIN T = H /\ \A h \in H : DOMAIN T[h] = 1 .. Len(T[h]) OBVIOUS
<1>2. ASSUME NEW h \in H, NEW k \in 1 .. Len(T[h]), T[h][k] = r
      PROVE  <<h, k>> \in Places(T, r) /\ r \in Range(T[h])
  BY <1>1, <1>2 DEF Places, Range
<1>3. ASSUME NEW x \in Places(T, r)
      PROVE  \E h \in H : \E k \in 1 .. Len(T[h]) :
               x = <<h, k>> /\ T[h][k] = r /\ r \in Range(T[h])
  <2>1. PICK h \in H : x \in {h} \X {j \in DOMAIN T[h] : T[h][j] = r} BY <1>1 DEF Places
  <2>2. PICK k \in 1 .. Len(T[h]) : x = <<h, k>> /\ T[h][k] = r BY <2>1, <1>1
  <2>3. QED BY <2>2, <1>1 DEF Range
<1>4. QED BY <1>2, <1>3

\* StacksMatch and IsrStacksMatch, for one resource
LEMMA InvariantMeansOneHolder == IInv /\ InterruptInvariant => OneHolder
<1> SUFFICES ASSUME IInv, InterruptInvariant, NEW r \in Resource
             PROVE  LET places == Places(taskRes, r) \cup Places(isrRes, r)
                    IN  IF rcb[r].saveCount = 0
                        THEN places = {}
                        ELSE \E h \in Task \cup Isr : places = {<<h, rcb[r].saveCount>>}
  BY DEF OneHolder
<1> DEFINE m == rcb[r].saveCount
<1>1. /\ taskRes \in [Task -> Seq(Resource)] /\ isrRes \in [Isr -> Seq(Resource)]
      /\ m \in Nat /\ StacksMatch(rcb, taskRes) /\ IsrStacksMatch(isrNest, rcb, isrRes)
  BY DEF IInv, TypeOK, BootOK, RunOK, Settled, Core, Rcb, InterruptInvariant
<1>2. \A t \in Task : \A k \in 1 .. Len(taskRes[t]) :
        taskRes[t][k] = r => m = k /\ rcb[r].saveLevel = "TASK"
  BY <1>1 DEF StacksMatch
<1>3. \A i \in Isr : \A k \in 1 .. Len(isrRes[i]) :
        isrRes[i][k] = r => m = k /\ rcb[r].saveLevel # "TASK"
  BY <1>1 DEF IsrStacksMatch
<1> HIDE DEF m
<1>4. \A x \in Places(taskRes, r) :
        \E t \in Task : /\ m \in 1 .. Len(taskRes[t]) /\ x = <<t, m>>
                        /\ r \in Range(taskRes[t]) /\ rcb[r].saveLevel = "TASK"
  BY <1>1, <1>2, PlacesFacts
<1>5. \A x \in Places(isrRes, r) :
        \E i \in Isr : /\ m \in 1 .. Len(isrRes[i]) /\ x = <<i, m>>
                       /\ r \in Range(isrRes[i]) /\ rcb[r].saveLevel # "TASK"
  BY <1>1, <1>3, PlacesFacts
<1>6. CASE m = 0 BY <1>4, <1>6, <1>5 DEF m
<1>7. CASE m # 0 /\ rcb[r].saveLevel = "TASK"
  <2>1. PICK t \in Task : m <= Len(taskRes[t]) /\ taskRes[t][m] = r BY <1>1, <1>7 DEF StacksMatch, m
  <2>2. m \in 1 .. Len(taskRes[t]) BY <2>1, <1>1, <1>7
  <2>3. <<t, m>> \in Places(taskRes, r) /\ r \in Range(taskRes[t]) BY <2>1, <2>2, <1>1, PlacesFacts
  <2>4. \A u \in Task : r \in Range(taskRes[u]) => u = t BY <2>3, <1>1 DEF StacksMatch
  <2>5. Places(taskRes, r) = {<<t, m>>} BY <2>3, <2>4, <1>4
  <2>6. Places(isrRes, r) = {} BY <1>5, <1>7
  <2>7. QED BY <2>5, <2>6, <1>7 DEF m
<1>8. CASE m # 0 /\ rcb[r].saveLevel # "TASK"
  <2>1. PICK i \in Isr : m <= Len(isrRes[i]) /\ isrRes[i][m] = r BY <1>1, <1>8 DEF IsrStacksMatch, m
  <2>2. m \in 1 .. Len(isrRes[i]) BY <2>1, <1>1, <1>8
  <2>3. <<i, m>> \in Places(isrRes, r) /\ r \in Range(isrRes[i]) BY <2>1, <2>2, <1>1, PlacesFacts
  <2>4. \A j \in Isr : r \in Range(isrRes[j]) => j = i BY <2>3, <1>1 DEF IsrStacksMatch
  <2>5. Places(isrRes, r) = {<<i, m>>} BY <2>3, <2>4, <1>5
  <2>6. Places(taskRes, r) = {} BY <1>4, <1>8
  <2>7. QED BY <2>5, <2>6, <1>8 DEF m
<1>9. QED BY <1>6, <1>7, <1>8

\* At task level by the priorities of tasks, at interrupt level by the levels
LEMMA InvariantMeansCeilingExcludes == IInv /\ InterruptInvariant => CeilingExcludes
<1> SUFFICES ASSUME IInv, InterruptInvariant PROVE CeilingExcludes OBVIOUS
<1>1. TypeOK /\ (Started => RunOK) /\ (SysOsLevel = "ISR2" => RunOK)
  BY DEF IInv, BootOK, Started, SysOsLevel
<1>2. ASSUME Started, SysOsLevel = "TASK", NEW r \in TaskAccess[sched.running],
             rcb[r].saveCount > 0
      PROVE  r \in Range(taskRes[sched.running])
  <2>1. /\ isrNest = <<>> /\ RunOK
        /\ sched.running \in Task /\ rcb \in Rcbs /\ taskRes \in Stacks
        /\ isrRes \in IsrStacks /\ StacksMatch(rcb, taskRes)
        /\ Settled(sched, rcb, taskRes, 0)
        /\ InterruptOK(isrNest, savedIpl, ipl, rcb, taskRes, isrRes)
    BY <1>1, <1>2, RunningInterrupts DEF SysOsLevel
  <2>2. r \in Resource /\ TaskPriority[sched.running] <= Ceiling[r] BY <2>1, ResourceConstants
  <2>3. rcb[r].saveLevel = "TASK" BY <2>1, <2>2, <1>2, NoIsrHolds DEF InterruptOK
  <2>4. PICK u \in Task : /\ rcb[r].saveCount <= Len(taskRes[u])
                          /\ taskRes[u][rcb[r].saveCount] = r
    BY <2>1, <2>2, <2>3, <1>2 DEF StacksMatch
  <2>5. taskRes[u] \in Seq(Resource) /\ rcb[r].saveCount \in Nat BY <2>1, <2>2 DEF Stacks, Rcbs, Rcb
  <2>6. rcb[r].saveCount \in 1 .. Len(taskRes[u]) BY <2>4, <2>5, <1>2
  <2>7. r \in Range(taskRes[u]) BY <2>4, <2>5, <2>6 DEF Range
  <2>8. QED BY <2>1, <2>2, <2>7, NobodyHolds
<1>3. ASSUME SysOsLevel = "ISR2", NEW r \in IsrAccess[RunningIsr], rcb[r].saveCount > 0
      PROVE  r \in Range(isrRes[RunningIsr])
  <2>1. isrNest # <<>> /\ RunOK /\ RunningIsr = Last(isrNest)
    BY <1>1, <1>3 DEF SysOsLevel, RunningIsr
  <2>2. /\ InterruptOK(isrNest, savedIpl, ipl, rcb, taskRes, isrRes)
        /\ NestTypes(isrNest, savedIpl, ipl) /\ isrRes \in IsrStacks
        /\ rcb \in Rcbs /\ taskRes \in Stacks /\ StacksMatch(rcb, taskRes)
    BY <1>1, <2>1, RunningInterrupts
  <2>3. /\ rcb[r].saveCount \in 1 .. Len(isrRes[RunningIsr])
        /\ isrRes[RunningIsr][rcb[r].saveCount] = r
    BY <2>1, <2>2, <1>3, IsrFindsItsOwn
  <2>4. RunningIsr \in Isr BY <1>1, <2>1, RunningFacts
  <2>5. isrRes[RunningIsr] \in Seq(Resource) BY <2>2, <2>4 DEF IsrStacks
  <2>6. QED BY <2>3, <2>5 DEF Range
<1>4. QED BY <1>2, <1>3 DEF CeilingExcludes

\* WaitOK, for the service the task waits in
LEMMA InvariantMeansNoLostWakeup == TypeOK /\ WaitInvariant => NoLostWakeup
BY ApplicationConstants, EventConstants DEF NoLostWakeup, WaitInvariant, WaitOK, Awaited

\* ActivationOK, for every task
LEMMA InvariantMeansQueued == ActivationInvariant => ActivationsAreQueued
BY DEF ActivationInvariant, ActivationOK, ActivationsAreQueued

-----------------------------------------------------------------------------
(* The places of a queue                                                    *)

LEMMA ActivationsAreFinite ==
  ASSUME NEW p
  PROVE  IsFiniteSet(Activations(p))
<1> DEFINE U == {u \in Task : TaskPriority[u] = p}
           f == [t \in U |-> {t} \X (1 .. TaskActivation[t])]
           T == {f[t] : t \in U}
<1>1. IsFiniteSet(Task) /\ U \in SUBSET Task BY FS_Interval, QueueConstants DEF Task
<1>2. IsFiniteSet(U) BY <1>1, FS_Subset
<1>3. ASSUME NEW t \in U
      PROVE  IsFiniteSet(f[t])
  <2>1. TaskActivation[t] \in Nat BY TaskConstants
  <2>2. IsFiniteSet(1 .. TaskActivation[t]) /\ IsFiniteSet({t})
    <3>1. IsFiniteSet(1 .. TaskActivation[t]) BY <2>1, FS_Interval
    <3>2. IsFiniteSet({t}) BY FS_Singleton
    <3>3. QED BY <3>1, <3>2
  <2>3. IsFiniteSet({t} \X (1 .. TaskActivation[t])) BY <2>2, FS_Product
  <2>4. QED BY <2>3
<1>4. f \in Surjection(U, T) BY DEF Surjection
<1>5. IsFiniteSet(T) BY <1>2, <1>4, FS_Surjection
<1>6. IsFiniteSet(UNION T) BY <1>3, <1>5, FS_UNION
<1>7. Activations(p) = UNION T BY DEF Activations
<1>8. QED BY <1>6, <1>7

\* The entries of a task up to the i-th, which are more at each further one
LEMMA EarlierEntries ==
  ASSUME NEW x \in Seq(Task), NEW t, NEW i \in 1 .. Len(x), x[i] = t
  PROVE  /\ Cardinality({k \in 1 .. i : x[k] = t}) \in 1 .. Occurrences(x, t)
         /\ \A j \in 1 .. i - 1 :
              Cardinality({k \in 1 .. j : x[k] = t}) < Cardinality({k \in 1 .. i : x[k] = t})
<1> DEFINE Upto(j) == {k \in 1 .. j : x[k] = t}
           X == {k \in DOMAIN x : x[k] = t}
<1>1. /\ Len(x) \in Nat /\ DOMAIN x = 1 .. Len(x) /\ i \in Nat /\ i <= Len(x) /\ 1 <= i
      /\ i \in Upto(i) /\ Upto(i) \in SUBSET X
  OBVIOUS
<1>2. IsFiniteSet(X) /\ Occurrences(x, t) = Cardinality(X) BY OccurrencesAreFinite DEF Occurrences
<1>3. IsFiniteSet(Upto(i)) /\ Cardinality(Upto(i)) <= Cardinality(X) BY <1>1, <1>2, FS_Subset
<1>4. Cardinality(Upto(i)) \in Nat /\ Cardinality(X) \in Nat /\ Cardinality(Upto(i)) # 0
  BY <1>1, <1>2, <1>3, FS_CardinalityType, FS_EmptySet
<1>5. ASSUME NEW j \in 1 .. i - 1
      PROVE  Cardinality(Upto(j)) < Cardinality(Upto(i))
  <2>1. Upto(j) \in SUBSET Upto(i) /\ i \notin Upto(j) BY <1>1
  <2>2. /\ Upto(j) # Upto(i) /\ IsFiniteSet(Upto(j))
        /\ Cardinality(Upto(j)) <= Cardinality(Upto(i)) /\ Cardinality(Upto(j)) # Cardinality(Upto(i))
    BY <1>1, <1>3, <2>1, FS_Subset
  <2>3. Cardinality(Upto(j)) \in Nat BY <2>2, FS_CardinalityType
  <2> HIDE DEF Upto
  <2>4. QED BY <1>4, <2>2, <2>3
<1> HIDE DEF Upto, X
<1>6. QED BY <1>2, <1>3, <1>4, <1>5 DEF Upto

\* As long as no task has more entries at its own priority than it may have activations, they are
\* no more than the activations of all tasks of the priority.
LEMMA OwnEntriesFit ==
  ASSUME NEW x \in Seq(Task), NEW p \in Prio,
         \A t \in Task : TaskPriority[t] = p => Occurrences(x, t) <= TaskActivation[t]
  PROVE  LET own == {i \in 1 .. Len(x) : TaskPriority[x[i]] = p}
         IN  IsFiniteSet(own) /\ Cardinality(own) <= Cardinality(Activations(p))
<1> DEFINE own == {i \in 1 .. Len(x) : TaskPriority[x[i]] = p}
           nth == [i \in own |-> Cardinality({k \in 1 .. i : x[k] = x[i]})]
           f == [i \in own |-> <<x[i], nth[i]>>]
<1>1. Len(x) \in Nat OBVIOUS
<1>2. ASSUME NEW i \in own
      PROVE  f[i] \in Activations(p)
  <2>1. x[i] \in Task /\ TaskPriority[x[i]] = p OBVIOUS
  <2>2. nth[i] \in 1 .. Occurrences(x, x[i]) BY EarlierEntries
  <2>3. Occurrences(x, x[i]) \in Nat /\ Occurrences(x, x[i]) <= TaskActivation[x[i]] /\ TaskActivation[x[i]] \in Nat
    BY <2>1, OccurrencesAreFinite, TaskConstants
  <2> HIDE DEF nth
  <2>4. nth[i] \in 1 .. TaskActivation[x[i]] BY <2>2, <2>3
  <2>5. <<x[i], nth[i]>> \in {x[i]} \X (1 .. TaskActivation[x[i]]) BY <2>4
  <2>6. QED BY <2>1, <2>5 DEF Activations
<1>3. ASSUME NEW i \in own, NEW j \in own, f[i] = f[j]
      PROVE  i = j
  <2>1. x[i] = x[j] /\ nth[i] = nth[j] /\ i \in 1 .. Len(x) /\ j \in 1 .. Len(x)
    <3> HIDE DEF nth
    <3>1. QED BY <1>3
  <2>2. nth[i] \in Int BY EarlierEntries
  <2>3. CASE j < i
    <3>1. j \in 1 .. i - 1 BY <1>1, <2>1, <2>3
    <3>2. Cardinality({k \in 1 .. j : x[k] = x[i]}) < Cardinality({k \in 1 .. i : x[k] = x[i]})
      BY <2>1, <3>1, EarlierEntries
    <3>3. nth[j] < nth[i] BY <2>1, <3>2
    <3> HIDE DEF nth
    <3>4. QED BY <2>1, <2>2, <3>3
  <2>4. CASE i < j
    <3>1. i \in 1 .. j - 1 BY <1>1, <2>1, <2>4
    <3>2. Cardinality({k \in 1 .. i : x[k] = x[j]}) < Cardinality({k \in 1 .. j : x[k] = x[j]})
      BY <2>1, <3>1, EarlierEntries
    <3>3. nth[i] < nth[j] BY <2>1, <3>2
    <3> HIDE DEF nth
    <3>4. QED BY <2>1, <2>2, <3>3
  <2>5. QED BY <1>1, <2>1, <2>3, <2>4
<1> HIDE DEF nth
<1>4. f \in Injection(own, Activations(p))
  <2>1. f \in [own -> Activations(p)] BY <1>2
  <2> HIDE DEF f, own
  <2>2. QED BY <2>1, <1>3 DEF Injection, IsInjective
<1> HIDE DEF f, own
<1>5. QED BY <1>4, ActivationsAreFinite, FS_Injection DEF own

\* A queue holds own entries and, first, at most one raised task, which some ceiling allows.
LEMMA InvariantMeansQueuesFit == IInv /\ ActivationInvariant => QueuesFit
<1> SUFFICES ASSUME IInv, ActivationInvariant, NEW p \in Prio
             PROVE  Len(sched.queue[p]) <= QueueNeed(p)
  BY DEF QueuesFit
<1> DEFINE x == sched.queue[p]
           own == {i \in 1 .. Len(x) : TaskPriority[x[i]] = p}
           raised == \/ \E t \in Task : InterResCeiling[t] = p
                     \/ \E r \in Resource : OccupyType[r] = "BY_TASK" /\ Ceiling[r] = p
           n == Cardinality(Activations(p))
<1>1. Core(sched, rcb, taskRes) BY DEF IInv, BootOK, RunOK, Settled
<1>2. x \in Seq(Task) /\ Len(x) \in Nat BY <1>1 DEF Core, Sched
<1>3. \A t \in Task : TaskPriority[t] = p => Occurrences(x, t) <= TaskActivation[t]
  <2> SUFFICES ASSUME NEW t \in Task, TaskPriority[t] = p
               PROVE  Occurrences(x, t) <= TaskActivation[t]
    OBVIOUS
  <2>1. ActivationOK(sched, t) BY DEF ActivationInvariant
  <2>2. sched.actCount[t] \in Nat /\ TaskActivation[t] \in Nat
    BY <1>1, TaskConstants DEF Core, Sched
  <2>3. QED BY <2>1, <2>2 DEF ActivationOK
<1>4. IsFiniteSet(own) /\ Cardinality(own) <= n BY <1>2, <1>3, OwnEntriesFit
<1>5. QueueNeed(p) = n + (IF raised THEN 1 ELSE 0) /\ n \in Nat
  BY ActivationsAreFinite, FS_CardinalityType DEF QueueNeed
<1>6. \A i \in 1 .. Len(x) : i # 1 => TaskPriority[x[i]] = p
  <2> SUFFICES ASSUME NEW i \in 1 .. Len(x), i # 1
               PROVE  TaskPriority[x[i]] = p
    OBVIOUS
  <2>1. /\ TaskPriority[x[i]] <= p
        /\ p > TaskPriority[x[i]] => i = 1
    BY <1>1 DEF Core, QueuesOK, EntriesInOrder
  <2>2. TaskPriority[x[i]] \in Int /\ p \in Int BY <1>2, TaskConstants DEF Prio
  <2>3. QED BY <2>1, <2>2
<1>7. CASE Len(x) = 0 \/ TaskPriority[x[1]] = p
  <2>1. own = 1 .. Len(x) BY <1>2, <1>6, <1>7
  <2>2. Cardinality(1 .. Len(x)) = Len(x) BY <1>2, FS_Interval
  <2> HIDE DEF own, x, n, raised
  <2>3. Len(x) <= n BY <1>4, <2>1, <2>2
  <2>4. Len(x) <= QueueNeed(p) BY <1>2, <1>5, <2>3
  <2>5. QED BY <2>4 DEF x
<1>8. CASE Len(x) # 0 /\ TaskPriority[x[1]] # p
  <2>1. own = 2 .. Len(x) BY <1>2, <1>6, <1>8
  <2>2. Cardinality(2 .. Len(x)) = Len(x) - 1 BY <1>2, <1>8, FS_Interval
  <2>3. raised
    <3> DEFINE t == x[1]
    <3>1. t \in Task /\ 1 \in 1 .. Len(x) BY <1>2, <1>8
    <3>2. TaskPriority[t] <= p BY <1>1, <3>1 DEF Core, QueuesOK, EntriesInOrder
    <3>3. TaskPriority[t] \in Int /\ p \in Int BY <3>1, TaskConstants DEF Prio
    <3>4. First(sched.queue, p, t) BY <1>2, <1>8 DEF First
    <3>5. \/ p = InterResCeiling[t]
          \/ \E r \in HeldByTask(taskRes, t) : p = Ceiling[r]
      <4>1. p > TaskPriority[t] BY <1>8, <3>2, <3>3
      <4>2. QED BY <1>1, <3>1, <3>4, <4>1 DEF Core, QueuesOK, LevelsRestorable
    <3>6. taskRes[t] \in Seq(Resource) BY <1>1, <3>1 DEF Core
    <3>7. \A r \in HeldByTask(taskRes, t) : r \in Resource /\ OccupyType[r] = "BY_TASK"
      BY <3>6 DEF HeldByTask, Range
    <3>8. QED BY <3>1, <3>5, <3>7
  <2> HIDE DEF own, x, n, raised
  <2>4. Len(x) - 1 <= n BY <1>4, <2>1, <2>2
  <2>5. Len(x) <= QueueNeed(p) BY <1>2, <1>5, <2>3, <2>4
  <2>6. QED BY <2>5 DEF x
<1>9. QED BY <1>7, <1>8

-----------------------------------------------------------------------------
(* The theorems                                                             *)

(* The activations of every task are counted right: over activation, chaining,*)
(* preemption, termination and wakeup the ready queues hold an entry for each*)
(* pending one (Os_Task.c, Os_Event.c).                                     *)
THEOREM ActivationsStayQueued ==
  ASSUME NoChainWhileNonPreemptable
  PROVE  Spec => []ActivationsAreQueued
<1>1. Init => ActivationInvariant BY InitActivations
<1>2. IInv /\ ActivationInvariant /\ [Next]_vars => ActivationInvariant' BY NextKeepsActivations
<1>3. ActivationInvariant => ActivationsAreQueued BY InvariantMeansQueued
<1>4. QED BY <1>1, <1>2, <1>3, InvariantHolds, PTL DEF Spec

(* No ready queue ever needs more places than there are activations of its  *)
(* tasks and one more where tasks are raised to: Os_ReadyQueueInsert, which *)
(* does not look, overwrites nothing (Os_ReadyQue.c).                       *)
THEOREM QueuesStayWithinPlaces ==
  ASSUME NoChainWhileNonPreemptable
  PROVE  Spec => []QueuesFit
<1>1. Init => ActivationInvariant BY InitActivations
<1>2. IInv /\ ActivationInvariant /\ [Next]_vars => ActivationInvariant' BY NextKeepsActivations
<1>3. IInv /\ ActivationInvariant => QueuesFit BY InvariantMeansQueuesFit
<1>4. QED BY <1>1, <1>2, <1>3, InvariantHolds, PTL DEF Spec

(* A non-preemptable task gives up the processor only by a service of its   *)
(* own: activations, wakeups, releases and interrupts find the dispatcher   *)
(* locked (Os_Task.c, Os_Interrupt.c).                                      *)
THEOREM NonPreemptableStays ==
  ASSUME NoChainWhileNonPreemptable
  PROVE  Spec => NonPreemptableKeepsProcessor
<1>1. Init => ActivationInvariant BY InitActivations
<1>2. IInv /\ ActivationInvariant /\ [Next]_vars => ActivationInvariant' BY NextKeepsActivations
<1>3. IInv /\ ActivationInvariant /\ [Next]_vars =>
        [\A t \in NonPreemptable :
           sched.running = t /\ sched'.running # t =>
             sched'.state[t] # "READY" \/ Schedule(t)]_vars
  <2> SUFFICES ASSUME IInv, ActivationInvariant, [Next]_vars, NEW t \in NonPreemptable,
                      sched.running = t, sched'.running # t
               PROVE  sched'.state[t] # "READY" \/ Schedule(t)
    OBVIOUS
  <2>1. Next BY DEF vars
  <2>2. RunOK
    <3>1. OS_TASK_INVALID \notin Task BY QueueConstants DEF Task, OS_TASK_INVALID
    <3>2. NonPreemptable \subseteq Task BY TaskConstants
    <3>3. QED BY <3>1, <3>2 DEF IInv, BootOK
  <2>3. TypeOK /\ CallsOK BY DEF IInv
  <2>4. ActivationsOK(sched) BY <2>2, <2>3, RunningActivations
  <2>5. QED BY <2>1, <2>2, <2>3, <2>4, NonPreemptableStep
<1>4. QED BY <1>1, <1>2, <1>3, InvariantHolds, PTL DEF Spec, NonPreemptableKeepsProcessor

(* A task that waits waits for something that has not happened yet, for any *)
(* number of events, tasks and interrupts that set them (Os_Event.c), when  *)
(* no task waits now in WaitEvent and now in WaitAllEvents.                 *)
THEOREM NoWakeupIsLost ==
  ASSUME NoChainWhileNonPreemptable, OneWaitService
  PROVE  Spec => []NoLostWakeup
<1>1. Init => ActivationInvariant /\ WaitInvariant BY InitActivations, InitWaits
<1>2. IInv /\ ActivationInvariant /\ WaitInvariant /\ [Next]_vars =>
        ActivationInvariant' /\ WaitInvariant'
  BY NextKeepsActivations, NextKeepsWaits
<1>3. IInv /\ WaitInvariant => NoLostWakeup BY InvariantMeansNoLostWakeup DEF IInv
<1>4. QED BY <1>1, <1>2, <1>3, InvariantHolds, PTL DEF Spec

(* The levels, the nesting of interrupts and the resources they hold agree  *)
(* after every step (Os_Resource.c, Os_Interrupt.c), when the resources one *)
(* task shares with interrupts have one level.                              *)
THEOREM InterruptsHold ==
  ASSUME NoChainWhileNonPreemptable, SharedCeilingsAgree
  PROVE  Spec => [](IInv /\ InterruptInvariant)
<1>1. Init => InterruptInvariant BY InitInterrupts
<1>2. IInv /\ InterruptInvariant /\ [Next]_vars => InterruptInvariant' BY NextKeepsInterrupts
<1>3. QED BY <1>1, <1>2, InvariantHolds, PTL DEF Spec

(* Every occupied resource is on one stack of one task or interrupt, at the *)
(* place its SaveCount says.                                                *)
THEOREM EveryResourceHasOneHolder ==
  ASSUME NoChainWhileNonPreemptable, SharedCeilingsAgree
  PROVE  Spec => []OneHolder
BY InterruptsHold, InvariantMeansOneHolder, PTL

(* The ceiling protocol keeps the users of each resource out of each other's*)
(* sections, tasks by priority and interrupts by level: no task and no      *)
(* interrupt ever meets an occupied resource that is not its own.           *)
THEOREM CeilingsExclude ==
  ASSUME NoChainWhileNonPreemptable, SharedCeilingsAgree
  PROVE  Spec => []CeilingExcludes
BY InterruptsHold, InvariantMeansCeilingExcludes, PTL

(* All parts of the invariant the runs check                                *)
THEOREM KernelInvariantHolds ==
  ASSUME NoChainWhileNonPreemptable, OneWaitService, SharedCeilingsAgree
  PROVE  Spec => []KernelInvariant
<1>1. Init => ActivationInvariant /\ WaitInvariant BY InitActivations, InitWaits
<1>2. IInv /\ ActivationInvariant /\ WaitInvariant /\ [Next]_vars =>
        ActivationInvariant' /\ WaitInvariant'
  BY NextKeepsActivations, NextKeepsWaits
<1>3. IInv /\ ActivationInvariant /\ WaitInvariant /\ InterruptInvariant => KernelInvariant
  BY DEF KernelInvariant
<1>4. QED BY <1>1, <1>2, <1>3, InterruptsHold, PTL DEF Spec


-----------------------------------------------------------------------------
(* Numbers *)

\* Every non-empty set of numbers up to n has a greatest element: a smallest set of those above one.
LEMMA GreatestOf ==
  ASSUME NEW n \in Nat, NEW T \in SUBSET (0 .. n), T # {}
  PROVE  Max(T) \in T /\ \A y \in T : y <= Max(T)
<1> DEFINE Above(y) == {x \in T : x >= y}
           Aboves == {Above(y) : y \in T}
<1>1. IsFiniteSet(0 .. n) /\ T \subseteq Int BY FS_Interval
<1>2. IsWellFoundedOn(StrictSubsetOrdering(T), SUBSET T)
  BY <1>1, FS_Subset, FS_StrictSubsetOrderingWellFounded, FS_FiniteSubsetsOfFinite
<1>3. Aboves \subseteq SUBSET T /\ Aboves # {} OBVIOUS
<1> HIDE DEF Aboves
<1>4. PICK X \in Aboves : \A Y \in Aboves : ~ (<<Y, X>> \in StrictSubsetOrdering(T))
  BY <1>2, <1>3, WFMin
<1>5. PICK x \in T : X = Above(x) BY DEF Aboves
<1>6. \A y \in T : x >= y
  <2>1. SUFFICES ASSUME NEW y \in T, y > x
                 PROVE  FALSE
    BY <1>1
  <2>2. Above(y) \in Aboves BY DEF Aboves
  <2>3. (\A z \in T : z >= y => z >= x) /\ ~ (x >= y) /\ x >= x BY <1>1, <2>1
  <2>4. Above(y) \subseteq Above(x) /\ Above(y) # Above(x) BY <2>3
  <2>5. QED BY <1>4, <1>5, <2>2, <2>4 DEF StrictSubsetOrdering
<1>7. Max(T) \in T /\ \A y \in T : Max(T) >= y BY <1>6 DEF Max
<1>8. QED BY <1>1, <1>7

LEMMA OnceAround ==
  ASSUME NEW n \in Nat \ {0}, NEW x \in 0 .. 2 * n - 1
  PROVE  x % n = IF x < n THEN x ELSE x - n
OBVIOUS

\* The word and the bit of a priority tell which it is.
LEMMA Bits ==
  /\ \A p \in Prio : WordOf(p) \in Words /\ BitOf(p) \in 0 .. 15 /\ p = WordOf(p) * 16 + BitOf(p)
  /\ \A w \in Words, b \in 0 .. 15 : w \in Nat /\ WordOf(w * 16 + b) = w /\ BitOf(w * 16 + b) = b
<1>1. Prio \subseteq Nat BY QueueConstants DEF Prio
<1>2. \A p \in Nat : p \div 16 \in Nat /\ p % 16 \in 0 .. 15 /\ p = (p \div 16) * 16 + (p % 16)
  OBVIOUS
<1>3. ASSUME NEW w \in Nat, NEW b \in 0 .. 15
      PROVE  (w * 16 + b) \div 16 = w /\ (w * 16 + b) % 16 = b
  <2> DEFINE x == w * 16 + b
             q == x \div 16
             r == x % 16
  <2>1. x \in Nat /\ x = w * 16 + b OBVIOUS
  <2> HIDE DEF x
  <2>2. q \in Nat /\ r \in 0 .. 15 /\ x = q * 16 + r BY <1>2, <2>1
  <2> HIDE DEF q, r
  <2>3. q = w /\ r = b BY <2>1, <2>2
  <2>4. QED BY <2>3 DEF q, r, x
<1>4. \A w \in Words : w \in Nat BY <1>1, <1>2 DEF Words, WordOf, OS_NUM_PRIORITYBITS_PERWORD
<1>5. \A p \in Prio : WordOf(p) \in Words BY DEF Words
<1>6. QED BY <1>1, <1>2, <1>3, <1>4, <1>5 DEF WordOf, BitOf, OS_NUM_PRIORITYBITS_PERWORD
-----------------------------------------------------------------------------
(* The search for the highest bit *)

\* One halving keeps the highest bit.
LEMMA Halving ==
  ASSUME NEW n \in Nat \ {0}, NEW word \in SUBSET (0 .. 2 * n - 1), word # {}
  PROVE  LET half == UpperHalf(word, n)
         IN  /\ half \in SUBSET (0 .. n - 1) /\ half # {}
             /\ \A m \in half : (\A x \in half : x <= m) =>
                  /\ OffsetOf(word, n) + m \in word
                  /\ \A b \in word : b <= OffsetOf(word, n) + m
<1>1. CASE \E b \in word : b >= n
  <2> DEFINE half == {b - n : b \in {x \in word : x >= n}}
  <2>1. UpperHalf(word, n) = half /\ OffsetOf(word, n) = n BY <1>1 DEF UpperHalf, OffsetOf
  <2>2. /\ half \in SUBSET (0 .. n - 1) /\ half # {}
        /\ \A b \in word : b >= n => b - n \in half
        /\ \A m \in half : \E c \in word : c >= n /\ m = c - n
    BY <1>1
  <2> HIDE DEF half
  <2>3. ASSUME NEW m \in half, \A x \in half : x <= m
        PROVE  n + m \in word /\ \A b \in word : b <= n + m
    <3>1. PICK c \in word : c >= n /\ m = c - n BY <2>2
    <3>2. n + m = c BY <3>1
    <3>3. ASSUME NEW b \in word
          PROVE  b <= c
      BY <2>2, <2>3, <3>1
    <3>4. QED BY <3>2, <3>3
  <2>4. QED BY <2>1, <2>2, <2>3
<1>2. CASE ~ \E b \in word : b >= n
  <2>1. UpperHalf(word, n) = word /\ OffsetOf(word, n) = 0 BY <1>2 DEF UpperHalf, OffsetOf
  <2>2. word \in SUBSET (0 .. n - 1) BY <1>2
  <2>3. \A m \in word : 0 + m = m BY <2>2
  <2>4. QED BY <2>1, <2>2, <2>3
<1>3. QED BY <1>1, <1>2

\* Os_GetHighPrioBit finds the highest bit of a word that is not 0.
LEMMA HighestBit ==
  ASSUME NEW word \in SUBSET (0 .. 15), word # {}
  PROVE  GetHighPrioBit(word) \in word /\ \A b \in word : b <= GetHighPrioBit(word)
<1> DEFINE byte   == UpperHalf(word, 8)
           nibble == UpperHalf(byte, 4)
           low    == Max(nibble)
           high   == OffsetOf(byte, 4) + low
<1>1. /\ byte \in SUBSET (0 .. 7) /\ byte # {}
      /\ \A m \in byte : (\A x \in byte : x <= m) =>
           OffsetOf(word, 8) + m \in word /\ \A b \in word : b <= OffsetOf(word, 8) + m
  BY Halving
<1> HIDE DEF byte
<1>2. /\ nibble \in SUBSET (0 .. 3) /\ nibble # {}
      /\ \A m \in nibble : (\A x \in nibble : x <= m) =>
           OffsetOf(byte, 4) + m \in byte /\ \A b \in byte : b <= OffsetOf(byte, 4) + m
  BY <1>1, Halving
<1> HIDE DEF nibble
<1>3. low \in nibble /\ \A x \in nibble : x <= low BY <1>2, GreatestOf
<1> HIDE DEF low
<1>4. high \in byte /\ \A b \in byte : b <= high BY <1>2, <1>3
<1> HIDE DEF high
<1>5. OffsetOf(word, 8) + high \in word /\ \A b \in word : b <= OffsetOf(word, 8) + high
  BY <1>1, <1>4
<1>6. OffsetOf(word, 8) \in Nat /\ OffsetOf(byte, 4) \in Nat /\ low \in Nat
  BY <1>2, <1>3 DEF OffsetOf
<1>7. GetHighPrioBit(word) = OffsetOf(word, 8) + OffsetOf(byte, 4) + low
  BY <1>2 DEF GetHighPrioBit, byte, nibble, low
<1>8. GetHighPrioBit(word) = OffsetOf(word, 8) + high BY <1>6, <1>7 DEF high
<1>9. QED BY <1>5, <1>8
-----------------------------------------------------------------------------
(* The places of a ring *)

\* How far a place is behind the head.
Behind(p, i) == IF i >= QueueHead[p] THEN i - QueueHead[p] ELSE i + QueueSize[p] - QueueHead[p]

LEMMA Sizes ==
  ASSUME NEW p \in Prio
  PROVE  /\ QueueSize[p] \in Nat /\ QueueSize[p] >= 1
         /\ QueueLimit[p] \in Nat /\ QueueLimit[p] <= QueueSize[p]
         /\ \A i : i \in Place(p) <=> i \in Nat /\ i < QueueSize[p]
BY RingConstants DEF Place

\* The place of the entry k, over the wrap.
LEMMA PlaceOfEntry ==
  ASSUME RingTypeOK, NEW p \in Prio, NEW k \in 1 .. QueueSize[p]
  PROVE  LET i == (QueueHead[p] + k - 1) % QueueSize[p]
         IN  i \in Place(p) /\ Behind(p, i) = k - 1
<1> DEFINE n == QueueSize[p]
           h == QueueHead[p]
           x == h + k - 1
<1>1. n \in Nat \ {0} /\ h \in Nat /\ h < n /\ k \in Nat /\ k >= 1 /\ k <= n BY Sizes DEF RingTypeOK
<1> HIDE DEF n, h
<1>2. x \in 0 .. 2 * n - 1 /\ x = h + k - 1 BY <1>1
<1> HIDE DEF x
<1>3. x % n = IF x < n THEN x ELSE x - n BY <1>1, <1>2, OnceAround
<1> DEFINE i == x % n
<1>4. i \in Nat /\ i < n /\ (IF i >= h THEN i - h ELSE i + n - h) = k - 1 BY <1>1, <1>2, <1>3
<1>5. QED BY <1>4, Sizes DEF Behind, i, x, n, h

\* A place holds an entry when it is less far behind the head than there are entries.
LEMMA PlaceHolds ==
  ASSUME RingTypeOK, NEW p \in Prio, NEW i \in Place(p), NEW e \in 0 .. QueueSize[p]
  PROVE  (\E k \in 1 .. e : i = (QueueHead[p] + k - 1) % QueueSize[p]) <=> Behind(p, i) < e
<1> DEFINE At(k) == (QueueHead[p] + k - 1) % QueueSize[p]
<1>1. /\ QueueSize[p] \in Nat /\ QueueHead[p] \in Nat /\ QueueHead[p] < QueueSize[p]
      /\ i \in Nat /\ i < QueueSize[p] /\ e \in Nat /\ e <= QueueSize[p]
  BY Sizes DEF RingTypeOK
<1>2. Behind(p, i) \in Nat /\ Behind(p, i) < QueueSize[p] BY <1>1 DEF Behind
<1>3. ASSUME NEW k \in 1 .. e, i = At(k)
      PROVE  Behind(p, i) < e
  <2>1. Behind(p, i) = k - 1
    <3>1. k \in 1 .. QueueSize[p] BY <1>1
    <3>2. QED BY <1>3, <3>1, PlaceOfEntry
  <2>2. QED BY <1>1, <2>1
<1>4. ASSUME Behind(p, i) < e
      PROVE  \E k \in 1 .. e : i = At(k)
  <2> DEFINE k == Behind(p, i) + 1
  <2>1. k \in 1 .. e /\ k \in 1 .. QueueSize[p] /\ k - 1 = Behind(p, i) BY <1>1, <1>2, <1>4
  <2> HIDE DEF k
  <2>2. At(k) \in Place(p) /\ Behind(p, At(k)) = Behind(p, i) BY <2>1, PlaceOfEntry
  <2> DEFINE j == At(k)
  <2>3. j \in Nat /\ j < QueueSize[p] /\ Behind(p, j) = Behind(p, i) BY <2>2, Sizes
  <2> HIDE DEF j
  <2>4. j = i BY <1>1, <2>3 DEF Behind
  <2>5. QED BY <2>1, <2>4 DEF j
<1>5. QED BY <1>3, <1>4

\* The number of entries: between 1 and the size if the ring is marked.
LEMMA EntriesCount ==
  ASSUME RingTypeOK, NEW p \in Prio
  PROVE  /\ Entries(p) \in 0 .. QueueSize[p]
         /\ Entries(p) > 0 <=> Marked(p)
BY Sizes DEF RingTypeOK, Entries

LEMMA FreeByDistance ==
  RingTypeOK => (FreePlacesAreInvalid <=>
    \A p \in Prio : \A i \in Place(p) : Queue[p][i] # OS_TASK_INVALID <=> Behind(p, i) < Entries(p))
BY PlaceHolds, EntriesCount DEF FreePlacesAreInvalid

\* What a bit of the map says of the others.
LEMMA MapWrites ==
  ASSUME RingTypeOK, NEW p \in Prio
  PROVE  /\ Map' = OS_MAP_BIT_MASK(p) =>
              /\ Map' \in [Words -> SUBSET (0 .. OS_NUM_PRIORITYBITS_PERWORD - 1)]
              /\ Marked(p)' /\ \A q \in Prio \ {p} : Marked(q)' <=> Marked(q)
              /\ \A w \in Words : \A b \in Map'[w] : b \in Map[w] \/ w * 16 + b = p
         /\ Map' = OS_MAP_BIT_DISMASK(p) =>
              /\ Map' \in [Words -> SUBSET (0 .. OS_NUM_PRIORITYBITS_PERWORD - 1)]
              /\ ~Marked(p)' /\ \A q \in Prio \ {p} : Marked(q)' <=> Marked(q)
              /\ \A w \in Words : \A b \in Map'[w] : b \in Map[w]
BY Bits DEF RingTypeOK, OS_NUM_PRIORITYBITS_PERWORD, OS_MAP_BIT_MASK, Marked, OS_MAP_BIT_DISMASK

\* The place of the entry k is the only one that far behind the head.
LEMMA EntryAt ==
  RingTypeOK =>
    \A p \in Prio : \A i \in Place(p) : \A k \in 1 .. QueueSize[p] :
      i = (QueueHead[p] + k - 1) % QueueSize[p] <=> Behind(p, i) = k - 1
<1> SUFFICES ASSUME RingTypeOK, NEW p \in Prio, NEW i \in Place(p), NEW k \in 1 .. QueueSize[p]
             PROVE  i = (QueueHead[p] + k - 1) % QueueSize[p] <=> Behind(p, i) = k - 1
  OBVIOUS
<1> DEFINE j == (QueueHead[p] + k - 1) % QueueSize[p]
<1>1. j \in Place(p) /\ Behind(p, j) = k - 1 BY PlaceOfEntry
<1> HIDE DEF j
<1>2. /\ QueueSize[p] \in Nat /\ QueueHead[p] \in Nat /\ QueueHead[p] < QueueSize[p]
      /\ i \in Nat /\ i < QueueSize[p] /\ j \in Nat /\ j < QueueSize[p]
  BY <1>1, Sizes DEF RingTypeOK
<1>3. Behind(p, i) = Behind(p, j) => i = j BY <1>2 DEF Behind
<1>4. i = j <=> Behind(p, i) = k - 1 BY <1>1, <1>3
<1>5. QED BY <1>4 DEF j
-----------------------------------------------------------------------------
(* What an operation does to the ring of its priority *)

\* Nothing happens to the rings of other priorities.
OthersStay(p) ==
  \A q \in Prio \ {p} : /\ Queue'[q] = Queue[q] /\ Entries(q)' = Entries(q)
                        /\ QueueHead'[q] = QueueHead[q]

LEMMA TailInsertion ==
  ASSUME RingTypeOK, MapAgrees, NEW p \in Prio, NEW t \in Task,
         Entries(p) < QueueLimit[p], InsertAtTail(t, p)
  PROVE  /\ RingTypeOK' /\ MapAgrees' /\ OthersStay(p)
         /\ Entries(p)' = Entries(p) + 1
         /\ QueueTail[p] \in Place(p) /\ Behind(p, QueueTail[p]) = Entries(p)
         /\ \A i \in Place(p) : /\ Behind(p, i)' = Behind(p, i)
                                /\ Queue'[p][i] = IF i = QueueTail[p] THEN t ELSE Queue[p][i]
<1> DEFINE n == QueueSize[p]
           h == QueueHead[p]
           w == QueueTail[p]
<1>1. n \in Nat /\ n >= 1 /\ h \in Nat /\ h < n /\ w \in Nat /\ w < n /\ w \in Place(p)
  BY Sizes DEF RingTypeOK
<1>2. /\ Queue' = [Queue EXCEPT ![p][w] = t] /\ QueueHead' = QueueHead
      /\ QueueTail' = [QueueTail EXCEPT ![p] = After(p, w)] /\ Map' = OS_MAP_BIT_MASK(p)
  BY DEF InsertAtTail
<1>3. After(p, w) \in Nat /\ After(p, w) < n /\ After(p, w) = IF w + 1 = n THEN 0 ELSE w + 1
  BY <1>1 DEF After
<1>4. /\ QueueTail'[p] = After(p, w) /\ \A q \in Prio \ {p} : QueueTail'[q] = QueueTail[q]
      /\ QueueTail' \in [Prio -> Nat]
  BY <1>2, <1>3 DEF RingTypeOK
<1>5. /\ DOMAIN Queue' = Prio /\ \A q \in Prio \ {p} : Queue'[q] = Queue[q]
      /\ Queue'[p] = [Queue[p] EXCEPT ![w] = t]
  BY <1>2 DEF RingTypeOK
<1>6. /\ Queue'[p] \in [Place(p) -> Task \cup {OS_TASK_INVALID}]
      /\ \A i \in Place(p) : Queue'[p][i] = IF i = w THEN t ELSE Queue[p][i]
  BY <1>5 DEF RingTypeOK
<1>7. /\ Map' \in [Words -> SUBSET (0 .. OS_NUM_PRIORITYBITS_PERWORD - 1)]
      /\ Marked(p)' /\ \A q \in Prio \ {p} : Marked(q)' <=> Marked(q)
      /\ \A v \in Words : \A b \in Map'[v] : b \in Map[v] \/ v * 16 + b = p
  BY <1>2, MapWrites
<1>8. RingTypeOK' BY <1>2, <1>3, <1>4, <1>5, <1>6, <1>7, Sizes DEF RingTypeOK
<1>9. MapAgrees' BY <1>2, <1>4, <1>7 DEF MapAgrees, OS_NUM_PRIORITYBITS_PERWORD
<1>10. OthersStay(p) BY <1>2, <1>4, <1>5, <1>7 DEF OthersStay, Entries
<1>11. Marked(p) \/ h = w BY DEF MapAgrees
<1>12. Entries(p) < n BY <1>1, EntriesCount, Sizes
<1>13. /\ Entries(p) = IF ~Marked(p) THEN 0 ELSE IF h < w THEN w - h ELSE w + n - h
       /\ Entries(p)' = IF h < After(p, w) THEN After(p, w) - h ELSE After(p, w) + n - h
  BY <1>2, <1>4, <1>7 DEF Entries
<1>14. Entries(p)' = Entries(p) + 1 BY <1>1, <1>3, <1>11, <1>12, <1>13
<1>15. Behind(p, w) = Entries(p) BY <1>1, <1>11, <1>12, <1>13 DEF Behind
<1>16. \A i \in Place(p) : Behind(p, i)' = Behind(p, i) BY <1>2 DEF Behind
<1>17. QED BY <1>1, <1>6, <1>8, <1>9, <1>10, <1>14, <1>15, <1>16

LEMMA HeadInsertion ==
  ASSUME RingTypeOK, MapAgrees, NEW p \in Prio, NEW t \in Task,
         Entries(p) < QueueLimit[p], InsertAtHead(t, p)
  PROVE  /\ RingTypeOK' /\ MapAgrees' /\ OthersStay(p)
         /\ Entries(p)' = Entries(p) + 1
         /\ QueueHead'[p] \in Place(p) /\ Behind(p, QueueHead'[p]) = QueueSize[p] - 1
         /\ \A i \in Place(p) :
              /\ Behind(p, i)' = IF i = QueueHead'[p] THEN 0 ELSE Behind(p, i) + 1
              /\ Queue'[p][i] = IF i = QueueHead'[p] THEN t ELSE Queue[p][i]
<1> DEFINE n == QueueSize[p]
           h == QueueHead[p]
           g == QueueHead'[p]
           w == QueueTail[p]
<1>1. n \in Nat /\ n >= 1 /\ h \in Nat /\ h < n /\ w \in Nat /\ w < n BY Sizes DEF RingTypeOK
<1>2. /\ Queue' = [Queue EXCEPT ![p][g] = t] /\ QueueTail' = QueueTail
      /\ QueueHead' = [QueueHead EXCEPT ![p] = Before(p, h)] /\ Map' = OS_MAP_BIT_MASK(p)
  BY DEF InsertAtHead
<1>3. /\ g = Before(p, h) /\ g \in Nat /\ g < n /\ g = IF h = 0 THEN n - 1 ELSE h - 1
      /\ \A q \in Prio \ {p} : QueueHead'[q] = QueueHead[q]
      /\ QueueHead' \in [Prio -> Nat]
  BY <1>1, <1>2 DEF Before, RingTypeOK
<1>4. g \in Place(p) BY <1>3, Sizes
<1>5. /\ DOMAIN Queue' = Prio /\ \A q \in Prio \ {p} : Queue'[q] = Queue[q]
      /\ Queue'[p] = [Queue[p] EXCEPT ![g] = t]
  BY <1>2 DEF RingTypeOK
<1>6. /\ Queue'[p] \in [Place(p) -> Task \cup {OS_TASK_INVALID}]
      /\ \A i \in Place(p) : Queue'[p][i] = IF i = g THEN t ELSE Queue[p][i]
  BY <1>4, <1>5 DEF RingTypeOK
<1>7. /\ Map' \in [Words -> SUBSET (0 .. OS_NUM_PRIORITYBITS_PERWORD - 1)]
      /\ Marked(p)' /\ \A q \in Prio \ {p} : Marked(q)' <=> Marked(q)
      /\ \A v \in Words : \A b \in Map'[v] : b \in Map[v] \/ v * 16 + b = p
  BY <1>2, MapWrites
<1>8. RingTypeOK' BY <1>2, <1>3, <1>4, <1>5, <1>6, <1>7, Sizes DEF RingTypeOK
<1>9. MapAgrees' BY <1>2, <1>3, <1>7 DEF MapAgrees, OS_NUM_PRIORITYBITS_PERWORD
<1>10. OthersStay(p) BY <1>2, <1>3, <1>5, <1>7 DEF OthersStay, Entries
<1>11. Marked(p) \/ h = w BY DEF MapAgrees
<1>12. Entries(p) < n BY <1>1, EntriesCount, Sizes
<1>13. /\ Entries(p) = IF ~Marked(p) THEN 0 ELSE IF h < w THEN w - h ELSE w + n - h
       /\ Entries(p)' = IF g < w THEN w - g ELSE w + n - g
  BY <1>2, <1>7 DEF Entries
<1>14. Entries(p)' = Entries(p) + 1 BY <1>1, <1>3, <1>11, <1>12, <1>13
<1>15. Behind(p, g) = n - 1 BY <1>1, <1>3 DEF Behind
<1>16. ASSUME NEW i \in Place(p)
       PROVE  Behind(p, i)' = IF i = g THEN 0 ELSE Behind(p, i) + 1
  BY Sizes, <1>1, <1>3 DEF Behind
<1>17. QED BY <1>4, <1>6, <1>8, <1>9, <1>10, <1>14, <1>15, <1>16

LEMMA Removal ==
  ASSUME RingTypeOK, MapAgrees, NEW p \in Prio, ReadyQueueRemove(p)
  PROVE  /\ RingTypeOK' /\ MapAgrees' /\ OthersStay(p)
         /\ Entries(p)' = Entries(p) - 1
         /\ QueueHead[p] \in Place(p) /\ Behind(p, QueueHead[p]) = 0
         /\ \A i \in Place(p) :
              /\ Behind(p, i)' = IF i = QueueHead[p] THEN QueueSize[p] - 1 ELSE Behind(p, i) - 1
              /\ Queue'[p][i] = IF i = QueueHead[p] THEN OS_TASK_INVALID ELSE Queue[p][i]
<1> DEFINE n == QueueSize[p]
           h == QueueHead[p]
           g == QueueHead'[p]
           w == QueueTail[p]
<1>1. n \in Nat /\ n >= 1 /\ h \in Nat /\ h < n /\ w \in Nat /\ w < n /\ h \in Place(p)
  BY Sizes DEF RingTypeOK
<1>2. /\ Queue' = [Queue EXCEPT ![p][h] = OS_TASK_INVALID] /\ QueueTail' = QueueTail
      /\ QueueHead' = [QueueHead EXCEPT ![p] = After(p, h)]
      /\ Map' = IF g = w THEN OS_MAP_BIT_DISMASK(p) ELSE Map
      /\ Entries(p) > 0
  BY DEF ReadyQueueRemove
<1>3. /\ g = After(p, h) /\ g \in Nat /\ g < n /\ g = IF h + 1 = n THEN 0 ELSE h + 1
      /\ \A q \in Prio \ {p} : QueueHead'[q] = QueueHead[q]
      /\ QueueHead' \in [Prio -> Nat]
  <2>1. After(p, h) \in Nat /\ After(p, h) < n /\ After(p, h) = IF h + 1 = n THEN 0 ELSE h + 1
    BY <1>1 DEF After
  <2>2. QED BY <1>2, <2>1 DEF RingTypeOK
<1>4. g \in Place(p) BY <1>3, Sizes
<1>5. /\ DOMAIN Queue' = Prio /\ \A q \in Prio \ {p} : Queue'[q] = Queue[q]
      /\ Queue'[p] = [Queue[p] EXCEPT ![h] = OS_TASK_INVALID]
  BY <1>2 DEF RingTypeOK
<1>6. /\ Queue'[p] \in [Place(p) -> Task \cup {OS_TASK_INVALID}]
      /\ \A i \in Place(p) : Queue'[p][i] = IF i = h THEN OS_TASK_INVALID ELSE Queue[p][i]
  BY <1>1, <1>5 DEF RingTypeOK
<1>7. Marked(p) BY <1>2, EntriesCount
<1>8. /\ Map' \in [Words -> SUBSET (0 .. OS_NUM_PRIORITYBITS_PERWORD - 1)]
      /\ Marked(p)' <=> g # w
      /\ \A q \in Prio \ {p} : Marked(q)' <=> Marked(q)
      /\ \A v \in Words : \A b \in Map'[v] : b \in Map[v]
  BY <1>2, MapWrites, <1>7 DEF RingTypeOK, Marked
<1>9. RingTypeOK' BY <1>2, <1>3, <1>4, <1>5, <1>6, <1>8, Sizes DEF RingTypeOK
<1>10. MapAgrees' BY <1>2, <1>3, <1>8 DEF MapAgrees, OS_NUM_PRIORITYBITS_PERWORD
<1>11. OthersStay(p) BY <1>2, <1>3, <1>5, <1>8 DEF OthersStay, Entries
<1>12. /\ Entries(p) = IF h < w THEN w - h ELSE w + n - h
       /\ Entries(p)' = IF g = w THEN 0 ELSE IF g < w THEN w - g ELSE w + n - g
  BY <1>2, <1>7, <1>8 DEF Entries
<1>13. Entries(p)' = Entries(p) - 1 BY <1>1, <1>3, <1>12
<1>14. Behind(p, h) = 0 BY <1>1 DEF Behind
<1>15. ASSUME NEW i \in Place(p)
       PROVE  Behind(p, i)' = IF i = h THEN n - 1 ELSE Behind(p, i) - 1
  BY Sizes, <1>1, <1>3 DEF Behind
<1>16. QED BY <1>1, <1>6, <1>9, <1>10, <1>11, <1>13, <1>14, <1>15
-----------------------------------------------------------------------------
(* The invariant *)

\* The places that hold an entry, by their distance from the head.
FilledByDistance ==
  \A p \in Prio : \A i \in Place(p) : Queue[p][i] # OS_TASK_INVALID <=> Behind(p, i) < Entries(p)

LEMMA FilledNext ==
  ASSUME RingTypeOK, MapAgrees, FilledByDistance, NEW p \in Prio,
         ReadyQueueRemove(p) \/ \E t \in Task : ReadyQueueInsert(t, p)
  PROVE  /\ RingTypeOK' /\ MapAgrees' /\ FilledByDistance'
<1>1. \A t \in Task : t # OS_TASK_INVALID BY QueueConstants DEF Task
<1>2. ASSUME OthersStay(p), NEW q \in Prio \ {p}, NEW i \in Place(q)
      PROVE  (Queue[q][i] # OS_TASK_INVALID <=> Behind(q, i) < Entries(q))'
  BY <1>2 DEF OthersStay, Behind, FilledByDistance
<1>3. /\ QueueSize[p] \in Nat /\ Entries(p) \in 0 .. QueueSize[p]
      /\ \A i \in Place(p) : Behind(p, i) \in Nat /\ Behind(p, i) < QueueSize[p]
  BY Sizes, EntriesCount DEF RingTypeOK, Behind
<1>4. CASE ReadyQueueRemove(p) BY <1>4, Removal, <1>3, <1>2 DEF FilledByDistance
<1>5. ASSUME NEW t \in Task, Entries(p) < QueueLimit[p], InsertAtTail(t, p)
      PROVE  /\ RingTypeOK' /\ MapAgrees' /\ FilledByDistance'
  <2>1. /\ RingTypeOK' /\ MapAgrees' /\ OthersStay(p)
        /\ Entries(p)' = Entries(p) + 1
        /\ QueueTail[p] \in Place(p) /\ Behind(p, QueueTail[p]) = Entries(p)
        /\ \A i \in Place(p) : /\ Behind(p, i)' = Behind(p, i)
                               /\ Queue'[p][i] = IF i = QueueTail[p] THEN t ELSE Queue[p][i]
    BY <1>5, TailInsertion
  <2>2. ASSUME NEW i \in Place(p)
        PROVE  (Queue[p][i] # OS_TASK_INVALID <=> Behind(p, i) < Entries(p))'
    <3>1. CASE i = QueueTail[p] BY <1>1, <1>3, <2>1, <3>1
    <3>2. CASE i # QueueTail[p]
      <4>1. Behind(p, i) # Entries(p)
        <5>1. /\ QueueSize[p] \in Nat /\ QueueHead[p] \in Nat /\ QueueHead[p] < QueueSize[p]
              /\ i \in Nat /\ i < QueueSize[p] /\ QueueTail[p] \in Nat /\ QueueTail[p] < QueueSize[p]
          BY <2>1, Sizes DEF RingTypeOK
        <5>2. Behind(p, i) # Behind(p, QueueTail[p]) BY <3>2, <5>1 DEF Behind
        <5>3. QED BY <2>1, <5>2
      <4>2. Behind(p, i) < Entries(p) + 1 <=> Behind(p, i) < Entries(p) BY <1>3, <4>1
      <4>3. QED BY <2>1, <3>2, <4>2 DEF FilledByDistance
    <3>3. QED BY <3>1, <3>2
  <2>3. QED BY <1>2, <2>1, <2>2 DEF FilledByDistance
<1>6. ASSUME NEW t \in Task, Entries(p) < QueueLimit[p], InsertAtHead(t, p)
      PROVE  /\ RingTypeOK' /\ MapAgrees' /\ FilledByDistance'
  BY <1>6, HeadInsertion, <1>1, <1>3, <1>2 DEF FilledByDistance
<1>7. QED BY <1>4, <1>5, <1>6 DEF ReadyQueueInsert

\* The FIFO of a priority is empty when its bit is not set, and begins at the head otherwise.
LEMMA ContentsFacts ==
  RingTypeOK =>
    \A p \in Prio : /\ ContentsOfAll[p] = Contents(p)
                    /\ Contents(p) \in Seq(Task \cup {OS_TASK_INVALID})
                    /\ Len(Contents(p)) = Entries(p)
                    /\ Contents(p) # <<>> <=> Marked(p)
                    /\ Marked(p) => Head(Contents(p)) = Queue[p][QueueHead[p]]
<1> SUFFICES ASSUME RingTypeOK, NEW p \in Prio
             PROVE  /\ ContentsOfAll[p] = Contents(p)
                    /\ Contents(p) \in Seq(Task \cup {OS_TASK_INVALID})
                    /\ Len(Contents(p)) = Entries(p)
                    /\ Contents(p) # <<>> <=> Marked(p)
                    /\ Marked(p) => Head(Contents(p)) = Queue[p][QueueHead[p]]
  OBVIOUS
<1>1. /\ Entries(p) \in Nat /\ Entries(p) <= QueueSize[p] /\ QueueSize[p] \in Nat
      /\ Entries(p) > 0 <=> Marked(p)
  BY EntriesCount, Sizes
<1>2. \A k \in 1 .. Entries(p) :
        Queue[p][(QueueHead[p] + k - 1) % QueueSize[p]] \in Task \cup {OS_TASK_INVALID}
  BY <1>1, PlaceOfEntry DEF RingTypeOK
<1>3. Contents(p) \in Seq(Task \cup {OS_TASK_INVALID}) /\ Len(Contents(p)) = Entries(p)
  BY <1>1, <1>2 DEF Contents
<1>4. Contents(p) # <<>> <=> Marked(p) BY <1>1, <1>3
<1>5. ASSUME Marked(p)
      PROVE  Head(Contents(p)) = Queue[p][QueueHead[p]]
  <2>1. 1 \in 1 .. Entries(p) /\ 1 \in 1 .. QueueSize[p] BY <1>1, <1>5
  <2>2. QueueHead[p] \in Place(p) /\ Behind(p, QueueHead[p]) = 1 - 1 BY Sizes DEF RingTypeOK, Behind
  <2>3. QueueHead[p] = (QueueHead[p] + 1 - 1) % QueueSize[p] BY <2>1, <2>2, EntryAt
  <2>4. Contents(p)[1] = Queue[p][QueueHead[p]] BY <2>1, <2>3 DEF Contents
  <2>5. QED BY <1>3, <1>4, <1>5, <2>4
<1>6. QED BY <1>3, <1>4, <1>5 DEF ContentsOfAll

\* From the last word that is not 0 to its highest bit: the highest priority that is marked.
LEMMA TopIsFound ==
  RingTypeOK /\ MapAgrees => TopAgrees
<1> SUFFICES ASSUME RingTypeOK, MapAgrees, NEW u \in Words, Map[u] # {}
             PROVE  /\ RingHighPrio = GetHighPrio(ContentsOfAll)
                    /\ RingFirst(RingHighPrio) = GetFirst(ContentsOfAll, RingHighPrio)
  BY DEF TopAgrees
<1> DEFINE W == {v \in Words : Map[v] # {}}
           w == Max(W)
           b == GetHighPrioBit(Map[w])
           top == w * 16 + b
<1>1. PriorityNum - 1 \in Nat /\ Prio = 0 .. PriorityNum - 1 BY QueueConstants DEF Prio
<1>2. W \in SUBSET (0 .. PriorityNum - 1) /\ W # {}
  <2>1. \A p \in Prio : WordOf(p) \in 0 .. PriorityNum - 1
    <3>1. ASSUME NEW p \in Prio
          PROVE  WordOf(p) \in 0 .. PriorityNum - 1
      <4>1. WordOf(p) \in Words /\ BitOf(p) \in 0 .. 15 /\ p = WordOf(p) * 16 + BitOf(p) BY Bits
      <4>2. WordOf(p) \in Nat /\ p \in 0 .. PriorityNum - 1 BY <1>1, <4>1, Bits
      <4>3. QED BY <1>1, <4>1, <4>2, SMTT(60)
    <3>2. QED BY <3>1
  <2>2. QED BY <2>1 DEF Words
<1> HIDE DEF W
<1>3. w \in W /\ \A v \in W : v <= w BY <1>1, <1>2, GreatestOf
<1> HIDE DEF w
<1>4. w \in Words /\ Map[w] # {} /\ w \in Nat /\ Map[w] \in SUBSET (0 .. 15)
  <2>1. w \in Words /\ Map[w] # {} BY <1>3 DEF W
  <2>2. 0 \in 0 .. 15 /\ OS_NUM_PRIORITYBITS_PERWORD - 1 = 15 BY DEF OS_NUM_PRIORITYBITS_PERWORD
  <2>3. Map[w] \in SUBSET (0 .. OS_NUM_PRIORITYBITS_PERWORD - 1) BY <2>1 DEF RingTypeOK
  <2>4. w \in Nat BY <2>1, <2>2, Bits
  <2>5. QED BY <2>1, <2>2, <2>3, <2>4
<1>5. b \in Map[w] /\ \A c \in Map[w] : c <= b BY <1>4, HighestBit
<1> HIDE DEF b
<1>6. top \in Prio /\ Marked(top)
  BY <1>4, <1>5, Bits DEF MapAgrees, OS_NUM_PRIORITYBITS_PERWORD, Marked
<1>7. ASSUME NEW p \in Prio, Marked(p)
      PROVE  p <= top
  <2>1. WordOf(p) \in W /\ BitOf(p) \in Map[WordOf(p)] BY <1>7, Bits DEF Marked, W
  <2>2. WordOf(p) \in Nat /\ WordOf(p) <= w /\ BitOf(p) \in 0 .. 15 /\ p = WordOf(p) * 16 + BitOf(p)
    BY <1>3, <2>1, Bits
  <2>3. CASE WordOf(p) = w BY <1>4, <1>5, <2>1, <2>3, <2>2
  <2>4. CASE WordOf(p) # w BY <1>4, <1>5, <2>2, <2>4
  <2>5. QED BY <2>3, <2>4
<1>8. RingHighPrio = top BY DEF RingHighPrio, OS_NUM_PRIORITYBITS_PERWORD, W, w, b
<1> HIDE DEF top
<1>9. \A p \in Prio : ContentsOfAll[p] # <<>> <=> Marked(p) BY ContentsFacts
<1>10. GetHighPrio(ContentsOfAll) = top BY <1>1, <1>6, <1>7, <1>9 DEF GetHighPrio
<1>11. RingFirst(top) = GetFirst(ContentsOfAll, top) BY <1>6, ContentsFacts DEF RingFirst, GetFirst
<1>12. QED BY <1>8, <1>10, <1>11

LEMMA RingInitHolds == RingInit => RingInvariant
<1> SUFFICES ASSUME RingInit
             PROVE  RingInvariant
  OBVIOUS
<1>1. /\ \A p \in Prio : QueueHead[p] = 0 /\ QueueTail[p] = 0 /\ 0 \in Place(p)
      /\ \A p \in Prio : Queue[p] = [i \in Place(p) |-> OS_TASK_INVALID]
      /\ \A w \in Words : Map[w] = {}
  BY Sizes DEF RingInit
<1>2. RingTypeOK BY <1>1 DEF RingInit, RingTypeOK
<1>3. MapAgrees BY <1>1, Bits DEF MapAgrees
<1>4. TopAgrees BY <1>1 DEF TopAgrees
<1>5. \A p \in Prio : Entries(p) = 0 BY <1>1, Bits DEF Entries, Marked
<1>6. FreePlacesAreInvalid
  <2>1. SUFFICES ASSUME NEW p \in Prio, NEW i \in Place(p)
                 PROVE  ~ (Queue[p][i] # OS_TASK_INVALID) /\ ~ \E k \in 1 .. Entries(p) : TRUE
    BY DEF FreePlacesAreInvalid
  <2>2. Queue[p][i] = OS_TASK_INVALID BY <1>1
  <2>3. ~ \E k \in 1 .. Entries(p) : TRUE BY <1>5
  <2>4. QED BY <2>2, <2>3
<1>7. QED BY <1>2, <1>3, <1>4, <1>6 DEF RingInvariant

LEMMA RingStepHolds ==
  ASSUME RingInvariant, [RingNext]_ringVars
  PROVE  RingInvariant'
<1>1. RingTypeOK /\ MapAgrees /\ FilledByDistance
  BY FreeByDistance DEF RingInvariant, FilledByDistance
<1>2. CASE RingNext
  <2>1. PICK p \in Prio : ReadyQueueRemove(p) \/ \E t \in Task : ReadyQueueInsert(t, p)
    BY <1>2, RingConstants DEF RingNext
  <2>2. RingTypeOK' /\ MapAgrees' /\ FilledByDistance' BY <1>1, <2>1, FilledNext
  <2>3. TopAgrees' BY <2>2, TopIsFound, PTL
  <2>4. (RingTypeOK => (FreePlacesAreInvalid <=> FilledByDistance))'
    <3>2. QED BY FreeByDistance, PTL DEF FilledByDistance
  <2>5. QED BY <2>2, <2>3, <2>4 DEF RingInvariant
<1>3. CASE UNCHANGED ringVars
  BY <1>3 DEF ringVars, RingInvariant, RingTypeOK, MapAgrees, TopAgrees, FreePlacesAreInvalid, Marked, Entries,
       RingHighPrio, RingFirst, ContentsOfAll, Contents
<1>4. QED BY <1>2, <1>3

\* Over every wrap, in full and in empty rings, across the words of the bit map: what the scheduler
\* reads is the first task of the highest priority, and the free places are what they have to be.
THEOREM RingHolds == RingSpec => []RingInvariant
BY RingInitHolds, RingStepHolds, PTL DEF RingSpec

-----------------------------------------------------------------------------
(* The refinement *)

Entry == Task \cup {OS_TASK_INVALID}

\* The entry k of the FIFO of a priority is at the place k - 1 behind the head.
ContentsByDistance ==
  \A p \in Prio :
    /\ Contents(p) \in Seq(Entry) /\ Len(Contents(p)) = Entries(p)
    /\ Entries(p) \in 0 .. QueueSize[p]
    /\ \A k \in 1 .. Entries(p) : \E i \in Place(p) : Behind(p, i) = k - 1
    /\ \A i \in Place(p) : \A k \in 1 .. Entries(p) :
         Behind(p, i) = k - 1 => Contents(p)[k] = Queue[p][i]

LEMMA ContentAt == RingTypeOK => ContentsByDistance
<1> SUFFICES ASSUME RingTypeOK, NEW p \in Prio
             PROVE  /\ Contents(p) \in Seq(Entry) /\ Len(Contents(p)) = Entries(p)
                    /\ Entries(p) \in 0 .. QueueSize[p]
                    /\ \A k \in 1 .. Entries(p) : \E i \in Place(p) : Behind(p, i) = k - 1
                    /\ \A i \in Place(p) : \A k \in 1 .. Entries(p) :
                         Behind(p, i) = k - 1 => Contents(p)[k] = Queue[p][i]
  BY DEF ContentsByDistance
<1>1. /\ Contents(p) \in Seq(Entry) /\ Len(Contents(p)) = Entries(p)
      /\ Entries(p) \in 0 .. QueueSize[p]
  BY ContentsFacts, EntriesCount DEF Entry
<1>2. \A k \in 1 .. Entries(p) : k \in 1 .. QueueSize[p] BY <1>1, Sizes
<1>3. ASSUME NEW k \in 1 .. Entries(p)
      PROVE  \E i \in Place(p) : Behind(p, i) = k - 1
  BY <1>2, PlaceOfEntry
<1>4. ASSUME NEW i \in Place(p), NEW k \in 1 .. Entries(p), Behind(p, i) = k - 1
      PROVE  Contents(p)[k] = Queue[p][i]
  BY <1>2, <1>4, EntryAt DEF Contents
<1>5. QED BY <1>1, <1>3, <1>4

\* What ContentAt says after a step.
LEMMA ContentAtNext ==
  RingTypeOK' =>
    \A p \in Prio :
      /\ Contents(p)' \in Seq(Entry) /\ Len(Contents(p)') = Entries(p)'
      /\ Entries(p)' \in 0 .. QueueSize[p]
      /\ \A k \in 1 .. Entries(p)' : \E i \in Place(p) : Behind(p, i)' = k - 1
      /\ \A i \in Place(p) : \A k \in 1 .. Entries(p)' :
           Behind(p, i)' = k - 1 => Contents(p)'[k] = Queue'[p][i]
<1>1. RingTypeOK' => ContentsByDistance' BY ContentAt, PTL
<1>2. QED BY <1>1 DEF ContentsByDistance

\* The FIFOs of the other priorities stay.
LEMMA OthersKeep ==
  ASSUME NEW p \in Prio, OthersStay(p), NEW c, Contents(p)' = c
  PROVE  ContentsOfAll' = [ContentsOfAll EXCEPT ![p] = c]
BY DEF OthersStay, Contents, ContentsOfAll

LEMMA TailInserted ==
  ASSUME RingTypeOK, MapAgrees, NEW p \in Prio, NEW t \in Task,
         Entries(p) < QueueLimit[p], InsertAtTail(t, p)
  PROVE  ContentsOfAll' = InsertTail(ContentsOfAll, p, t)
<1> DEFINE n == Entries(p)
           s == Contents(p)
           u == Contents(p)'
           v == Append(s, t)
<1>1. /\ RingTypeOK' /\ OthersStay(p)
      /\ Entries(p)' = n + 1
      /\ QueueTail[p] \in Place(p) /\ Behind(p, QueueTail[p]) = n
      /\ \A i \in Place(p) : /\ Behind(p, i)' = Behind(p, i)
                             /\ Queue'[p][i] = IF i = QueueTail[p] THEN t ELSE Queue[p][i]
  BY TailInsertion
<1>2. /\ s \in Seq(Entry) /\ Len(s) = n /\ n \in Nat
      /\ \A i \in Place(p) : \A k \in 1 .. n : Behind(p, i) = k - 1 => s[k] = Queue[p][i]
  BY ContentAt DEF ContentsByDistance
<1>3. /\ u \in Seq(Entry) /\ Len(u) = n + 1
      /\ \A k \in 1 .. n + 1 : \E i \in Place(p) : Behind(p, i)' = k - 1
      /\ \A i \in Place(p) : \A k \in 1 .. n + 1 : Behind(p, i)' = k - 1 => u[k] = Queue'[p][i]
  BY <1>1, ContentAtNext
<1>4. /\ v \in Seq(Entry) /\ Len(v) = n + 1 /\ v[n + 1] = t
      /\ \A k \in 1 .. n : v[k] = s[k]
  BY <1>2 DEF Entry
<1> HIDE DEF n, s, u, v
<1>5. ASSUME NEW k \in 1 .. n + 1
      PROVE  u[k] = v[k]
  <2>1. PICK i \in Place(p) : Behind(p, i)' = k - 1 /\ Behind(p, i) = k - 1 /\ u[k] = Queue'[p][i]
    BY <1>1, <1>3
  <2>2. CASE k = n + 1 BY <1>1, <1>2, <1>3, <1>4, <2>2
  <2>3. CASE k # n + 1 BY <1>2, <2>3, <1>1, <2>1, <1>4
  <2>4. QED BY <2>2, <2>3
<1>6. u = v BY <1>3, <1>4, <1>5, SeqEqual
<1>7. ContentsOfAll' = [ContentsOfAll EXCEPT ![p] = v] BY <1>1, <1>6, OthersKeep DEF u
<1>8. ContentsOfAll[p] = s BY DEF ContentsOfAll, s
<1>9. QED BY <1>7, <1>8 DEF InsertTail, v

LEMMA HeadInserted ==
  ASSUME RingTypeOK, MapAgrees, NEW p \in Prio, NEW t \in Task,
         Entries(p) < QueueLimit[p], InsertAtHead(t, p)
  PROVE  ContentsOfAll' = InsertHead(ContentsOfAll, p, t)
<1> DEFINE n == Entries(p)
           s == Contents(p)
           u == Contents(p)'
           v == <<t>> \o s
           h == QueueHead'[p]
<1>1. /\ RingTypeOK' /\ OthersStay(p)
      /\ Entries(p)' = n + 1
      /\ h \in Place(p) /\ Behind(p, h) = QueueSize[p] - 1
      /\ \A i \in Place(p) : /\ Behind(p, i)' = IF i = h THEN 0 ELSE Behind(p, i) + 1
                             /\ Queue'[p][i] = IF i = h THEN t ELSE Queue[p][i]
  BY HeadInsertion
<1>2. /\ s \in Seq(Entry) /\ Len(s) = n /\ n \in Nat
      /\ \A i \in Place(p) : \A k \in 1 .. n : Behind(p, i) = k - 1 => s[k] = Queue[p][i]
  BY ContentAt DEF ContentsByDistance
<1>3. /\ u \in Seq(Entry) /\ Len(u) = n + 1
      /\ \A k \in 1 .. n + 1 : \E i \in Place(p) : Behind(p, i)' = k - 1
      /\ \A i \in Place(p) : \A k \in 1 .. n + 1 : Behind(p, i)' = k - 1 => u[k] = Queue'[p][i]
  BY <1>1, ContentAtNext
<1>4. /\ v \in Seq(Entry) /\ Len(v) = n + 1 /\ v[1] = t
      /\ \A k \in 2 .. n + 1 : v[k] = s[k - 1]
  BY <1>2, ConcatProperties DEF Entry
<1>5. \A i \in Place(p) : Behind(p, i) \in Nat BY Sizes DEF RingTypeOK, Behind
<1> HIDE DEF n, s, u, v, h
<1>6. ASSUME NEW k \in 1 .. n + 1
      PROVE  u[k] = v[k]
  <2>1. PICK i \in Place(p) : Behind(p, i)' = k - 1 /\ u[k] = Queue'[p][i] BY <1>3
  <2>2. CASE k = 1 BY <1>1, <1>5, <2>1, <2>2, <1>4
  <2>3. CASE k # 1 BY <1>2, <2>3, <1>1, <2>1, <1>5, <1>4
  <2>4. QED BY <2>2, <2>3
<1>7. u = v BY <1>3, <1>4, <1>6, SeqEqual
<1>8. ContentsOfAll' = [ContentsOfAll EXCEPT ![p] = v] BY <1>1, <1>7, OthersKeep DEF u
<1>9. ContentsOfAll[p] = s BY DEF ContentsOfAll, s
<1>10. QED BY <1>8, <1>9 DEF InsertHead, v

LEMMA HeadRemoved ==
  ASSUME RingTypeOK, MapAgrees, NEW p \in Prio, ReadyQueueRemove(p)
  PROVE  ContentsOfAll[p] # <<>> /\ ContentsOfAll' = RemoveHead(ContentsOfAll, p)
<1> DEFINE n == Entries(p)
           s == Contents(p)
           u == Contents(p)'
           v == Tail(s)
           h == QueueHead[p]
<1>1. /\ RingTypeOK' /\ OthersStay(p)
      /\ Entries(p)' = n - 1
      /\ h \in Place(p) /\ Behind(p, h) = 0
      /\ \A i \in Place(p) : /\ Behind(p, i)' = IF i = h THEN QueueSize[p] - 1 ELSE Behind(p, i) - 1
                             /\ Queue'[p][i] = IF i = h THEN OS_TASK_INVALID ELSE Queue[p][i]
  BY Removal
<1>2. /\ s \in Seq(Entry) /\ Len(s) = n /\ n \in 0 .. QueueSize[p] /\ n > 0
      /\ \A i \in Place(p) : \A k \in 1 .. n : Behind(p, i) = k - 1 => s[k] = Queue[p][i]
  BY ContentAt DEF ContentsByDistance, ReadyQueueRemove
<1>3. /\ u \in Seq(Entry) /\ Len(u) = n - 1
      /\ \A k \in 1 .. n - 1 : \E i \in Place(p) : Behind(p, i)' = k - 1
      /\ \A i \in Place(p) : \A k \in 1 .. n - 1 : Behind(p, i)' = k - 1 => u[k] = Queue'[p][i]
  BY <1>1, ContentAtNext
<1>4. n \in Nat /\ s # <<>> /\ QueueSize[p] \in Nat /\ n <= QueueSize[p] BY <1>2, Sizes
<1>5. v \in Seq(Entry) /\ Len(v) = n - 1 /\ \A k \in 1 .. n - 1 : v[k] = s[k + 1]
  BY <1>2, <1>4, HeadTailProperties
<1>6. \A i \in Place(p) : Behind(p, i) \in Nat BY Sizes DEF RingTypeOK, Behind
<1>7. ContentsOfAll[p] = s BY DEF ContentsOfAll
<1> HIDE DEF n, s, u, v, h
<1>8. ASSUME NEW k \in 1 .. n - 1
      PROVE  u[k] = v[k]
  <2>1. PICK i \in Place(p) : Behind(p, i)' = k - 1 /\ u[k] = Queue'[p][i] BY <1>3
  <2>2. k + 1 \in 1 .. n /\ k - 1 # QueueSize[p] - 1 BY <1>4
  <2>3. i # h BY <1>1, <2>1, <2>2
  <2>4. Behind(p, i) - 1 = k - 1 BY <1>1, <2>1, <2>3
  <2>5. Behind(p, i) = (k + 1) - 1 BY <1>6, <2>4
  <2>6. s[k + 1] = Queue[p][i] BY <1>2, <2>2, <2>5
  <2>7. QED BY <1>1, <1>5, <2>1, <2>3, <2>6
<1>9. u = v BY <1>3, <1>5, <1>8, SeqEqual
<1>10. ContentsOfAll' = [ContentsOfAll EXCEPT ![p] = v] BY <1>1, <1>9, OthersKeep DEF u
<1>11. QED BY <1>4, <1>7, <1>10 DEF RemoveHead, v

LEMMA FifoStep ==
  ASSUME RingInvariant, [RingNext]_ringVars
  PROVE  [Abstract!FifoNext]_ContentsOfAll
<1>1. CASE RingNext
  <2>1. RingTypeOK /\ MapAgrees BY DEF RingInvariant
  <2>2. PICK p \in Used : ReadyQueueRemove(p) \/ \E t \in Task : ReadyQueueInsert(t, p)
    BY <1>1 DEF RingNext
  <2>3. p \in Prio BY RingConstants
  <2>4. CASE ReadyQueueRemove(p)
    BY <2>1, <2>3, <2>4, HeadRemoved DEF Abstract!FifoNext, Abstract!FifoRemove, Abstract!RemoveHead, RemoveHead
  <2>5. ASSUME NEW t \in Task, ReadyQueueInsert(t, p)
        PROVE  Abstract!FifoInsert(t, p)
    <3>1. Len(ContentsOfAll[p]) < QueueSize[p]
      BY <2>1, <2>3, <2>5, EntriesCount, Sizes, ContentsFacts DEF ReadyQueueInsert
    <3>2. ContentsOfAll' \in {InsertTail(ContentsOfAll, p, t), InsertHead(ContentsOfAll, p, t)}
      BY <2>1, <2>3, <2>5, TailInserted, HeadInserted DEF ReadyQueueInsert
    <3>3. QED
      BY <3>1, <3>2 DEF Abstract!FifoInsert, Abstract!InsertTail, Abstract!InsertHead, InsertTail, InsertHead
  <2>6. QED BY <2>2, <2>4, <2>5 DEF Abstract!FifoNext, Abstract!Task, Task
<1>2. CASE UNCHANGED ringVars BY <1>2 DEF ringVars, ContentsOfAll, Contents, Entries, Marked
<1>3. QED BY <1>1, <1>2

LEMMA FifoStart == RingInit => Abstract!FifoInit
<1> SUFFICES ASSUME RingInit
             PROVE  ContentsOfAll = [p \in Prio |-> <<>>]
  BY DEF Abstract!FifoInit, Abstract!InitReadyTable, Abstract!Prio, Prio
<1>1. RingTypeOK BY RingInitHolds DEF RingInvariant
<1>2. ASSUME NEW p \in Prio
      PROVE  Contents(p) = <<>>
  BY Bits, <1>1, ContentsFacts DEF RingInit, Marked
<1>3. QED BY <1>2 DEF ContentsOfAll

\* Arrays, marks and bit map implement one bounded FIFO for each priority: no operation loses an entry,
\* gives one twice or changes the order, over the wrap of the marks and however full the ring is.
THEOREM FifoImplemented == RingSpec => ImplementsFifo
<1>1. RingInit => Abstract!FifoInit BY FifoStart
<1>2. RingInvariant /\ [RingNext]_ringVars => [Abstract!FifoNext]_ContentsOfAll BY FifoStep
<1>3. QED BY <1>1, <1>2, RingHolds, PTL DEF RingSpec, ImplementsFifo, Abstract!Fifo

=============================================================================
