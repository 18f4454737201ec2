--------------------------- MODULE OsSpinlock_proofs ---------------------------
(***************************************************************************)
(* The theorems about OsSpinlock, for any number of cores, threads and      *)
(* locks: SpinlockInvariant is inductive; under the conditions on the       *)
(* configuration that OsSpinlock names the guards of the locks hold, the    *)
(* scheduler resource is returned and no threads wait in a circle.          *)
(***************************************************************************)
EXTENDS OsSpinlock, FiniteSetTheorems, SequenceTheorems, WellFoundedInduction, TLAPS

-----------------------------------------------------------------------------
(* Finite sets and stacks *)

\* Every non-empty finite set of numbers has a greatest element.
LEMMA GreatestOf ==
  ASSUME NEW T \in SUBSET Nat, IsFiniteSet(T), T # {}
  PROVE  \E x \in T : \A y \in T : y <= x
<1> DEFINE Above(y) == {x \in T : x >= y}
           Aboves == {Above(y) : y \in T}
<1>1. IsWellFoundedOn(StrictSubsetOrdering(T), SUBSET T)
  BY FS_StrictSubsetOrderingWellFounded, FS_FiniteSubsetsOfFinite
<1>2. Aboves \subseteq SUBSET T /\ Aboves # {}
  OBVIOUS
<1> HIDE DEF Aboves
<1>3. PICK X \in Aboves : \A Y \in Aboves : ~ (<<Y, X>> \in StrictSubsetOrdering(T))
  BY <1>1, <1>2, WFMin
<1>4. PICK x \in T : X = Above(x)
  BY DEF Aboves
<1>5. \A y \in T : y <= x
  <2>1. SUFFICES ASSUME NEW y \in T, y > x
                 PROVE  FALSE
    OBVIOUS
  <2>2. Above(y) \in Aboves
    BY DEF Aboves
  <2>3. (\A z \in T : z >= y => z >= x) /\ ~ (x >= y) /\ x >= x
    BY <2>1
  <2>4. Above(y) \subseteq Above(x) /\ Above(y) # Above(x)
    BY <2>3
  <2>5. QED
    BY <1>3, <1>4, <2>2, <2>4 DEF StrictSubsetOrdering
<1>6. QED
  BY <1>5

LEMMA ImageIsFinite ==
  ASSUME NEW S, IsFiniteSet(S), NEW f
  PROVE  IsFiniteSet({f[x] : x \in S})
<1> DEFINE T == {f[x] : x \in S}
           g == [x \in S |-> f[x]]
<1>1. g \in [S -> T] /\ \A t \in T : \E x \in S : g[x] = t
  OBVIOUS
<1>2. g \in Surjection(S, T)
  BY <1>1 DEF Surjection
<1> HIDE DEF g, T
<1>3. IsFiniteSet(T)
  BY <1>2, FS_Surjection
<1>4. QED
  BY <1>3 DEF T

LEMMA Pushed ==
  ASSUME NEW S, NEW q \in Seq(S), NEW e \in S
  PROVE  LET r == Append(q, e)
         IN  /\ r \in Seq(S) /\ Len(q) \in Nat /\ Len(r) = Len(q) + 1 /\ r # <<>>
             /\ r[Len(q) + 1] = e /\ \A i \in 1 .. Len(q) : r[i] = q[i]
             /\ In(r) = In(q) \cup {e} /\ Top(r) = e
<1> DEFINE r == Append(q, e)
<1>1. /\ r \in Seq(S) /\ Len(q) \in Nat /\ Len(r) = Len(q) + 1 /\ r # <<>>
      /\ r[Len(q) + 1] = e /\ \A i \in 1 .. Len(q) : r[i] = q[i]
  OBVIOUS
<1> HIDE DEF r
<1>2. In(r) = In(q) \cup {e}
  <2>1. \A x : x \in In(r) <=> \E i \in 1 .. Len(q) + 1 : x = r[i]
    BY <1>1 DEF In
  <2>2. \A x : x \in In(q) <=> \E i \in 1 .. Len(q) : x = r[i]
    BY <1>1 DEF In
  <2>3. \A i \in 1 .. Len(q) + 1 : i \in 1 .. Len(q) \/ i = Len(q) + 1
    BY <1>1
  <2>4. Len(q) + 1 \in 1 .. Len(q) + 1 /\ \A i \in 1 .. Len(q) : i \in 1 .. Len(q) + 1
    BY <1>1
  <2>5. ASSUME NEW x \in In(r)
        PROVE  x \in In(q) \cup {e}
    BY <1>1, <2>1, <2>2, <2>3
  <2>6. ASSUME NEW x \in In(q) \cup {e}
        PROVE  x \in In(r)
    BY <1>1, <2>1, <2>2, <2>4
  <2>7. QED
    BY <2>5, <2>6
<1>3. Top(r) = e
  BY <1>1 DEF Top
<1>4. QED
  BY <1>1, <1>2, <1>3 DEF r

LEMMA PoppedOff ==
  ASSUME NEW S, NEW q \in Seq(S), q # <<>>
  PROVE  /\ Popped(q) \in Seq(S) /\ Len(q) \in Nat \ {0} /\ Len(Popped(q)) = Len(q) - 1
         /\ \A i \in 1 .. Len(q) - 1 : Popped(q)[i] = q[i]
         /\ In(q) = In(Popped(q)) \cup {Top(q)} /\ Top(q) \in S /\ Top(q) = q[Len(q)]
<1> DEFINE r == Popped(q)
           n == Len(q)
<1>1. n \in Nat \ {0} /\ \A i \in 1 .. n : q[i] \in S
  OBVIOUS
<1>2. /\ r \in Seq(S) /\ Len(r) = n - 1
      /\ \A i \in 1 .. n - 1 : r[i] = q[i]
  BY <1>1, SubSeqProperties DEF Popped
<1>3. Top(q) = q[n] /\ Top(q) \in S
  BY <1>1 DEF Top
<1> HIDE DEF r, n
<1>4. In(q) = In(r) \cup {Top(q)}
  <2>1. \A x : x \in In(q) <=> \E i \in 1 .. n : x = q[i]
    BY DEF In, n
  <2>2. \A x : x \in In(r) <=> \E i \in 1 .. n - 1 : x = q[i]
    BY <1>2 DEF In
  <2>3. \A i \in 1 .. n : i \in 1 .. n - 1 \/ i = n
    BY <1>1
  <2>4. n \in 1 .. n /\ \A i \in 1 .. n - 1 : i \in 1 .. n
    BY <1>1
  <2>5. QED
    BY <1>3, <2>1, <2>2, <2>3, <2>4
<1>5. QED
  BY <1>1, <1>2, <1>3, <1>4 DEF r, n

-----------------------------------------------------------------------------
(* The stack of the critical zones *)

ZoneEntry == Spinlocks \cup {RES_SCHEDULER}

\* The locks in the stack of a thread.
Locks(t) == In(Zone[t]) \cap Spinlocks

Innermost(zone) == LevelOf(zone, [s \in Spinlocks |-> [Occupied |-> TRUE]])

\* l is the last lock of the stack, or there is none.
IsLevel(zone, l) ==
  \/ l = None /\ \A i \in 1 .. Len(zone) : zone[i] = RES_SCHEDULER
  \/ l # None /\ \E i \in 1 .. Len(zone) :
       zone[i] = l /\ l # RES_SCHEDULER /\ \A j \in 1 .. Len(zone) : zone[j] # RES_SCHEDULER => j <= i

LEMMA LevelIs ==
  ASSUME NEW zone \in Seq(ZoneEntry), NEW slcb,
         \A i \in 1 .. Len(zone) : zone[i] # RES_SCHEDULER => slcb[zone[i]].Occupied
  PROVE  \A l : LevelOf(zone, slcb) = l <=> IsLevel(zone, l)
<1> DEFINE taken == {i \in 1 .. Len(zone) : zone[i] # RES_SCHEDULER}
           last == CHOOSE i \in taken : \A j \in taken : j <= i
           LastIn(T) == IF T = {} THEN None ELSE zone[CHOOSE i \in T : \A j \in T : j <= i]
<1>1. taken = {i \in 1 .. Len(zone) : zone[i] # RES_SCHEDULER /\ slcb[zone[i]].Occupied}
  OBVIOUS
<1>2. LevelOf(zone, slcb) = IF taken = {} THEN None ELSE zone[last]
  <2>1. LevelOf(zone, slcb) = LastIn({i \in 1 .. Len(zone) : zone[i] # RES_SCHEDULER /\ slcb[zone[i]].Occupied})
    BY DEF LevelOf
  <2> HIDE DEF LastIn, taken
  <2>2. LevelOf(zone, slcb) = LastIn(taken)
    BY <1>1, <2>1
  <2>3. QED
    BY <2>2 DEF LastIn
<1>3. \A i \in 1 .. Len(zone) : zone[i] \in ZoneEntry
  OBVIOUS
<1>4. \A i \in taken : zone[i] # None
  BY <1>3, SpinlockConstants DEF ZoneEntry
<1>5. CASE taken = {}
  <2>1. \A i \in 1 .. Len(zone) : zone[i] = RES_SCHEDULER
    BY <1>5
  <2>2. QED
    BY <1>2, <1>5, <2>1 DEF IsLevel
<1>6. CASE taken # {}
  <2>1. taken \in SUBSET Nat /\ IsFiniteSet(taken)
    <3>1. IsFiniteSet(1 .. Len(zone)) /\ 1 .. Len(zone) \subseteq Nat
      BY FS_Interval
    <3>2. QED
      BY <3>1, FS_Subset
  <2>2. \E i \in taken : \A j \in taken : j <= i
    BY <1>6, <2>1, GreatestOf
  <2>3. last \in taken /\ \A j \in taken : j <= last
    BY <2>2
  <2> HIDE DEF last
  <2>4. IsLevel(zone, zone[last])
    BY <1>4, <2>3 DEF IsLevel
  <2>5. ASSUME NEW l, IsLevel(zone, l)
        PROVE  l = zone[last]
    <3>1. ~ \A i \in 1 .. Len(zone) : zone[i] = RES_SCHEDULER
      BY <1>6
    <3>2. PICK i \in 1 .. Len(zone) : zone[i] = l /\ l # RES_SCHEDULER /\ \A j \in taken : j <= i
      BY <2>5, <3>1 DEF IsLevel
    <3>3. i \in taken /\ last <= i /\ i <= last
      BY <2>3, <3>2
    <3>4. i = last
      BY <2>1, <2>3, <3>3
    <3>5. QED
      BY <3>2, <3>4
  <2>6. QED
    BY <1>2, <1>6, <2>4, <2>5
<1>7. QED
  BY <1>5, <1>6

LEMMA LevelOfAll ==
  ASSUME NEW zone \in Seq(ZoneEntry)
  PROVE  \A l : Innermost(zone) = l <=> IsLevel(zone, l)
<1>1. \A i \in 1 .. Len(zone) : zone[i] # RES_SCHEDULER =>
        zone[i] \in Spinlocks /\ [s \in Spinlocks |-> [Occupied |-> TRUE]][zone[i]].Occupied
  BY DEF ZoneEntry
<1>2. QED
  BY <1>1, LevelIs DEF Innermost

\* The locks of a stack are nested in their order.
Sorted(zone) ==
  \A i, j \in 1 .. Len(zone) :
    i < j /\ {zone[i], zone[j]} \subseteq Spinlocks => SpinlockOrder[zone[i]] < SpinlockOrder[zone[j]]

SchedulerCount(zone) == Cardinality({i \in 1 .. Len(zone) : zone[i] = RES_SCHEDULER})

LEMMA Rejoined ==
  ASSUME NEW S, NEW q \in Seq(S), q # <<>>
  PROVE  q = Append(Popped(q), Top(q))
<1>1. /\ Popped(q) \in Seq(S) /\ Len(q) \in Nat \ {0} /\ Len(Popped(q)) = Len(q) - 1
      /\ \A i \in 1 .. Len(q) - 1 : Popped(q)[i] = q[i]
      /\ Top(q) \in S /\ Top(q) = q[Len(q)]
  BY PoppedOff
<1> DEFINE p == Popped(q)
           r == Append(p, Top(q))
<1>2. /\ r \in Seq(S) /\ Len(r) = Len(p) + 1
      /\ r[Len(p) + 1] = Top(q) /\ \A i \in 1 .. Len(p) : r[i] = p[i]
  BY <1>1, Pushed
<1> HIDE DEF p, r
<1>3. Len(r) = Len(q)
  BY <1>1, <1>2 DEF p
<1>4. ASSUME NEW i \in 1 .. Len(q)
      PROVE  q[i] = r[i]
  <2>1. CASE i = Len(q)
    BY <1>1, <1>2, <2>1 DEF p
  <2>2. CASE i # Len(q)
    <3>1. i \in 1 .. Len(q) - 1 /\ i \in 1 .. Len(p)
      BY <1>1, <2>2 DEF p
    <3>2. QED
      BY <1>1, <1>2, <3>1 DEF p
  <2>3. QED
    BY <2>1, <2>2
<1>5. q = r
  BY <1>2, <1>3, <1>4, SeqEqual
<1>6. QED
  BY <1>5 DEF r, p

LEMMA SchedulerCountIsNat ==
  ASSUME NEW zone \in Seq(ZoneEntry)
  PROVE  /\ IsFiniteSet({i \in 1 .. Len(zone) : zone[i] = RES_SCHEDULER})
         /\ SchedulerCount(zone) \in Nat
<1>1. IsFiniteSet(1 .. Len(zone))
  BY FS_Interval
<1>2. IsFiniteSet({i \in 1 .. Len(zone) : zone[i] = RES_SCHEDULER})
  BY <1>1, FS_Subset
<1>3. QED
  BY <1>2, FS_CardinalityType DEF SchedulerCount

\* The scheduler resource on top of a stack changes nothing for its locks.
LEMMA SchedulerPushed ==
  ASSUME NEW zone \in Seq(ZoneEntry)
  PROVE  LET q == Append(zone, RES_SCHEDULER)
         IN  /\ q \in Seq(ZoneEntry) /\ In(q) \cap Spinlocks = In(zone) \cap Spinlocks
             /\ Sorted(q) <=> Sorted(zone)
             /\ Innermost(q) = Innermost(zone)
             /\ SchedulerCount(q) = SchedulerCount(zone) + 1
<1> DEFINE q == Append(zone, RES_SCHEDULER)
           n == Len(zone)
<1>1. /\ q \in Seq(ZoneEntry) /\ n \in Nat /\ Len(q) = n + 1
      /\ q[n + 1] = RES_SCHEDULER /\ \A i \in 1 .. n : q[i] = zone[i]
      /\ In(q) = In(zone) \cup {RES_SCHEDULER}
  BY Pushed DEF ZoneEntry
<1> HIDE DEF q, n
<1>2. \A i : i \in 1 .. n + 1 <=> i \in 1 .. n \/ i = n + 1
  BY <1>1
<1>3. In(q) \cap Spinlocks = In(zone) \cap Spinlocks
  BY <1>1, SpinlockConstants
<1>4. Sorted(q) <=> Sorted(zone)
  <2>1. q[n + 1] \notin Spinlocks
    BY <1>1, SpinlockConstants
  <2>2. Sorted(q) <=> \A i, j \in 1 .. n : i < j /\ {q[i], q[j]} \subseteq Spinlocks
                        => SpinlockOrder[q[i]] < SpinlockOrder[q[j]]
    BY <1>1, <1>2, <2>1 DEF Sorted
  <2>3. QED
    BY <1>1, <2>2 DEF Sorted, n
<1>5. \A l : IsLevel(zone, l) => IsLevel(q, l)
  BY <1>1, <1>2 DEF IsLevel, n
<1>6. Innermost(q) = Innermost(zone)
  BY <1>1, <1>5, LevelOfAll
<1>7. SchedulerCount(q) = SchedulerCount(zone) + 1
  <2> DEFINE Z == {i \in 1 .. n : zone[i] = RES_SCHEDULER}
             Q == {i \in 1 .. n + 1 : q[i] = RES_SCHEDULER}
  <2>1. Q = Z \cup {n + 1} /\ n + 1 \notin Z
    BY <1>1, <1>2
  <2>2. IsFiniteSet(Z)
    BY SchedulerCountIsNat DEF n
  <2>3. Cardinality(Q) = Cardinality(Z) + 1
    BY <2>1, <2>2, FS_AddElement
  <2>4. QED
    BY <1>1, <2>3 DEF SchedulerCount, n
<1>8. QED
  BY <1>1, <1>3, <1>4, <1>6, <1>7 DEF q

LEMMA SchedulerPopped ==
  ASSUME NEW zone \in Seq(ZoneEntry), zone # <<>>, Top(zone) = RES_SCHEDULER
  PROVE  LET q == Popped(zone)
         IN  /\ q \in Seq(ZoneEntry) /\ In(q) \cap Spinlocks = In(zone) \cap Spinlocks
             /\ Sorted(q) <=> Sorted(zone)
             /\ Innermost(q) = Innermost(zone)
             /\ SchedulerCount(q) = SchedulerCount(zone) - 1
<1>1. Popped(zone) \in Seq(ZoneEntry) /\ zone = Append(Popped(zone), RES_SCHEDULER)
  BY PoppedOff, Rejoined
<1> DEFINE q == Popped(zone)
<1> HIDE DEF q
<1>2. q \in Seq(ZoneEntry) /\ zone = Append(q, RES_SCHEDULER)
  BY <1>1 DEF q
<1>3. SchedulerCount(zone) = SchedulerCount(q) + 1 /\ SchedulerCount(q) \in Nat
  BY <1>2, SchedulerPushed, SchedulerCountIsNat
<1>4. SchedulerCount(q) = SchedulerCount(zone) - 1
  BY <1>3
<1>5. /\ In(q) \cap Spinlocks = In(zone) \cap Spinlocks
      /\ Sorted(q) <=> Sorted(zone)
      /\ Innermost(q) = Innermost(zone)
  BY <1>2, SchedulerPushed
<1>6. QED
  BY <1>2, <1>4, <1>5 DEF q

\* A lock on top of a stack is its level; the order has to admit it.
LEMMA LockPushed ==
  ASSUME NEW zone \in Seq(ZoneEntry), NEW s \in Spinlocks
  PROVE  LET q == Append(zone, s)
         IN  /\ q \in Seq(ZoneEntry) /\ In(q) \cap Spinlocks = (In(zone) \cap Spinlocks) \cup {s}
             /\ Sorted(q) <=> /\ Sorted(zone)
                              /\ \A r \in In(zone) \cap Spinlocks : SpinlockOrder[r] < SpinlockOrder[s]
             /\ Innermost(q) = s
             /\ SchedulerCount(q) = SchedulerCount(zone)
<1> DEFINE q == Append(zone, s)
           n == Len(zone)
<1>1. /\ q \in Seq(ZoneEntry) /\ n \in Nat /\ Len(q) = n + 1
      /\ q[n + 1] = s /\ \A i \in 1 .. n : q[i] = zone[i]
      /\ In(q) = In(zone) \cup {s}
  BY Pushed DEF ZoneEntry
<1> HIDE DEF q, n
<1>2. \A i : i \in 1 .. n + 1 <=> i \in 1 .. n \/ i = n + 1
  BY <1>1
<1>3. In(q) \cap Spinlocks = (In(zone) \cap Spinlocks) \cup {s}
  BY <1>1
<1>4. Sorted(q) <=> /\ Sorted(zone)
                    /\ \A r \in In(zone) \cap Spinlocks : SpinlockOrder[r] < SpinlockOrder[s]
  <2>1. Sorted(q) <=> /\ \A i, j \in 1 .. n : i < j /\ {q[i], q[j]} \subseteq Spinlocks
                           => SpinlockOrder[q[i]] < SpinlockOrder[q[j]]
                      /\ \A i \in 1 .. n : q[i] \in Spinlocks => SpinlockOrder[q[i]] < SpinlockOrder[s]
    <3>1. \A i \in 1 .. n : i < n + 1 /\ ~ (n + 1 < i)
      BY <1>1
    <3>2. QED
      BY <1>1, <1>2, <3>1 DEF Sorted
  <2>2. \A r : r \in In(zone) <=> \E i \in 1 .. n : r = zone[i]
    BY DEF In, n
  <2>3. QED
    BY <1>1, <2>1, <2>2 DEF Sorted, n
<1>5. IsLevel(q, s)
  <2>1. n + 1 \in 1 .. Len(q) /\ s # RES_SCHEDULER /\ s # None /\ \A j \in 1 .. Len(q) : j <= n + 1
    BY <1>1, SpinlockConstants
  <2>2. QED
    BY <1>1, <2>1 DEF IsLevel
<1>6. Innermost(q) = s
  BY <1>1, <1>5, LevelOfAll
<1>7. SchedulerCount(q) = SchedulerCount(zone)
  <2>1. {i \in 1 .. n + 1 : q[i] = RES_SCHEDULER} = {i \in 1 .. n : zone[i] = RES_SCHEDULER}
    BY <1>1, <1>2, SpinlockConstants
  <2>2. QED
    BY <1>1, <2>1 DEF SchedulerCount, n
<1>8. QED
  BY <1>1, <1>3, <1>4, <1>6, <1>7 DEF q

LEMMA LockPopped ==
  ASSUME NEW zone \in Seq(ZoneEntry), zone # <<>>, Top(zone) \in Spinlocks, Sorted(zone)
  PROVE  LET q == Popped(zone)
             s == Top(zone)
         IN  /\ q \in Seq(ZoneEntry) /\ In(q) \cap Spinlocks = (In(zone) \cap Spinlocks) \ {s}
             /\ s \in In(zone)
             /\ Sorted(q)
             /\ \A r \in In(q) \cap Spinlocks : SpinlockOrder[r] < SpinlockOrder[s]
             /\ SchedulerCount(q) = SchedulerCount(zone)
<1> DEFINE q == Popped(zone)
           s == Top(zone)
<1>1. q \in Seq(ZoneEntry) /\ s \in Spinlocks /\ zone = Append(q, s)
  BY PoppedOff, Rejoined
<1>2. In(zone) = In(q) \cup {s}
  BY PoppedOff
<1> HIDE DEF q, s
<1>3. /\ Sorted(q) /\ \A r \in In(q) \cap Spinlocks : SpinlockOrder[r] < SpinlockOrder[s]
      /\ SchedulerCount(q) = SchedulerCount(zone)
  BY <1>1, LockPushed
<1>4. s \notin In(q)
  BY <1>1, <1>3, SpinlockConstants
<1>5. QED
  BY <1>1, <1>2, <1>3, <1>4 DEF q, s

-----------------------------------------------------------------------------
(* The scheduler resource *)

LEMMA CoresOfThreads ==
  ASSUME TypeOK
  PROVE  /\ \A t \in Threads : CoreOf[t] \in Cores /\ active[CoreOf[t]] \in Seq(Threads)
         /\ Tasks \subseteq Threads /\ Isrs \subseteq Threads /\ Threads = Tasks \cup Isrs
         /\ None \notin Threads /\ None \notin Spinlocks /\ RES_SCHEDULER \notin Spinlocks
         /\ \A t \in Threads : Zone[t] \in Seq(ZoneEntry) /\ Locks(t) \subseteq Spinlocks
         /\ \A t \in Threads : thread[t].lock \in Spinlocks \cup {None}
BY SpinlockConstants DEF TypeOK, Threads, Locks, ZoneEntry

\* SysRunningTCB: of the tasks that have started on a core the one of the highest priority.
LEMMA RunningIs ==
  ASSUME TypeOK, NEW c \in Cores, In(active[c]) \cap Tasks # {}
  PROVE  /\ RunningTask(c) \in In(active[c]) \cap Tasks
         /\ \A v \in In(active[c]) \cap Tasks : RunPrio[v] <= RunPrio[RunningTask(c)]
<1> DEFINE running == In(active[c]) \cap Tasks
           prios == {RunPrio[v] : v \in running}
<1>1. IsFiniteSet(running)
  <2>1. IsFiniteSet(1 .. Len(active[c]))
    BY FS_Interval DEF TypeOK
  <2>2. IsFiniteSet(In(active[c]))
    BY <2>1, ImageIsFinite DEF In
  <2>3. QED
    BY <2>2, FS_Intersection
<1> HIDE DEF running
<1>2. IsFiniteSet(prios)
  BY <1>1, ImageIsFinite
<1>3. prios \in SUBSET Nat /\ prios # {}
  BY DEF TypeOK, running
<1>4. PICK m \in prios : \A y \in prios : y <= m
  BY <1>2, <1>3, GreatestOf
<1>5. PICK u \in running : \A v \in running : RunPrio[v] <= RunPrio[u]
  BY <1>4
<1>6. RunningTask(c) = CHOOSE w \in running : \A v \in running : RunPrio[v] <= RunPrio[w]
  BY <1>5 DEF RunningTask, running
<1>7. QED
  BY <1>5, <1>6 DEF running

\* The stacks keep their locks, in order and with their levels.
KeepsLocks ==
  \A x \in Threads : /\ Locks(x)' = Locks(x)
                     /\ Sorted(Zone[x]) => Sorted(Zone'[x])
                     /\ Innermost(Zone'[x]) = Innermost(Zone[x])

SchedulerTypes ==
  /\ Zone \in [Threads -> Seq(ZoneEntry)]
  /\ scheduler \in [Cores -> [SaveCount : Nat, SavePrio : Nat]]
  /\ ResCount \in [Tasks -> Nat] /\ RunPrio \in [Tasks -> Nat]

SchedulerCounted == \A x \in Tasks : ResCount[x] = SchedulerCount(Zone[x])

LEMMA GetSchedulerStep ==
  ASSUME TypeOK, SchedulerCounted, NEW t \in Threads, GetScheduler(t)
  PROVE  SchedulerTypes' /\ SchedulerCounted' /\ KeepsLocks
<1>1. SchedulerTypes /\ CoreOf[t] \in Cores /\ SchedulerCeiling \in [Cores -> Nat] /\ Threads = Tasks \cup Isrs
  BY CoresOfThreads, SpinlockConstants DEF TypeOK, SchedulerTypes, ZoneEntry
<1>2. CASE t \in Isrs
  BY <1>1, <1>2 DEF GetScheduler, SchedulerTypes, SchedulerCounted, KeepsLocks, Locks
<1>3. CASE t \notin Isrs
  <2> DEFINE c == CoreOf[t]
             q == Append(Zone[t], RES_SCHEDULER)
  <2>1. /\ Zone' = [Zone EXCEPT ![t] = q]
        /\ ResCount' = [ResCount EXCEPT ![t] = ResCount[t] + 1]
        /\ scheduler' = [scheduler EXCEPT ![c] = [SaveCount |-> ResCount[t] + 1, SavePrio |-> RunPrio[t]]]
        /\ RunPrio' = [RunPrio EXCEPT ![t] = SchedulerCeiling[c]]
        /\ t \in Tasks
    BY <1>1, <1>3 DEF GetScheduler
  <2>2. /\ q \in Seq(ZoneEntry) /\ In(q) \cap Spinlocks = In(Zone[t]) \cap Spinlocks
        /\ Sorted(q) <=> Sorted(Zone[t])
        /\ Innermost(q) = Innermost(Zone[t])
        /\ SchedulerCount(q) = SchedulerCount(Zone[t]) + 1
    BY <1>1, SchedulerPushed DEF SchedulerTypes
  <2> HIDE DEF q
  <2>3. Zone'[t] = q /\ \A x \in Threads \ {t} : Zone'[x] = Zone[x]
    BY <1>1, <2>1 DEF SchedulerTypes
  <2>4. SchedulerTypes'
    BY <1>1, <2>1, <2>2 DEF SchedulerTypes
  <2>5. SchedulerCounted'
    BY <1>1, <2>1, <2>2, <2>3 DEF SchedulerTypes, SchedulerCounted
  <2>6. KeepsLocks
    BY <2>2, <2>3 DEF KeepsLocks, Locks
  <2>7. QED
    BY <2>4, <2>5, <2>6
<1>4. QED
  BY <1>2, <1>3

LEMMA ReleaseSchedulerStep ==
  ASSUME TypeOK, SchedulerCounted, NEW c \in Cores, ReleaseScheduler(c)
  PROVE  SchedulerTypes' /\ SchedulerCounted' /\ KeepsLocks
<1> DEFINE u == RunningTask(c)
           Returns == /\ u # None /\ scheduler[c].SaveCount = ResCount[u]
                      /\ Zone[u] # <<>> /\ Top(Zone[u]) = RES_SCHEDULER
<1>1. SchedulerTypes /\ SchedulerCeiling \in [Cores -> Nat] /\ Threads = Tasks \cup Isrs
  BY SpinlockConstants DEF TypeOK, SchedulerTypes, ZoneEntry, Threads
<1>2. CASE ~ Returns
  BY <1>1, <1>2 DEF ReleaseScheduler, SchedulerTypes, SchedulerCounted, KeepsLocks, Locks
<1>3. CASE Returns
  <2> DEFINE q == Popped(Zone[u])
  <2>1. u \in Tasks
    BY <1>3, RunningIs DEF RunningTask
  <2>2. /\ Zone' = [Zone EXCEPT ![u] = q]
        /\ ResCount' = [ResCount EXCEPT ![u] = ResCount[u] - 1]
        /\ RunPrio' = [RunPrio EXCEPT ![u] = IF SchedulerCeiling[c] > scheduler[c].SavePrio
                                             THEN scheduler[c].SavePrio ELSE RunPrio[u]]
        /\ scheduler' = [scheduler EXCEPT ![c] = [SaveCount |-> 0, SavePrio |-> 0]]
    BY <1>3 DEF ReleaseScheduler
  <2>3. /\ q \in Seq(ZoneEntry) /\ In(q) \cap Spinlocks = In(Zone[u]) \cap Spinlocks
        /\ Sorted(q) <=> Sorted(Zone[u])
        /\ Innermost(q) = Innermost(Zone[u])
        /\ SchedulerCount(q) = SchedulerCount(Zone[u]) - 1
    BY <1>1, <1>3, <2>1, SchedulerPopped DEF SchedulerTypes
  <2> HIDE DEF q, u
  <2>4. Zone'[u] = q /\ \A x \in Threads \ {u} : Zone'[x] = Zone[x]
    BY <1>1, <2>1, <2>2 DEF SchedulerTypes
  <2>5. ResCount[u] - 1 \in Nat /\ ResCount[u] - 1 = SchedulerCount(q)
    BY <1>1, <2>1, <2>3, SchedulerCountIsNat DEF SchedulerCounted
  <2>6. SchedulerTypes'
    BY <1>1, <2>1, <2>2, <2>3, <2>5 DEF SchedulerTypes
  <2>7. SchedulerCounted'
    BY <1>1, <2>1, <2>2, <2>4, <2>5 DEF SchedulerTypes, SchedulerCounted
  <2>8. KeepsLocks
    BY <1>1, <2>1, <2>3, <2>4 DEF KeepsLocks, Locks
  <2>9. QED
    BY <2>6, <2>7, <2>8
<1>4. QED
  BY <1>2, <1>3

-----------------------------------------------------------------------------
(* What the conjuncts of the invariant have in common *)

LEMMA OwnsByLocks ==
  /\ \A x \in Threads : \A s \in Spinlocks :
       /\ Owns(x, s) <=> s \in Locks(x) \/ (thread[x].lock = s /\ thread[x].pc \in {"own", "unlock"})
       /\ Guarded(x, s) <=> \/ s \in Locks(x)
                            \/ thread[x].lock = s /\ thread[x].pc \in {"spin", "once", "own", "unlock", "unguard"}
  /\ \A x \in Threads : \A s \in Spinlocks :
       /\ Owns(x, s)' <=> s \in Locks(x)' \/ (thread'[x].lock = s /\ thread'[x].pc \in {"own", "unlock"})
       /\ Guarded(x, s)' <=> \/ s \in Locks(x)'
                             \/ thread'[x].lock = s /\ thread'[x].pc \in {"spin", "once", "own", "unlock", "unguard"}
BY DEF Owns, Guarded, Locks

NestedAt(t) ==
  /\ Sorted(Zone[t])
  /\ thread[t].pc # "run" =>
       /\ thread[t].lock \in Uses[t]
       /\ \A s \in Locks(t) : SpinlockOrder[s] < SpinlockOrder[thread[t].lock]
  /\ Locks(t) \subseteq Uses[t]

LEMMA NestedIff ==
  /\ NestedInOrder <=> \A t \in Threads : NestedAt(t)
  /\ NestedInOrder' <=> \A t \in Threads : NestedAt(t)'
BY DEF NestedInOrder, NestedAt, Sorted, Locks

SuspendCounted == \A c \in Cores : SuspendCount[c] = Cardinality({s \in Occupied[c] : Suspends(s)})

LEMMA CountsIff ==
  /\ CountsAgree <=> SuspendCounted /\ SchedulerCounted
  /\ CountsAgree' <=> SuspendCounted' /\ SchedulerCounted'
BY DEF CountsAgree, SuspendCounted, SchedulerCounted, SchedulerCount

LEMMA LevelIff ==
  /\ LevelIsInnermost <=> \A t \in Threads : OccupyLevel[t] = Innermost(Zone[t])
  /\ LevelIsInnermost' <=> \A t \in Threads : OccupyLevel'[t] = Innermost(Zone'[t])
BY DEF LevelIsInnermost, Innermost

\* The thread that runs is on top of its core: nobody has preempted it.
LEMMA TopOfCore ==
  ASSUME TypeOK, OwnersAreActive, NEW t \in Threads, Runs(t)
  PROVE  /\ CoreOf[t] \in Cores /\ active[CoreOf[t]] \in Seq(Threads)
         /\ Len(active[CoreOf[t]]) \in Nat \ {0} /\ active[CoreOf[t]][Len(active[CoreOf[t]])] = t
         /\ t \in In(active[CoreOf[t]])
         /\ \A u \in Threads : ~ Below(t, u)
<1> DEFINE q == active[CoreOf[t]]
           n == Len(q)
<1>1. CoreOf[t] \in Cores /\ q \in Seq(Threads)
  BY CoresOfThreads
<1>2. n \in Nat \ {0} /\ q[n] = t
  BY <1>1 DEF Runs, Top
<1>3. t \in In(q)
  BY <1>2 DEF In
<1>4. ASSUME NEW u \in Threads, Below(t, u)
      PROVE  FALSE
  <2>1. PICK i, j \in 1 .. n : i < j /\ q[i] = t
    BY <1>4 DEF Below
  <2>2. n \in 1 .. n /\ i = n
    BY <1>1, <1>2, <2>1 DEF OwnersAreActive
  <2>3. QED
    BY <1>2, <2>1, <2>2
<1>5. QED
  BY <1>1, <1>2, <1>3, <1>4

\* The steps within a service leave the other threads alone.
OthersStay(t) ==
  /\ UNCHANGED active
  /\ \A x \in Threads \ {t} : thread'[x] = thread[x] /\ Locks(x)' = Locks(x)

LEMMA OwnersKept ==
  ASSUME TypeOK, OwnersAreActive, NEW t \in Threads, Runs(t), OthersStay(t)
  PROVE  OwnersAreActive'
<1>1. t \in In(active[CoreOf[t]])
  BY TopOfCore
<1>2. QED
  BY <1>1 DEF OwnersAreActive, OthersStay, Locks

LEMMA ChecksKept ==
  ASSUME CheckStaysTrue, UNCHANGED active,
         \A x \in Threads : thread'[x].pc \in {"get", "try"} => thread'[x] = thread[x],
         \A x \in Threads : \A s : Guarded(x, s)' => Guarded(x, s)
  PROVE  CheckStaysTrue'
<1>1. SUFFICES ASSUME NEW x \in Threads, NEW u \in Threads,
                      thread'[x].pc \in {"get", "try"}, CoreOf[u] = CoreOf[x], (Guarded(u, thread[x].lock))'
               PROVE  Below(x, u)'
  BY DEF CheckStaysTrue
<1>2. Guarded(u, thread[x].lock)
  <2>1. PICK s : s = thread'[x].lock
    OBVIOUS
  <2>2. Guarded(u, s)'
    BY <1>1, <2>1 DEF Guarded, Owns
  <2>3. Guarded(u, s) /\ s = thread[x].lock
    BY <1>1, <2>1, <2>2
  <2>4. QED
    BY <2>3
<1>3. Below(x, u)
  BY <1>1, <1>2 DEF CheckStaysTrue
<1>4. QED
  BY <1>3 DEF Below

\* The guards a step sets or removes.
GuardsStay == \A x \in Threads : \A r \in Spinlocks : Guarded(x, r)' <=> Guarded(x, r)

GuardIsSet(t, s) ==
  /\ ~ Guarded(t, s)
  /\ \A x \in Threads : \A r \in Spinlocks : Guarded(x, r)' <=> Guarded(x, r) \/ (x = t /\ r = s)

GuardIsRemoved(t, s) ==
  /\ Guarded(t, s)
  /\ \A x \in Threads : \A r \in Spinlocks : Guarded(x, r)' <=> Guarded(x, r) /\ ~ (x = t /\ r = s)

LEMMA ExclusiveKept ==
  ASSUME Exclusive, UNCHANGED <<Spinlock, Occupied>>,
         \A x \in Threads : \A s \in Spinlocks : (Owns(x, s)' <=> Owns(x, s)) /\ (Guarded(x, s)' <=> Guarded(x, s))
  PROVE  Exclusive'
BY DEF Exclusive

-----------------------------------------------------------------------------
(* Starting and finishing *)

LEMMA ActiveOnly ==
  ASSUME SpinlockInvariant, UNCHANGED <<locks, guards, thread>>
  PROVE  /\ Exclusive' /\ OccupierIsKnown' /\ LevelIsInnermost' /\ NestedInOrder' /\ CountsAgree'
         /\ \A x \in Threads : \A s : Guarded(x, s)' <=> Guarded(x, s)
         /\ active' \in [Cores -> Seq(Threads)] => TypeOK'
<1>1. UNCHANGED <<Spinlock, Os_SLCB, Occupied, Zone, OccupyLevel, SuspendCount, scheduler, ResCount, RunPrio, thread>>
  BY DEF locks, guards
<1>2. Exclusive /\ OccupierIsKnown /\ LevelIsInnermost /\ NestedInOrder /\ CountsAgree /\ TypeOK
  BY DEF SpinlockInvariant
<1>3. \A x \in Threads : \A s : (Owns(x, s)' <=> Owns(x, s)) /\ (Guarded(x, s)' <=> Guarded(x, s))
  BY <1>1 DEF Owns, Guarded
<1>4. Exclusive'
  BY <1>1, <1>2, <1>3 DEF Exclusive
<1>5. OccupierIsKnown' /\ LevelIsInnermost'
  BY <1>1, <1>2 DEF OccupierIsKnown, LevelIsInnermost
<1>6. NestedInOrder'
  BY <1>1, <1>2 DEF NestedInOrder
<1>7. CountsAgree'
  BY <1>1, <1>2 DEF CountsAgree
<1>8. active' \in [Cores -> Seq(Threads)] => TypeOK'
  BY <1>1, <1>2 DEF TypeOK
<1>9. QED
  BY <1>3, <1>4, <1>5, <1>6, <1>7, <1>8

LEMMA StartHolds ==
  ASSUME SpinlockInvariant, NEW t \in Threads, Start(t)
  PROVE  SpinlockInvariant' /\ GuardsStay
<1> DEFINE c == CoreOf[t]
           q == active[c]
           r == Append(q, t)
           n == Len(q)
<1>1. /\ TypeOK /\ OwnersAreActive /\ CheckStaysTrue /\ t \notin In(q)
      /\ active' = [active EXCEPT ![c] = r] /\ UNCHANGED <<locks, guards, thread>>
  BY DEF SpinlockInvariant, Start
<1>2. c \in Cores /\ q \in Seq(Threads)
  BY <1>1, CoresOfThreads
<1>3. /\ r \in Seq(Threads) /\ n \in Nat /\ Len(r) = n + 1
      /\ r[n + 1] = t /\ \A i \in 1 .. n : r[i] = q[i]
      /\ In(r) = In(q) \cup {t}
  BY <1>2, Pushed
<1> HIDE DEF r
<1>4. active' \in [Cores -> Seq(Threads)] /\ active'[c] = r /\ \A d \in Cores \ {c} : active'[d] = active[d]
  BY <1>1, <1>2, <1>3 DEF TypeOK
<1>5. /\ Exclusive' /\ OccupierIsKnown' /\ LevelIsInnermost' /\ NestedInOrder' /\ CountsAgree' /\ TypeOK'
      /\ \A x \in Threads : \A s : Guarded(x, s)' <=> Guarded(x, s)
  BY <1>1, <1>4, ActiveOnly
<1>6. \A i : i \in 1 .. n + 1 <=> i \in 1 .. n \/ i = n + 1
  BY <1>3
<1>7. CheckStaysTrue'
  <2>1. ASSUME NEW x \in Threads, NEW y \in Threads, Below(x, y)
        PROVE  Below(x, y)'
    <3>1. CoreOf[x] \in Cores
      BY <1>1, CoresOfThreads
    <3>2. CASE CoreOf[x] = c
      BY <1>3, <1>4, <1>6, <2>1, <3>2 DEF Below
    <3>3. CASE CoreOf[x] # c
      BY <1>4, <2>1, <3>1, <3>3 DEF Below
    <3>4. QED
      BY <3>2, <3>3
  <2>2. thread' = thread
    BY <1>1
  <2>3. QED
    BY <1>1, <1>5, <2>1, <2>2 DEF CheckStaysTrue
<1>8. OwnersAreActive'
  <2>1. ASSUME NEW d \in Cores, NEW i \in 1 .. Len(active'[d]), NEW j \in 1 .. Len(active'[d])
        PROVE  CoreOf[active'[d][i]] = d /\ (active'[d][i] = active'[d][j] => i = j)
    <3>1. CASE d = c
      <4>1. \A k \in 1 .. n : CoreOf[q[k]] = c /\ q[k] # t
        BY <1>1, <1>2 DEF OwnersAreActive, In
      <4>2. QED
        BY <1>1, <1>2, <1>3, <1>4, <1>6, <3>1, <4>1 DEF OwnersAreActive
    <3>2. CASE d # c
      BY <1>1, <1>4, <3>2 DEF OwnersAreActive
    <3>3. QED
      BY <3>1, <3>2
  <2>2. ASSUME NEW x \in Threads, x \notin In(active'[CoreOf[x]])
        PROVE  x \notin In(active[CoreOf[x]])
    <3>1. CoreOf[x] \in Cores
      BY <1>1, CoresOfThreads
    <3>2. QED
      BY <1>3, <1>4, <2>2, <3>1
  <2>3. thread' = thread /\ Zone' = Zone
    BY <1>1 DEF locks
  <2>4. QED
    BY <1>1, <2>1, <2>2, <2>3 DEF OwnersAreActive
<1>9. QED
  BY <1>1, <1>5, <1>7, <1>8 DEF SpinlockInvariant, GuardsStay

LEMMA FinishHolds ==
  ASSUME SpinlockInvariant, NEW t \in Threads, Finish(t)
  PROVE  SpinlockInvariant' /\ GuardsStay
<1> DEFINE c == CoreOf[t]
           q == active[c]
           r == Popped(q)
           n == Len(q)
<1>1. /\ TypeOK /\ OwnersAreActive /\ CheckStaysTrue /\ OccupierIsKnown /\ Runs(t) /\ thread[t].pc = "run"
      /\ \A s \in Spinlocks : Os_SLCB[s].ObjOccupyId # t
      /\ active' = [active EXCEPT ![c] = r] /\ UNCHANGED <<locks, guards, thread>>
  BY DEF SpinlockInvariant, Finish, At
<1>2. c \in Cores /\ q \in Seq(Threads) /\ n \in Nat \ {0} /\ q[n] = t
  BY <1>1, TopOfCore
<1>3. /\ r \in Seq(Threads) /\ Len(r) = n - 1 /\ \A i \in 1 .. n - 1 : r[i] = q[i]
      /\ In(q) = In(r) \cup {t}
  <2>1. q # <<>>
    BY <1>1 DEF Runs
  <2>2. Top(q) = t
    BY <1>1 DEF Runs
  <2>3. QED
    BY <1>2, <2>1, <2>2, PoppedOff
<1> HIDE DEF r
<1>4. active' \in [Cores -> Seq(Threads)] /\ active'[c] = r /\ \A d \in Cores \ {c} : active'[d] = active[d]
  BY <1>1, <1>2, <1>3 DEF TypeOK
<1>5. /\ Exclusive' /\ OccupierIsKnown' /\ LevelIsInnermost' /\ NestedInOrder' /\ CountsAgree' /\ TypeOK'
      /\ \A x \in Threads : \A s : Guarded(x, s)' <=> Guarded(x, s)
  BY <1>1, <1>4, ActiveOnly
<1>6. \A i : i \in 1 .. n <=> i \in 1 .. n - 1 \/ i = n
  BY <1>2
<1>7. In(Zone[t]) \cap Spinlocks = {}
  BY <1>1 DEF OccupierIsKnown
<1>8. CheckStaysTrue'
  <2>1. ASSUME NEW x \in Threads, NEW y \in Threads, Below(x, y), y # t, x # t
        PROVE  Below(x, y)'
    <3>1. CoreOf[x] \in Cores
      BY <1>1, CoresOfThreads
    <3>2. CASE CoreOf[x] = c
      <4>1. PICK i, j \in 1 .. n : i < j /\ q[i] = x /\ q[j] = y
        BY <2>1, <3>2 DEF Below
      <4>2. i \in 1 .. n - 1 /\ j \in 1 .. n - 1
        BY <1>2, <1>6, <2>1, <4>1
      <4>3. QED
        BY <1>3, <1>4, <3>2, <4>1, <4>2 DEF Below
    <3>3. CASE CoreOf[x] # c
      BY <1>4, <2>1, <3>1, <3>3 DEF Below
    <3>4. QED
      BY <3>2, <3>3
  <2>2. \A s \in Spinlocks : ~ Guarded(t, s)
    BY <1>1, <1>7 DEF Guarded, Owns
  <2>3. SUFFICES ASSUME NEW x \in Threads, NEW y \in Threads, thread[x].pc \in {"get", "try"},
                        CoreOf[y] = CoreOf[x], Guarded(y, thread[x].lock)
                 PROVE  Below(x, y)'
    BY <1>1, <1>5 DEF CheckStaysTrue
  <2>4. thread[x].lock \in Spinlocks /\ x # t
    <3>1. thread[x].lock \in Uses[x]
      BY <2>3 DEF SpinlockInvariant, NestedInOrder
    <3>2. QED
      BY <1>1, <2>3, <3>1, SpinlockConstants
  <2>5. y # t /\ Below(x, y)
    BY <1>1, <2>2, <2>3, <2>4 DEF CheckStaysTrue
  <2>6. QED
    BY <2>1, <2>4, <2>5
<1>9. OwnersAreActive'
  <2>1. ASSUME NEW d \in Cores, NEW i \in 1 .. Len(active'[d]), NEW j \in 1 .. Len(active'[d])
        PROVE  CoreOf[active'[d][i]] = d /\ (active'[d][i] = active'[d][j] => i = j)
    <3>1. CASE d = c
      <4>1. i \in 1 .. n - 1 /\ j \in 1 .. n - 1 /\ i \in 1 .. n /\ j \in 1 .. n
        BY <1>3, <1>4, <1>6, <3>1
      <4>2. active'[d][i] = q[i] /\ active'[d][j] = q[j]
        BY <1>3, <1>4, <3>1, <4>1
      <4>3. QED
        BY <1>1, <1>2, <3>1, <4>1, <4>2 DEF OwnersAreActive
    <3>2. CASE d # c
      BY <1>1, <1>4, <3>2 DEF OwnersAreActive
    <3>3. QED
      BY <3>1, <3>2
  <2>2. ASSUME NEW x \in Threads, x \notin In(active'[CoreOf[x]])
        PROVE  x = t \/ x \notin In(active[CoreOf[x]])
    <3>1. CoreOf[x] \in Cores
      BY <1>1, CoresOfThreads
    <3>2. QED
      BY <1>3, <1>4, <2>2, <3>1
  <2>3. thread' = thread /\ Zone' = Zone
    BY <1>1 DEF locks
  <2>4. QED
    BY <1>1, <1>7, <2>1, <2>2, <2>3 DEF OwnersAreActive
<1>10. QED
  BY <1>1, <1>5, <1>8, <1>9 DEF SpinlockInvariant, GuardsStay

-----------------------------------------------------------------------------
(* The steps of the services *)

PCs == {"run", "get", "try", "spin", "once", "own", "unlock", "unguard"}

LEMMA Moved ==
  ASSUME TypeOK, NEW t \in Threads, NEW p \in PCs, Goto(t, p)
  PROVE  /\ thread'[t].pc = p /\ thread'[t].lock = thread[t].lock
         /\ \A x \in Threads \ {t} : thread'[x] = thread[x]
         /\ thread' \in [Threads -> [pc : PCs, lock : Spinlocks \cup {None}]]
BY DEF TypeOK, Goto, PCs

\* In a service the thread has a lock, which its stack does not hold.
LEMMA ServiceLock ==
  ASSUME SpinlockInvariant, NEW t \in Threads, thread[t].pc # "run"
  PROVE  /\ thread[t].lock \in Spinlocks /\ thread[t].lock \in Uses[t]
         /\ thread[t].lock \notin Locks(t)
         /\ \A s \in Locks(t) : SpinlockOrder[s] < SpinlockOrder[thread[t].lock]
<1>1. NestedAt(t)
  BY NestedIff DEF SpinlockInvariant
<1>2. /\ thread[t].lock \in Spinlocks /\ thread[t].lock \in Uses[t]
      /\ \A s \in Locks(t) : SpinlockOrder[s] < SpinlockOrder[thread[t].lock]
  BY <1>1, SpinlockConstants DEF NestedAt
<1>3. ~ (SpinlockOrder[thread[t].lock] < SpinlockOrder[thread[t].lock])
  BY <1>2, SpinlockConstants
<1>4. QED
  BY <1>2, <1>3

LEMMA OccupierKept ==
  ASSUME OccupierIsKnown, UNCHANGED Os_SLCB, \A x \in Threads : Locks(x)' = Locks(x)
  PROVE  OccupierIsKnown'
<1>1. \A x \in Threads : \A s \in Spinlocks : s \in In(Zone'[x]) <=> s \in In(Zone[x])
  BY DEF Locks
<1>2. QED
  BY <1>1 DEF OccupierIsKnown

LEMMA GetSpinlockHolds ==
  ASSUME SpinlockInvariant, NEW t \in Threads, NEW s \in Uses[t], GetSpinlock(t, s)
  PROVE  SpinlockInvariant' /\ GuardsStay
<1>1. /\ TypeOK /\ OwnersAreActive /\ CheckStaysTrue /\ OccupierIsKnown /\ NestedInOrder /\ LevelIsInnermost
      /\ Exclusive /\ CountsAgree
      /\ Runs(t) /\ thread[t].pc = "run" /\ s \in Spinlocks
      /\ s \notin Occupied[CoreOf[t]]
      /\ OccupyLevel[t] # None => SpinlockOrder[s] > SpinlockOrder[OccupyLevel[t]]
      /\ UNCHANGED <<locks, guards, active>>
  BY SpinlockConstants DEF SpinlockInvariant, GetSpinlock, At, GetSpinlockCheck
<1>2. PICK service \in {"get", "try"} : thread' = [thread EXCEPT ![t] = [pc |-> service, lock |-> s]]
  BY DEF GetSpinlock
<1>3. /\ thread'[t].pc = service /\ thread'[t].lock = s
      /\ \A x \in Threads \ {t} : thread'[x] = thread[x]
  BY <1>1, <1>2 DEF TypeOK
<1>4. UNCHANGED <<Spinlock, Os_SLCB, Occupied, Zone, OccupyLevel, SuspendCount, scheduler, ResCount, RunPrio, active>>
  BY <1>1 DEF locks, guards
<1>5. TypeOK'
  BY <1>1, <1>2, <1>4 DEF TypeOK
<1>6. OthersStay(t) /\ \A x \in Threads : Locks(x)' = Locks(x)
  BY <1>3, <1>4 DEF OthersStay, Locks
<1>7. OwnersAreActive'
  BY <1>1, <1>6, OwnersKept
<1>8. \A x \in Threads : \A r \in Spinlocks : (Owns(x, r)' <=> Owns(x, r)) /\ (Guarded(x, r)' <=> Guarded(x, r))
  BY <1>1, <1>3, <1>6, OwnsByLocks
<1>9. Exclusive'
  BY <1>1, <1>4, <1>8, ExclusiveKept
<1>10. OccupierIsKnown'
  BY <1>1, <1>4, <1>6, OccupierKept
<1>11. LevelIsInnermost'
  BY <1>1, <1>4 DEF LevelIsInnermost
<1>12. CountsAgree'
  BY <1>1, <1>4 DEF CountsAgree
<1>13. \A r \in Locks(t) : SpinlockOrder[r] < SpinlockOrder[s]
  <2> DEFINE zone == Zone[t]
             l == OccupyLevel[t]
  <2>1. zone \in Seq(ZoneEntry) /\ l = Innermost(zone) /\ Sorted(zone)
    BY <1>1, CoresOfThreads, LevelIff, NestedIff DEF NestedAt
  <2>2. IsLevel(zone, l)
    BY <2>1, LevelOfAll
  <2>3. SUFFICES ASSUME NEW j \in 1 .. Len(zone), zone[j] \in Spinlocks
                 PROVE  SpinlockOrder[zone[j]] < SpinlockOrder[s]
    BY DEF Locks, In
  <2>4. l # None /\ zone[j] # RES_SCHEDULER
    BY <2>2, <2>3, SpinlockConstants DEF IsLevel
  <2>5. PICK i \in 1 .. Len(zone) : zone[i] = l /\ l # RES_SCHEDULER /\ j <= i
    BY <2>2, <2>3, <2>4 DEF IsLevel
  <2>6. l \in Spinlocks
    BY <2>1, <2>5 DEF ZoneEntry
  <2>7. SpinlockOrder[zone[j]] <= SpinlockOrder[l] /\ SpinlockOrder[l] < SpinlockOrder[s]
    <3>1. SpinlockOrder[l] < SpinlockOrder[s] /\ SpinlockOrder[l] \in Nat
      BY <1>1, <2>4, <2>6, SpinlockConstants
    <3>2. CASE i = j
      BY <2>5, <3>1, <3>2
    <3>3. CASE i # j
      <4>1. j < i
        BY <2>5, <3>3
      <4>2. SpinlockOrder[zone[j]] < SpinlockOrder[zone[i]]
        BY <2>1, <2>3, <2>5, <2>6, <4>1 DEF Sorted
      <4>3. QED
        BY <2>3, <2>5, <3>1, <4>2, SpinlockConstants
    <3>4. QED
      BY <3>2, <3>3
  <2>8. QED
    BY <1>1, <2>3, <2>6, <2>7, SpinlockConstants
<1>14. NestedInOrder'
  <2>1. NestedAt(t)'
    BY <1>1, <1>3, <1>4, <1>6, <1>13, NestedIff DEF NestedAt
  <2>2. \A x \in Threads \ {t} : NestedAt(x)'
    BY <1>1, <1>3, <1>4, <1>6, NestedIff DEF NestedAt
  <2>3. QED
    BY <2>1, <2>2, NestedIff
<1>15. CheckStaysTrue'
  <2>1. \A u \in Threads : CoreOf[u] = CoreOf[t] => ~ Guarded(u, s)
    BY <1>1, CoresOfThreads DEF Exclusive
  <2>2. SUFFICES ASSUME NEW x \in Threads, NEW u \in Threads, thread'[x].pc \in {"get", "try"},
                        CoreOf[u] = CoreOf[x], NEW r, r = thread'[x].lock, Guarded(u, r)'
                 PROVE  Below(x, u)'
    BY DEF CheckStaysTrue, Guarded, Owns
  <2>3. CASE x = t
    BY <1>1, <1>3, <1>8, <2>1, <2>2, <2>3
  <2>4. CASE x # t
    <3>1. thread'[x] = thread[x] /\ r \in Spinlocks
      BY <1>1, <1>3, <2>2, <2>4, ServiceLock
    <3>2. Guarded(u, r) /\ Below(x, u)
      BY <1>1, <1>8, <2>2, <3>1 DEF CheckStaysTrue
    <3>3. QED
      BY <1>4, <3>2 DEF Below
  <2>5. QED
    BY <2>3, <2>4
<1>16. QED
  BY <1>8, <1>5, <1>7, <1>9, <1>10, <1>11, <1>12, <1>14, <1>15 DEF SpinlockInvariant, GuardsStay

\* One more lock of a set of locks is occupied, one more or none suspends interrupts.
LEMMA SuspendAdded ==
  ASSUME NEW O \in SUBSET Spinlocks, NEW s \in Spinlocks \ O
  PROVE  LET m == Cardinality({r \in O : Suspends(r)})
         IN  /\ m \in Nat
             /\ Cardinality({r \in O \cup {s} : Suspends(r)}) = IF Suspends(s) THEN m + 1 ELSE m
<1> DEFINE D == {r \in O : Suspends(r)}
           E == {r \in O \cup {s} : Suspends(r)}
<1>1. IsFiniteSet(D)
  BY SpinlockConstants, FS_Subset
<1>2. Cardinality(D) \in Nat
  BY <1>1, FS_CardinalityType
<1>3. CASE Suspends(s)
  <2>1. E = D \cup {s} /\ s \notin D
    BY <1>3
  <2> HIDE DEF D, E
  <2>2. Cardinality(E) = Cardinality(D) + 1
    BY <1>1, <2>1, FS_AddElement
  <2>3. QED
    BY <1>2, <1>3, <2>2 DEF D, E
<1>4. CASE ~ Suspends(s)
  <2>1. E = D
    BY <1>4
  <2>2. QED
    BY <1>2, <1>4, <2>1
<1>5. QED
  BY <1>3, <1>4

LEMMA SuspendRemoved ==
  ASSUME NEW O \in SUBSET Spinlocks, NEW s \in O
  PROVE  LET m == Cardinality({r \in O : Suspends(r)})
         IN  /\ Cardinality({r \in O \ {s} : Suspends(r)}) = IF Suspends(s) THEN m - 1 ELSE m
             /\ Suspends(s) => m - 1 \in Nat
<1> DEFINE P == O \ {s}
           d == Cardinality({r \in P : Suspends(r)})
<1>1. P \in SUBSET Spinlocks /\ s \in Spinlocks \ P /\ O = P \cup {s}
  OBVIOUS
<1> HIDE DEF P
<1>2. d \in Nat /\ Cardinality({r \in O : Suspends(r)}) = IF Suspends(s) THEN d + 1 ELSE d
  BY <1>1, SuspendAdded
<1> HIDE DEF d
<1>3. QED
  BY <1>2 DEF d, P

LEMMA GuardGetHolds ==
  ASSUME SpinlockInvariant, NEW t \in Threads, GuardGet(t)
  PROVE  SpinlockInvariant' /\ \E s \in Uses[t] \cap Spinlocks : s = thread[t].lock /\ GuardIsSet(t, s)
<1> DEFINE c == CoreOf[t]
<1>1. /\ TypeOK /\ OwnersAreActive /\ CheckStaysTrue /\ OccupierIsKnown /\ NestedInOrder /\ LevelIsInnermost
      /\ Exclusive /\ SuspendCounted /\ SchedulerCounted
      /\ Runs(t) /\ thread[t].pc \in {"get", "try"} /\ c \in Cores
      /\ UNCHANGED <<Spinlock, Os_SLCB, OccupyLevel, active>>
  BY CountsIff, CoresOfThreads DEF SpinlockInvariant, GuardGet, At
<1>2. PICK s \in Spinlocks : s = thread[t].lock /\ s \notin Locks(t)
  BY <1>1, ServiceLock
<1>3. PICK p \in {"spin", "once"} : Goto(t, p)
  BY DEF GuardGet
<1>4. /\ SuspendCount' = [SuspendCount EXCEPT ![c] = IF Suspends(s) THEN SuspendCount[c] + 1 ELSE SuspendCount[c]]
      /\ GetScheduler(t) \/ UNCHANGED <<scheduler, ResCount, RunPrio, Zone>>
      /\ Occupied' = [Occupied EXCEPT ![c] = Occupied[c] \cup {s}]
  BY <1>2 DEF GuardGet, MethodLock
<1>5. SchedulerTypes' /\ SchedulerCounted' /\ KeepsLocks
  <2>1. CASE GetScheduler(t)
    BY <1>1, <2>1, GetSchedulerStep
  <2>2. CASE UNCHANGED <<scheduler, ResCount, RunPrio, Zone>>
    BY <1>1, <2>2 DEF SchedulerTypes, SchedulerCounted, KeepsLocks, Locks, TypeOK, ZoneEntry
  <2>3. QED
    BY <1>4, <2>1, <2>2
<1>6. /\ thread'[t].pc = p /\ thread'[t].lock = s
      /\ \A x \in Threads \ {t} : thread'[x] = thread[x]
      /\ thread' \in [Threads -> [pc : PCs, lock : Spinlocks \cup {None}]]
  BY <1>1, <1>2, <1>3, Moved DEF PCs
<1>7. \A u \in Threads : CoreOf[u] = c => ~ Guarded(u, s)
  BY <1>1, <1>2, TopOfCore DEF CheckStaysTrue
<1>8. /\ SuspendCount' \in [Cores -> Nat] /\ SuspendCounted'
      /\ Occupied' \in [Cores -> SUBSET Spinlocks]
  <2>1. Occupied[c] \in SUBSET Spinlocks /\ s \in Spinlocks \ Occupied[c]
    BY <1>1, <1>7 DEF Exclusive, TypeOK
  <2> DEFINE m == Cardinality({r \in Occupied[c] : Suspends(r)})
  <2>2. /\ m \in Nat /\ m = SuspendCount[c]
        /\ Cardinality({r \in Occupied[c] \cup {s} : Suspends(r)}) = IF Suspends(s) THEN m + 1 ELSE m
    BY <1>1, <2>1, SuspendAdded DEF SuspendCounted
  <2> HIDE DEF m
  <2>3. Occupied'[c] = Occupied[c] \cup {s} /\ \A d \in Cores \ {c} : Occupied'[d] = Occupied[d]
    BY <1>1, <1>4 DEF TypeOK
  <2>4. SuspendCount' \in [Cores -> Nat] /\ Occupied' \in [Cores -> SUBSET Spinlocks]
    BY <1>1, <1>4, <2>1, <2>2 DEF TypeOK
  <2>5. SuspendCounted'
    BY <1>1, <1>4, <2>2, <2>3 DEF TypeOK, SuspendCounted
  <2>6. QED
    BY <2>4, <2>5
<1>9. TypeOK'
  BY <1>1, <1>5, <1>6, <1>8 DEF TypeOK, SchedulerTypes, ZoneEntry, PCs
<1>10. OthersStay(t) /\ \A x \in Threads : Locks(x)' = Locks(x)
  BY <1>1, <1>5, <1>6 DEF OthersStay, KeepsLocks
<1>11. OwnersAreActive'
  BY <1>1, <1>10, OwnersKept
<1>12. \A x \in Threads : \A r \in Spinlocks :
         (Owns(x, r)' <=> Owns(x, r)) /\ (Guarded(x, r)' <=> Guarded(x, r) \/ (x = t /\ r = s))
  BY <1>1, <1>2, <1>6, <1>10, OwnsByLocks
<1>13. Exclusive'
  <2>1. \A r \in Spinlocks : Spinlock'[r] <=> \E x \in Threads : Owns(x, r)'
    BY <1>1, <1>12 DEF Exclusive
  <2>2. \A x, u \in Threads : \A r \in Spinlocks : Owns(x, r)' /\ Owns(u, r)' => x = u
    BY <1>1, <1>12 DEF Exclusive
  <2>3. \A x, u \in Threads : \A r \in Spinlocks :
          CoreOf[x] = CoreOf[u] /\ Guarded(x, r)' /\ Guarded(u, r)' => x = u
    BY <1>1, <1>7, <1>12 DEF Exclusive
  <2>4. ASSUME NEW d \in Cores
        PROVE  Occupied'[d] = {r \in Spinlocks : \E x \in Threads : CoreOf[x] = d /\ Guarded(x, r)'}
    <3>1. Occupied[d] = {r \in Spinlocks : \E x \in Threads : CoreOf[x] = d /\ Guarded(x, r)}
      BY <1>1 DEF Exclusive
    <3>2. CASE d = c
      BY <1>1, <1>4, <1>12, <3>1, <3>2 DEF TypeOK
    <3>3. CASE d # c
      BY <1>1, <1>4, <1>12, <3>1, <3>3 DEF TypeOK
    <3>4. QED
      BY <3>2, <3>3
  <2>5. QED
    BY <2>1, <2>2, <2>3, <2>4 DEF Exclusive
<1>14. OccupierIsKnown'
  BY <1>1, <1>10, OccupierKept
<1>15. LevelIsInnermost'
  BY <1>1, <1>5, LevelIff DEF KeepsLocks
<1>16. CountsAgree'
  BY <1>5, <1>8, CountsIff
<1>17. NestedInOrder'
  BY <1>1, <1>2, <1>5, <1>6, <1>10, NestedIff DEF NestedAt, KeepsLocks
<1>18. CheckStaysTrue'
  <2>1. SUFFICES ASSUME NEW x \in Threads, NEW u \in Threads, thread'[x].pc \in {"get", "try"},
                        CoreOf[u] = CoreOf[x], NEW r, r = thread'[x].lock, Guarded(u, r)'
                 PROVE  Below(x, u)
    BY <1>1 DEF CheckStaysTrue, Guarded, Owns, Below
  <2>2. x # t /\ thread'[x] = thread[x] /\ r \in Spinlocks
    BY <1>3, <1>6, <2>1, ServiceLock
  <2>3. CASE u = t /\ r = s
    <3>1. x \in In(active[c]) /\ t \in In(active[c])
      BY <1>1, <2>1, <2>2, <2>3, TopOfCore DEF OwnersAreActive
    <3>2. Below(x, t)
      <4> DEFINE q == active[c]
                 n == Len(q)
      <4>1. n \in Nat \ {0} /\ q[n] = t
        BY <1>1, TopOfCore
      <4>2. PICK i \in 1 .. n : q[i] = x
        BY <3>1 DEF In
      <4>3. i < n /\ n \in 1 .. n
        BY <2>2, <4>1, <4>2
      <4>4. QED
        BY <2>1, <2>3, <4>1, <4>2, <4>3 DEF Below
    <3>3. QED
      BY <2>3, <3>2
  <2>4. CASE ~ (u = t /\ r = s)
    BY <1>1, <1>12, <2>1, <2>2, <2>4 DEF CheckStaysTrue
  <2>5. QED
    BY <2>3, <2>4
<1>19. QED
  BY <1>1, <1>2, <1>7, <1>12, ServiceLock, <1>9, <1>11, <1>13, <1>14, <1>15, <1>16, <1>17, <1>18 DEF SpinlockInvariant, GuardIsSet

LEMMA UnguardHolds ==
  ASSUME SpinlockInvariant, NEW t \in Threads, Unguard(t)
  PROVE  SpinlockInvariant' /\ \E s \in Uses[t] \cap Spinlocks : s = thread[t].lock /\ GuardIsRemoved(t, s)
<1> DEFINE c == CoreOf[t]
<1>1. /\ TypeOK /\ OwnersAreActive /\ CheckStaysTrue /\ OccupierIsKnown /\ NestedInOrder /\ LevelIsInnermost
      /\ Exclusive /\ SuspendCounted /\ SchedulerCounted
      /\ Runs(t) /\ thread[t].pc = "unguard" /\ c \in Cores /\ Goto(t, "run")
      /\ UNCHANGED <<Spinlock, Os_SLCB, OccupyLevel, active>>
  BY CountsIff, CoresOfThreads DEF SpinlockInvariant, Unguard, At
<1>2. PICK s \in Spinlocks : s = thread[t].lock /\ s \notin Locks(t)
  BY <1>1, ServiceLock
<1>3. /\ SuspendCount' = [SuspendCount EXCEPT ![c] = IF Suspends(s) THEN SuspendCount[c] - 1 ELSE SuspendCount[c]]
      /\ ReleaseScheduler(c) \/ UNCHANGED <<scheduler, ResCount, RunPrio, Zone>>
      /\ Occupied' = [Occupied EXCEPT ![c] = Occupied[c] \ {s}]
  BY <1>2 DEF Unguard, MethodRelease
<1>4. SchedulerTypes' /\ SchedulerCounted' /\ KeepsLocks
  <2>1. CASE ReleaseScheduler(c)
    BY <1>1, <2>1, ReleaseSchedulerStep
  <2>2. CASE UNCHANGED <<scheduler, ResCount, RunPrio, Zone>>
    BY <1>1, <2>2 DEF SchedulerTypes, SchedulerCounted, KeepsLocks, Locks, TypeOK, ZoneEntry
  <2>3. QED
    BY <1>3, <2>1, <2>2
<1>5. /\ thread'[t].pc = "run" /\ thread'[t].lock = s
      /\ \A x \in Threads \ {t} : thread'[x] = thread[x]
      /\ thread' \in [Threads -> [pc : PCs, lock : Spinlocks \cup {None}]]
  BY <1>1, <1>2, Moved DEF PCs
<1>6. /\ Guarded(t, s)
      /\ \A u \in Threads : CoreOf[u] = c /\ Guarded(u, s) => u = t
  BY <1>1, <1>2, OwnsByLocks DEF Exclusive
<1>7. /\ SuspendCount' \in [Cores -> Nat] /\ SuspendCounted'
      /\ Occupied' \in [Cores -> SUBSET Spinlocks]
  <2>1. Occupied[c] \in SUBSET Spinlocks /\ s \in Occupied[c]
    BY <1>1, <1>6 DEF Exclusive, TypeOK
  <2> DEFINE m == Cardinality({r \in Occupied[c] : Suspends(r)})
  <2>2. /\ m = SuspendCount[c] /\ (Suspends(s) => m - 1 \in Nat)
        /\ Cardinality({r \in Occupied[c] \ {s} : Suspends(r)}) = IF Suspends(s) THEN m - 1 ELSE m
    BY <1>1, <2>1, SuspendRemoved DEF SuspendCounted
  <2> HIDE DEF m
  <2>3. Occupied'[c] = Occupied[c] \ {s} /\ \A d \in Cores \ {c} : Occupied'[d] = Occupied[d]
    BY <1>1, <1>3 DEF TypeOK
  <2>4. SuspendCount' \in [Cores -> Nat] /\ Occupied' \in [Cores -> SUBSET Spinlocks]
    BY <1>1, <1>3, <2>1, <2>2 DEF TypeOK
  <2>5. SuspendCounted'
    BY <1>1, <1>3, <2>2, <2>3 DEF TypeOK, SuspendCounted
  <2>6. QED
    BY <2>4, <2>5
<1>8. TypeOK'
  BY <1>1, <1>4, <1>5, <1>7 DEF TypeOK, SchedulerTypes, ZoneEntry, PCs
<1>9. OthersStay(t) /\ \A x \in Threads : Locks(x)' = Locks(x)
  BY <1>1, <1>4, <1>5 DEF OthersStay, KeepsLocks
<1>10. OwnersAreActive'
  BY <1>1, <1>9, OwnersKept
<1>11. \A x \in Threads : \A r \in Spinlocks :
         (Owns(x, r)' <=> Owns(x, r)) /\ (Guarded(x, r)' <=> Guarded(x, r) /\ ~ (x = t /\ r = s))
  BY <1>1, <1>2, <1>5, <1>9, OwnsByLocks
<1>12. Exclusive'
  <2>1. \A r \in Spinlocks : Spinlock'[r] <=> \E x \in Threads : Owns(x, r)'
    BY <1>1, <1>11 DEF Exclusive
  <2>2. \A x, u \in Threads : \A r \in Spinlocks : Owns(x, r)' /\ Owns(u, r)' => x = u
    BY <1>1, <1>11 DEF Exclusive
  <2>3. \A x, u \in Threads : \A r \in Spinlocks :
          CoreOf[x] = CoreOf[u] /\ Guarded(x, r)' /\ Guarded(u, r)' => x = u
    BY <1>1, <1>11 DEF Exclusive
  <2>4. ASSUME NEW d \in Cores
        PROVE  Occupied'[d] = {r \in Spinlocks : \E x \in Threads : CoreOf[x] = d /\ Guarded(x, r)'}
    <3>1. Occupied[d] = {r \in Spinlocks : \E x \in Threads : CoreOf[x] = d /\ Guarded(x, r)}
      BY <1>1 DEF Exclusive
    <3>2. CASE d = c
      <4>1. Occupied'[d] = Occupied[d] \ {s}
        BY <1>1, <1>3, <3>2 DEF TypeOK
      <4>2. \A r \in Spinlocks : (\E x \in Threads : CoreOf[x] = d /\ Guarded(x, r)')
                                   <=> r # s /\ \E x \in Threads : CoreOf[x] = d /\ Guarded(x, r)
        BY <1>6, <1>11, <3>2
      <4>3. QED
        BY <3>1, <4>1, <4>2
    <3>3. CASE d # c
      BY <1>1, <1>3, <1>11, <3>1, <3>3 DEF TypeOK
    <3>4. QED
      BY <3>2, <3>3
  <2>5. QED
    BY <2>1, <2>2, <2>3, <2>4 DEF Exclusive
<1>13. OccupierIsKnown'
  BY <1>1, <1>9, OccupierKept
<1>14. LevelIsInnermost'
  BY <1>1, <1>4, LevelIff DEF KeepsLocks
<1>15. CountsAgree'
  BY <1>4, <1>7, CountsIff
<1>16. NestedInOrder'
  BY <1>1, <1>4, <1>5, <1>9, NestedIff DEF NestedAt, KeepsLocks
<1>17. CheckStaysTrue'
  <2>1. SUFFICES ASSUME NEW x \in Threads, NEW u \in Threads, thread'[x].pc \in {"get", "try"},
                        CoreOf[u] = CoreOf[x], NEW r, r = thread'[x].lock, Guarded(u, r)'
                 PROVE  Below(x, u)
    BY <1>1 DEF CheckStaysTrue, Guarded, Owns, Below
  <2>2. x # t /\ thread'[x] = thread[x] /\ r \in Spinlocks
    BY <1>5, <2>1, ServiceLock
  <2>3. QED
    BY <1>1, <1>11, <2>1, <2>2 DEF CheckStaysTrue
<1>18. QED
  BY <1>1, <1>2, <1>6, <1>11, ServiceLock, <1>8, <1>10, <1>12, <1>13, <1>14, <1>15, <1>16, <1>17 DEF SpinlockInvariant, GuardIsRemoved

\* The steps that leave stacks and guards alone: the swap of the lock word, the try that fails, the
\* unlock.  Owns is what changes.
LEMMA WordStep ==
  ASSUME SpinlockInvariant, NEW t \in Threads, NEW p \in PCs \ {"get", "try"}, Runs(t), thread[t].pc # "run",
         Goto(t, p), UNCHANGED <<Os_SLCB, Occupied, Zone, OccupyLevel, guards, active>>,
         Spinlock' \in [Spinlocks -> BOOLEAN],
         thread[t].pc \in {"spin", "once", "own", "unlock", "unguard"},
         p \in {"spin", "once", "own", "unlock", "unguard"},
         \A s \in Spinlocks : Spinlock'[s] <=> \E x \in Threads : Owns(x, s)',
         \A x, u \in Threads : \A s \in Spinlocks : Owns(x, s)' /\ Owns(u, s)' => x = u
  PROVE  SpinlockInvariant' /\ GuardsStay
<1>1. /\ TypeOK /\ OwnersAreActive /\ CheckStaysTrue /\ OccupierIsKnown /\ NestedInOrder /\ LevelIsInnermost
      /\ Exclusive /\ CountsAgree
      /\ UNCHANGED <<SuspendCount, scheduler, ResCount, RunPrio>>
  BY DEF SpinlockInvariant, guards
<1>2. /\ thread'[t].pc = p /\ thread'[t].lock = thread[t].lock
      /\ \A x \in Threads \ {t} : thread'[x] = thread[x]
      /\ thread' \in [Threads -> [pc : PCs, lock : Spinlocks \cup {None}]]
  BY <1>1, Moved
<1>3. TypeOK'
  BY <1>1, <1>2 DEF TypeOK, PCs
<1>4. OthersStay(t) /\ \A x \in Threads : Locks(x)' = Locks(x)
  BY <1>2 DEF OthersStay, Locks
<1>5. OwnersAreActive'
  BY <1>1, <1>4, OwnersKept
<1>6. \A x \in Threads : \A r : Guarded(x, r)' <=> Guarded(x, r)
  BY <1>2 DEF Guarded, Owns
<1>7. Exclusive'
  <2>1. \A x, u \in Threads : \A s \in Spinlocks :
          CoreOf[x] = CoreOf[u] /\ Guarded(x, s)' /\ Guarded(u, s)' => x = u
    BY <1>1, <1>6 DEF Exclusive
  <2>2. \A c \in Cores : Occupied'[c] = {s \in Spinlocks : \E x \in Threads : CoreOf[x] = c /\ Guarded(x, s)'}
    BY <1>1, <1>6 DEF Exclusive
  <2>3. QED
    BY <2>1, <2>2 DEF Exclusive
<1>8. OccupierIsKnown' /\ LevelIsInnermost' /\ CountsAgree'
  <2>1. OccupierIsKnown'
    BY <1>1, <1>4, OccupierKept
  <2>2. LevelIsInnermost'
    BY <1>1 DEF LevelIsInnermost
  <2>3. CountsAgree'
    <3>1. SuspendCount' = SuspendCount /\ Occupied' = Occupied /\ ResCount' = ResCount /\ Zone' = Zone
      BY <1>1
    <3>2. SuspendCounted' /\ SchedulerCounted'
      BY <1>1, <3>1, CountsIff DEF SuspendCounted, SchedulerCounted
    <3>3. QED
      BY <3>2, CountsIff
  <2>4. QED
    BY <2>1, <2>2, <2>3
<1>9. NestedInOrder'
  BY <1>1, <1>2, <1>4, NestedIff DEF NestedAt
<1>10. CheckStaysTrue'
  <2>1. \A x \in Threads : thread'[x].pc \in {"get", "try"} => thread'[x] = thread[x]
    BY <1>2
  <2>2. QED
    BY <1>1, <1>6, <2>1, ChecksKept
<1>11. QED
  BY <1>6, <1>3, <1>5, <1>7, <1>8, <1>9, <1>10 DEF SpinlockInvariant, GuardsStay

LEMMA CmpSwapHolds ==
  ASSUME SpinlockInvariant, NEW t \in Threads, CmpSwap(t)
  PROVE  SpinlockInvariant' /\ GuardsStay
<1>1. /\ TypeOK /\ Exclusive /\ Runs(t) /\ thread[t].pc \in {"spin", "once"} /\ Goto(t, "own")
      /\ UNCHANGED <<Os_SLCB, Occupied, Zone, OccupyLevel, guards, active>>
  BY DEF SpinlockInvariant, CmpSwap, At
<1>2. PICK s \in Spinlocks : s = thread[t].lock
  BY <1>1, ServiceLock
<1>3. ~ Spinlock[s] /\ Spinlock' = [Spinlock EXCEPT ![s] = TRUE]
  BY <1>2 DEF CmpSwap
<1>4. /\ thread'[t].pc = "own" /\ thread'[t].lock = s /\ \A x \in Threads \ {t} : thread'[x] = thread[x]
      /\ \A x \in Threads : Locks(x)' = Locks(x)
  BY <1>1, <1>2, Moved DEF PCs, Locks
<1>5. \A x \in Threads : \A r \in Spinlocks : Owns(x, r)' <=> Owns(x, r) \/ (x = t /\ r = s)
  BY <1>1, <1>2, <1>4, OwnsByLocks
<1>6. Spinlock' \in [Spinlocks -> BOOLEAN]
  BY <1>1, <1>3 DEF TypeOK
<1>7. \A r \in Spinlocks : Spinlock'[r] <=> \E x \in Threads : Owns(x, r)'
  BY <1>1, <1>3, <1>5 DEF Exclusive, TypeOK
<1>8. \A x, u \in Threads : \A r \in Spinlocks : Owns(x, r)' /\ Owns(u, r)' => x = u
  BY <1>1, <1>3, <1>5 DEF Exclusive
<1>9. QED
  BY <1>1, <1>6, <1>7, <1>8, WordStep DEF PCs

LEMMA TryFailsHolds ==
  ASSUME SpinlockInvariant, NEW t \in Threads, TryFails(t)
  PROVE  SpinlockInvariant' /\ GuardsStay
<1>1. /\ TypeOK /\ Exclusive /\ Runs(t) /\ thread[t].pc = "once" /\ Goto(t, "unguard")
      /\ UNCHANGED <<Spinlock, Os_SLCB, Occupied, Zone, OccupyLevel, guards, active>>
  BY DEF SpinlockInvariant, TryFails, At, locks
<1>2. /\ thread'[t].pc = "unguard" /\ thread'[t].lock = thread[t].lock
      /\ \A x \in Threads \ {t} : thread'[x] = thread[x]
      /\ \A x \in Threads : Locks(x)' = Locks(x)
  BY <1>1, Moved DEF PCs, Locks
<1>3. \A x \in Threads : \A r \in Spinlocks : Owns(x, r)' <=> Owns(x, r)
  BY <1>1, <1>2, OwnsByLocks
<1>4. Spinlock' \in [Spinlocks -> BOOLEAN]
  BY <1>1 DEF TypeOK
<1>5. \A r \in Spinlocks : Spinlock'[r] <=> \E x \in Threads : Owns(x, r)'
  BY <1>1, <1>3 DEF Exclusive
<1>6. \A x, u \in Threads : \A r \in Spinlocks : Owns(x, r)' /\ Owns(u, r)' => x = u
  BY <1>1, <1>3 DEF Exclusive
<1>7. QED
  BY <1>1, <1>4, <1>5, <1>6, WordStep DEF PCs

LEMMA UnlockHolds ==
  ASSUME SpinlockInvariant, NEW t \in Threads, Unlock(t)
  PROVE  SpinlockInvariant' /\ GuardsStay
<1>1. /\ TypeOK /\ Exclusive /\ Runs(t) /\ thread[t].pc = "unlock" /\ Goto(t, "unguard")
      /\ UNCHANGED <<Os_SLCB, Occupied, Zone, OccupyLevel, guards, active>>
  BY DEF SpinlockInvariant, Unlock, At
<1>2. PICK s \in Spinlocks : s = thread[t].lock /\ s \notin Locks(t)
  BY <1>1, ServiceLock
<1>3. Spinlock' = [Spinlock EXCEPT ![s] = FALSE]
  BY <1>2 DEF Unlock
<1>4. /\ thread'[t].pc = "unguard" /\ thread'[t].lock = s /\ \A x \in Threads \ {t} : thread'[x] = thread[x]
      /\ \A x \in Threads : Locks(x)' = Locks(x)
  BY <1>1, <1>2, Moved DEF PCs, Locks
<1>5. Owns(t, s) /\ \A x \in Threads : \A r \in Spinlocks : Owns(x, r)' <=> Owns(x, r) /\ ~ (x = t /\ r = s)
  BY <1>1, <1>2, <1>4, OwnsByLocks
<1>6. Spinlock' \in [Spinlocks -> BOOLEAN]
  BY <1>1, <1>3 DEF TypeOK
<1>7. \A r \in Spinlocks : Spinlock'[r] <=> \E x \in Threads : Owns(x, r)'
  BY <1>1, <1>3, <1>5 DEF Exclusive, TypeOK
<1>8. \A x, u \in Threads : \A r \in Spinlocks : Owns(x, r)' /\ Owns(u, r)' => x = u
  BY <1>1, <1>5 DEF Exclusive
<1>9. QED
  BY <1>1, <1>6, <1>7, <1>8, WordStep DEF PCs

LEMMA GetCBModifyHolds ==
  ASSUME SpinlockInvariant, NEW t \in Threads, GetCBModify(t)
  PROVE  SpinlockInvariant' /\ GuardsStay
<1>1. /\ TypeOK /\ OwnersAreActive /\ CheckStaysTrue /\ OccupierIsKnown /\ NestedInOrder /\ LevelIsInnermost
      /\ Exclusive /\ SuspendCounted /\ SchedulerCounted
      /\ Runs(t) /\ thread[t].pc = "own" /\ Goto(t, "run")
      /\ Spinlock' = Spinlock /\ Occupied' = Occupied /\ active' = active
      /\ UNCHANGED <<SuspendCount, scheduler, ResCount, RunPrio>>
  BY CountsIff DEF SpinlockInvariant, GetCBModify, At, guards
<1>2. PICK s \in Spinlocks : /\ s = thread[t].lock /\ s \notin Locks(t) /\ s \in Uses[t]
                             /\ \A r \in Locks(t) : SpinlockOrder[r] < SpinlockOrder[s]
  BY <1>1, ServiceLock
<1> DEFINE q == Append(Zone[t], s)
<1>3. /\ Os_SLCB' = [Os_SLCB EXCEPT ![s] = [Occupied |-> TRUE, ObjOccupyId |-> t]]
      /\ Zone' = [Zone EXCEPT ![t] = q]
      /\ OccupyLevel' = [OccupyLevel EXCEPT ![t] = s]
  BY <1>2 DEF GetCBModify
<1>4. /\ thread'[t].pc = "run" /\ thread'[t].lock = s
      /\ \A x \in Threads \ {t} : thread'[x] = thread[x]
      /\ thread' \in [Threads -> [pc : PCs, lock : Spinlocks \cup {None}]]
  BY <1>1, <1>2, Moved DEF PCs
<1>5. /\ q \in Seq(ZoneEntry) /\ In(q) \cap Spinlocks = Locks(t) \cup {s}
      /\ Sorted(q) /\ Innermost(q) = s /\ SchedulerCount(q) = SchedulerCount(Zone[t])
  BY <1>1, <1>2, CoresOfThreads, LockPushed, NestedIff DEF Locks, NestedAt
<1> HIDE DEF q
<1>6. /\ Zone'[t] = q /\ \A x \in Threads \ {t} : Zone'[x] = Zone[x]
      /\ Zone' \in [Threads -> Seq(ZoneEntry)]
  BY <1>1, <1>3, <1>5 DEF TypeOK, ZoneEntry
<1>7. Locks(t)' = Locks(t) \cup {s} /\ \A x \in Threads \ {t} : Locks(x)' = Locks(x)
  BY <1>5, <1>6 DEF Locks
<1>8. TypeOK'
  BY <1>1, <1>3, <1>4, <1>6 DEF TypeOK, ZoneEntry, PCs
<1>9. OthersStay(t)
  BY <1>1, <1>4, <1>7 DEF OthersStay
<1>10. OwnersAreActive'
  BY <1>1, <1>9, OwnersKept
<1>11. \A x \in Threads : \A r \in Spinlocks : (Owns(x, r)' <=> Owns(x, r)) /\ (Guarded(x, r)' <=> Guarded(x, r))
  BY <1>1, <1>2, <1>4, <1>7, OwnsByLocks
<1>12. Exclusive'
  BY <1>1, <1>11, ExclusiveKept
<1>13. OccupierIsKnown'
  <2>1. \A x \in Threads : s \in Locks(x) => x = t
    BY <1>1, <1>2, OwnsByLocks DEF Exclusive
  <2>2. \A x \in Threads : s \in Locks(x)' <=> x = t
    BY <1>2, <1>7, <2>1
  <2>3. \A x \in Threads : \A r \in Spinlocks \ {s} : r \in Locks(x)' <=> r \in Locks(x)
    BY <1>7
  <2>4. /\ Os_SLCB'[s].Occupied /\ Os_SLCB'[s].ObjOccupyId = t /\ t # None
        /\ \A r \in Spinlocks \ {s} : Os_SLCB'[r] = Os_SLCB[r]
    BY <1>1, <1>3, CoresOfThreads DEF TypeOK
  <2>5. \A x \in Threads : \A r \in Spinlocks : /\ r \in In(Zone'[x]) <=> r \in Locks(x)'
                                                /\ r \in In(Zone[x]) <=> r \in Locks(x)
    BY DEF Locks
  <2>6. QED
    BY <1>1, <2>2, <2>3, <2>4, <2>5 DEF OccupierIsKnown
<1>14. LevelIsInnermost'
  BY <1>1, <1>3, <1>5, <1>6, LevelIff DEF TypeOK
<1>15. CountsAgree'
  <2>1. SuspendCounted'
    BY <1>1 DEF SuspendCounted
  <2>2. SchedulerCounted'
    BY <1>1, <1>5, <1>6, CoresOfThreads DEF SchedulerCounted
  <2>3. QED
    BY <2>1, <2>2, CountsIff
<1>16. NestedInOrder'
  BY <1>1, <1>2, <1>4, <1>5, <1>6, <1>7, NestedIff DEF NestedAt
<1>17. CheckStaysTrue'
  <2>1. SUFFICES ASSUME NEW x \in Threads, NEW u \in Threads, thread'[x].pc \in {"get", "try"},
                        CoreOf[u] = CoreOf[x], NEW r, r = thread'[x].lock, Guarded(u, r)'
                 PROVE  Below(x, u)
    BY <1>1 DEF CheckStaysTrue, Guarded, Owns, Below
  <2>2. x # t /\ thread'[x] = thread[x] /\ r \in Spinlocks
    BY <1>4, <2>1, ServiceLock
  <2>3. QED
    BY <1>1, <1>11, <2>1, <2>2 DEF CheckStaysTrue
<1>18. QED
  BY <1>11, <1>8, <1>10, <1>12, <1>13, <1>14, <1>15, <1>16, <1>17 DEF SpinlockInvariant, GuardsStay

LEMMA ReleaseSpinlockHolds ==
  ASSUME SpinlockInvariant, NEW t \in Threads, NEW s \in Uses[t], ReleaseSpinlock(t, s)
  PROVE  SpinlockInvariant' /\ GuardsStay
<1> DEFINE zone == Zone[t]
           q == Popped(zone)
<1>1. /\ TypeOK /\ OwnersAreActive /\ CheckStaysTrue /\ OccupierIsKnown /\ NestedInOrder /\ LevelIsInnermost
      /\ Exclusive /\ SuspendCounted /\ SchedulerCounted
      /\ Runs(t) /\ thread[t].pc = "run" /\ s \in Spinlocks
      /\ OccupyLevel[t] # None /\ Top(zone) = s
      /\ Spinlock' = Spinlock /\ Occupied' = Occupied /\ active' = active
      /\ UNCHANGED <<SuspendCount, scheduler, ResCount, RunPrio>>
  BY CountsIff, SpinlockConstants DEF SpinlockInvariant, ReleaseSpinlock, ReleaseSpinlockCheck, At, guards
<1>2. /\ Os_SLCB' = [Os_SLCB EXCEPT ![s] = [Occupied |-> FALSE, ObjOccupyId |-> None]]
      /\ Zone' = [Zone EXCEPT ![t] = q]
      /\ OccupyLevel' = [OccupyLevel EXCEPT ![t] = LevelOf(Zone'[t], Os_SLCB')]
      /\ thread' = [thread EXCEPT ![t] = [pc |-> "unlock", lock |-> s]]
  BY DEF ReleaseSpinlock
<1>3. zone \in Seq(ZoneEntry) /\ Sorted(zone)
  BY <1>1, CoresOfThreads, NestedIff DEF NestedAt
<1>4. zone # <<>>
  <2>1. IsLevel(zone, OccupyLevel[t])
    BY <1>1, <1>3, LevelOfAll, LevelIff
  <2>2. QED
    BY <1>1, <2>1 DEF IsLevel
<1>5. /\ q \in Seq(ZoneEntry) /\ In(q) \cap Spinlocks = Locks(t) \ {s} /\ s \in Locks(t)
      /\ Sorted(q) /\ \A r \in In(q) \cap Spinlocks : SpinlockOrder[r] < SpinlockOrder[s]
      /\ SchedulerCount(q) = SchedulerCount(zone)
  BY <1>1, <1>3, <1>4, LockPopped DEF Locks
<1> HIDE DEF q, zone
<1>6. /\ Zone'[t] = q /\ \A x \in Threads \ {t} : Zone'[x] = Zone[x]
      /\ Zone' \in [Threads -> Seq(ZoneEntry)]
  BY <1>1, <1>2, <1>5 DEF TypeOK, ZoneEntry
<1>7. /\ thread'[t].pc = "unlock" /\ thread'[t].lock = s
      /\ \A x \in Threads \ {t} : thread'[x] = thread[x]
      /\ thread' \in [Threads -> [pc : PCs, lock : Spinlocks \cup {None}]]
  BY <1>1, <1>2 DEF TypeOK, PCs
<1>8. Locks(t)' = Locks(t) \ {s} /\ \A x \in Threads \ {t} : Locks(x)' = Locks(x)
  BY <1>5, <1>6 DEF Locks
<1>9. /\ ~ Os_SLCB'[s].Occupied /\ Os_SLCB'[s].ObjOccupyId = None
      /\ \A r \in Spinlocks \ {s} : Os_SLCB'[r] = Os_SLCB[r]
      /\ Os_SLCB' \in [Spinlocks -> [Occupied : BOOLEAN, ObjOccupyId : Threads \cup {None}]]
  BY <1>1, <1>2 DEF TypeOK
<1>10. LevelOf(Zone'[t], Os_SLCB') = Innermost(q)
  <2>1. ASSUME NEW i \in 1 .. Len(q), q[i] # RES_SCHEDULER
        PROVE  Os_SLCB'[q[i]].Occupied
    <3>1. q[i] \in In(q) /\ q[i] \in Spinlocks
      BY <1>5, <2>1 DEF In, ZoneEntry
    <3>2. q[i] \in Locks(t) /\ q[i] # s
      BY <1>5, <3>1
    <3>3. Os_SLCB[q[i]].Occupied
      <4>1. Os_SLCB[q[i]].ObjOccupyId = t /\ t # None
        BY <1>1, <3>1, <3>2, CoresOfThreads DEF OccupierIsKnown, Locks
      <4>2. QED
        BY <1>1, <3>1, <4>1 DEF OccupierIsKnown
    <3>4. QED
      BY <1>9, <3>1, <3>2, <3>3
  <2> DEFINE slcb == Os_SLCB'
  <2> HIDE DEF slcb
  <2>2. \A l : LevelOf(q, slcb) = l <=> IsLevel(q, l)
    BY <1>5, <2>1, LevelIs DEF slcb
  <2>3. \A l : Innermost(q) = l <=> IsLevel(q, l)
    BY <1>5, LevelOfAll
  <2>4. LevelOf(q, slcb) = Innermost(q)
    BY <2>2, <2>3
  <2>5. QED
    BY <1>6, <2>4 DEF slcb
<1>11. OccupyLevel' = [OccupyLevel EXCEPT ![t] = Innermost(q)]
  BY <1>2, <1>10
<1>12. Innermost(q) \in Spinlocks \cup {None}
  <2>1. IsLevel(q, Innermost(q))
    BY <1>5, LevelOfAll
  <2>2. QED
    BY <1>5, <2>1 DEF IsLevel, ZoneEntry
<1>13. TypeOK'
  BY <1>1, <1>6, <1>7, <1>9, <1>11, <1>12 DEF TypeOK, ZoneEntry, PCs
<1>14. OthersStay(t)
  BY <1>1, <1>7, <1>8 DEF OthersStay
<1>15. OwnersAreActive'
  BY <1>1, <1>14, OwnersKept
<1>16. \A x \in Threads : \A r \in Spinlocks : (Owns(x, r)' <=> Owns(x, r)) /\ (Guarded(x, r)' <=> Guarded(x, r))
  BY <1>1, <1>5, <1>7, <1>8, OwnsByLocks
<1>17. Exclusive'
  BY <1>1, <1>16, ExclusiveKept
<1>18. OccupierIsKnown'
  <2>1. \A x \in Threads : s \in Locks(x) => x = t
    BY <1>1, <1>5, OwnsByLocks DEF Exclusive
  <2>2. \A x \in Threads : s \notin Locks(x)' /\ x # None
    BY <1>1, <1>8, <2>1, CoresOfThreads
  <2>3. \A x \in Threads : \A r \in Spinlocks \ {s} : r \in Locks(x)' <=> r \in Locks(x)
    BY <1>8
  <2>4. \A x \in Threads : \A r \in Spinlocks : /\ r \in In(Zone'[x]) <=> r \in Locks(x)'
                                                /\ r \in In(Zone[x]) <=> r \in Locks(x)
    BY DEF Locks
  <2>5. QED
    BY <1>1, <1>9, <2>2, <2>3, <2>4 DEF OccupierIsKnown
<1>19. LevelIsInnermost'
  BY <1>1, <1>6, <1>11, LevelIff DEF TypeOK
<1>20. CountsAgree'
  <2>1. SuspendCounted'
    BY <1>1 DEF SuspendCounted
  <2>2. SchedulerCounted'
    BY <1>1, <1>5, <1>6, CoresOfThreads DEF SchedulerCounted, zone
  <2>3. QED
    BY <2>1, <2>2, CountsIff
<1>21. NestedInOrder'
  <2>1. NestedAt(t)'
    BY <1>1, <1>5, <1>6, <1>7, <1>8, NestedIff DEF NestedAt
  <2>2. \A x \in Threads \ {t} : NestedAt(x)'
    BY <1>1, <1>6, <1>7, <1>8, NestedIff DEF NestedAt
  <2>3. QED
    BY <2>1, <2>2, NestedIff
<1>22. CheckStaysTrue'
  <2>1. SUFFICES ASSUME NEW x \in Threads, NEW u \in Threads, thread'[x].pc \in {"get", "try"},
                        CoreOf[u] = CoreOf[x], NEW r, r = thread'[x].lock, Guarded(u, r)'
                 PROVE  Below(x, u)
    BY <1>1 DEF CheckStaysTrue, Guarded, Owns, Below
  <2>2. x # t /\ thread'[x] = thread[x] /\ r \in Spinlocks
    BY <1>7, <2>1, ServiceLock
  <2>3. QED
    BY <1>1, <1>16, <2>1, <2>2 DEF CheckStaysTrue
<1>23. QED
  BY <1>16, <1>13, <1>15, <1>17, <1>18, <1>19, <1>20, <1>21, <1>22 DEF SpinlockInvariant, GuardsStay

-----------------------------------------------------------------------------
(* SpinlockInvariant *)

LEMMA InitHolds == Init => SpinlockInvariant
<1> SUFFICES ASSUME Init
             PROVE  SpinlockInvariant
  OBVIOUS
<1>1. /\ \A t \in Threads : /\ thread[t].pc = "run" /\ Zone[t] = <<>> /\ Len(Zone[t]) = 0 /\ In(Zone[t]) = {}
                            /\ thread[t].lock = None /\ OccupyLevel[t] = None
      /\ \A c \in Cores : active[c] = <<>> /\ Len(active[c]) = 0
      /\ Tasks \subseteq Threads /\ <<>> \in Seq(ZoneEntry) /\ None \notin Spinlocks /\ None \notin Threads
  BY SpinlockConstants DEF Init, Threads, In
<1>2. TypeOK
  BY SpinlockConstants DEF Init, TypeOK, Threads
<1>3. \A t \in Threads : \A s \in Spinlocks : ~ Owns(t, s) /\ ~ Guarded(t, s)
  BY <1>1 DEF Owns, Guarded
<1>4. Exclusive
  BY <1>3 DEF Init, Exclusive
<1>5. OccupierIsKnown
  BY <1>1 DEF Init, OccupierIsKnown
<1>6. LevelIsInnermost
  <2>1. \A t \in Threads : IsLevel(Zone[t], None)
    BY <1>1 DEF IsLevel
  <2>2. \A t \in Threads : Innermost(Zone[t]) = None
    BY <1>1, <2>1, LevelOfAll
  <2>3. QED
    BY <1>1, <2>2, LevelIff
<1>7. NestedInOrder
  BY <1>1 DEF NestedInOrder
<1>8. CheckStaysTrue
  BY <1>1 DEF CheckStaysTrue
<1>9. OwnersAreActive
  BY <1>1 DEF OwnersAreActive
<1>10. CountsAgree
  <2>1. \A c \in Cores : {s \in Occupied[c] : Suspends(s)} = {} /\ SuspendCount[c] = 0
    BY DEF Init
  <2>2. \A t \in Tasks : {i \in 1 .. Len(Zone[t]) : Zone[t][i] = RES_SCHEDULER} = {} /\ ResCount[t] = 0
    BY <1>1 DEF Init
  <2>3. QED
    BY <2>1, <2>2, FS_EmptySet DEF CountsAgree
<1>11. QED
  BY <1>2, <1>4, <1>5, <1>6, <1>7, <1>8, <1>9, <1>10 DEF SpinlockInvariant

LEMMA StepHolds ==
  ASSUME SpinlockInvariant, [Next]_vars
  PROVE  SpinlockInvariant'
<1>1. CASE Next
  <2>1. PICK t \in Threads :
          \/ Start(t) \/ Finish(t)
          \/ \E s \in Uses[t] : GetSpinlock(t, s) \/ ReleaseSpinlock(t, s)
          \/ GuardGet(t) \/ CmpSwap(t) \/ TryFails(t) \/ GetCBModify(t)
          \/ Unlock(t) \/ Unguard(t)
    BY <1>1 DEF Next
  <2>2. QED
    BY <2>1, StartHolds, FinishHolds, GetSpinlockHolds, ReleaseSpinlockHolds, GuardGetHolds, CmpSwapHolds,
       TryFailsHolds, GetCBModifyHolds, UnlockHolds, UnguardHolds
<1>2. CASE UNCHANGED vars
  <2>1. UNCHANGED <<locks, guards, thread>> /\ active' = active
    BY <1>2 DEF vars
  <2>2. /\ Exclusive' /\ OccupierIsKnown' /\ LevelIsInnermost' /\ NestedInOrder' /\ CountsAgree'
        /\ \A x \in Threads : \A s : Guarded(x, s)' <=> Guarded(x, s)
    BY <2>1, ActiveOnly
  <2>3. TypeOK'
    BY <2>1, ActiveOnly DEF SpinlockInvariant, TypeOK
  <2>4. CheckStaysTrue'
    <3>1. thread' = thread
      BY <2>1
    <3>2. QED
      BY <2>1, <3>1, ChecksKept, <2>2 DEF SpinlockInvariant
  <2>5. OwnersAreActive'
    BY <2>1 DEF SpinlockInvariant, OwnersAreActive, locks
  <2>6. QED
    BY <2>2, <2>3, <2>4, <2>5 DEF SpinlockInvariant
<1>3. QED
  BY <1>1, <1>2

\* At every moment between two steps of any core: a spinlock has one owner, and the lock word, the
\* control block, the flags of the cores, the stacks, levels and counters agree on who it is.
THEOREM InvariantHolds == Spec => []SpinlockInvariant
BY InitHolds, StepHolds, PTL DEF Spec

-----------------------------------------------------------------------------
(* The guards keep the core *)

\* The locks t guards with the scheduler resource.
Held(t) == {s \in Spinlocks : Guarded(t, s) /\ WithScheduler(s)}

Stacked ==
  \A t, u \in Threads : Below(t, u) =>
    MayPreempt(u, t) /\ (t \in Tasks /\ u \in Tasks => RunPrio[t] < Prio[u])

\* A task that has occupied the scheduler resource runs at its ceiling, and the resource remembers
\* what to return to.
RaisedAt(t) ==
  /\ RunPrio[t] = IF ResCount[t] = 0 THEN Prio[t] ELSE SchedulerCeiling[CoreOf[t]]
  /\ ResCount[t] > 0 /\ scheduler[CoreOf[t]].SaveCount = ResCount[t] =>
       scheduler[CoreOf[t]].SavePrio = IF ResCount[t] = 1 THEN Prio[t] ELSE SchedulerCeiling[CoreOf[t]]
  /\ Cardinality(Held(t)) <= ResCount[t]
  /\ ResCount[t] > 0 => t \in In(active[CoreOf[t]])

GuardInvariant == Stacked /\ (\A t \in Tasks : RaisedAt(t)) /\ HolderKeepsCore

LEMMA HeldIsFinite ==
  ASSUME NEW t
  PROVE  /\ IsFiniteSet(Held(t)) /\ Cardinality(Held(t)) \in Nat
         /\ Cardinality(Held(t)) = 0 <=> Held(t) = {}
<1>1. IsFiniteSet(Held(t))
  BY SpinlockConstants, FS_Subset DEF Held
<1>2. QED
  BY <1>1, FS_CardinalityType, FS_EmptySet

\* What the configuration and the types say of a task.
LEMMA TaskFacts ==
  ASSUME TypeOK, NEW t \in Tasks
  PROVE  /\ t \in Threads /\ t \notin Isrs /\ CoreOf[t] \in Cores
         /\ Prio[t] \in Nat /\ SchedulerCeiling[CoreOf[t]] \in Nat /\ Prio[t] <= SchedulerCeiling[CoreOf[t]]
         /\ ResCount[t] \in Nat /\ RunPrio[t] \in Nat
         /\ scheduler[CoreOf[t]].SaveCount \in Nat /\ scheduler[CoreOf[t]].SavePrio \in Nat
<1>1. /\ t \in Threads /\ t \notin Isrs /\ CoreOf[t] \in Cores
      /\ Prio[t] \in Nat /\ SchedulerCeiling[CoreOf[t]] \in Nat /\ Prio[t] <= SchedulerCeiling[CoreOf[t]]
  BY SpinlockConstants DEF Threads
<1>2. /\ ResCount[t] \in Nat /\ RunPrio[t] \in Nat
      /\ scheduler[CoreOf[t]].SaveCount \in Nat /\ scheduler[CoreOf[t]].SavePrio \in Nat
  BY <1>1 DEF TypeOK
<1>3. QED
  BY <1>1, <1>2

LEMMA OwnPrioAtLeast ==
  ASSUME TypeOK, NEW t \in Tasks, RaisedAt(t)
  PROVE  Prio[t] <= RunPrio[t]
BY TaskFacts DEF RaisedAt

\* Whoever else has started is below the thread that runs.
LEMMA BelowTop ==
  ASSUME TypeOK, OwnersAreActive, NEW t \in Threads, Runs(t),
         NEW x \in Threads, x \in In(active[CoreOf[t]]), x # t
  PROVE  CoreOf[x] = CoreOf[t] /\ Below(x, t)
<1> DEFINE q == active[CoreOf[t]]
           n == Len(q)
<1>1. CoreOf[t] \in Cores /\ n \in Nat \ {0} /\ q[n] = t
  BY TopOfCore
<1>2. PICK i \in 1 .. n : q[i] = x
  BY DEF In
<1>3. i < n /\ n \in 1 .. n
  BY <1>1, <1>2
<1>4. CoreOf[x] = CoreOf[t]
  BY <1>1, <1>2 DEF OwnersAreActive
<1>5. QED
  BY <1>1, <1>2, <1>3, <1>4 DEF Below

LEMMA StepKinds ==
  ASSUME SpinlockInvariant, Next
  PROVE  /\ SpinlockInvariant'
         /\ \E t \in Threads :
              \/ (Start(t) \/ Finish(t)) /\ GuardsStay
              \/ UNCHANGED <<guards, active>> /\ GuardsStay
              \/ GuardGet(t) \/ Unguard(t)
<1>1. PICK t \in Threads :
        \/ Start(t) \/ Finish(t)
        \/ \E s \in Uses[t] : GetSpinlock(t, s) \/ ReleaseSpinlock(t, s)
        \/ GuardGet(t) \/ CmpSwap(t) \/ TryFails(t) \/ GetCBModify(t)
        \/ Unlock(t) \/ Unguard(t)
  BY DEF Next
<1>2. CASE Start(t) \/ Finish(t)
  BY <1>2, StartHolds, FinishHolds
<1>3. ASSUME NEW s \in Uses[t], GetSpinlock(t, s) \/ ReleaseSpinlock(t, s)
      PROVE  SpinlockInvariant' /\ UNCHANGED <<guards, active>> /\ GuardsStay
  BY <1>3, GetSpinlockHolds, ReleaseSpinlockHolds DEF GetSpinlock, ReleaseSpinlock
<1>4. CASE CmpSwap(t) \/ TryFails(t) \/ GetCBModify(t) \/ Unlock(t)
  <2>1. UNCHANGED <<guards, active>>
    BY <1>4 DEF CmpSwap, TryFails, GetCBModify, Unlock
  <2>2. QED
    BY <1>4, <2>1, CmpSwapHolds, TryFailsHolds, GetCBModifyHolds, UnlockHolds
<1>5. CASE GuardGet(t) \/ Unguard(t)
  BY <1>5, GuardGetHolds, UnguardHolds
<1>6. QED
  BY <1>1, <1>2, <1>3, <1>4, <1>5

LEMMA GuardsKept ==
  ASSUME GuardInvariant, UNCHANGED <<guards, active>>, GuardsStay
  PROVE  GuardInvariant'
<1>1. UNCHANGED <<SuspendCount, scheduler, ResCount, RunPrio, active>>
  BY DEF guards
<1>2. \A t \in Threads : Held(t)' = Held(t)
  BY DEF Held, GuardsStay
<1>3. \A t, u \in Threads : Below(t, u)' <=> Below(t, u)
  BY <1>1 DEF Below
<1>4. Stacked'
  BY <1>1, <1>3 DEF GuardInvariant, Stacked
<1>5. \A t \in Tasks : RaisedAt(t)'
  <2>1. Tasks \subseteq Threads
    BY DEF Threads
  <2>2. QED
    BY <1>1, <1>2, <2>1 DEF GuardInvariant, RaisedAt
<1>6. HolderKeepsCore'
  BY <1>3 DEF GuardInvariant, HolderKeepsCore, GuardsStay
<1>7. QED
  BY <1>4, <1>5, <1>6 DEF GuardInvariant

LEMMA GuardsAtStart ==
  ASSUME SpinlockInvariant, GuardInvariant, NEW u \in Threads, Start(u), GuardsStay
  PROVE  GuardInvariant'
<1> DEFINE c == CoreOf[u]
           q == active[c]
           r == Append(q, u)
           n == Len(q)
<1>1. /\ TypeOK /\ OwnersAreActive /\ Exclusive /\ SuspendCounted
      /\ u \notin In(q) /\ SuspendCount[c] = 0
      /\ \A v \in In(q) : IF u \in Isrs THEN v \in Isrs => Prio[v] < Prio[u]
                          ELSE v \in Tasks /\ RunPrio[v] < Prio[u]
      /\ active' = [active EXCEPT ![c] = r] /\ UNCHANGED <<scheduler, ResCount, RunPrio>>
  BY CountsIff DEF SpinlockInvariant, Start, guards
<1>2. c \in Cores /\ q \in Seq(Threads)
  BY <1>1, CoresOfThreads
<1>3. /\ r \in Seq(Threads) /\ n \in Nat /\ Len(r) = n + 1
      /\ r[n + 1] = u /\ \A i \in 1 .. n : r[i] = q[i]
      /\ In(r) = In(q) \cup {u}
  BY <1>2, Pushed
<1> HIDE DEF r
<1>4. active'[c] = r /\ \A d \in Cores \ {c} : active'[d] = active[d]
  BY <1>1, <1>2 DEF TypeOK
<1>5. ASSUME NEW x \in Threads, NEW y \in Threads, Below(x, y)'
      PROVE  Below(x, y) \/ (y = u /\ x \in In(q) /\ CoreOf[x] = c)
  <2>1. CoreOf[x] \in Cores
    BY <1>1, CoresOfThreads
  <2>2. CASE CoreOf[x] = c
    <3>1. PICK i, j \in 1 .. n + 1 : i < j /\ r[i] = x /\ r[j] = y
      BY <1>3, <1>4, <1>5, <2>2 DEF Below
    <3>2. i \in 1 .. n /\ q[i] = x
      BY <1>3, <3>1
    <3>3. CASE j = n + 1
      BY <1>3, <2>2, <3>1, <3>2, <3>3 DEF In
    <3>4. CASE j # n + 1
      <4>1. j \in 1 .. n /\ q[j] = y
        BY <1>3, <3>1, <3>4
      <4>2. QED
        BY <2>2, <3>1, <3>2, <4>1 DEF Below
    <3>5. QED
      BY <3>3, <3>4
  <2>3. CASE CoreOf[x] # c
    BY <1>4, <1>5, <2>1, <2>3 DEF Below
  <2>4. QED
    BY <2>2, <2>3
<1>6. \A t \in Threads : Held(t)' = Held(t)
  BY DEF Held, GuardsStay
<1>7. Stacked'
  <2>1. SUFFICES ASSUME NEW x \in Threads, NEW y \in Threads, Below(x, y)'
                 PROVE  MayPreempt(y, x) /\ (x \in Tasks /\ y \in Tasks => RunPrio[x] < Prio[y])
    BY <1>1 DEF Stacked
  <2>2. CASE Below(x, y)
    BY <2>2 DEF GuardInvariant, Stacked
  <2>3. CASE y = u /\ x \in In(q)
    <3>1. CASE u \in Isrs
      BY <1>1, <2>3, <3>1, SpinlockConstants DEF MayPreempt
    <3>2. CASE u \notin Isrs
      <4>1. x \in Tasks /\ u \in Tasks /\ RunPrio[x] < Prio[u]
        BY <1>1, <2>3, <3>2 DEF Threads
      <4>2. Prio[x] <= RunPrio[x]
        BY <1>1, <4>1, OwnPrioAtLeast DEF GuardInvariant
      <4>3. Prio[x] < Prio[u]
        BY <1>1, <4>1, <4>2, TaskFacts
      <4>4. QED
        BY <2>3, <3>2, <4>1, <4>3 DEF MayPreempt
    <3>3. QED
      BY <3>1, <3>2
  <2>4. QED
    BY <1>5, <2>1, <2>2, <2>3
<1>8. \A t \in Tasks : RaisedAt(t)'
  <2>1. SUFFICES ASSUME NEW t \in Tasks
                 PROVE  RaisedAt(t)'
    OBVIOUS
  <2>2. t \in In(active[CoreOf[t]]) => t \in In(active'[CoreOf[t]])
    BY <1>1, <1>3, <1>4, TaskFacts
  <2>3. Held(t)' = Held(t) /\ RaisedAt(t)
    BY <1>1, <1>6, TaskFacts DEF GuardInvariant
  <2>4. QED
    BY <1>1, <2>2, <2>3 DEF RaisedAt
<1>9. HolderKeepsCore'
  <2>1. SUFFICES ASSUME NEW x \in Threads, NEW y \in Threads, Below(x, y)', NEW s \in Spinlocks, Guarded(x, s)
                 PROVE  ~ Suspends(s) /\ (WithScheduler(s) => y \in Isrs)
    BY DEF HolderKeepsCore, GuardsStay
  <2>2. CASE Below(x, y)
    BY <2>1, <2>2 DEF GuardInvariant, HolderKeepsCore
  <2>3. CASE y = u /\ x \in In(q) /\ CoreOf[x] = c
    <3>1. s \in Occupied[c]
      BY <1>1, <1>2, <2>1, <2>3 DEF Exclusive
    <3>2. ~ Suspends(s)
      <4>1. IsFiniteSet({z \in Occupied[c] : Suspends(z)})
        <5>1. {z \in Occupied[c] : Suspends(z)} \subseteq Spinlocks
          BY <1>1, <1>2 DEF TypeOK
        <5>2. QED
          BY <5>1, SpinlockConstants, FS_Subset
      <4>2. Cardinality({z \in Occupied[c] : Suspends(z)}) = 0
        BY <1>1, <1>2 DEF SuspendCounted
      <4>3. {z \in Occupied[c] : Suspends(z)} = {}
        BY <4>1, <4>2, FS_EmptySet
      <4>4. QED
        BY <3>1, <4>3
    <3>3. ASSUME WithScheduler(s), u \notin Isrs
          PROVE  FALSE
      <4>1. x \in Tasks /\ u \in Tasks /\ RunPrio[x] < Prio[u]
        BY <1>1, <2>3, <3>3 DEF Threads
      <4>2. s \in Held(x)
        BY <2>1, <3>3 DEF Held
      <4>3. Cardinality(Held(x)) \in Nat /\ Cardinality(Held(x)) # 0 /\ Cardinality(Held(x)) <= ResCount[x]
        BY <4>1, <4>2, HeldIsFinite DEF GuardInvariant, RaisedAt
      <4>4. ResCount[x] \in Nat /\ ResCount[x] # 0
        BY <1>1, <4>1, <4>3, TaskFacts
      <4>5. RunPrio[x] = SchedulerCeiling[c]
        BY <2>3, <4>1, <4>4 DEF GuardInvariant, RaisedAt
      <4>6. QED
        BY <1>1, <4>1, <4>5, TaskFacts
    <3>4. QED
      BY <2>3, <3>2, <3>3
  <2>4. QED
    BY <1>5, <2>1, <2>2, <2>3
<1>10. QED
  BY <1>7, <1>8, <1>9 DEF GuardInvariant

LEMMA GuardsAtFinish ==
  ASSUME SpinlockInvariant, GuardInvariant, NEW t \in Threads, Finish(t), GuardsStay
  PROVE  GuardInvariant'
<1> DEFINE c == CoreOf[t]
           q == active[c]
           r == Popped(q)
           n == Len(q)
<1>1. /\ TypeOK /\ OwnersAreActive /\ Runs(t)
      /\ t \in Tasks => ResCount[t] = 0
      /\ active' = [active EXCEPT ![c] = r] /\ UNCHANGED <<scheduler, ResCount, RunPrio>>
  BY DEF SpinlockInvariant, Finish, At, guards
<1>2. c \in Cores /\ q \in Seq(Threads) /\ n \in Nat \ {0} /\ q # <<>> /\ Top(q) = t
  BY <1>1, TopOfCore DEF Runs
<1>3. /\ r \in Seq(Threads) /\ Len(r) = n - 1 /\ \A i \in 1 .. n - 1 : r[i] = q[i]
      /\ In(q) = In(r) \cup {t}
  BY <1>2, PoppedOff
<1> HIDE DEF r
<1>4. active'[c] = r /\ \A d \in Cores \ {c} : active'[d] = active[d]
  BY <1>1, <1>2 DEF TypeOK
<1>5. ASSUME NEW x \in Threads, NEW y \in Threads, Below(x, y)'
      PROVE  Below(x, y)
  <2>1. CoreOf[x] \in Cores
    BY <1>1, CoresOfThreads
  <2>2. CASE CoreOf[x] = c
    <3>1. PICK i, j \in 1 .. n - 1 : i < j /\ r[i] = x /\ r[j] = y
      BY <1>3, <1>4, <1>5, <2>2 DEF Below
    <3>2. i \in 1 .. n /\ j \in 1 .. n /\ q[i] = x /\ q[j] = y
      BY <1>2, <1>3, <3>1
    <3>3. QED
      BY <2>2, <3>1, <3>2 DEF Below
  <2>3. CASE CoreOf[x] # c
    BY <1>4, <1>5, <2>1, <2>3 DEF Below
  <2>4. QED
    BY <2>2, <2>3
<1>6. \A x \in Threads : Held(x)' = Held(x)
  BY DEF Held, GuardsStay
<1>7. Stacked'
  BY <1>1, <1>5 DEF GuardInvariant, Stacked
<1>8. \A x \in Tasks : RaisedAt(x)'
  <2>1. SUFFICES ASSUME NEW x \in Tasks
                 PROVE  RaisedAt(x)'
    OBVIOUS
  <2>2. x \in In(active[CoreOf[x]]) /\ x # t => x \in In(active'[CoreOf[x]])
    BY <1>1, <1>3, <1>4, TaskFacts
  <2>3. Held(x)' = Held(x) /\ RaisedAt(x) /\ ResCount[x] \in Nat
    BY <1>1, <1>6, TaskFacts DEF GuardInvariant
  <2>4. QED
    BY <1>1, <2>2, <2>3 DEF RaisedAt
<1>9. HolderKeepsCore'
  BY <1>5 DEF GuardInvariant, HolderKeepsCore, GuardsStay
<1>10. QED
  BY <1>7, <1>8, <1>9 DEF GuardInvariant

\* The tasks below a task that runs have not occupied the scheduler resource.
LEMMA OthersAtOwn ==
  ASSUME SpinlockInvariant, GuardInvariant, NEW t \in Tasks, Runs(t),
         NEW x \in Tasks, x # t, CoreOf[x] = CoreOf[t]
  PROVE  ResCount[x] = 0 /\ RunPrio[x] = Prio[x]
<1>1. TypeOK /\ OwnersAreActive /\ x \in Threads /\ t \in Threads /\ RaisedAt(x)
  BY TaskFacts DEF SpinlockInvariant, GuardInvariant
<1>2. ASSUME ResCount[x] > 0
      PROVE  FALSE
  <2>1. x \in In(active[CoreOf[t]])
    BY <1>1, <1>2 DEF RaisedAt
  <2>2. Below(x, t)
    BY <1>1, <2>1, BelowTop
  <2>3. RunPrio[x] < Prio[t]
    BY <1>1, <2>2 DEF GuardInvariant, Stacked
  <2>4. RunPrio[x] = SchedulerCeiling[CoreOf[t]]
    BY <1>1, <1>2, TaskFacts DEF RaisedAt
  <2>5. QED
    BY <1>1, <2>3, <2>4, TaskFacts
<1>3. QED
  BY <1>1, <1>2, TaskFacts DEF RaisedAt

LEMMA GuardsAtGuardGet ==
  ASSUME SpinlockInvariant, GuardInvariant, IsrsLeaveScheduler, NEW t \in Threads, GuardGet(t)
  PROVE  GuardInvariant'
<1> DEFINE c == CoreOf[t]
<1>1. /\ TypeOK /\ OwnersAreActive /\ Runs(t) /\ UNCHANGED active /\ MethodLock(t)
      /\ c \in Cores /\ t \in In(active[c]) /\ \A u \in Threads : ~ Below(t, u)
  <2>1. TypeOK /\ OwnersAreActive /\ Runs(t) /\ UNCHANGED active /\ MethodLock(t)
    BY DEF SpinlockInvariant, GuardGet, At
  <2>2. QED
    BY <2>1, TopOfCore
<1>2. PICK s \in Uses[t] \cap Spinlocks : s = thread[t].lock /\ GuardIsSet(t, s)
  BY GuardGetHolds
<1>3. \A x, y \in Threads : Below(x, y)' <=> Below(x, y)
  BY <1>1 DEF Below
<1>4. HolderKeepsCore'
  BY <1>1, <1>2, <1>3 DEF GuardInvariant, HolderKeepsCore, GuardIsSet
<1>5. CASE ~ WithScheduler(s)
  <2>1. UNCHANGED <<scheduler, ResCount, RunPrio>>
    BY <1>1, <1>2, <1>5 DEF MethodLock
  <2>2. \A x \in Threads : Held(x)' = Held(x)
    BY <1>2, <1>5 DEF Held, GuardIsSet
  <2>3. Stacked'
    BY <1>3, <2>1 DEF GuardInvariant, Stacked
  <2>4. \A x \in Tasks : RaisedAt(x)'
    BY <1>1, <2>1, <2>2, TaskFacts DEF GuardInvariant, RaisedAt
  <2>5. QED
    BY <1>4, <2>3, <2>4 DEF GuardInvariant
<1>6. CASE WithScheduler(s)
  <2> DEFINE n == ResCount[t]
  <2>1. t \in Tasks /\ t \notin Isrs
    BY <1>2, <1>6 DEF IsrsLeaveScheduler, Threads
  <2>2. /\ ResCount' = [ResCount EXCEPT ![t] = n + 1]
        /\ scheduler' = [scheduler EXCEPT ![c] = [SaveCount |-> n + 1, SavePrio |-> RunPrio[t]]]
        /\ RunPrio' = [RunPrio EXCEPT ![t] = SchedulerCeiling[c]]
    BY <1>1, <1>2, <1>6, <2>1 DEF MethodLock, GetScheduler
  <2>3. /\ ResCount'[t] = n + 1 /\ RunPrio'[t] = SchedulerCeiling[c]
        /\ scheduler'[c].SaveCount = n + 1 /\ scheduler'[c].SavePrio = RunPrio[t]
        /\ \A x \in Tasks \ {t} : ResCount'[x] = ResCount[x] /\ RunPrio'[x] = RunPrio[x]
        /\ \A d \in Cores \ {c} : scheduler'[d] = scheduler[d]
    BY <1>1, <2>1, <2>2 DEF TypeOK
  <2>4. /\ Held(t)' = Held(t) \cup {s} /\ s \notin Held(t)
        /\ \A x \in Threads \ {t} : Held(x)' = Held(x)
    BY <1>2, <1>6 DEF Held, GuardIsSet
  <2>5. Stacked'
    <3>1. SUFFICES ASSUME NEW x \in Threads, NEW y \in Threads, Below(x, y)
                   PROVE  MayPreempt(y, x) /\ (x \in Tasks /\ y \in Tasks => RunPrio'[x] < Prio[y])
      BY <1>3 DEF Stacked
    <3>2. x # t
      BY <1>1, <3>1
    <3>3. QED
      BY <2>3, <3>1, <3>2 DEF GuardInvariant, Stacked
  <2>6. RaisedAt(t)'
    <3>1. Cardinality(Held(t)') <= n + 1
      <4>1. /\ IsFiniteSet(Held(t)) /\ Cardinality(Held(t)) \in Nat /\ n \in Nat
            /\ Cardinality(Held(t)) <= n
        BY <1>1, <2>1, HeldIsFinite, TaskFacts DEF GuardInvariant, RaisedAt
      <4> DEFINE H == Held(t)
      <4> HIDE DEF H
      <4>2. Cardinality(H \cup {s}) = Cardinality(H) + 1
        BY <2>4, <4>1, FS_AddElement DEF H
      <4>3. QED
        BY <2>4, <4>1, <4>2 DEF H
    <3>2. RunPrio[t] = IF n = 0 THEN Prio[t] ELSE SchedulerCeiling[c]
      BY <2>1 DEF GuardInvariant, RaisedAt
    <3>3. n \in Nat /\ t \in In(active'[c])
      BY <1>1, <2>1, TaskFacts
    <3>4. QED
      BY <2>3, <3>1, <3>2, <3>3 DEF RaisedAt
  <2>7. ASSUME NEW x \in Tasks, x # t
        PROVE  RaisedAt(x)'
    <3>1. RaisedAt(x) /\ ResCount'[x] = ResCount[x] /\ RunPrio'[x] = RunPrio[x] /\ Held(x)' = Held(x)
      BY <1>1, <2>3, <2>4, <2>7, TaskFacts DEF GuardInvariant
    <3>2. CASE CoreOf[x] = c
      <4>1. ResCount[x] = 0
        BY <1>1, <2>1, <2>7, <3>2, OthersAtOwn
      <4>2. QED
        BY <1>1, <3>1, <4>1 DEF RaisedAt
    <3>3. CASE CoreOf[x] # c
      <4>1. scheduler'[CoreOf[x]] = scheduler[CoreOf[x]]
        BY <1>1, <2>3, <3>3, TaskFacts
      <4>2. QED
        BY <1>1, <3>1, <4>1 DEF RaisedAt
    <3>4. QED
      BY <3>2, <3>3
  <2>8. QED
    BY <1>4, <2>5, <2>6, <2>7 DEF GuardInvariant
<1>7. QED
  BY <1>5, <1>6

\* The task that runs is the one the kernel acts on.
LEMMA RunningTaskRuns ==
  ASSUME SpinlockInvariant, GuardInvariant, NEW t \in Tasks, Runs(t)
  PROVE  RunningTask(CoreOf[t]) = t
<1> DEFINE c == CoreOf[t]
           r == RunningTask(c)
<1>1. /\ TypeOK /\ OwnersAreActive /\ t \in Threads /\ c \in Cores /\ RaisedAt(t)
  BY TaskFacts DEF SpinlockInvariant, GuardInvariant
<1>2. t \in In(active[c]) \cap Tasks
  BY <1>1, TopOfCore
<1>3. r \in In(active[c]) \cap Tasks /\ RunPrio[t] <= RunPrio[r]
  BY <1>1, <1>2, RunningIs
<1> HIDE DEF r
<1>4. ASSUME r # t
      PROVE  FALSE
  <2>1. r \in Tasks /\ r \in Threads
    BY <1>1, <1>3, TaskFacts
  <2>2. Below(r, t)
    BY <1>1, <1>3, <1>4, <2>1, BelowTop
  <2>3. RunPrio[r] < Prio[t] /\ Prio[t] <= RunPrio[t]
    BY <1>1, <2>1, <2>2, OwnPrioAtLeast DEF GuardInvariant, Stacked
  <2>4. RunPrio[r] \in Nat /\ RunPrio[t] \in Nat /\ Prio[t] \in Nat
    BY <1>1, <2>1, TaskFacts
  <2>5. QED
    BY <1>3, <2>3, <2>4
<1>5. QED
  BY <1>4 DEF r

LEMMA GuardsAtUnguard ==
  ASSUME SpinlockInvariant, GuardInvariant, IsrsLeaveScheduler, NEW t \in Threads, Unguard(t)
  PROVE  GuardInvariant'
<1> DEFINE c == CoreOf[t]
<1>1. /\ TypeOK /\ OwnersAreActive /\ Runs(t) /\ UNCHANGED active /\ MethodRelease(t)
      /\ c \in Cores /\ t \in In(active[c]) /\ \A u \in Threads : ~ Below(t, u)
  <2>1. TypeOK /\ OwnersAreActive /\ Runs(t) /\ UNCHANGED active /\ MethodRelease(t)
    BY DEF SpinlockInvariant, Unguard, At
  <2>2. QED
    BY <2>1, TopOfCore
<1>2. PICK s \in Uses[t] \cap Spinlocks : s = thread[t].lock /\ GuardIsRemoved(t, s)
  BY UnguardHolds
<1>3. \A x, y \in Threads : Below(x, y)' <=> Below(x, y)
  BY <1>1 DEF Below
<1>4. HolderKeepsCore'
  BY <1>1, <1>2, <1>3 DEF GuardInvariant, HolderKeepsCore, GuardIsRemoved
<1>5. CASE ~ WithScheduler(s)
  <2>1. UNCHANGED <<scheduler, ResCount, RunPrio>>
    BY <1>1, <1>2, <1>5 DEF MethodRelease
  <2>2. \A x \in Threads : Held(x)' = Held(x)
    BY <1>2, <1>5 DEF Held, GuardIsRemoved
  <2>3. Stacked'
    BY <1>3, <2>1 DEF GuardInvariant, Stacked
  <2>4. \A x \in Tasks : RaisedAt(x)'
    BY <1>1, <2>1, <2>2, TaskFacts DEF GuardInvariant, RaisedAt
  <2>5. QED
    BY <1>4, <2>3, <2>4 DEF GuardInvariant
<1>6. CASE WithScheduler(s)
  <2> DEFINE n == ResCount[t]
             z == Cardinality(Held(t))
  <2>1. t \in Tasks /\ t \notin Isrs
    BY <1>2, <1>6 DEF IsrsLeaveScheduler, Threads
  <2>2. RunningTask(c) = t
    BY <1>1, <2>1, RunningTaskRuns
  <2>3. ReleaseScheduler(c)
    BY <1>1, <1>2, <1>6 DEF MethodRelease
  <2>4. /\ Held(t)' = Held(t) \ {s} /\ s \in Held(t)
        /\ \A x \in Threads \ {t} : Held(x)' = Held(x)
    BY <1>2, <1>6 DEF Held, GuardIsRemoved
  <2>5. z \in Nat /\ z # 0 /\ Cardinality(Held(t)') = z - 1 /\ n \in Nat /\ z <= n
    <3>1. IsFiniteSet(Held(t)) /\ z \in Nat /\ n \in Nat /\ z <= n /\ z # 0
      BY <1>1, <2>1, <2>4, HeldIsFinite, TaskFacts DEF GuardInvariant, RaisedAt
    <3> DEFINE H == Held(t)
    <3> HIDE DEF H
    <3>2. Cardinality(H \ {s}) = Cardinality(H) - 1
      BY <2>4, <3>1, FS_RemoveElement DEF H
    <3>3. QED
      BY <2>4, <3>1, <3>2 DEF H
  <2>6. /\ RunPrio[t] = IF n = 0 THEN Prio[t] ELSE SchedulerCeiling[c]
        /\ n > 0 /\ scheduler[c].SaveCount = n =>
             scheduler[c].SavePrio = IF n = 1 THEN Prio[t] ELSE SchedulerCeiling[c]
        /\ Prio[t] \in Nat /\ SchedulerCeiling[c] \in Nat /\ Prio[t] <= SchedulerCeiling[c]
    BY <1>1, <2>1, TaskFacts DEF GuardInvariant, RaisedAt
  <2> HIDE DEF z
  <2>7. /\ \A x \in Tasks \ {t} : ResCount'[x] = ResCount[x] /\ RunPrio'[x] = RunPrio[x]
        /\ \A d \in Cores \ {c} : scheduler'[d] = scheduler[d]
        /\ \/ /\ ResCount'[t] = n - 1 /\ RunPrio'[t] = IF n = 1 THEN Prio[t] ELSE SchedulerCeiling[c]
              /\ scheduler'[c].SaveCount = 0
           \/ UNCHANGED <<scheduler, ResCount, RunPrio>>
    <3>1. CASE UNCHANGED <<scheduler, ResCount, RunPrio>>
      BY <3>1
    <3>2. CASE /\ scheduler[c].SaveCount = n
               /\ ResCount' = [ResCount EXCEPT ![t] = n - 1]
               /\ RunPrio' = [RunPrio EXCEPT ![t] = IF SchedulerCeiling[c] > scheduler[c].SavePrio
                                                    THEN scheduler[c].SavePrio ELSE RunPrio[t]]
               /\ scheduler' = [scheduler EXCEPT ![c] = [SaveCount |-> 0, SavePrio |-> 0]]
      <4>1. scheduler[c].SavePrio = IF n = 1 THEN Prio[t] ELSE SchedulerCeiling[c]
        BY <2>5, <2>6, <3>2
      <4>2. (IF SchedulerCeiling[c] > scheduler[c].SavePrio THEN scheduler[c].SavePrio ELSE RunPrio[t])
              = IF n = 1 THEN Prio[t] ELSE SchedulerCeiling[c]
        BY <2>5, <2>6, <4>1
      <4>3. QED
        BY <1>1, <2>1, <3>2, <4>2 DEF TypeOK
    <3>3. QED
      BY <2>2, <2>3, <3>1, <3>2 DEF ReleaseScheduler
  <2>8. Stacked'
    <3>1. SUFFICES ASSUME NEW x \in Threads, NEW y \in Threads, Below(x, y)
                   PROVE  MayPreempt(y, x) /\ (x \in Tasks /\ y \in Tasks => RunPrio'[x] < Prio[y])
      BY <1>3 DEF Stacked
    <3>2. x # t
      BY <1>1, <3>1
    <3>3. QED
      BY <2>7, <3>1, <3>2 DEF GuardInvariant, Stacked
  <2>9. RaisedAt(t)'
    <3>1. t \in In(active'[c])
      BY <1>1
    <3>2. CASE UNCHANGED <<scheduler, ResCount, RunPrio>>
      BY <2>5, <2>6, <3>1, <3>2 DEF RaisedAt
    <3>3. CASE ~ UNCHANGED <<scheduler, ResCount, RunPrio>>
      BY <2>5, <2>6, <2>7, <3>1, <3>3 DEF RaisedAt
    <3>4. QED
      BY <3>2, <3>3
  <2>10. ASSUME NEW x \in Tasks, x # t
         PROVE  RaisedAt(x)'
    <3>1. RaisedAt(x) /\ ResCount'[x] = ResCount[x] /\ RunPrio'[x] = RunPrio[x] /\ Held(x)' = Held(x)
      BY <1>1, <2>4, <2>7, <2>10, TaskFacts DEF GuardInvariant
    <3>2. CASE CoreOf[x] = c
      <4>1. ResCount[x] = 0
        BY <1>1, <2>1, <2>10, <3>2, OthersAtOwn
      <4>2. QED
        BY <1>1, <3>1, <4>1 DEF RaisedAt
    <3>3. CASE CoreOf[x] # c
      <4>1. scheduler'[CoreOf[x]] = scheduler[CoreOf[x]]
        BY <1>1, <2>7, <3>3, TaskFacts
      <4>2. QED
        BY <1>1, <3>1, <4>1 DEF RaisedAt
    <3>4. QED
      BY <3>2, <3>3
  <2>11. QED
    BY <1>4, <2>8, <2>9, <2>10 DEF GuardInvariant
<1>7. QED
  BY <1>5, <1>6

LEMMA GuardsAtInit == Init => GuardInvariant
<1> SUFFICES ASSUME Init
             PROVE  GuardInvariant
  OBVIOUS
<1>1. SpinlockInvariant
  BY InitHolds
<1>2. \A x, y \in Threads : ~ Below(x, y)
  <2>1. \A x \in Threads : Len(active[CoreOf[x]]) = 0
    BY SpinlockConstants DEF Init
  <2>2. QED
    BY <2>1 DEF Below
<1>3. \A t \in Tasks : RaisedAt(t)
  <2>1. SUFFICES ASSUME NEW t \in Tasks
                 PROVE  RaisedAt(t)
    OBVIOUS
  <2>2. Zone[t] = <<>> /\ Len(Zone[t]) = 0 /\ thread[t].pc = "run"
    BY DEF Init, Threads
  <2>3. \A s \in Spinlocks : ~ Guarded(t, s)
    BY <2>2 DEF Guarded, Owns, In
  <2>4. Held(t) = {}
    BY <2>3 DEF Held
  <2>5. ResCount[t] = 0 /\ RunPrio[t] = Prio[t]
    BY DEF Init
  <2>6. QED
    BY <2>4, <2>5, FS_EmptySet DEF RaisedAt
<1>4. QED
  BY <1>2, <1>3 DEF GuardInvariant, Stacked, HolderKeepsCore

LEMMA GuardsHold ==
  ASSUME IsrsLeaveScheduler
  PROVE  SpinlockInvariant /\ GuardInvariant /\ [Next]_vars => GuardInvariant'
<1> SUFFICES ASSUME SpinlockInvariant, GuardInvariant, [Next]_vars
             PROVE  GuardInvariant'
  OBVIOUS
<1>1. CASE Next
  BY <1>1, StepKinds, GuardsAtStart, GuardsAtFinish, GuardsKept, GuardsAtGuardGet, GuardsAtUnguard
<1>2. CASE UNCHANGED vars
  <2>1. UNCHANGED <<locks, guards, thread>> /\ UNCHANGED active
    BY <1>2 DEF vars
  <2>2. GuardsStay
    BY <2>1, ActiveOnly DEF GuardsStay
  <2>3. QED
    BY <2>1, <2>2, GuardsKept
<1>3. QED
  BY <1>1, <1>2

\* Where no interrupt takes a lock with the scheduler resource: nobody preempts a thread that guards a
\* lock whose method keeps it off, from the guard before the lock word to the one after the unlock.
THEOREM HoldersKeepTheirCore ==
  ASSUME IsrsLeaveScheduler
  PROVE  Spec => []HolderKeepsCore
<1>1. Init => SpinlockInvariant /\ GuardInvariant
  BY InitHolds, GuardsAtInit
<1>2. SpinlockInvariant /\ GuardInvariant /\ [Next]_vars => SpinlockInvariant' /\ GuardInvariant'
  BY StepHolds, GuardsHold
<1>3. GuardInvariant => HolderKeepsCore
  BY DEF GuardInvariant
<1>4. QED
  BY <1>1, <1>2, <1>3, PTL DEF Spec

-----------------------------------------------------------------------------
(* The scheduler resource is returned *)

\* A lock with the scheduler resource lies on top of the resource.
OnResource(zone) ==
  \A i \in 1 .. Len(zone) : zone[i] \in Spinlocks /\ WithScheduler(zone[i]) =>
    i > 1 /\ zone[i - 1] = RES_SCHEDULER

GuardedPCs == {"spin", "once", "own", "unlock", "unguard"}

\* In the stack, and while t moves the lock of its service in or out.
ResourceBelow(t) ==
  /\ OnResource(Zone[t])
  /\ thread[t].pc \in GuardedPCs /\ WithScheduler(thread[t].lock) =>
       Zone[t] # <<>> /\ Top(Zone[t]) = RES_SCHEDULER

\* The resource is occupied for the lock that t guards with it, and once.
HeldOnce(t) ==
  /\ ResCount[t] = Cardinality(Held(t))
  /\ ResCount[t] > 0 => scheduler[CoreOf[t]].SaveCount = 1

ReturnInvariant == \A t \in Tasks : ResourceBelow(t) /\ HeldOnce(t)

LEMMA OnResourcePushed ==
  ASSUME NEW q \in Seq(ZoneEntry), OnResource(q), NEW e \in ZoneEntry,
         e \in Spinlocks /\ WithScheduler(e) => q # <<>> /\ Top(q) = RES_SCHEDULER
  PROVE  OnResource(Append(q, e))
<1> DEFINE r == Append(q, e)
           n == Len(q)
<1>1. /\ n \in Nat /\ Len(r) = n + 1 /\ r[n + 1] = e /\ \A i \in 1 .. n : r[i] = q[i]
  BY Pushed
<1> HIDE DEF r
<1>2. ASSUME NEW i \in 1 .. n + 1, r[i] \in Spinlocks, WithScheduler(r[i])
      PROVE  i > 1 /\ r[i - 1] = RES_SCHEDULER
  <2>1. CASE i = n + 1
    <3>1. q # <<>> /\ q[n] = RES_SCHEDULER
      BY <1>1, <1>2, <2>1 DEF Top
    <3>2. n \in 1 .. n
      BY <1>1, <3>1
    <3>3. QED
      BY <1>1, <2>1, <3>1, <3>2
  <2>2. CASE i # n + 1
    <3>1. i \in 1 .. n /\ r[i] = q[i]
      BY <1>1, <2>2
    <3>2. i > 1 /\ q[i - 1] = RES_SCHEDULER
      BY <1>2, <3>1 DEF OnResource
    <3>3. i - 1 \in 1 .. n
      BY <1>1, <3>1, <3>2
    <3>4. QED
      BY <1>1, <3>2, <3>3
  <2>3. QED
    BY <2>1, <2>2
<1>3. QED
  BY <1>1, <1>2 DEF OnResource, r

LEMMA OnResourcePopped ==
  ASSUME NEW q \in Seq(ZoneEntry), OnResource(q), q # <<>>
  PROVE  /\ OnResource(Popped(q))
         /\ Top(q) \in Spinlocks /\ WithScheduler(Top(q)) =>
              Popped(q) # <<>> /\ Top(Popped(q)) = RES_SCHEDULER
<1> DEFINE r == Popped(q)
           n == Len(q)
<1>1. /\ r \in Seq(ZoneEntry) /\ n \in Nat \ {0} /\ Len(r) = n - 1 /\ Top(q) = q[n]
      /\ \A i \in 1 .. n - 1 : r[i] = q[i]
  BY PoppedOff
<1> HIDE DEF r
<1>2. OnResource(r)
  <2>1. SUFFICES ASSUME NEW i \in 1 .. n - 1, r[i] \in Spinlocks, WithScheduler(r[i])
                 PROVE  i > 1 /\ r[i - 1] = RES_SCHEDULER
    BY <1>1 DEF OnResource
  <2>2. i \in 1 .. n /\ r[i] = q[i]
    BY <1>1
  <2>3. i > 1 /\ q[i - 1] = RES_SCHEDULER
    BY <2>1, <2>2 DEF OnResource
  <2>4. i - 1 \in 1 .. n - 1
    BY <1>1, <2>3
  <2>5. QED
    BY <1>1, <2>3, <2>4
<1>3. ASSUME Top(q) \in Spinlocks, WithScheduler(Top(q))
      PROVE  r # <<>> /\ Top(r) = RES_SCHEDULER
  <2>1. n \in 1 .. n /\ n > 1 /\ q[n - 1] = RES_SCHEDULER
    BY <1>1, <1>3 DEF OnResource
  <2>2. n - 1 \in 1 .. n - 1
    BY <1>1, <2>1
  <2>3. QED
    BY <1>1, <2>1, <2>2 DEF Top
<1>4. QED
  BY <1>2, <1>3 DEF r

\* The steps that leave the guards alone move a lock from the word to the stack or back.
LEMMA ReturnKept ==
  ASSUME ReturnInvariant, UNCHANGED <<scheduler, ResCount>>, GuardsStay,
         \A x \in Tasks : ResourceBelow(x)'
  PROVE  ReturnInvariant'
<1>1. \A x \in Tasks : Held(x)' = Held(x)
  BY DEF Held, GuardsStay, Threads
<1>2. QED
  BY <1>1 DEF ReturnInvariant, HeldOnce

LEMMA ReturnAtOwnSteps ==
  ASSUME SpinlockInvariant, ReturnInvariant, NEW t \in Threads,
         \/ \E s \in Uses[t] : GetSpinlock(t, s)
         \/ CmpSwap(t) \/ TryFails(t) \/ Unlock(t)
  PROVE  ReturnInvariant'
<1>1. TypeOK /\ GuardsStay /\ UNCHANGED <<Zone, scheduler, ResCount>>
  BY GetSpinlockHolds, CmpSwapHolds, TryFailsHolds, UnlockHolds
     DEF SpinlockInvariant, GetSpinlock, CmpSwap, TryFails, Unlock, locks, guards
<1>2. /\ \A x \in Threads \ {t} : thread'[x] = thread[x]
      /\ \/ thread'[t].pc \in {"get", "try"}
         \/ thread[t].pc \in GuardedPCs /\ thread'[t].lock = thread[t].lock
  <2>1. ASSUME CmpSwap(t) \/ TryFails(t) \/ Unlock(t)
        PROVE  /\ \A x \in Threads \ {t} : thread'[x] = thread[x]
               /\ thread[t].pc \in GuardedPCs /\ thread'[t].lock = thread[t].lock
    <3>1. PICK p \in {"own", "unguard"} : Goto(t, p)
      BY <2>1 DEF CmpSwap, TryFails, Unlock
    <3>2. thread[t].pc \in GuardedPCs
      BY <2>1 DEF CmpSwap, TryFails, Unlock, At, GuardedPCs
    <3>3. QED
      BY <1>1, <3>1, <3>2, Moved DEF PCs
  <2>2. CASE CmpSwap(t) \/ TryFails(t) \/ Unlock(t)
    BY <2>1, <2>2
  <2>3. CASE \E s \in Uses[t] : GetSpinlock(t, s)
    <3>1. PICK s \in Uses[t] : GetSpinlock(t, s)
      BY <2>3
    <3>2. PICK service \in {"get", "try"} : thread' = [thread EXCEPT ![t] = [pc |-> service, lock |-> s]]
      BY <3>1 DEF GetSpinlock
    <3>3. QED
      BY <1>1, <3>2 DEF TypeOK
  <2>4. QED
    BY <2>2, <2>3
<1>3. \A x \in Tasks : ResourceBelow(x)'
  <2>1. SUFFICES ASSUME NEW x \in Tasks
                 PROVE  ResourceBelow(x)'
    OBVIOUS
  <2>2. ResourceBelow(x) /\ x \in Threads
    BY DEF ReturnInvariant, Threads
  <2>3. QED
    BY <1>1, <1>2, <2>2 DEF ResourceBelow, GuardedPCs
<1>4. QED
  BY <1>1, <1>3, ReturnKept

LEMMA ReturnAtGetCBModify ==
  ASSUME SpinlockInvariant, ReturnInvariant, NEW t \in Threads, GetCBModify(t)
  PROVE  ReturnInvariant'
<1>1. TypeOK /\ GuardsStay /\ UNCHANGED <<scheduler, ResCount>> /\ thread[t].pc = "own" /\ Goto(t, "run")
  BY GetCBModifyHolds DEF SpinlockInvariant, GetCBModify, At, guards
<1>2. PICK s \in Spinlocks : s = thread[t].lock
  BY <1>1, ServiceLock
<1> DEFINE q == Append(Zone[t], s)
<1>3. Zone[t] \in Seq(ZoneEntry) /\ s \in ZoneEntry /\ Zone \in [Threads -> Seq(ZoneEntry)]
  BY <1>1 DEF TypeOK, ZoneEntry
<1>4. Zone' = [Zone EXCEPT ![t] = q]
  BY <1>2 DEF GetCBModify
<1>5. t \in Tasks => OnResource(q)
  <2>1. t \in Tasks => OnResource(Zone[t]) /\ (WithScheduler(s) => Zone[t] # <<>> /\ Top(Zone[t]) = RES_SCHEDULER)
    BY <1>1, <1>2 DEF ReturnInvariant, ResourceBelow, GuardedPCs
  <2>2. QED
    BY <1>3, <2>1, OnResourcePushed
<1> HIDE DEF q
<1>6. /\ Zone'[t] = q /\ thread'[t].pc = "run"
      /\ \A x \in Threads \ {t} : Zone'[x] = Zone[x] /\ thread'[x] = thread[x]
  BY <1>1, <1>3, <1>4, Moved DEF PCs
<1>7. \A x \in Tasks : ResourceBelow(x)'
  <2>1. SUFFICES ASSUME NEW x \in Tasks
                 PROVE  ResourceBelow(x)'
    OBVIOUS
  <2>2. ResourceBelow(x) /\ x \in Threads
    BY DEF ReturnInvariant, Threads
  <2>3. QED
    BY <1>5, <1>6, <2>2 DEF ResourceBelow, GuardedPCs
<1>8. QED
  BY <1>1, <1>7, ReturnKept

LEMMA ReturnAtReleaseSpinlock ==
  ASSUME SpinlockInvariant, ReturnInvariant, NEW t \in Threads, NEW s \in Uses[t], ReleaseSpinlock(t, s)
  PROVE  ReturnInvariant'
<1>1. /\ TypeOK /\ GuardsStay /\ UNCHANGED <<scheduler, ResCount>> /\ s \in Spinlocks
      /\ Top(Zone[t]) = s /\ OccupyLevel[t] # None /\ LevelIsInnermost
      /\ thread' = [thread EXCEPT ![t] = [pc |-> "unlock", lock |-> s]]
  BY ReleaseSpinlockHolds, SpinlockConstants DEF SpinlockInvariant, ReleaseSpinlock, ReleaseSpinlockCheck, guards
<1> DEFINE q == Popped(Zone[t])
<1>2. Zone[t] \in Seq(ZoneEntry) /\ Zone \in [Threads -> Seq(ZoneEntry)]
  BY <1>1 DEF TypeOK, ZoneEntry
<1>3. Zone[t] # <<>>
  <2>1. IsLevel(Zone[t], OccupyLevel[t])
    BY <1>1, <1>2, LevelOfAll, LevelIff
  <2>2. QED
    BY <1>1, <1>2, <2>1 DEF IsLevel
<1>4. Zone' = [Zone EXCEPT ![t] = q]
  BY DEF ReleaseSpinlock
<1>5. t \in Tasks => OnResource(q) /\ (WithScheduler(s) => q # <<>> /\ Top(q) = RES_SCHEDULER)
  BY <1>1, <1>2, <1>3, OnResourcePopped DEF ReturnInvariant, ResourceBelow
<1> HIDE DEF q
<1>6. /\ Zone'[t] = q /\ thread'[t].lock = s
      /\ \A x \in Threads \ {t} : Zone'[x] = Zone[x] /\ thread'[x] = thread[x]
  BY <1>1, <1>2, <1>4 DEF TypeOK
<1>7. \A x \in Tasks : ResourceBelow(x)'
  <2>1. SUFFICES ASSUME NEW x \in Tasks
                 PROVE  ResourceBelow(x)'
    OBVIOUS
  <2>2. ResourceBelow(x) /\ x \in Threads
    BY DEF ReturnInvariant, Threads
  <2>3. QED
    BY <1>5, <1>6, <2>2 DEF ResourceBelow
<1>8. QED
  BY <1>1, <1>7, ReturnKept

\* A task guards one lock with the scheduler resource, and occupies the resource for it once.
LEMMA OneHeld ==
  ASSUME SpinlockInvariant, ReturnInvariant, OneSchedulerLock, NEW t \in Tasks,
         NEW s \in Uses[t] \cap Spinlocks, WithScheduler(s)
  PROVE  /\ Held(t) \subseteq {s}
         /\ ResCount[t] = IF s \in Held(t) THEN 1 ELSE 0
<1>1. Held(t) \subseteq Uses[t]
  <2>1. t \in Threads /\ NestedAt(t)
    BY NestedIff DEF SpinlockInvariant, Threads
  <2>2. ASSUME NEW r \in Held(t)
        PROVE  r \in Uses[t]
    BY <2>1, OwnsByLocks DEF Held, NestedAt
  <2>3. QED
    BY <2>2
<1>2. Held(t) \subseteq {s}
  BY <1>1 DEF Held, OneSchedulerLock
<1>3. ResCount[t] = Cardinality(Held(t))
  BY DEF ReturnInvariant, HeldOnce
<1>4. CASE s \in Held(t)
  <2>1. Held(t) = {s}
    BY <1>2, <1>4
  <2>2. QED
    BY <1>2, <1>3, <1>4, <2>1, FS_Singleton
<1>5. CASE s \notin Held(t)
  <2>1. Held(t) = {}
    BY <1>2, <1>5
  <2>2. QED
    BY <1>2, <1>3, <1>5, <2>1, FS_EmptySet
<1>6. QED
  BY <1>4, <1>5

LEMMA ReturnAtGuardGet ==
  ASSUME SpinlockInvariant, GuardInvariant, ReturnInvariant, IsrsLeaveScheduler, OneSchedulerLock,
         NEW t \in Threads, GuardGet(t)
  PROVE  ReturnInvariant'
<1> DEFINE c == CoreOf[t]
<1>1. /\ TypeOK /\ Runs(t) /\ MethodLock(t) /\ c \in Cores
  BY CoresOfThreads DEF SpinlockInvariant, GuardGet, At
<1>2. PICK s \in Uses[t] \cap Spinlocks : s = thread[t].lock /\ GuardIsSet(t, s)
  BY GuardGetHolds
<1>3. PICK p \in {"spin", "once"} : Goto(t, p)
  BY DEF GuardGet
<1>4. /\ thread'[t].pc = p /\ thread'[t].lock = s
      /\ \A x \in Threads \ {t} : thread'[x] = thread[x]
  BY <1>1, <1>2, <1>3, Moved DEF PCs
<1>5. CASE ~ WithScheduler(s)
  <2>1. UNCHANGED <<scheduler, ResCount, Zone>>
    BY <1>1, <1>2, <1>5 DEF MethodLock
  <2>2. \A x \in Threads : Held(x)' = Held(x)
    BY <1>2, <1>5 DEF Held, GuardIsSet
  <2>3. ASSUME NEW x \in Tasks
        PROVE  ResourceBelow(x)' /\ HeldOnce(x)'
    <3>1. x \in Threads /\ ResourceBelow(x) /\ HeldOnce(x)
      BY DEF ReturnInvariant, Threads
    <3>2. ResourceBelow(x)'
      BY <1>4, <1>5, <2>1, <3>1 DEF ResourceBelow
    <3>3. HeldOnce(x)'
      BY <2>1, <2>2, <3>1 DEF HeldOnce
    <3>4. QED
      BY <3>2, <3>3
  <2>4. QED
    BY <2>3 DEF ReturnInvariant
<1>6. CASE WithScheduler(s)
  <2>1. t \in Tasks /\ t \notin Isrs
    BY <1>2, <1>6 DEF IsrsLeaveScheduler, Threads
  <2>2. s \notin Held(t) /\ Held(t) = {} /\ ResCount[t] = 0
    BY <1>2, <1>6, <2>1, OneHeld DEF GuardIsSet, Held
  <2> DEFINE q == Append(Zone[t], RES_SCHEDULER)
  <2>3. /\ Zone' = [Zone EXCEPT ![t] = q]
        /\ ResCount' = [ResCount EXCEPT ![t] = 1]
        /\ scheduler' = [scheduler EXCEPT ![c] = [SaveCount |-> 1, SavePrio |-> RunPrio[t]]]
    BY <1>1, <1>2, <1>6, <2>1, <2>2 DEF MethodLock, GetScheduler
  <2>4. Zone[t] \in Seq(ZoneEntry) /\ RES_SCHEDULER \in ZoneEntry /\ RES_SCHEDULER \notin Spinlocks
    BY <1>1, CoresOfThreads DEF TypeOK, ZoneEntry
  <2>5. q # <<>> /\ Top(q) = RES_SCHEDULER
    BY <2>4, Pushed
  <2>6. OnResource(q)
    BY <2>1, <2>4, OnResourcePushed DEF ReturnInvariant, ResourceBelow
  <2> HIDE DEF q
  <2>7. /\ Zone'[t] = q /\ ResCount'[t] = 1 /\ scheduler'[c].SaveCount = 1
        /\ \A x \in Threads \ {t} : Zone'[x] = Zone[x]
        /\ \A x \in Tasks \ {t} : ResCount'[x] = ResCount[x]
        /\ \A d \in Cores \ {c} : scheduler'[d] = scheduler[d]
    BY <1>1, <2>1, <2>3 DEF TypeOK
  <2>8. Held(t)' = {s} /\ \A x \in Threads \ {t} : Held(x)' = Held(x)
    BY <1>2, <1>6, <2>2 DEF Held, GuardIsSet
  <2>9. ResourceBelow(t)' /\ HeldOnce(t)'
    <3>1. Cardinality(Held(t)') = 1
      BY <2>8, FS_Singleton
    <3>2. QED
      BY <2>5, <2>6, <2>7, <3>1 DEF ResourceBelow, HeldOnce
  <2>10. ASSUME NEW x \in Tasks, x # t
         PROVE  ResourceBelow(x)' /\ HeldOnce(x)'
    <3>1. /\ x \in Threads /\ ResourceBelow(x) /\ HeldOnce(x) /\ CoreOf[x] \in Cores
      BY <1>1, TaskFacts DEF ReturnInvariant
    <3>2. ResourceBelow(x)'
      BY <1>4, <2>7, <2>10, <3>1 DEF ResourceBelow
    <3>3. CoreOf[x] = c => ResCount[x] = 0
      BY <1>1, <2>1, <2>10, OthersAtOwn
    <3>4. HeldOnce(x)'
      BY <2>7, <2>8, <2>10, <3>1, <3>3 DEF HeldOnce
    <3>5. QED
      BY <3>2, <3>4
  <2>11. QED
    BY <2>9, <2>10 DEF ReturnInvariant
<1>7. QED
  BY <1>5, <1>6

LEMMA ReturnAtUnguard ==
  ASSUME SpinlockInvariant, GuardInvariant, ReturnInvariant, IsrsLeaveScheduler, OneSchedulerLock,
         NEW t \in Threads, Unguard(t)
  PROVE  ReturnInvariant'
<1> DEFINE c == CoreOf[t]
<1>1. /\ TypeOK /\ Runs(t) /\ MethodRelease(t) /\ c \in Cores /\ Goto(t, "run") /\ thread[t].pc = "unguard"
  BY CoresOfThreads DEF SpinlockInvariant, Unguard, At
<1>2. PICK s \in Uses[t] \cap Spinlocks : s = thread[t].lock /\ GuardIsRemoved(t, s)
  BY UnguardHolds
<1>3. /\ thread'[t].pc = "run"
      /\ \A x \in Threads \ {t} : thread'[x] = thread[x]
  BY <1>1, Moved DEF PCs
<1>4. CASE ~ WithScheduler(s)
  <2>1. UNCHANGED <<scheduler, ResCount, Zone>>
    BY <1>1, <1>2, <1>4 DEF MethodRelease
  <2>2. \A x \in Threads : Held(x)' = Held(x)
    BY <1>2, <1>4 DEF Held, GuardIsRemoved
  <2>3. ASSUME NEW x \in Tasks
        PROVE  ResourceBelow(x)' /\ HeldOnce(x)'
    <3>1. x \in Threads /\ ResourceBelow(x) /\ HeldOnce(x)
      BY DEF ReturnInvariant, Threads
    <3>2. ResourceBelow(x)'
      BY <1>3, <2>1, <3>1 DEF ResourceBelow, GuardedPCs
    <3>3. HeldOnce(x)'
      BY <2>1, <2>2, <3>1 DEF HeldOnce
    <3>4. QED
      BY <3>2, <3>3
  <2>4. QED
    BY <2>3 DEF ReturnInvariant
<1>5. CASE WithScheduler(s)
  <2>1. t \in Tasks /\ t \notin Isrs /\ t \in Threads /\ t # None
    BY <1>1, <1>2, <1>5, CoresOfThreads DEF IsrsLeaveScheduler, Threads
  <2>2. s \in Held(t) /\ Held(t) = {s} /\ ResCount[t] = 1
    <3>1. s \in Held(t)
      BY <1>2, <1>5 DEF GuardIsRemoved, Held
    <3>2. QED
      BY <1>2, <1>5, <2>1, <3>1, OneHeld
  <2>3. scheduler[c].SaveCount = 1 /\ Zone[t] # <<>> /\ Top(Zone[t]) = RES_SCHEDULER /\ OnResource(Zone[t])
    BY <1>1, <1>2, <1>5, <2>1, <2>2 DEF ReturnInvariant, HeldOnce, ResourceBelow, GuardedPCs
  <2> DEFINE q == Popped(Zone[t])
  <2>4. RunningTask(c) = t /\ ReleaseScheduler(c)
    BY <1>1, <1>2, <1>5, <2>1, RunningTaskRuns DEF MethodRelease
  <2>5. /\ Zone' = [Zone EXCEPT ![t] = q]
        /\ ResCount' = [ResCount EXCEPT ![t] = 0]
        /\ scheduler' = [scheduler EXCEPT ![c] = [SaveCount |-> 0, SavePrio |-> 0]]
    BY <2>1, <2>2, <2>3, <2>4 DEF ReleaseScheduler
  <2>6. OnResource(q)
    <3>1. Zone[t] \in Seq(ZoneEntry)
      BY <1>1, CoresOfThreads
    <3>2. QED
      BY <2>3, <3>1, OnResourcePopped
  <2> HIDE DEF q
  <2>7. /\ Zone'[t] = q /\ ResCount'[t] = 0
        /\ \A x \in Threads \ {t} : Zone'[x] = Zone[x]
        /\ \A x \in Tasks \ {t} : ResCount'[x] = ResCount[x]
        /\ \A d \in Cores \ {c} : scheduler'[d] = scheduler[d]
    BY <1>1, <2>1, <2>5 DEF TypeOK
  <2>8. Held(t)' = {} /\ \A x \in Threads \ {t} : Held(x)' = Held(x)
    BY <1>2, <1>5, <2>2 DEF Held, GuardIsRemoved
  <2>9. ResourceBelow(t)' /\ HeldOnce(t)'
    <3>1. Cardinality(Held(t)') = 0
      BY <2>8, FS_EmptySet
    <3>2. QED
      BY <1>3, <2>6, <2>7, <3>1 DEF ResourceBelow, HeldOnce, GuardedPCs
  <2>10. ASSUME NEW x \in Tasks, x # t
         PROVE  ResourceBelow(x)' /\ HeldOnce(x)'
    <3>1. /\ x \in Threads /\ ResourceBelow(x) /\ HeldOnce(x) /\ CoreOf[x] \in Cores
      BY <1>1, TaskFacts DEF ReturnInvariant
    <3>2. ResourceBelow(x)'
      BY <1>3, <2>7, <2>10, <3>1 DEF ResourceBelow
    <3>3. CoreOf[x] = c => ResCount[x] = 0
      BY <1>1, <2>1, <2>10, OthersAtOwn
    <3>4. HeldOnce(x)'
      BY <2>7, <2>8, <2>10, <3>1, <3>3 DEF HeldOnce
    <3>5. QED
      BY <3>2, <3>4
  <2>11. QED
    BY <2>9, <2>10 DEF ReturnInvariant
<1>6. QED
  BY <1>4, <1>5

LEMMA ReturnAtInit == Init => ReturnInvariant
<1> SUFFICES ASSUME Init, NEW t \in Tasks
             PROVE  ResourceBelow(t) /\ HeldOnce(t)
  BY DEF ReturnInvariant
<1>1. Zone[t] = <<>> /\ Len(Zone[t]) = 0 /\ thread[t].pc = "run" /\ ResCount[t] = 0
  BY DEF Init, Threads
<1>2. ResourceBelow(t)
  BY <1>1 DEF ResourceBelow, OnResource, GuardedPCs
<1>3. Held(t) = {}
  BY <1>1 DEF Held, Guarded, Owns, In
<1>4. QED
  BY <1>1, <1>2, <1>3, FS_EmptySet DEF HeldOnce

LEMMA ReturnHolds ==
  ASSUME IsrsLeaveScheduler, OneSchedulerLock
  PROVE  SpinlockInvariant /\ GuardInvariant /\ ReturnInvariant /\ [Next]_vars => ReturnInvariant'
<1> SUFFICES ASSUME SpinlockInvariant, GuardInvariant, ReturnInvariant, [Next]_vars
             PROVE  ReturnInvariant'
  OBVIOUS
<1>1. ASSUME UNCHANGED <<locks, guards, thread>>
      PROVE  ReturnInvariant'
  <2>1. UNCHANGED <<Zone, thread, scheduler, ResCount>>
    BY <1>1 DEF locks, guards
  <2>2. GuardsStay
    BY <1>1, ActiveOnly DEF GuardsStay
  <2>3. \A x \in Tasks : ResourceBelow(x)'
    BY <2>1 DEF ReturnInvariant, ResourceBelow
  <2>4. QED
    BY <2>1, <2>2, <2>3, ReturnKept
<1>2. CASE Next
  <2>1. PICK t \in Threads :
          \/ Start(t) \/ Finish(t)
          \/ \E s \in Uses[t] : GetSpinlock(t, s) \/ ReleaseSpinlock(t, s)
          \/ GuardGet(t) \/ CmpSwap(t) \/ TryFails(t) \/ GetCBModify(t)
          \/ Unlock(t) \/ Unguard(t)
    BY <1>2 DEF Next
  <2>2. CASE Start(t) \/ Finish(t)
    BY <1>1, <2>2 DEF Start, Finish
  <2>3. QED
    BY <2>1, <2>2, ReturnAtOwnSteps, ReturnAtGetCBModify, ReturnAtReleaseSpinlock, ReturnAtGuardGet,
       ReturnAtUnguard
<1>3. CASE UNCHANGED vars
  BY <1>1, <1>3 DEF vars
<1>4. QED
  BY <1>2, <1>3

\* Where no interrupt takes a lock with the scheduler resource, and no task more than one: a task that
\* has given its locks back is at its own priority and has not kept the resource.
THEOREM SchedulerComesBack ==
  ASSUME IsrsLeaveScheduler, OneSchedulerLock
  PROVE  Spec => []SchedulerIsReturned
<1>1. Init => SpinlockInvariant /\ GuardInvariant /\ ReturnInvariant
  BY InitHolds, GuardsAtInit, ReturnAtInit
<1>2. /\ SpinlockInvariant /\ GuardInvariant /\ ReturnInvariant /\ [Next]_vars
           => SpinlockInvariant' /\ GuardInvariant' /\ ReturnInvariant'
  BY StepHolds, GuardsHold, ReturnHolds
<1>3. ASSUME GuardInvariant, ReturnInvariant
      PROVE  SchedulerIsReturned
  <2>1. SUFFICES ASSUME NEW t \in Tasks, thread[t].pc = "run", In(Zone[t]) \cap Spinlocks = {}
                 PROVE  ResCount[t] = 0 /\ RunPrio[t] = Prio[t]
    BY DEF SchedulerIsReturned
  <2>2. Held(t) = {}
    BY <2>1 DEF Held, Guarded, Owns
  <2>3. ResCount[t] = 0
    BY <1>3, <2>2, FS_EmptySet DEF ReturnInvariant, HeldOnce
  <2>4. QED
    BY <1>3, <2>3 DEF GuardInvariant, RaisedAt
<1>4. GuardInvariant /\ ReturnInvariant => SchedulerIsReturned
  BY <1>3
<1>5. QED
  BY <1>1, <1>2, <1>4, PTL DEF Spec

-----------------------------------------------------------------------------
(* No circle of waiting threads *)

\* Of the threads of S that have started on a core, one is above the others.
LEMMA Topmost ==
  ASSUME SpinlockInvariant, NEW S \in SUBSET Threads, NEW u \in S, u \in In(active[CoreOf[u]])
  PROVE  \E y \in S : /\ CoreOf[y] = CoreOf[u]
                      /\ y = u \/ Below(u, y)
                      /\ \A v \in S : ~ Below(y, v)
<1> DEFINE c == CoreOf[u]
           q == active[c]
           n == Len(q)
           I == {i \in 1 .. n : q[i] \in S}
<1>1. TypeOK /\ OwnersAreActive /\ c \in Cores /\ q \in Seq(Threads) /\ n \in Nat
  BY CoresOfThreads DEF SpinlockInvariant
<1>2. PICK k \in I : q[k] = u
  BY DEF In
<1>3. PICK m \in I : \A i \in I : i <= m
  <2>1. IsFiniteSet(1 .. n)
    BY <1>1, FS_Interval
  <2>2. IsFiniteSet(I)
    BY <2>1, FS_Subset
  <2>3. I \in SUBSET Nat /\ I # {}
    BY <1>2
  <2> HIDE DEF I
  <2>4. QED
    BY <2>2, <2>3, GreatestOf
<1>4. PICK y \in S : y = q[m]
  OBVIOUS
<1>5. CoreOf[y] = c
  BY <1>1, <1>4 DEF OwnersAreActive
<1>6. y = u \/ Below(u, y)
  <2>1. CASE k = m
    BY <1>2, <1>4, <2>1
  <2>2. CASE k # m
    <3>1. k < m
      BY <1>1, <1>2, <1>3, <2>2
    <3>2. QED
      BY <1>2, <1>4, <3>1 DEF Below
  <2>3. QED
    BY <2>1, <2>2
<1>7. ASSUME NEW v \in S, Below(y, v)
      PROVE  FALSE
  <2>1. PICK i, j \in 1 .. n : i < j /\ q[i] = y /\ q[j] = v
    BY <1>5, <1>7 DEF Below
  <2>2. i = m
    BY <1>1, <1>4, <2>1 DEF OwnersAreActive
  <2>3. j <= m
    BY <1>3, <1>7, <2>1
  <2>4. QED
    BY <1>1, <2>1, <2>2, <2>3
<1>8. QED
  BY <1>5, <1>6, <1>7

\* Where u owns the lock x spins for, and y is u or above it and spins: y spins for a later lock.
LEMMA LaterLock ==
  ASSUME SpinlockInvariant, GuardInvariant, PreemptionFollowsOrder,
         NEW x \in Threads, NEW u \in Threads, NEW y \in Threads,
         thread[x].pc = "spin", Owns(u, thread[x].lock),
         thread[y].pc = "spin", CoreOf[y] = CoreOf[u], y = u \/ Below(u, y)
  PROVE  SpinlockOrder[thread[x].lock] < SpinlockOrder[thread[y].lock]
<1>1. PICK r \in Spinlocks : r = thread[x].lock
  BY ServiceLock
<1>2. PICK l \in Spinlocks : l = thread[y].lock /\ l \in Uses[y] /\ \A s \in Locks(y) : SpinlockOrder[s] < SpinlockOrder[l]
  BY ServiceLock
<1>3. Owns(u, r) /\ Guarded(u, r) /\ Guarded(y, l)
  BY <1>1, <1>2 DEF Guarded
<1>4. CASE y = u
  BY <1>1, <1>2, <1>3, <1>4, OwnsByLocks
<1>5. CASE y # u
  <2>1. Below(u, y)
    BY <1>5
  <2>2. MayPreempt(y, u) /\ Admits(r, y)
    BY <1>3, <2>1 DEF GuardInvariant, Stacked, HolderKeepsCore, Admits
  <2>3. r \in Uses[u]
    <3>1. NestedAt(u)
      BY NestedIff DEF SpinlockInvariant
    <3>2. QED
      BY <1>3, <3>1, OwnsByLocks DEF NestedAt
  <2>4. r # l
    BY <1>3, <1>5 DEF SpinlockInvariant, Exclusive
  <2>5. r = l \/ SpinlockOrder[r] < SpinlockOrder[l]
    BY <1>2, <1>5, <2>2, <2>3 DEF PreemptionFollowsOrder
  <2>6. QED
    BY <1>1, <1>2, <2>4, <2>5
<1>6. QED
  BY <1>4, <1>5

LEMMA OrderExcludesCircles ==
  ASSUME SpinlockInvariant, GuardInvariant, PreemptionFollowsOrder
  PROVE  NoCircularWait
<1>1. SUFFICES ASSUME NEW S \in SUBSET Threads, S # {},
                      \A t \in S : \E u \in S : WaitsFor(t, u)
               PROVE  FALSE
  BY DEF NoCircularWait
<1> DEFINE X == {x \in S : \A v \in S : ~ Below(x, v)}
           order(x) == SpinlockOrder[thread[x].lock]
           D == {order(x) : x \in X}
<1>2. \A x \in X : thread[x].pc = "spin" /\ \E u \in S : Owns(u, thread[x].lock)
  BY <1>1 DEF WaitsFor
<1>3. ASSUME NEW u \in S
      PROVE  \E y \in X : CoreOf[y] = CoreOf[u] /\ (y = u \/ Below(u, y))
  <2>1. u \in In(active[CoreOf[u]])
    <3>1. PICK w \in S : WaitsFor(u, w)
      BY <1>1
    <3>2. CASE Below(u, w)
      BY <3>2 DEF Below, In
    <3>3. CASE thread[u].pc = "spin"
      BY <3>3 DEF SpinlockInvariant, OwnersAreActive
    <3>4. QED
      BY <3>1, <3>2, <3>3 DEF WaitsFor
  <2>2. QED
    BY <2>1, Topmost
<1>4. ASSUME NEW x \in X
      PROVE  \E y \in X : order(x) < order(y)
  <2>1. PICK u \in S : Owns(u, thread[x].lock)
    BY <1>2
  <2>2. PICK y \in X : CoreOf[y] = CoreOf[u] /\ (y = u \/ Below(u, y))
    BY <1>3
  <2>3. QED
    BY <1>2, <2>1, <2>2, LaterLock
<1>5. \A x \in X : thread[x].lock \in Spinlocks /\ order(x) \in Nat
  <2>1. \A x \in X : thread[x].lock \in Spinlocks
    BY <1>2, ServiceLock
  <2>2. QED
    BY <2>1, SpinlockConstants
<1>6. IsFiniteSet(D)
  <2>1. IsFiniteSet({SpinlockOrder[s] : s \in Spinlocks})
    BY SpinlockConstants, ImageIsFinite
  <2>2. D \subseteq {SpinlockOrder[s] : s \in Spinlocks}
    BY <1>5
  <2>3. QED
    BY <2>1, <2>2, FS_Subset
<1>7. D \in SUBSET Nat /\ D # {}
  <2>1. PICK t \in S : TRUE
    BY <1>1
  <2>2. PICK y \in X : TRUE
    BY <1>3
  <2>3. order(y) \in D
    BY <2>2
  <2>4. D \subseteq Nat
    BY <1>5
  <2>5. QED
    BY <2>3, <2>4
<1>8. PICK m \in D : \A d \in D : d <= m
  <2> HIDE DEF D
  <2>1. QED
    BY <1>6, <1>7, GreatestOf
<1>9. PICK x \in X : m = order(x)
  BY <1>8
<1>10. PICK y \in X : order(x) < order(y)
  BY <1>4
<1>11. order(y) <= order(x) /\ order(x) \in Nat /\ order(y) \in Nat
  BY <1>5, <1>8, <1>9
<1>12. QED
  BY <1>10, <1>11

\* Where in addition the threads that can preempt the owner of a lock take later locks only: no
\* set of threads waits for each other, through locks across the cores and preemption within them.
THEOREM NobodyWaitsInACircle ==
  ASSUME IsrsLeaveScheduler, PreemptionFollowsOrder
  PROVE  Spec => []NoCircularWait
<1>1. Init => SpinlockInvariant /\ GuardInvariant
  BY InitHolds, GuardsAtInit
<1>2. SpinlockInvariant /\ GuardInvariant /\ [Next]_vars => SpinlockInvariant' /\ GuardInvariant'
  BY StepHolds, GuardsHold
<1>3. SpinlockInvariant /\ GuardInvariant => NoCircularWait
  BY OrderExcludesCircles
<1>4. QED
  BY <1>1, <1>2, <1>3, PTL DEF Spec
=============================================================================
