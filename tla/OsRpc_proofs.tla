---------------------------- MODULE OsRpc_proofs ----------------------------
(***************************************************************************)
(* Theorems about remote service calls: the pool of every core that runs is *)
(* in order, nodes, callers and cores agree on the calls, and the calls     *)
(* implement OsRpcSpec, for any number of cores, callers, calls and nodes,  *)
(* where a core gets synchronous calls or asynchronous ones, and one that   *)
(* may stop has a node for each of its synchronous callers.                 *)
(***************************************************************************)
EXTENDS OsRpc, SequenceTheorems, FiniteSetTheorems, WellFoundedInduction, TLAPS

-----------------------------------------------------------------------------
(* The lists *)

\* What holds of 0 and is handed on up to n holds of every number up to n.
LEMMA UpTo ==
  ASSUME NEW n \in Nat, NEW S, 0 \in S, \A k \in 0 .. n - 1 : k \in S => k + 1 \in S
  PROVE  0 .. n \subseteq S
<1> DEFINE T == {k \in 0 .. n : k \notin S}
<1>1. SUFFICES ASSUME T # {}
               PROVE  FALSE
  OBVIOUS
<1>2. PICK k \in T : \A y \in T : ~ (<<y, k>> \in OpToRel(<, Nat))
  <2>1. T \subseteq Nat OBVIOUS
  <2>2. QED BY <1>1, <2>1, NatLessThanWellFounded, WFMin
<1>3. k # 0 /\ k \in 1 .. n /\ k - 1 \in 0 .. n - 1 /\ (k - 1) + 1 = k OBVIOUS
<1>4. k - 1 \in T BY <1>3
<1>5. <<k - 1, k>> \in OpToRel(<, Nat) BY <1>3 DEF OpToRel
<1>6. QED BY <1>2, <1>4, <1>5

LEMMA NodesAre ==
  /\ OS_RPC_MAX_NODE \in Nat \ {0} /\ OS_RPC_INVALID_TRAIN \in Nat
  /\ Nodes \subseteq Nat /\ OS_RPC_INVALID_TRAIN \notin Nodes /\ Trains = Nodes \cup {OS_RPC_INVALID_TRAIN}
BY RpcConstants DEF Nodes, Trains, OS_RPC_INVALID_TRAIN

Elements(s) == {s[k] : k \in 1 .. Len(s)}

QueType == [Head : Trains, Tail : Trains]
Station == [Nodes -> NodeType]

\* s are the nodes of a list in their order.
IsList(q, station, s) ==
  /\ s \in Seq(Nodes)
  /\ \A j, k \in 1 .. Len(s) : s[j] = s[k] => j = k
  /\ q.Head = IF s = <<>> THEN OS_RPC_INVALID_TRAIN ELSE s[1]
  /\ q.Tail = IF s = <<>> THEN OS_RPC_INVALID_TRAIN ELSE s[Len(s)]
  /\ \A k \in 1 .. Len(s) : station[s[k]].next = IF k = Len(s) THEN OS_RPC_INVALID_TRAIN ELSE s[k + 1]

LEMMA ListIsShort ==
  ASSUME NEW q, NEW station, NEW s, IsList(q, station, s)
  PROVE  Len(s) <= OS_RPC_MAX_NODE
<1> DEFINE f == [k \in 1 .. Len(s) |-> s[k]]
<1>1. Len(s) \in Nat /\ \A k \in 1 .. Len(s) : s[k] \in Nodes BY DEF IsList
<1>2. f \in [1 .. Len(s) -> Nodes] /\ \A j, k \in 1 .. Len(s) : f[j] = f[k] => j = k
  BY <1>1 DEF IsList
<1>3. IsFiniteSet(Nodes) /\ Cardinality(Nodes) = OS_RPC_MAX_NODE BY FS_Interval, NodesAre DEF Nodes
<1>4. IsFiniteSet(1 .. Len(s)) /\ Cardinality(1 .. Len(s)) = Len(s) BY <1>1, FS_Interval
<1> HIDE DEF f
<1>5. f \in Injection(1 .. Len(s), Nodes) BY <1>2 DEF Injection, IsInjective
<1>6. QED BY <1>3, <1>4, <1>5, FS_Injection

\* What a list reaches from its head in a number of steps
Reached(q, station) ==
  LET r[n \in 0 .. OS_RPC_MAX_NODE] ==
        IF n = 0 THEN {q.Head} \ {OS_RPC_INVALID_TRAIN}
        ELSE r[n - 1] \cup ({station[i].next : i \in r[n - 1]} \ {OS_RPC_INVALID_TRAIN})
  IN  r

FirstOf(s, n) == {s[k] : k \in {j \in 1 .. Len(s) : j <= n}}

LEMMA NextOf ==
  ASSUME NEW q, NEW station, NEW s, IsList(q, station, s), NEW n \in Nat, n # 0
  PROVE  FirstOf(s, n) \cup ({station[i].next : i \in FirstOf(s, n)} \ {OS_RPC_INVALID_TRAIN})
         = FirstOf(s, n + 1)
<1> DEFINE N == {station[i].next : i \in FirstOf(s, n)} \ {OS_RPC_INVALID_TRAIN}
<1>1. Len(s) \in Nat /\ \A k \in 1 .. Len(s) : s[k] \in Nodes BY DEF IsList
<1>2. ASSUME NEW x \in N
      PROVE  x \in FirstOf(s, n + 1)
  <2>1. PICK k \in 1 .. Len(s) : k <= n /\ x = station[s[k]].next /\ x # OS_RPC_INVALID_TRAIN
    BY DEF FirstOf
  <2>2. k # Len(s) /\ x = s[k + 1] BY <2>1 DEF IsList
  <2>3. k + 1 \in 1 .. Len(s) /\ k + 1 <= n + 1 BY <1>1, <2>1, <2>2
  <2>4. QED BY <2>2, <2>3 DEF FirstOf
<1>3. FirstOf(s, n) \subseteq FirstOf(s, n + 1) BY <1>1 DEF FirstOf
<1>4. ASSUME NEW x \in FirstOf(s, n + 1), x \notin FirstOf(s, n)
      PROVE  x \in N
  <2>1. PICK k \in 1 .. Len(s) : k <= n + 1 /\ x = s[k] BY DEF FirstOf
  <2>2. ~ (k <= n) BY <1>4, <2>1 DEF FirstOf
  <2>3. k - 1 \in 1 .. Len(s) /\ k - 1 <= n /\ k - 1 # Len(s) /\ (k - 1) + 1 = k BY <1>1, <2>1, <2>2
  <2>4. station[s[k - 1]].next = s[k] BY <2>3 DEF IsList
  <2>5. s[k - 1] \in FirstOf(s, n) BY <2>3 DEF FirstOf
  <2>6. x # OS_RPC_INVALID_TRAIN BY <1>1, <2>1, NodesAre
  <2>7. QED BY <2>1, <2>4, <2>5, <2>6
<1>5. QED BY <1>2, <1>3, <1>4

LEMMA ListIs ==
  ASSUME NEW q, NEW station, NEW s, IsList(q, station, s)
  PROVE  ListNodes(q, station) = Elements(s)
<1> DEFINE m == OS_RPC_MAX_NODE
           Steps(w) == [n \in 0 .. m |->
                          IF n = 0 THEN {q.Head} \ {OS_RPC_INVALID_TRAIN}
                          ELSE w[n - 1] \cup ({station[i].next : i \in w[n - 1]} \ {OS_RPC_INVALID_TRAIN})]
           first == [n \in 0 .. m |-> FirstOf(s, n + 1)]
           R == Reached(q, station)
<1>1. m \in Nat \ {0} /\ Len(s) \in Nat /\ Len(s) <= m /\ \A k \in 1 .. Len(s) : s[k] \in Nodes
  BY NodesAre, ListIsShort DEF IsList
<1>2. FirstOf(s, 1) = {q.Head} \ {OS_RPC_INVALID_TRAIN} BY <1>1, NodesAre DEF IsList, FirstOf
<1>3. first = Steps(first)
  <2>1. ASSUME NEW n \in 0 .. m
        PROVE  first[n] = Steps(first)[n]
    <3>1. CASE n = 0 BY <1>1, <1>2, <3>1
    <3>2. CASE n # 0
      <4>1. n \in Nat /\ n - 1 \in 0 .. m /\ (n - 1) + 1 = n BY <1>1, <3>2
      <4>2. first[n - 1] = FirstOf(s, n) /\ first[n] = FirstOf(s, n + 1) BY <4>1
      <4>3. QED BY <3>2, <4>1, <4>2, NextOf
    <3>3. QED BY <3>1, <3>2
  <2>2. QED BY <2>1
<1>4. R = Steps(R) BY <1>3 DEF Reached
<1> DEFINE S == {n \in 0 .. m : R[n] = first[n]}
<1>5. 0 \in S
  <2>1. 0 \in 0 .. m BY <1>1
  <2> HIDE DEF R, first
  <2>2. R[0] = {q.Head} \ {OS_RPC_INVALID_TRAIN} /\ first[0] = {q.Head} \ {OS_RPC_INVALID_TRAIN}
    BY <1>3, <1>4, <2>1
  <2>3. QED BY <2>1, <2>2
<1>6. ASSUME NEW k \in 0 .. m - 1, k \in S
      PROVE  k + 1 \in S
  <2>1. k + 1 \in 0 .. m /\ k + 1 # 0 /\ (k + 1) - 1 = k BY <1>1
  <2> HIDE DEF R, first
  <2>2. /\ R[k + 1] = R[k] \cup ({station[i].next : i \in R[k]} \ {OS_RPC_INVALID_TRAIN})
        /\ first[k + 1] = first[k] \cup ({station[i].next : i \in first[k]} \ {OS_RPC_INVALID_TRAIN})
    BY <1>3, <1>4, <2>1
  <2>3. QED BY <1>6, <2>1, <2>2
<1>7. m \in S
  <2> HIDE DEF S
  <2>1. 0 .. m \subseteq S BY <1>1, <1>5, <1>6, UpTo
  <2>2. QED BY <1>1, <2>1
<1>8. ListNodes(q, station) = R[m] BY DEF ListNodes, Reached
<1>9. first[m] = Elements(s) BY <1>1 DEF FirstOf, Elements
<1>10. QED BY <1>7, <1>8, <1>9

\* A list operation changes links only, and those of some nodes.
Relinked(station, new, changed) ==
  /\ new \in Station
  /\ \A i \in Nodes : /\ new[i].RpcSync = station[i].RpcSync
                      /\ new[i].ProcState = station[i].ProcState
                      /\ new[i].RetValue = station[i].RetValue
                      /\ new[i].call = station[i].call
                      /\ i \notin changed => new[i].next = station[i].next

LEMMA LinkedIs ==
  ASSUME NEW station \in Station, NEW i \in Nodes, NEW to \in Trains
  PROVE  LET new == [station EXCEPT ![i].next = to]
         IN  Relinked(station, new, {i}) /\ new[i].next = to
<1> DEFINE n == [station[i] EXCEPT !.next = to]
           new == [station EXCEPT ![i] = n]
<1>1. station[i] \in NodeType BY DEF Station
<1>2. /\ n \in NodeType /\ n.next = to /\ n.RpcSync = station[i].RpcSync /\ n.ProcState = station[i].ProcState
      /\ n.RetValue = station[i].RetValue /\ n.call = station[i].call
  BY <1>1 DEF NodeType
<1>3. [station EXCEPT ![i].next = to] = new OBVIOUS
<1> HIDE DEF n
<1>4. new \in Station /\ new[i] = n /\ \A j \in Nodes : j # i => new[j] = station[j]
  BY <1>2 DEF Station
<1> HIDE DEF new
<1>5. Relinked(station, new, {i}) /\ new[i].next = to BY <1>2, <1>4 DEF Relinked
<1>6. QED BY <1>3, <1>5

LEMMA OtherLinks ==
  ASSUME NEW q, NEW station, NEW new, NEW s, IsList(q, station, s), NEW changed,
         Relinked(station, new, changed), Elements(s) \cap changed = {}
  PROVE  IsList(q, new, s)
BY DEF IsList, Elements, Relinked

\* Whatever the lists are like, after a core has stopped
LEMMA GetTypes ==
  ASSUME NEW q \in QueType, NEW station \in Station
  PROVE  LET got == RpcGetService(q, station)
         IN  /\ got.que \in QueType /\ got.station \in Station /\ got.node \in Trains
             /\ Relinked(station, got.station, Nodes)
<1> DEFINE got == RpcGetService(q, station)
           first == q.Head
           next == station[first].next
<1>1. first \in Trains /\ station \in Station BY DEF QueType
<1>2. Empty \in QueType BY NodesAre DEF Empty, QueType
<1>3. CASE first = OS_RPC_INVALID_TRAIN BY <1>3, <1>1 DEF RpcGetService, Relinked
<1>4. CASE first # OS_RPC_INVALID_TRAIN /\ next = OS_RPC_INVALID_TRAIN
  BY <1>4, <1>1, <1>2 DEF RpcGetService, Relinked
<1>5. CASE first # OS_RPC_INVALID_TRAIN /\ next # OS_RPC_INVALID_TRAIN
  <2>1. got = [que |-> [q EXCEPT !.Head = next], station |-> [station EXCEPT ![first].next = OS_RPC_INVALID_TRAIN],
               node |-> first]
    BY <1>5 DEF RpcGetService
  <2>2. first \in Nodes BY <1>1, <1>5, NodesAre
  <2>3. next \in Trains BY <2>2 DEF Station, NodeType
  <2>4. [q EXCEPT !.Head = next] \in QueType BY <2>3 DEF QueType
  <2>5. OS_RPC_INVALID_TRAIN \in Trains BY NodesAre
  <2> DEFINE new == [station EXCEPT ![first].next = OS_RPC_INVALID_TRAIN]
  <2> HIDE DEF new
  <2>6. Relinked(station, new, {first}) BY <2>2, <2>5, LinkedIs DEF new
  <2>7. Relinked(station, new, Nodes) /\ new \in Station BY <2>2, <2>6 DEF Relinked
  <2> HIDE DEF next, first
  <2>8. got.que \in QueType /\ got.station = new /\ got.node = first BY <2>1, <2>4 DEF new
  <2>9. QED BY <1>1, <2>7, <2>8
<1>6. QED BY <1>3, <1>4, <1>5

LEMMA TailOf ==
  ASSUME NEW s \in Seq(Nodes), s # <<>>
  PROVE  /\ Tail(s) \in Seq(Nodes) /\ Len(Tail(s)) = Len(s) - 1 /\ Len(s) \in Nat \ {0}
         /\ \A k \in 1 .. Len(Tail(s)) : k + 1 \in 1 .. Len(s) /\ Tail(s)[k] = s[k + 1]
         /\ Tail(s) = <<>> <=> Len(s) = 1
<1>1. Len(s) \in Nat \ {0} OBVIOUS
<1>2. Tail(s) \in Seq(Nodes) /\ Len(Tail(s)) = Len(s) - 1 OBVIOUS
<1>3. \A k \in 1 .. Len(Tail(s)) : k + 1 \in 1 .. Len(s) /\ Tail(s)[k] = s[k + 1] BY <1>1, <1>2
<1> DEFINE u == Tail(s)
<1>4. u \in Seq(Nodes) /\ Len(u) = Len(s) - 1 BY <1>2
<1> HIDE DEF u
<1>5. u = <<>> <=> Len(u) = 0 BY <1>4, EmptySeq
<1>6. u = <<>> <=> Len(s) = 1 BY <1>1, <1>4, <1>5
<1>7. QED BY <1>1, <1>2, <1>3, <1>6 DEF u

\* Of a list the first node is taken.
GetsFirst(q, station, s) ==
  LET got == RpcGetService(q, station) IN
  /\ s = <<>> => got.node = OS_RPC_INVALID_TRAIN /\ got.que = q /\ got.station = station
  /\ s # <<>> => /\ got.node = s[1] /\ s[1] \in Elements(s) /\ s[1] \in Nodes
                 /\ IsList(got.que, got.station, Tail(s))
                 /\ Elements(Tail(s)) = Elements(s) \ {s[1]}
                 /\ Relinked(station, got.station, {s[1]}) /\ got.station[s[1]].next = OS_RPC_INVALID_TRAIN

LEMMA GetIs ==
  ASSUME NEW q \in QueType, NEW station \in Station, NEW s, IsList(q, station, s)
  PROVE  GetsFirst(q, station, s)
<1> DEFINE got == RpcGetService(q, station)
           u == Tail(s)
<1>1. CASE s = <<>> BY <1>1 DEF IsList, RpcGetService, GetsFirst
<1>2. CASE s # <<>>
  <2>1. /\ u \in Seq(Nodes) /\ Len(u) = Len(s) - 1 /\ Len(s) \in Nat \ {0}
        /\ \A k \in 1 .. Len(u) : k + 1 \in 1 .. Len(s) /\ u[k] = s[k + 1]
        /\ u = <<>> <=> Len(s) = 1
    BY <1>2, TailOf DEF IsList
  <2>2. s[1] \in Nodes /\ s[1] \in Elements(s) /\ q.Head = s[1] /\ q.Tail = s[Len(s)]
        /\ \A k \in 1 .. Len(s) : s[k] \in Nodes
    <3>1. 1 \in 1 .. Len(s) BY <2>1
    <3>2. s \in Seq(Nodes) BY DEF IsList
    <3>3. \A k \in 1 .. Len(s) : s[k] \in Nodes BY <3>2
    <3>4. q.Head = s[1] /\ q.Tail = s[Len(s)] BY <1>2 DEF IsList
    <3>5. QED BY <3>1, <3>3, <3>4 DEF Elements
  <2>3. s[1] # OS_RPC_INVALID_TRAIN BY <2>2, NodesAre
  <2>4. Elements(u) = Elements(s) \ {s[1]}
    <3>1. ASSUME NEW x \in Elements(u)
          PROVE  x \in Elements(s) \ {s[1]}
      <4>1. PICK k \in 1 .. Len(u) : x = u[k] BY DEF Elements
      <4>2. k + 1 \in 1 .. Len(s) /\ x = s[k + 1] /\ k + 1 # 1 /\ 1 \in 1 .. Len(s) BY <2>1, <4>1
      <4>3. QED BY <4>2 DEF IsList, Elements
    <3>2. ASSUME NEW x \in Elements(s) \ {s[1]}
          PROVE  x \in Elements(u)
      <4>1. PICK k \in 1 .. Len(s) : x = s[k] BY DEF Elements
      <4>2. k - 1 \in 1 .. Len(u) /\ (k - 1) + 1 = k BY <2>1, <3>2, <4>1
      <4>3. QED BY <2>1, <4>1, <4>2 DEF Elements
    <3>3. QED BY <3>1, <3>2
  <2> HIDE DEF u
  <2>5. \A j, k \in 1 .. Len(u) : u[j] = u[k] => j = k BY <2>1 DEF IsList
  <2>6. CASE station[s[1]].next = OS_RPC_INVALID_TRAIN
    <3>1. Len(s) = 1
      <4>1. ASSUME Len(s) # 1
            PROVE  FALSE
        <5>1. 1 \in 1 .. Len(s) /\ 1 # Len(s) /\ 1 + 1 \in 1 .. Len(s) BY <2>1, <4>1
        <5>2. station[s[1]].next = s[1 + 1] BY <5>1 DEF IsList
        <5>3. QED BY <2>2, <2>6, <5>1, <5>2, NodesAre
      <4>2. QED BY <4>1
    <3>2. got = [que |-> Empty, station |-> station, node |-> s[1]]
      BY <2>2, <2>3, <2>6 DEF RpcGetService
    <3>3. Len(u) = 0 /\ u = <<>> BY <2>1, <3>1
    <3>4. IsList(Empty, station, u) BY <3>3, <2>1 DEF IsList, Empty
    <3>5. Relinked(station, station, {s[1]}) BY DEF Relinked
    <3>6. QED BY <1>2, <2>2, <2>4, <2>6, <3>2, <3>4, <3>5 DEF u, GetsFirst
  <2>7. CASE station[s[1]].next # OS_RPC_INVALID_TRAIN
    <3> DEFINE next == station[s[1]].next
               que == [q EXCEPT !.Head = next]
               new == [station EXCEPT ![s[1]].next = OS_RPC_INVALID_TRAIN]
    <3>1. got = [que |-> que, station |-> new, node |-> s[1]] BY <2>2, <2>3, <2>7 DEF RpcGetService
    <3>2. 1 \in 1 .. Len(s) /\ Len(s) # 1 /\ next = s[2] /\ next \in Nodes
      BY <2>1, <2>7, <2>2 DEF IsList
    <3>3. que.Head = next /\ que.Tail = q.Tail BY DEF QueType
    <3> HIDE DEF que, next
    <3>0. s[1] \in Nodes /\ OS_RPC_INVALID_TRAIN \in Trains BY <2>2, NodesAre
    <3>9. new[s[1]].next = OS_RPC_INVALID_TRAIN BY <3>0 DEF Station, NodeType
    <3>4. Relinked(station, new, {s[1]}) BY <3>0, LinkedIs
    <3> HIDE DEF new
    <3>5. u # <<>> /\ 1 \in 1 .. Len(u) /\ u[1] = s[2] /\ Len(u) \in 1 .. Len(u) /\ u[Len(u)] = s[Len(s)]
          /\ Len(u) \in Nat
      BY <2>1, <3>2
    <3>6. ASSUME NEW k \in 1 .. Len(u)
          PROVE  new[u[k]].next = IF k = Len(u) THEN OS_RPC_INVALID_TRAIN ELSE u[k + 1]
      <4>1. k + 1 \in 1 .. Len(s) /\ u[k] = s[k + 1] /\ (k = Len(u) <=> k + 1 = Len(s)) BY <2>1
      <4>2. s[k + 1] # s[1] /\ s[k + 1] \in Nodes BY <2>2, <3>2, <4>1 DEF IsList
      <4>3. new[u[k]].next = station[s[k + 1]].next BY <3>4, <4>1, <4>2 DEF Relinked
      <4>4. station[s[k + 1]].next = IF k + 1 = Len(s) THEN OS_RPC_INVALID_TRAIN ELSE s[(k + 1) + 1]
        BY <4>1 DEF IsList
      <4>5. k # Len(u) => k + 1 \in 1 .. Len(u) BY <2>1, <4>1
      <4>6. QED BY <2>1, <4>1, <4>3, <4>4, <4>5
    <3>7. IsList(que, new, u) BY <2>1, <2>2, <2>5, <3>2, <3>3, <3>5, <3>6 DEF IsList
    <3>8. QED BY <1>2, <2>2, <2>4, <3>1, <3>4, <3>7, <3>9 DEF u, GetsFirst
  <2>8. QED BY <2>6, <2>7
<1>3. QED BY <1>1, <1>2

LEMMA AddTypes ==
  ASSUME NEW q \in QueType, NEW station \in Station, NEW i \in Nodes
  PROVE  LET added == RpcAddService(q, station, i)
         IN  added.que \in QueType /\ Relinked(station, added.station, {i, q.Tail})
<1> DEFINE added == RpcAddService(q, station, i)
           ended == [station EXCEPT ![i].next = OS_RPC_INVALID_TRAIN]
           one == [Head |-> i, Tail |-> i]
           longer == [q EXCEPT !.Tail = i]
           linked == [station EXCEPT ![q.Tail].next = i]
           both == [linked EXCEPT ![i].next = OS_RPC_INVALID_TRAIN]
<1>1. i \in Trains /\ q.Tail \in Trains /\ OS_RPC_INVALID_TRAIN \in Trains BY NodesAre DEF QueType
<1>2. one \in QueType /\ longer \in QueType BY <1>1 DEF QueType
<1>3. CASE q.Tail = OS_RPC_INVALID_TRAIN
  <2>1. added = [que |-> one, station |-> ended] BY <1>3 DEF RpcAddService
  <2>2. Relinked(station, ended, {i}) BY <1>1, LinkedIs
  <2> HIDE DEF one, ended
  <2>3. QED BY <1>2, <2>1, <2>2 DEF Relinked
<1>4. CASE q.Tail # OS_RPC_INVALID_TRAIN
  <2>1. added = [que |-> longer, station |-> both] BY <1>4 DEF RpcAddService
  <2>2. q.Tail \in Nodes BY <1>1, <1>4, NodesAre
  <2>3. Relinked(station, linked, {q.Tail}) BY <1>1, <2>2, LinkedIs
  <2>4. linked \in Station BY <2>3 DEF Relinked
  <2> HIDE DEF linked
  <2>5. Relinked(linked, both, {i}) BY <1>1, <2>4, LinkedIs
  <2> HIDE DEF both, longer
  <2>6. Relinked(station, both, {i, q.Tail}) BY <2>3, <2>5 DEF Relinked
  <2>7. QED BY <1>2, <2>1, <2>6
<1>5. QED BY <1>3, <1>4

\* To a list a node is added at the end.
AddsLast(q, station, s, i) ==
  LET added == RpcAddService(q, station, i) IN
  /\ IsList(added.que, added.station, Append(s, i))
  /\ Elements(Append(s, i)) = Elements(s) \cup {i}
  /\ Relinked(station, added.station, Elements(s) \cup {i})

LEMMA AddIs ==
  ASSUME NEW q \in QueType, NEW station \in Station, NEW s, IsList(q, station, s),
         NEW i \in Nodes, i \notin Elements(s)
  PROVE  AddsLast(q, station, s, i)
<1> DEFINE added == RpcAddService(q, station, i)
           u == Append(s, i)
<1>1. /\ s \in Seq(Nodes) /\ Len(s) \in Nat /\ u \in Seq(Nodes) /\ u # <<>> /\ Len(u) = Len(s) + 1
      /\ \A k \in 1 .. Len(s) : u[k] = s[k] /\ s[k] \in Nodes
      /\ u[Len(s) + 1] = i
  BY AppendProperties DEF IsList
<1> HIDE DEF u
<1>2. \A k \in 1 .. Len(u) : k \in 1 .. Len(s) \/ k = Len(s) + 1 BY <1>1
<1>3. 1 .. Len(s) \subseteq 1 .. Len(u) /\ Len(s) + 1 \in 1 .. Len(u) /\ 1 \in 1 .. Len(u) BY <1>1
<1>4. Elements(u) = Elements(s) \cup {i} BY <1>1, <1>2, <1>3 DEF Elements
<1>5. \A j, k \in 1 .. Len(u) : u[j] = u[k] => j = k BY <1>1, <1>2 DEF Elements, IsList
<1>6. CASE s = <<>>
  <2>1. q.Tail = OS_RPC_INVALID_TRAIN /\ Len(s) = 0 BY <1>6 DEF IsList
  <2> DEFINE new == [station EXCEPT ![i].next = OS_RPC_INVALID_TRAIN]
             que == [Head |-> i, Tail |-> i]
  <2>2. added = [que |-> que, station |-> new] BY <2>1 DEF RpcAddService
  <2>3. Relinked(station, new, {i}) /\ new[i].next = OS_RPC_INVALID_TRAIN BY NodesAre, LinkedIs
  <2> HIDE DEF new
  <2>4. Len(u) = 1 /\ u[1] = i BY <1>1, <2>1
  <2>5. \A k \in 1 .. Len(u) : k = 1 BY <2>4
  <2>6. IsList(que, new, u) BY <1>1, <1>5, <2>3, <2>4, <2>5 DEF IsList
  <2> HIDE DEF que
  <2>7. Relinked(station, new, Elements(s) \cup {i}) BY <2>3 DEF Relinked
  <2>8. QED BY <1>4, <2>2, <2>6, <2>7 DEF u, AddsLast
<1>7. CASE s # <<>>
  <2>1. Len(s) \in 1 .. Len(s) /\ q.Tail = s[Len(s)] /\ q.Head = s[1] /\ 1 \in 1 .. Len(s)
    BY <1>1, <1>7, EmptySeq DEF IsList
  <2>2. q.Tail \in Nodes /\ q.Tail \in Elements(s) /\ q.Tail # i /\ q.Tail # OS_RPC_INVALID_TRAIN
    BY <1>1, <2>1, NodesAre DEF Elements
  <2> DEFINE linked == [station EXCEPT ![q.Tail].next = i]
             new == [linked EXCEPT ![i].next = OS_RPC_INVALID_TRAIN]
             que == [q EXCEPT !.Tail = i]
  <2>3. added = [que |-> que, station |-> new] BY <2>2 DEF RpcAddService
  <2>4. Relinked(station, linked, {q.Tail}) /\ linked[q.Tail].next = i
    BY <2>2, NodesAre, LinkedIs, ZenonT(30)
  <2>5. linked \in Station /\ OS_RPC_INVALID_TRAIN \in Trains BY <2>4, NodesAre DEF Relinked
  <2> HIDE DEF linked
  <2>6. Relinked(linked, new, {i}) /\ new[i].next = OS_RPC_INVALID_TRAIN BY <2>5, LinkedIs, ZenonT(30)
  <2> HIDE DEF new
  <2>7. que.Head = q.Head /\ que.Tail = i BY DEF QueType
  <2> HIDE DEF que
  <2>8. ASSUME NEW k \in 1 .. Len(u)
        PROVE  new[u[k]].next = IF k = Len(u) THEN OS_RPC_INVALID_TRAIN ELSE u[k + 1]
    <3>1. CASE k = Len(s) + 1 BY <1>1, <2>6, <3>1
    <3>2. CASE k \in 1 .. Len(s) BY <1>1, <3>2, <2>6, <2>1, <2>4 DEF Elements, Relinked, IsList
    <3>3. QED BY <1>2, <3>1, <3>2
  <2>9. u[1] = s[1] /\ u[Len(u)] = i BY <1>1, <2>1
  <2>10. IsList(que, new, u) BY <1>1, <1>5, <2>1, <2>7, <2>8, <2>9 DEF IsList
  <2>11. Relinked(station, new, Elements(s) \cup {i}) BY <2>2, <2>4, <2>6 DEF Relinked
  <2>12. QED BY <1>4, <2>3, <2>10, <2>11 DEF u, AddsLast
<1>8. QED BY <1>6, <1>7

-----------------------------------------------------------------------------
(* The inductive invariant *)

\* c has node i of t taken and not passed on.
Has(c, t, i) ==
  /\ caller[c].call.target = t
  /\ caller[c].node = i
  /\ caller[c].call.kind = "sync" \/ caller[c].pc = "submit"

\* The interrupt has node i of t: it serves the call, or is to give the node back.
Acts(t) == server[t].pc \in {"act", "write", "done"}
Busy(t, i) == server[t].node = i /\ (Acts(t) \/ node[t][i].RpcSync = "async")

ToDo(t, work, i) == i \in work \/ (Acts(t) /\ server[t].node = i)

\* A call that t has to serve
WorkOK(t, n) ==
  /\ n.ProcState # "OS_RPC_DONE"
  /\ n.call \in Calls /\ n.call.target = t /\ n.call.kind = n.RpcSync
  /\ Uses(t, n.RpcSync)
  /\ n.call.number <= caller[n.call.caller].call.number
  /\ n.call.number = caller[n.call.caller].call.number => caller[n.call.caller].pc \notin {"test", "take", "submit"}

Places(t, free, work) ==
  /\ \A i \in free : i \notin work /\ ~ Busy(t, i) /\ \A c \in Callers : ~ Has(c, t, i)
  /\ \A i \in work : ~ Busy(t, i)
  /\ \A i \in Nodes :
       LET passed == node[t][i].RpcSync = "async" /\ (i \in work \/ Busy(t, i)) IN
       /\ passed => \A c \in Callers : ~ Has(c, t, i)
       /\ i \in free \/ passed \/ \E c \in Callers : Has(c, t, i)
       /\ i \in free \cup work \/ node[t][i].next = OS_RPC_INVALID_TRAIN

Works(t, work) ==
  /\ \A i \in Nodes : ToDo(t, work, i) =>
       /\ WorkOK(t, node[t][i])
       /\ \A c \in Callers : Has(c, t, i) => caller[c].pc \in {"remote", "wait"}
       /\ node[t][i].RetValue = E_NOT_OK \/ (server[t].pc = "done" /\ server[t].node = i)
  /\ \A i, j \in Nodes : ToDo(t, work, i) /\ ToDo(t, work, j) /\ node[t][i].call = node[t][j].call => i = j
  /\ server[t].pc \in {"test", "give"} => Uses(t, node[t][server[t].node].RpcSync)

\* Two lists share the nodes that nobody has.
Pool(t) ==
  \E F, W : /\ IsList(freeQue[t], node[t], F) /\ IsList(workQue[t], node[t], W)
            /\ Places(t, Elements(F), Elements(W)) /\ Works(t, Elements(W))

\* The cores whose nodes have one holder each: an asynchronous caller needs its node no more.
Kept(t) == CoreStatus[t] = "OS_RUN" \/ Uses(t, "sync")
OneHolder ==
  \A t \in Cores : Kept(t) => \A i \in Nodes : \A c, d \in Callers : Has(c, t, i) /\ Has(d, t, i) => c = d

\* What the interrupt brings along is the result of the call in its node.
Results(t) ==
  Kept(t) /\ t \notin disabled =>
    LET n == node[t][server[t].node] IN
    /\ server[t].pc = "write" => server[t].result = n.call
    /\ server[t].pc = "done" => n.RetValue = n.call

\* After a core has stopped, with synchronous callers, some nodes are still out of the reach of all
\* but one: those at the head of the free nodes, one for each caller that saw the core run, and
\* the nodes that such callers have taken.
Takers(t) == {c \in Callers : caller[c].pc = "take" /\ caller[c].call.target = t}

Unseen(t, i) ==
  /\ workQue[t].Head # i /\ workQue[t].Tail # i
  /\ t \notin disabled => server[t].node # i

Spare(t, p) ==
  /\ p \in Seq(Nodes)
  /\ \A j, k \in 1 .. Len(p) : p[j] = p[k] => j = k
  /\ \A k \in 1 .. Len(p) :
       /\ Unseen(t, p[k]) /\ \A c \in Callers : ~ Has(c, t, p[k])
       /\ k = 1 => freeQue[t].Head = p[k]
       /\ k # Len(p) => node[t][p[k]].next = p[k + 1] /\ freeQue[t].Tail # p[k]
       /\ \A j \in Nodes : node[t][j].next = p[k] => k # 1 /\ j = p[k - 1]
  /\ freeQue[t].Tail = OS_RPC_INVALID_TRAIN => p = <<>>
  /\ IsFiniteSet(Takers(t)) /\ Cardinality(Takers(t)) <= Len(p)

Fresh(t, c) ==
  caller[c].pc = "submit" /\ caller[c].call.target = t =>
    Unseen(t, caller[c].node) /\ \A j \in Nodes : node[t][j].next # caller[c].node

Late(t) == CoreStatus[t] # "OS_RUN" /\ Uses(t, "sync")

Rests(t) == Results(t) /\ (Late(t) => (\E p : Spare(t, p)) /\ \A c \in Callers : Fresh(t, c))
Rest == \A t \in Cores : Rests(t)

IInv ==
  /\ TypeOK /\ CallersAgree /\ ServersAgree /\ OneHolder
  /\ \A t \in Cores : CoreStatus[t] = "OS_RUN" => Pool(t)

CallerAgrees(c) ==
  /\ caller[c].call.caller = c
  /\ caller[c].pc \in {"idle", "test", "take"} <=> caller[c].node = OS_RPC_INVALID_TRAIN
  /\ caller[c].pc # "idle" => <<caller[c].call.target, caller[c].call.kind>> \in Services[c]
  /\ caller[c].pc \in {"wait", "look", "give"} => caller[c].call.kind = "sync"
  /\ caller[c].pc = "look" => CoreStatus[caller[c].call.target] # "OS_RUN"
  /\ caller[c].pc \in {"remote", "wait", "look", "give"} /\ caller[c].call.kind = "sync" =>
       /\ Held(c).call = caller[c].call
       /\ Held(c).RetValue \in {E_NOT_OK, caller[c].call}
       /\ Held(c).ProcState = "OS_RPC_DONE" => Held(c).RetValue = caller[c].call
  /\ caller[c].pc = "give" => \/ caller[c].ret = caller[c].call /\ Held(c).RetValue = caller[c].call
                              \/ caller[c].ret = E_OS_CORE /\ CoreStatus[caller[c].call.target] # "OS_RUN"

LEMMA EachCallerAgrees ==
  CallersAgree <=> \A c \in Callers : CallerAgrees(c)
BY DEF CallersAgree, CallerAgrees

LEMMA EachCallerAgreesNext ==
  CallersAgree' <=> \A c \in Callers : CallerAgrees(c)'
BY DEF CallersAgree, CallerAgrees, Held

\* A call under way keeps its number, and leads on.
Onward(c) ==
  /\ caller[c].call.number <= caller'[c].call.number
  /\ caller[c].call.number = caller'[c].call.number /\ caller'[c].pc \in {"test", "take", "submit"} =>
       caller[c].pc \in {"test", "take", "submit"}

LEMMA WorkStays ==
  ASSUME TypeOK, caller' \in [Callers -> CallerType], \A d \in Callers : Onward(d), NEW t \in Cores, NEW n,
         WorkOK(t, n)
  PROVE  WorkOK(t, n)'
<1> DEFINE d == n.call.caller
<1>1. d \in Callers /\ n.call.number \in Nat BY DEF WorkOK, Calls
<1>2. caller[d].call.number \in Nat /\ caller'[d].call.number \in Nat
  BY <1>1 DEF TypeOK, CallerType, Calls
<1>3. Onward(d) BY <1>1
<1>4. n.call.number <= caller'[d].call.number BY <1>1, <1>2, <1>3 DEF WorkOK, Onward
<1>5. ASSUME n.call.number = caller'[d].call.number
      PROVE  caller'[d].pc \notin {"test", "take", "submit"}
  <2>1. n.call.number = caller[d].call.number /\ caller[d].call.number = caller'[d].call.number
    BY <1>1, <1>2, <1>3, <1>5 DEF WorkOK, Onward
  <2>2. QED BY <1>3, <2>1 DEF WorkOK, Onward
<1>6. QED BY <1>4, <1>5 DEF WorkOK, Uses

\* Steps elsewhere leave the pool of a core alone.
LEMMA PoolKept ==
  ASSUME TypeOK, caller' \in [Callers -> CallerType], \A d \in Callers : Onward(d), NEW t \in Cores, Pool(t),
         node'[t] = node[t], freeQue'[t] = freeQue[t], workQue'[t] = workQue[t], server'[t] = server[t],
         \A d \in Callers : \A i \in Nodes :
           /\ Has(d, t, i)' <=> Has(d, t, i)
           /\ Has(d, t, i) /\ caller[d].pc \in {"remote", "wait"} => caller'[d].pc \in {"remote", "wait"}
  PROVE  Pool(t)'
<1>1. PICK F, W : /\ IsList(freeQue[t], node[t], F) /\ IsList(workQue[t], node[t], W)
                  /\ Places(t, Elements(F), Elements(W)) /\ Works(t, Elements(W))
  BY DEF Pool
<1> DEFINE free == Elements(F)
           work == Elements(W)
<1>2. free \subseteq Nodes /\ work \subseteq Nodes BY <1>1 DEF IsList, Elements
<1>3. IsList(freeQue'[t], node'[t], F) /\ IsList(workQue'[t], node'[t], W) BY <1>1
<1> HIDE DEF free, work
<1>4. Places(t, free, work)' BY <1>1, <1>2 DEF Busy, Acts, free, work, Places
<1>5. Works(t, work)'
  <2>1. Works(t, work) BY <1>1 DEF work
  <2>2. \A i \in Nodes : ToDo(t, work, i)' <=> ToDo(t, work, i) BY DEF ToDo, Acts
  <2>3. ASSUME NEW i \in Nodes, ToDo(t, work, i)
        PROVE  WorkOK(t, node[t][i])'
    <3>1. WorkOK(t, node[t][i]) BY <2>1, <2>3 DEF Works
    <3>2. PICK n : n = node[t][i] OBVIOUS
    <3>3. WorkOK(t, n)' BY <3>1, <3>2, WorkStays
    <3>4. QED BY <3>2, <3>3 DEF WorkOK
  <2>4. ASSUME NEW i \in Nodes, ToDo(t, work, i), NEW c \in Callers, Has(c, t, i)'
        PROVE  caller'[c].pc \in {"remote", "wait"}
    BY <2>1, <2>4 DEF Works
  <2>5. QED BY <2>1, <2>2, <2>3, <2>4 DEF Works, Uses
<1>6. QED BY <1>3, <1>4, <1>5 DEF Pool, free, work

\* A caller that does not move agrees with its node as long as nobody else writes into it.
LEMMA CallerKept ==
  ASSUME TypeOK, NEW d \in Callers, CallerAgrees(d), caller'[d] = caller[d],
         \A t \in Cores : CoreStatus[t] # "OS_RUN" => CoreStatus'[t] # "OS_RUN",
         caller[d].call.kind = "sync" /\ caller[d].pc \in {"remote", "wait", "look", "give"} =>
           LET old == node[caller[d].call.target][caller[d].node]
               new == node'[caller[d].call.target][caller[d].node]
           IN  new.call = old.call /\ new.RetValue = old.RetValue /\ new.ProcState = old.ProcState
  PROVE  CallerAgrees(d)'
<1>1. caller[d].call.target \in Cores BY DEF TypeOK, CallerType, Calls
<1>2. caller[d].pc = "give" => caller[d].call.kind = "sync" BY DEF CallerAgrees
<1>3. CoreStatus[caller[d].call.target] # "OS_RUN" => CoreStatus'[caller[d].call.target] # "OS_RUN"
  BY <1>1
<1>4. QED BY <1>2, <1>3 DEF CallerAgrees, Held

LEMMA NodeOfCaller ==
  ASSUME TypeOK, CallersAgree, NEW c \in Callers
  PROVE  /\ caller[c].call.target \in Cores /\ caller[c].node \in Trains
         /\ caller[c].pc \notin {"idle", "test", "take"} <=> caller[c].node \in Nodes
         /\ \A t \in Cores, i \in Nodes : Has(c, t, i) => caller[c].pc \in {"submit", "remote", "wait", "look", "give"}
         /\ caller[c].call.number \in Nat
<1>1. caller[c] \in CallerType /\ CallerAgrees(c) BY EachCallerAgrees DEF TypeOK
<1>2. caller[c].call.target \in Cores /\ caller[c].node \in Trains /\ caller[c].call.number \in Nat
      /\ caller[c].pc \in {"idle", "test", "take", "submit", "remote", "wait", "look", "give"}
  BY <1>1 DEF CallerType, Calls
<1>3. caller[c].pc \in {"idle", "test", "take"} <=> caller[c].node = OS_RPC_INVALID_TRAIN
  BY <1>1 DEF CallerAgrees
<1>4. caller[c].pc \notin {"idle", "test", "take"} <=> caller[c].node \in Nodes
  BY <1>2, <1>3, NodesAre
<1>5. QED BY <1>2, <1>4 DEF Has

\* A core that a caller waits for is one whose nodes have one holder each.
LEMMA SyncKept ==
  ASSUME NEW c \in Callers, CallerAgrees(c), caller[c].pc # "idle", caller[c].call.kind = "sync"
  PROVE  Uses(caller[c].call.target, "sync") /\ Kept(caller[c].call.target)
BY DEF CallerAgrees, Uses, Kept

\* A step of a caller that touches no list and no node
LEMMA OnlyCallerMoves ==
  ASSUME IInv, NEW c \in Callers, NEW x \in CallerType, caller' = [caller EXCEPT ![c] = x],
         UNCHANGED <<node, freeQue, workQue, server, CoreStatus, disabled>>,
         interrupt' \in [Cores -> BOOLEAN],
         CallerAgrees(c)', Onward(c),
         \A t \in Cores, i \in Nodes :
           /\ Has(c, t, i)' <=> Has(c, t, i)
           /\ CoreStatus[t] = "OS_RUN" /\ Has(c, t, i) /\ caller[c].pc \in {"remote", "wait"} =>
                caller'[c].pc \in {"remote", "wait"}
  PROVE  IInv'
<1>0. /\ TypeOK /\ CallersAgree /\ ServersAgree /\ OneHolder
      /\ \A t \in Cores : CoreStatus[t] = "OS_RUN" => Pool(t)
      /\ \A d \in Callers : CallerAgrees(d)
  BY EachCallerAgrees DEF IInv
<1>1. caller' \in [Callers -> CallerType] /\ \A d \in Callers : d # c => caller'[d] = caller[d]
  BY <1>0 DEF TypeOK
<1>2. TypeOK' BY <1>0, <1>1 DEF TypeOK
<1>3. \A d \in Callers : Onward(d) BY <1>0, <1>1, NodeOfCaller DEF Onward
<1>4. \A d \in Callers, t \in Cores, i \in Nodes : Has(d, t, i)' <=> Has(d, t, i) BY <1>1 DEF Has
<1>5. CallersAgree' BY <1>0, <1>1, CallerKept, EachCallerAgreesNext
<1>6. ServersAgree' BY <1>0 DEF ServersAgree, Uses
<1>7. OneHolder' BY <1>0, <1>4 DEF OneHolder, Kept, Uses
<1>8. ASSUME NEW t \in Cores, CoreStatus'[t] = "OS_RUN"
      PROVE  Pool(t)'
  BY <1>0, <1>8, <1>1, <1>4, <1>3, PoolKept
<1>9. QED BY <1>2, <1>5, <1>6, <1>7, <1>8 DEF IInv

\* What a step of caller c may assume
LEMMA CallerFacts ==
  ASSUME IInv, NEW c \in Callers
  PROVE  /\ TypeOK /\ CallersAgree /\ CallerAgrees(c)
         /\ caller[c] \in CallerType /\ caller[c].call \in Calls /\ caller[c].call.number \in Nat
         /\ caller[c].call.target \in Cores /\ caller[c].node \in Trains
         /\ caller[c].pc \notin {"idle", "test", "take"} <=> caller[c].node \in Nodes
         /\ \A t \in Cores, i \in Nodes : Has(c, t, i) => caller[c].pc \in {"submit", "remote", "wait", "look", "give"}
         /\ OS_RPC_INVALID_TRAIN \notin Nodes /\ OS_RPC_INVALID_TRAIN \in Trains
BY EachCallerAgrees, NodeOfCaller, NodesAre DEF IInv, TypeOK, CallerType

LEMMA CallKeeps ==
  ASSUME IInv, NEW c \in Callers, Call(c)
  PROVE  IInv'
<1>0. /\ TypeOK /\ CallerAgrees(c) /\ caller[c] \in CallerType /\ caller[c].call \in Calls
      /\ caller[c].call.number \in Nat /\ OS_RPC_INVALID_TRAIN \notin Nodes
  BY CallerFacts
<1>1. PICK s \in Services[c] :
        caller' = [caller EXCEPT ![c].pc = "test", ![c].ret = None,
                    ![c].call = [caller[c].call EXCEPT !.number = @ + 1, !.target = s[1], !.kind = s[2]]]
  BY DEF Call
<1>2. s[1] \in Cores /\ s[2] \in {"sync", "async"} /\ s = <<s[1], s[2]>> BY RpcConstants
<1> DEFINE r == [caller[c].call EXCEPT !.number = @ + 1, !.target = s[1], !.kind = s[2]]
           x == [[[caller[c] EXCEPT !.pc = "test"] EXCEPT !.ret = None] EXCEPT !.call = r]
<1>3. /\ r \in Calls /\ r.number = caller[c].call.number + 1 /\ r.target = s[1] /\ r.kind = s[2]
      /\ r.caller = caller[c].call.caller
  <2>1. PICK old, n, t, k : old = caller[c].call /\ n = caller[c].call.number + 1 /\ t = s[1] /\ k = s[2]
    OBVIOUS
  <2>2. old \in Calls /\ n \in Nat /\ t \in Cores /\ k \in {"sync", "async"} BY <1>0, <1>2, <2>1
  <2> DEFINE next == [old EXCEPT !.number = n, !.target = t, !.kind = k]
  <2>3. next \in Calls /\ next.number = n /\ next.target = t /\ next.kind = k /\ next.caller = old.caller
    BY <2>2 DEF Calls
  <2>4. r = next BY <2>1
  <2> HIDE DEF r, next
  <2>5. QED BY <2>1, <2>3, <2>4
<1> HIDE DEF r
<1>4. x \in CallerType /\ x.pc = "test" /\ x.call = r /\ x.node = caller[c].node
  BY <1>0, <1>3 DEF CallerType
<1>5. caller' = [caller EXCEPT ![c] = x] BY <1>1 DEF r
<1> HIDE DEF x
<1>6. caller'[c] = x BY <1>0, <1>5 DEF TypeOK
<1>7. caller[c].pc = "idle" /\ caller[c].node = OS_RPC_INVALID_TRAIN
  BY <1>0 DEF Call, At, CallerAgrees
<1>8. CallerAgrees(c)' BY <1>2, <1>3, <1>4, <1>6, <1>0, <1>7 DEF CallerAgrees
<1>9. Onward(c) BY <1>0, <1>3, <1>4, <1>6 DEF Onward
<1>10. \A t \in Cores, i \in Nodes : ~ Has(c, t, i)' /\ ~ Has(c, t, i)
  BY <1>0, <1>4, <1>6, <1>7 DEF Has
<1>11. UNCHANGED <<node, freeQue, workQue, server, interrupt, CoreStatus, disabled>> BY DEF Call
<1>12. QED BY <1>0, <1>4, <1>5, <1>8, <1>9, <1>10, <1>11, OnlyCallerMoves DEF TypeOK

LEMMA EndedIs ==
  ASSUME NEW x \in CallerType, NEW ret \in {None, E_OK, E_NOT_OK, E_OS_CORE} \cup Calls
  PROVE  LET ended == [x EXCEPT !.pc = "idle", !.ret = ret, !.node = OS_RPC_INVALID_TRAIN]
         IN  /\ ended \in CallerType /\ ended.pc = "idle" /\ ended.node = OS_RPC_INVALID_TRAIN
             /\ ended.call = x.call /\ ended.ret = ret
BY NodesAre DEF CallerType

LEMMA FindsCoreGoneKeeps ==
  ASSUME IInv, NEW c \in Callers, FindsCoreGone(c)
  PROVE  IInv'
<1> USE CallerFacts
<1>0. caller[c] \in CallerType /\ E_OS_CORE \in {None, E_OK, E_NOT_OK, E_OS_CORE} \cup Calls OBVIOUS
<1> DEFINE x == [caller[c] EXCEPT !.pc = "idle", !.ret = E_OS_CORE, !.node = OS_RPC_INVALID_TRAIN]
<1>1. x \in CallerType /\ x.pc = "idle" /\ x.node = OS_RPC_INVALID_TRAIN /\ x.call = caller[c].call
  BY <1>0, EndedIs
<1>2. caller' = [caller EXCEPT ![c] = x] BY DEF FindsCoreGone, End
<1> HIDE DEF x
<1>3. caller'[c] = x BY <1>2 DEF TypeOK
<1>4. caller[c].pc = "test" /\ caller[c].node = OS_RPC_INVALID_TRAIN
  BY DEF FindsCoreGone, At, CallerAgrees
<1>5. CallerAgrees(c)' BY <1>1, <1>3, <1>4 DEF CallerAgrees
<1>6. Onward(c) BY <1>1, <1>3, <1>4 DEF Onward
<1>7. \A t \in Cores, i \in Nodes : ~ Has(c, t, i)' /\ ~ Has(c, t, i) BY <1>1, <1>3, <1>4 DEF Has
<1>8. UNCHANGED <<node, freeQue, workQue, server, interrupt, CoreStatus, disabled>>
  BY DEF FindsCoreGone
<1>9. QED BY <1>1, <1>2, <1>5, <1>6, <1>7, <1>8, OnlyCallerMoves DEF TypeOK

LEMMA FindsCoreRunningKeeps ==
  ASSUME IInv, NEW c \in Callers, FindsCoreRunning(c)
  PROVE  IInv'
<1> USE CallerFacts
<1> DEFINE x == [caller[c] EXCEPT !.pc = "take"]
<1>1. x \in CallerType /\ x.pc = "take" /\ x.node = caller[c].node /\ x.call = caller[c].call
  BY DEF CallerType
<1>2. caller' = [caller EXCEPT ![c] = x] BY DEF FindsCoreRunning, Goto
<1> HIDE DEF x
<1>3. caller'[c] = x BY <1>2 DEF TypeOK
<1>4. caller[c].pc = "test" /\ caller[c].node = OS_RPC_INVALID_TRAIN
  BY DEF FindsCoreRunning, At, CallerAgrees
<1>5. CallerAgrees(c)' BY <1>1, <1>3, <1>4 DEF CallerAgrees
<1>6. Onward(c) BY <1>1, <1>3, <1>4 DEF Onward
<1>7. \A t \in Cores, i \in Nodes : ~ Has(c, t, i)' /\ ~ Has(c, t, i) BY <1>1, <1>3, <1>4 DEF Has
<1>8. UNCHANGED <<node, freeQue, workQue, server, interrupt, CoreStatus, disabled>>
  BY DEF FindsCoreRunning
<1>9. QED BY <1>1, <1>2, <1>5, <1>6, <1>7, <1>8, OnlyCallerMoves DEF TypeOK

LEMMA RemoteCallKeeps ==
  ASSUME IInv, NEW c \in Callers, RemoteCall(c)
  PROVE  IInv'
<1> USE CallerFacts
<1>1. caller[c].pc = "remote" BY DEF RemoteCall, At
<1>2. interrupt' \in [Cores -> BOOLEAN] /\ UNCHANGED <<node, freeQue, workQue, server, CoreStatus, disabled>>
  BY DEF RemoteCall, TypeOK
<1>3. CASE caller[c].call.kind = "sync"
  <2> DEFINE x == [caller[c] EXCEPT !.pc = "wait"]
  <2>1. x \in CallerType /\ x.pc = "wait" /\ x.node = caller[c].node /\ x.call = caller[c].call
    BY DEF CallerType
  <2>2. caller' = [caller EXCEPT ![c] = x] BY <1>3 DEF RemoteCall, Goto
  <2> HIDE DEF x
  <2>3. caller'[c] = x BY <2>2 DEF TypeOK
  <2>4. CallerAgrees(c)' BY <1>1, <1>2, <1>3, <2>1, <2>3 DEF CallerAgrees, Held
  <2>5. Onward(c) BY <2>1, <2>3 DEF Onward
  <2>6. \A t \in Cores, i \in Nodes : Has(c, t, i)' <=> Has(c, t, i) BY <1>3, <2>1, <2>3 DEF Has
  <2>7. QED BY <1>2, <2>1, <2>2, <2>3, <2>4, <2>5, <2>6, OnlyCallerMoves
<1>4. CASE caller[c].call.kind # "sync"
  <2>0. caller[c] \in CallerType /\ E_OK \in {None, E_OK, E_NOT_OK, E_OS_CORE} \cup Calls OBVIOUS
  <2> DEFINE x == [caller[c] EXCEPT !.pc = "idle", !.ret = E_OK, !.node = OS_RPC_INVALID_TRAIN]
  <2>1. x \in CallerType /\ x.pc = "idle" /\ x.node = OS_RPC_INVALID_TRAIN /\ x.call = caller[c].call
    BY <2>0, EndedIs, ZenonT(30)
  <2>2. caller' = [caller EXCEPT ![c] = x] BY <1>4 DEF RemoteCall, End
  <2> HIDE DEF x
  <2>3. caller'[c] = x BY <2>2 DEF TypeOK
  <2>4. CallerAgrees(c)' BY <2>1, <2>3 DEF CallerAgrees
  <2>5. Onward(c) BY <2>1, <2>3 DEF Onward
  <2>6. \A t \in Cores, i \in Nodes : ~ Has(c, t, i)' /\ ~ Has(c, t, i)
    BY <1>1, <1>4, <2>1, <2>3 DEF Has
  <2>7. QED BY <1>2, <2>1, <2>2, <2>4, <2>5, <2>6, OnlyCallerMoves
<1>5. QED BY <1>3, <1>4

LEMMA SeesCoreGoneKeeps ==
  ASSUME IInv, NEW c \in Callers, SeesCoreGone(c)
  PROVE  IInv'
<1> USE CallerFacts
<1> DEFINE x == [caller[c] EXCEPT !.pc = "look"]
<1>1. caller[c].pc = "wait" /\ CoreStatus[caller[c].call.target] # "OS_RUN" /\ caller[c].call.kind = "sync"
  BY DEF SeesCoreGone, At, CallerAgrees
<1>2. x \in CallerType /\ x.pc = "look" /\ x.node = caller[c].node /\ x.call = caller[c].call
  BY DEF CallerType
<1>3. caller' = [caller EXCEPT ![c] = x] BY DEF SeesCoreGone, Goto
<1> HIDE DEF x
<1>4. caller'[c] = x BY <1>3 DEF TypeOK
<1>5. UNCHANGED <<node, freeQue, workQue, server, interrupt, CoreStatus, disabled>>
  BY DEF SeesCoreGone
<1>6. CallerAgrees(c)' BY <1>1, <1>2, <1>4, <1>5 DEF CallerAgrees, Held
<1>7. Onward(c) BY <1>2, <1>4 DEF Onward
<1>8. \A t \in Cores, i \in Nodes : /\ Has(c, t, i)' <=> Has(c, t, i)
                                    /\ Has(c, t, i) => CoreStatus[t] # "OS_RUN"
  BY <1>1, <1>2, <1>4 DEF Has
<1>9. QED BY <1>2, <1>3, <1>5, <1>6, <1>7, <1>8, OnlyCallerMoves DEF TypeOK

LEMMA GivesUpKeeps ==
  ASSUME IInv, NEW c \in Callers, GivesUp(c)
  PROVE  IInv'
<1> USE CallerFacts
<1> DEFINE x == [[caller[c] EXCEPT !.pc = "give"] EXCEPT !.ret = E_OS_CORE]
<1>1. caller[c].pc = "look" /\ CoreStatus[caller[c].call.target] # "OS_RUN" /\ caller[c].call.kind = "sync"
  BY DEF GivesUp, At, CallerAgrees
<1>2. x \in CallerType /\ x.pc = "give" /\ x.node = caller[c].node /\ x.call = caller[c].call /\ x.ret = E_OS_CORE
  BY DEF CallerType
<1>3. caller' = [caller EXCEPT ![c] = x] BY DEF GivesUp
<1> HIDE DEF x
<1>4. caller'[c] = x BY <1>3 DEF TypeOK
<1>5. UNCHANGED <<node, freeQue, workQue, server, interrupt, CoreStatus, disabled>> BY DEF GivesUp
<1>6. CallerAgrees(c)' BY <1>1, <1>2, <1>4, <1>5 DEF CallerAgrees, Held
<1>7. Onward(c) BY <1>2, <1>4 DEF Onward
<1>8. \A t \in Cores, i \in Nodes : /\ Has(c, t, i)' <=> Has(c, t, i)
                                    /\ Has(c, t, i) => CoreStatus[t] # "OS_RUN"
  BY <1>1, <1>2, <1>4 DEF Has
<1>9. QED BY <1>2, <1>3, <1>5, <1>6, <1>7, <1>8, OnlyCallerMoves DEF TypeOK

-----------------------------------------------------------------------------
(* Steps that write into a list or a node *)

SameData(m, n) ==
  m.RpcSync = n.RpcSync /\ m.ProcState = n.ProcState /\ m.RetValue = n.RetValue /\ m.call = n.call

LEMMA SameLinks ==
  ASSUME NEW q, NEW station, NEW new, NEW s, IsList(q, station, s), \A i \in Nodes : new[i].next = station[i].next
  PROVE  IsList(q, new, s)
BY DEF IsList

LEMMA ListedAreNodes ==
  ASSUME NEW q, NEW station, NEW s, IsList(q, station, s)
  PROVE  Elements(s) \subseteq Nodes
BY DEF IsList, Elements

\* No step but SubmitNode adds to the work.
LEMMA WorksKept ==
  ASSUME TypeOK, caller' \in [Callers -> CallerType], \A d \in Callers : Onward(d), NEW t \in Cores,
         NEW old, NEW new, Works(t, old),
         \A i \in Nodes : ToDo(t, new, i)' => ToDo(t, old, i) /\ SameData(node'[t][i], node[t][i]),
         \A i \in Nodes : \A d \in Callers : ToDo(t, new, i)' /\ Has(d, t, i)' =>
           Has(d, t, i) /\ (caller[d].pc \in {"remote", "wait"} => caller'[d].pc \in {"remote", "wait"}),
         server[t].pc = "done" => server'[t] = server[t],
         server'[t].pc \in {"test", "give"} => Uses(t, node'[t][server'[t].node].RpcSync)
  PROVE  Works(t, new)'
<1>1. ASSUME NEW i \in Nodes, ToDo(t, new, i)'
      PROVE  WorkOK(t, node[t][i])'
  <2>1. WorkOK(t, node[t][i]) BY <1>1 DEF Works
  <2>2. PICK n : n = node[t][i] OBVIOUS
  <2>3. WorkOK(t, n)' BY <2>1, <2>2, WorkStays
  <2>4. SameData(node'[t][i], n) BY <1>1, <2>2
  <2>5. QED BY <2>3, <2>4 DEF WorkOK, SameData
<1>2. ASSUME NEW i \in Nodes, ToDo(t, new, i)', NEW d \in Callers, Has(d, t, i)'
      PROVE  caller'[d].pc \in {"remote", "wait"}
  BY <1>2 DEF Works
<1>3. ASSUME NEW i \in Nodes, NEW j \in Nodes, ToDo(t, new, i)', ToDo(t, new, j)', node'[t][i].call = node'[t][j].call
      PROVE  i = j
  BY <1>3 DEF SameData, Works
<1>4. ASSUME NEW i \in Nodes, ToDo(t, new, i)'
      PROVE  node'[t][i].RetValue = E_NOT_OK \/ (server'[t].pc = "done" /\ server'[t].node = i)
  BY <1>4 DEF Works, SameData
<1>5. QED BY <1>1, <1>2, <1>3, <1>4 DEF Works, Uses

\* A step of caller c that writes into lists and nodes of its target t
Writes(c, x, t, station, free, work) ==
  /\ caller' = [caller EXCEPT ![c] = x]
  /\ t = caller[c].call.target /\ x.call = caller[c].call
  /\ node' = [node EXCEPT ![t] = station]
  /\ freeQue' = [freeQue EXCEPT ![t] = free] /\ workQue' = [workQue EXCEPT ![t] = work]
  /\ UNCHANGED <<server, interrupt, CoreStatus, disabled>>
  /\ caller[c].node \in Nodes => Has(c, t, caller[c].node)
  /\ \A i \in Nodes : i # caller[c].node => SameData(station[i], node[t][i])
  /\ Kept(t) => \A i \in Nodes : \A d \in Callers : Has(c, t, i)' /\ Has(d, t, i) => c = d

LEMMA CallerWrites ==
  ASSUME IInv, NEW c \in Callers, NEW x \in CallerType, NEW t \in Cores, NEW station \in Station,
         NEW free \in QueType, NEW work \in QueType, Writes(c, x, t, station, free, work),
         CallerAgrees(c)', Onward(c), ServersAgree', CoreStatus[t] = "OS_RUN" => Pool(t)'
  PROVE  IInv'
<1> USE DEF Writes
<1>0. /\ TypeOK /\ CallersAgree /\ OneHolder
      /\ \A u \in Cores : CoreStatus[u] = "OS_RUN" => Pool(u)
      /\ \A d \in Callers : CallerAgrees(d)
  BY EachCallerAgrees DEF IInv
<1>1. caller'[c] = x /\ caller' \in [Callers -> CallerType] /\ \A d \in Callers : d # c => caller'[d] = caller[d]
  BY <1>0 DEF TypeOK
<1>2. /\ node'[t] = station /\ node' \in [Cores -> Station]
      /\ \A u \in Cores : u # t => node'[u] = node[u] /\ freeQue'[u] = freeQue[u] /\ workQue'[u] = workQue[u]
  BY <1>0 DEF TypeOK, Station
<1>3. TypeOK' BY <1>0, <1>1, <1>2 DEF TypeOK, QueType, Station
<1>4. \A d \in Callers : Onward(d) BY <1>0, <1>1, NodeOfCaller DEF Onward
<1>5. /\ \A d \in Callers, u \in Cores, i \in Nodes : d # c => (Has(d, u, i)' <=> Has(d, u, i))
      /\ \A u \in Cores, i \in Nodes : u # t => ~ Has(c, u, i)' /\ ~ Has(c, u, i)
  BY <1>1 DEF Has
<1>6. CallersAgree'
  <2>1. ASSUME NEW d \in Callers, d # c
        PROVE  CallerAgrees(d)'
    <3> DEFINE u == caller[d].call.target
               i == caller[d].node
    <3>1. u \in Cores /\ caller'[d] = caller[d] BY <1>0, <1>1, <2>1, NodeOfCaller
    <3>2. ASSUME caller[d].call.kind = "sync", caller[d].pc \in {"remote", "wait", "look", "give"}
          PROVE  SameData(node'[u][i], node[u][i])
      <4>1. i \in Nodes /\ Has(d, u, i) BY <1>0, <3>2, NodeOfCaller DEF Has
      <4>2. CASE u # t BY <1>2, <3>1, <4>2 DEF SameData
      <4>3. CASE u = t BY <1>0, <2>1, <3>2, <4>1, <4>3, SyncKept, <1>2 DEF OneHolder
      <4>4. QED BY <4>2, <4>3
    <3>3. QED BY <1>0, <3>1, <3>2, CallerKept DEF SameData
  <2>2. QED BY <2>1, EachCallerAgreesNext
<1>7. OneHolder' BY <1>0, <1>5 DEF OneHolder, Kept, Uses
<1>8. ASSUME NEW u \in Cores, CoreStatus'[u] = "OS_RUN"
      PROVE  Pool(u)'
  BY <1>8, <1>0, <1>1, <1>5, <1>2, <1>4, PoolKept
<1>9. QED BY <1>3, <1>6, <1>7, <1>8 DEF IInv

LEMMA TypesOf ==
  ASSUME TypeOK, NEW t \in Cores
  PROVE  /\ node[t] \in Station /\ freeQue[t] \in QueType /\ workQue[t] \in QueType
         /\ node = [node EXCEPT ![t] = node[t]]
         /\ freeQue = [freeQue EXCEPT ![t] = freeQue[t]] /\ workQue = [workQue EXCEPT ![t] = workQue[t]]
         /\ server[t].pc \in {"idle", "get", "act", "write", "done", "test", "give"} /\ server[t].node \in Trains
BY DEF TypeOK, Station, QueType, ServerType

LEMMA SeesDoneKeeps ==
  ASSUME IInv, NEW c \in Callers, SeesDone(c)
  PROVE  IInv'
<1>21. PICK t, i : t = caller[c].call.target /\ i = caller[c].node OBVIOUS
<1> DEFINE n == [node[t][i] EXCEPT !.ProcState = "OS_RPC_FREE"]
           station == [node[t] EXCEPT ![i] = n]
           x == [[caller[c] EXCEPT !.pc = "give"] EXCEPT !.ret = Held(c).RetValue]
<1> USE <1>21
<1>0. TypeOK /\ CallersAgree /\ CallerAgrees(c) /\ ServersAgree /\ OneHolder BY CallerFacts DEF IInv
<1>1. /\ caller[c].pc \in {"wait", "look"} /\ caller[c].call.kind = "sync"
      /\ t \in Cores /\ i \in Nodes /\ caller[c] \in CallerType /\ Held(c) = node[t][i]
      /\ Held(c).ProcState = "OS_RPC_DONE" /\ Held(c).RetValue = caller[c].call /\ Held(c).call = caller[c].call
      /\ Has(c, t, i) /\ caller[c].call \in Calls
  BY CallerFacts, <1>0 DEF SeesDone, At, CallerAgrees, Has, Held
<1>2. /\ x \in CallerType /\ x.pc = "give" /\ x.node = i /\ x.call = caller[c].call /\ x.ret = caller[c].call
  BY <1>1 DEF CallerType
<1>3. caller' = [caller EXCEPT ![c] = x] BY DEF SeesDone
<1>4. node' = [node EXCEPT ![t] = station] BY DEF SeesDone
<1> DEFINE old == node[t]
<1>5. old \in Station /\ freeQue[t] \in QueType /\ workQue[t] \in QueType BY <1>0, <1>1, TypesOf
<1>6. /\ n \in NodeType /\ n.next = old[i].next /\ n.RpcSync = old[i].RpcSync
      /\ n.RetValue = old[i].RetValue /\ n.call = old[i].call
  <2>1. old[i] \in NodeType BY <1>1, <1>5 DEF Station
  <2>2. QED BY <2>1 DEF NodeType
<1> HIDE DEF n, x
<1>7. station \in Station /\ station[i] = n /\ \A j \in Nodes : j # i => station[j] = old[j]
  BY <1>1, <1>5, <1>6 DEF Station
<1> HIDE DEF station
<1>8. caller'[c] = x /\ \A d \in Callers : d # c => caller'[d] = caller[d] BY <1>0, <1>3 DEF TypeOK
<1>9. node'[t] = station /\ \A u \in Cores : u # t => node'[u] = node[u]
  BY <1>0, <1>1, <1>4 DEF TypeOK
<1>10. UNCHANGED <<freeQue, workQue, server, interrupt, CoreStatus, disabled>> BY DEF SeesDone
<1>11. CallerAgrees(c)'
  <2>1. Held(c)' = n BY <1>2, <1>7, <1>8, <1>9 DEF Held
  <2>2. n.call = caller[c].call /\ n.RetValue = caller[c].call BY <1>1, <1>6
  <2>3. <<caller[c].call.target, caller[c].call.kind>> \in Services[c] /\ caller[c].call.caller = c
    BY <1>0, <1>1 DEF CallerAgrees
  <2>4. i # OS_RPC_INVALID_TRAIN BY <1>1, NodesAre
  <2>5. QED BY <1>1, <1>2, <1>8, <2>1, <2>2, <2>3, <2>4 DEF CallerAgrees
<1>12. Onward(c) BY CallerFacts, <1>2, <1>8 DEF Onward
<1>13. \A u \in Cores, j \in Nodes : node'[u][j].next = node[u][j].next /\ node'[u][j].RpcSync = node[u][j].RpcSync
  BY <1>6, <1>7, <1>9
<1>14. ServersAgree' BY <1>0, NodesAre, TypesOf, <1>10, <1>13 DEF ServersAgree, Uses
<1>15. \A d \in Callers, u \in Cores, j \in Nodes : Has(d, u, j)' <=> Has(d, u, j)
  BY <1>1, <1>2, <1>8 DEF Has
<1>16. ASSUME CoreStatus[t] = "OS_RUN"
       PROVE  Pool(t)'
  <2>1. PICK F, W : /\ IsList(freeQue[t], node[t], F) /\ IsList(workQue[t], node[t], W)
                    /\ Places(t, Elements(F), Elements(W)) /\ Works(t, Elements(W))
    BY <1>1, <1>16 DEF IInv, Pool
  <2> DEFINE free == Elements(F)
             work == Elements(W)
  <2>2. free \subseteq Nodes /\ work \subseteq Nodes BY <2>1, ListedAreNodes
  <2>3. IsList(freeQue'[t], node'[t], F) /\ IsList(workQue'[t], node'[t], W)
    BY <1>1, <1>10, <1>13, <2>1, SameLinks
  <2> HIDE DEF free, work
  <2>4. Places(t, free, work) /\ Works(t, work) BY <2>1 DEF free, work
  <2>5. \A j \in Nodes : Busy(t, j)' <=> Busy(t, j) BY <1>1, <1>10, <1>13 DEF Busy, Acts
  <2>6. Places(t, free, work)'
    <3>1. \A j \in Nodes : node'[t][j].next = node[t][j].next /\ node'[t][j].RpcSync = node[t][j].RpcSync
      BY <1>1, <1>13
    <3>2. \A d \in Callers, j \in Nodes : Has(d, t, j)' <=> Has(d, t, j) BY <1>1, <1>15
    <3>3. QED BY <2>2, <2>4, <2>5, <3>1, <3>2 DEF Places
  <2>7. ~ ToDo(t, work, i) BY <1>1, <2>4 DEF Works, WorkOK
  <2>8. ASSUME NEW j \in Nodes, ToDo(t, work, j)'
        PROVE  ToDo(t, work, j) /\ SameData(node'[t][j], node[t][j]) /\ ~ Has(c, t, j)
    BY <1>10, <2>8, <2>7, <1>7, <1>9 DEF ToDo, Acts, SameData, Has
  <2>9. \A d \in Callers : Onward(d) BY <1>0, NodeOfCaller, <1>8, <1>12 DEF Onward
  <2>10. caller' \in [Callers -> CallerType] BY <1>0, <1>2, <1>3 DEF TypeOK
  <2>11. server'[t].pc \in {"test", "give"} => Uses(t, node'[t][server'[t].node].RpcSync)
    <3>1. server[t].pc \in {"test", "give"} => server[t].node \in Nodes
      BY <1>0, <1>1, NodesAre, TypesOf DEF ServersAgree
    <3>2. QED BY <1>1, <1>10, <1>13, <2>4, <3>1 DEF Works
  <2>12. Works(t, work)'
    <3>1. \A j \in Nodes : \A d \in Callers : ToDo(t, work, j)' /\ Has(d, t, j)' =>
            Has(d, t, j) /\ (caller[d].pc \in {"remote", "wait"} => caller'[d].pc \in {"remote", "wait"})
      BY <1>1, <1>8, <1>15, <2>8
    <3>2. QED BY <1>0, <1>1, <1>10, <2>4, <2>8, <2>9, <2>10, <2>11, <3>1, WorksKept
  <2>13. QED BY <2>3, <2>6, <2>12 DEF Pool, free, work
<1>17. \A j \in Nodes : j # i => SameData(station[j], node[t][j]) BY <1>7 DEF SameData
<1>18. Kept(t) => \A j \in Nodes : \A d \in Callers : Has(c, t, j)' /\ Has(d, t, j) => c = d
  BY <1>0, <1>1, <1>15 DEF OneHolder
<1>19. freeQue' = [freeQue EXCEPT ![t] = freeQue[t]] /\ workQue' = [workQue EXCEPT ![t] = workQue[t]]
  BY <1>0, <1>1, <1>10, TypesOf
<1> HIDE DEF old
<1>20. Writes(c, x, t, station, freeQue[t], workQue[t])
  BY <1>1, <1>2, <1>3, <1>4, <1>10, <1>17, <1>18, <1>19 DEF Writes
<1>22. QED BY <1>1, <1>2, <1>5, <1>7, <1>11, <1>12, <1>14, <1>16, <1>20, CallerWrites

LEMMA OthersStay ==
  ASSUME TypeOK, CallersAgree, NEW c \in Callers, NEW x \in CallerType, caller' = [caller EXCEPT ![c] = x], Onward(c)
  PROVE  /\ caller' \in [Callers -> CallerType] /\ caller'[c] = x
         /\ \A d \in Callers : Onward(d)
         /\ \A d \in Callers : d # c => caller'[d] = caller[d]
         /\ \A d \in Callers, t \in Cores, i \in Nodes : d # c => (Has(d, t, i)' <=> Has(d, t, i))
BY NodeOfCaller DEF TypeOK, Onward, Has

LEMMA ServedIsNode ==
  ASSUME TypeOK, ServersAgree, NEW t \in Cores
  PROVE  server[t].pc \in {"act", "write", "done", "test", "give"} <=> server[t].node \in Nodes
BY NodesAre, TypesOf DEF ServersAgree

LEMMA ServersKept ==
  ASSUME TypeOK, ServersAgree, server' = server,
         \A u \in Cores, j \in Nodes : node'[u][j].RpcSync = node[u][j].RpcSync
  PROVE  ServersAgree'
BY ServedIsNode DEF ServersAgree, Uses

\* A caller that saw a core run finds a spare node when the core has stopped.
LEMMA SpareIs ==
  ASSUME TypeOK, Rest, NEW c \in Callers, caller[c].pc = "take", NEW t \in Cores, t = caller[c].call.target,
         Late(t)
  PROVE  \E p : /\ Spare(t, p) /\ p # <<>> /\ 1 \in 1 .. Len(p) /\ freeQue[t].Head = p[1] /\ p[1] \in Nodes
               /\ Cardinality(Takers(t) \ {c}) \in Nat /\ Cardinality(Takers(t) \ {c}) <= Len(p) - 1
               /\ IsFiniteSet(Takers(t) \ {c})
<1>1. PICK p : Spare(t, p) BY DEF Rest, Rests
<1>2. c \in Takers(t) BY DEF Takers
<1>3. /\ Cardinality(Takers(t) \ {c}) = Cardinality(Takers(t)) - 1 /\ IsFiniteSet(Takers(t) \ {c})
      /\ Cardinality(Takers(t) \ {c}) \in Nat /\ Cardinality(Takers(t)) \in Nat
  BY <1>1, <1>2, FS_RemoveElement, FS_CardinalityType DEF Spare
<1>4. p \in Seq(Nodes) /\ Len(p) \in Nat /\ Cardinality(Takers(t)) <= Len(p) BY <1>1 DEF Spare
<1>5. 1 \in 1 .. Len(p) /\ p # <<>> /\ p[1] \in Nodes BY <1>3, <1>4
<1>6. freeQue[t].Head = p[1] BY <1>1, <1>5 DEF Spare
<1>7. QED BY <1>1, <1>3, <1>4, <1>5, <1>6

LEMMA TakeNodeKeeps ==
  ASSUME IInv, Rest, NEW c \in Callers, TakeNode(c)
  PROVE  IInv'
<1>1. PICK t, got, i : t = caller[c].call.target /\ got = RpcGetService(freeQue[t], node[t]) /\ i = got.node
  OBVIOUS
<1>2. TypeOK /\ CallersAgree /\ CallerAgrees(c) /\ ServersAgree /\ OneHolder BY CallerFacts DEF IInv
<1>3. /\ t \in Cores /\ caller[c] \in CallerType /\ caller[c].call.number \in Nat
      /\ node[t] \in Station /\ freeQue[t] \in QueType /\ workQue[t] \in QueType
  BY <1>1, <1>2, CallerFacts, TypesOf
<1>4. caller[c].pc = "take" BY DEF TakeNode, At
<1>5. /\ got.que \in QueType /\ got.station \in Station /\ i \in Trains
      /\ \A j \in Nodes : SameData(got.station[j], node[t][j])
  <2>1. got.que \in QueType /\ got.station \in Station /\ i \in Trains /\ Relinked(node[t], got.station, Nodes)
    BY <1>1, <1>3, GetTypes
  <2>2. QED BY <2>1 DEF Relinked, SameData
<1> DEFINE to == IF i = OS_RPC_INVALID_TRAIN THEN "test" ELSE "submit"
           x == [[caller[c] EXCEPT !.pc = to] EXCEPT !.node = i]
<1>6. x \in CallerType /\ x.pc = to /\ x.node = i /\ x.call = caller[c].call
  BY <1>3, <1>5 DEF CallerType
<1>7. /\ caller' = [caller EXCEPT ![c] = x]
      /\ node' = [node EXCEPT ![t] = got.station]
      /\ freeQue' = [freeQue EXCEPT ![t] = got.que] /\ workQue' = workQue
      /\ UNCHANGED <<server, interrupt, CoreStatus, disabled>>
  BY <1>1 DEF TakeNode
<1> HIDE DEF x
<1>8. /\ node'[t] = got.station /\ freeQue'[t] = got.que
       /\ \A u \in Cores : u # t => node'[u] = node[u]
  BY <1>2, <1>3, <1>7 DEF TypeOK
<1>9. caller'[c] = x BY <1>2, <1>7 DEF TypeOK
<1>10. Onward(c) BY <1>3, <1>4, <1>6, <1>9 DEF Onward
<1>11. /\ caller' \in [Callers -> CallerType]
       /\ \A d \in Callers : Onward(d)
       /\ \A d \in Callers : d # c => caller'[d] = caller[d]
       /\ \A d \in Callers, u \in Cores, j \in Nodes : d # c => (Has(d, u, j)' <=> Has(d, u, j))
  BY <1>2, <1>6, <1>7, <1>10, OthersStay
<1>12. CallerAgrees(c)' BY <1>2, <1>4, <1>6, <1>9 DEF CallerAgrees
<1>13. \A j \in Nodes : SameData(node'[t][j], node[t][j]) BY <1>5, <1>8
<1>14. ServersAgree' BY <1>8, <1>13, <1>2, <1>7, ServersKept DEF SameData
<1>15. /\ \A u \in Cores, j \in Nodes : ~ Has(c, u, j)
       /\ \A j \in Nodes : Has(c, t, j)' => j = i
       /\ i \in Nodes => Has(c, t, i)'
  BY <1>4, CallerFacts, <1>1, <1>6, <1>9, NodesAre DEF Has
<1>16. ASSUME CoreStatus[t] = "OS_RUN", i \in Nodes
      PROVE  Pool(t)' /\ \A d \in Callers : ~ Has(d, t, i)
  <2>1. PICK F, W : /\ IsList(freeQue[t], node[t], F) /\ IsList(workQue[t], node[t], W)
                    /\ Places(t, Elements(F), Elements(W)) /\ Works(t, Elements(W))
    BY <1>3, <1>16 DEF IInv, Pool
  <2>2. /\ i \in Elements(F)
        /\ IsList(got.que, got.station, Tail(F)) /\ Elements(Tail(F)) = Elements(F) \ {i}
        /\ Relinked(node[t], got.station, {i}) /\ got.station[i].next = OS_RPC_INVALID_TRAIN
    <3>1. GetsFirst(freeQue[t], node[t], F) BY <1>3, <2>1, GetIs
    <3>2. QED BY <1>1, <1>16, <3>1, NodesAre DEF GetsFirst
  <2> DEFINE free == Elements(F)
             work == Elements(W)
  <2>3. free \subseteq Nodes /\ work \subseteq Nodes /\ i \in free BY <2>1, <2>2, ListedAreNodes
  <2> HIDE DEF free, work
  <2>4. Places(t, free, work) /\ Works(t, work) /\ Elements(Tail(F)) = free \ {i}
    BY <2>1, <2>2 DEF free, work
  <2>5. \A j \in Nodes : Busy(t, j)' <=> Busy(t, j) BY <1>7, <1>13 DEF Busy, Acts, SameData
  <2>6. ~ Busy(t, i) /\ i \notin work /\ \A d \in Callers : ~ Has(d, t, i) BY <2>3, <2>4 DEF Places
  <2>7. \A d \in Callers, j \in Nodes : j # i => (Has(d, t, j)' <=> Has(d, t, j))
    BY <1>3, <1>11, <1>15
  <2>8. \A j \in Nodes : node'[t][j].RpcSync = node[t][j].RpcSync BY <1>13 DEF SameData
  <2>9. node'[t][i].next = OS_RPC_INVALID_TRAIN /\ \A j \in Nodes : j # i => node'[t][j].next = node[t][j].next
    BY <1>8, <2>2 DEF Relinked
  <2>10. Places(t, free \ {i}, work)'
    BY <1>16, <1>15, <2>3, <2>4, <2>5, <2>6, <2>7, <2>8, <2>9 DEF Places
  <2>11. Works(t, work)'
    <3>1. ~ ToDo(t, work, i) BY <2>6 DEF ToDo, Busy
    <3>2. \A j \in Nodes : ToDo(t, work, j)' => ToDo(t, work, j) /\ SameData(node'[t][j], node[t][j])
      BY <1>7, <1>13 DEF ToDo, Acts
    <3>3. \A j \in Nodes : \A d \in Callers : ToDo(t, work, j)' /\ Has(d, t, j)' =>
            Has(d, t, j) /\ (caller[d].pc \in {"remote", "wait"} => caller'[d].pc \in {"remote", "wait"})
      BY <1>3, <1>11, <1>15, <3>1, <3>2
    <3>4. server'[t].pc \in {"test", "give"} => Uses(t, node'[t][server'[t].node].RpcSync)
      BY <1>2, <1>3, ServedIsNode, <1>7, <1>13, <2>4 DEF Works, SameData
    <3>5. QED BY <1>2, <1>3, <1>7, <1>11, <2>4, <3>2, <3>3, <3>4, WorksKept
  <2>12. IsList(workQue'[t], node'[t], W) BY <2>6, <2>1, <2>2, OtherLinks, <1>7, <1>8 DEF work
  <2>13. Places(t, Elements(Tail(F)), Elements(W))' /\ Works(t, Elements(W))'
    BY <2>4, <2>10, <2>11 DEF work
  <2>14. QED BY <1>8, <2>2, <2>6, <2>12, <2>13 DEF Pool
<1>17. ASSUME Late(t), i \in Nodes
      PROVE  \A d \in Callers : ~ Has(d, t, i)
  <2>1. PICK p : Spare(t, p) /\ 1 \in 1 .. Len(p) /\ freeQue[t].Head = p[1]
    BY <1>1, <1>2, <1>3, <1>4, <1>17, SpareIs
  <2>2. i = p[1] BY <1>1, <2>1 DEF RpcGetService
  <2>3. QED BY <2>1, <2>2 DEF Spare
<1>18. CASE i \in Nodes
  <2>1. workQue' = [workQue EXCEPT ![t] = workQue[t]] BY <1>2, <1>3, <1>7, TypesOf
  <2>2. caller[c].node \notin Nodes BY <1>4, CallerFacts
  <2>3. Kept(t) => \A j \in Nodes : \A d \in Callers : Has(c, t, j)' /\ Has(d, t, j) => c = d
    BY <1>16, <1>17, <1>15, <1>18 DEF Kept, Late
  <2>4. Writes(c, x, t, got.station, got.que, workQue[t])
    BY <1>1, <1>5, <1>6, <1>7, <2>1, <2>2, <2>3 DEF Writes
  <2>5. QED BY <1>3, <1>16, <1>5, <1>6, <1>10, <1>12, <1>14, <1>18, <2>4, CallerWrites
<1>19. CASE i \notin Nodes
  <2>1. got.que = freeQue[t] /\ got.station = node[t]
    BY <1>3, <1>1, <1>19, NodesAre DEF QueType, RpcGetService
  <2>2. node' = node /\ freeQue' = freeQue BY <1>2, <1>3, <1>7, <2>1, TypesOf
  <2>3. \A u \in Cores, j \in Nodes : ~ Has(c, u, j)' /\ ~ Has(c, u, j)
    BY <1>6, <1>9, <1>15, <1>19 DEF Has
  <2>4. QED BY <1>2, <1>6, <1>7, <1>10, <1>12, <2>2, <2>3, OnlyCallerMoves DEF TypeOK
<1>20. QED BY <1>18, <1>19

LEMMA OneKind ==
  ASSUME OneKindPerCore, NEW t, NEW k, NEW l, Uses(t, k), Uses(t, l)
  PROVE  k = l
<1>1. PICK c \in Callers, d \in Callers : <<t, k>> \in Services[c] /\ <<t, l>> \in Services[d]
  BY DEF Uses
<1>2. <<t, k>>[1] = <<t, l>>[1] => <<t, k>> = <<t, l>> BY <1>1 DEF OneKindPerCore
<1>3. QED BY <1>2

LEMMA SubmitNodeKeeps ==
  ASSUME OneKindPerCore, IInv, NEW c \in Callers, SubmitNode(c)
  PROVE  IInv'
<1>1. PICK t, i, r, n, base, added :
        /\ r = caller[c].call /\ t = r.target /\ i = caller[c].node
        /\ n = RpcProcessParameter(node[t][i], r) /\ base = [node[t] EXCEPT ![i] = n]
        /\ added = RpcAddService(workQue[t], base, i)
  OBVIOUS
<1>2. TypeOK /\ CallersAgree /\ CallerAgrees(c) /\ ServersAgree /\ OneHolder BY CallerFacts DEF IInv
<1>3. caller[c].pc = "submit" BY DEF SubmitNode, At
<1>4. /\ t \in Cores /\ i \in Nodes /\ caller[c] \in CallerType /\ r \in Calls /\ r.number \in Nat
      /\ node[t] \in Station /\ freeQue[t] \in QueType /\ workQue[t] \in QueType
  BY <1>1, <1>2, <1>3, CallerFacts, TypesOf
<1>5. r.caller = c /\ <<t, r.kind>> \in Services[c] /\ r.kind \in {"sync", "async"} /\ Uses(t, r.kind)
  BY <1>1, <1>2, <1>3, <1>4 DEF CallerAgrees, Calls, Uses
<1>6. /\ n \in NodeType /\ n.next = node[t][i].next /\ n.RpcSync = r.kind /\ n.ProcState = "OS_RPC_START"
      /\ n.RetValue = E_NOT_OK /\ n.call = r
  <2>1. node[t][i] \in NodeType BY <1>4 DEF Station
  <2>2. QED BY <1>1, <1>4, <1>5, <2>1 DEF RpcProcessParameter, NodeType
<1>7. base \in Station /\ base[i] = n /\ \A j \in Nodes : j # i => base[j] = node[t][j]
  BY <1>1, <1>4, <1>6 DEF Station
<1>8. \A j \in Nodes : base[j].next = node[t][j].next BY <1>6, <1>7
<1>9. added.que \in QueType /\ added.station \in Station /\ \A j \in Nodes : SameData(added.station[j], base[j])
  <2>1. added.que \in QueType /\ Relinked(base, added.station, {i, workQue[t].Tail})
    BY <1>1, <1>4, <1>7, AddTypes
  <2>2. QED BY <2>1 DEF Relinked, SameData
<1> DEFINE x == [caller[c] EXCEPT !.pc = "remote"]
<1>10. x \in CallerType /\ x.pc = "remote" /\ x.node = i /\ x.call = r BY <1>1, <1>4 DEF CallerType
<1>11. /\ caller' = [caller EXCEPT ![c] = x]
       /\ node' = [node EXCEPT ![t] = added.station]
       /\ workQue' = [workQue EXCEPT ![t] = added.que] /\ freeQue' = freeQue
       /\ UNCHANGED <<server, interrupt, CoreStatus, disabled>>
  BY <1>1 DEF SubmitNode, Goto
<1> HIDE DEF x
<1>12. /\ node'[t] = added.station /\ workQue'[t] = added.que
       /\ \A u \in Cores : u # t => node'[u] = node[u]
  BY <1>2, <1>4, <1>11 DEF TypeOK
<1>13. caller'[c] = x BY <1>2, <1>11 DEF TypeOK
<1>14. Onward(c) BY <1>1, <1>4, <1>10, <1>13 DEF Onward
<1>15. /\ caller' \in [Callers -> CallerType]
       /\ \A d \in Callers : Onward(d)
       /\ \A d \in Callers : d # c => caller'[d] = caller[d]
       /\ \A d \in Callers, u \in Cores, j \in Nodes : d # c => (Has(d, u, j)' <=> Has(d, u, j))
  BY <1>2, <1>10, <1>11, <1>14, OthersStay
<1>16. /\ SameData(node'[t][i], n)
       /\ \A j \in Nodes : j # i => SameData(node'[t][j], node[t][j])
  BY <1>4, <1>7, <1>9, <1>12
<1>17. CallerAgrees(c)'
  <2>1. Held(c)' = node'[t][i] BY <1>1, <1>10, <1>13 DEF Held
  <2>2. Held(c)'.call = r /\ Held(c)'.RetValue = E_NOT_OK /\ Held(c)'.ProcState = "OS_RPC_START"
    BY <1>6, <1>16, <2>1 DEF SameData
  <2>3. i # OS_RPC_INVALID_TRAIN BY <1>4, NodesAre
  <2>4. <<r.target, r.kind>> \in Services[c] /\ r.caller = c BY <1>1, <1>5
  <2>5. QED BY <1>10, <1>13, <2>2, <2>3, <2>4 DEF CallerAgrees
<1>18. \A j \in Nodes : node[t][j].RpcSync = "async" => r.kind = "async"
  BY <1>2, <1>4, <1>5, OneKind DEF ServersAgree
<1>19. ServersAgree'
  <2>1. ASSUME NEW u \in Cores, server[u].pc = "give"
        PROVE  node'[u][server[u].node].RpcSync = "async"
    BY <1>2, <2>1, ServedIsNode, <1>6, <1>12, <1>16, <1>18 DEF ServersAgree, SameData
  <2>2. ASSUME NEW u \in Cores, NEW j \in Nodes, node'[u][j].RpcSync = "async"
        PROVE  Uses(u, "async")
    BY <1>5, <1>6, <1>16, <2>2, <1>12, <1>2 DEF SameData, ServersAgree
  <2>3. QED BY <1>2, <1>11, <2>1, <2>2 DEF ServersAgree, Uses
<1>20. /\ Has(c, t, i)
       /\ Kept(t) => \A d \in Callers : Has(d, t, i) => d = c
       /\ \A u \in Cores, j \in Nodes : ~ (u = t /\ j = i) => ~ Has(c, u, j) /\ ~ Has(c, u, j)'
       /\ Has(c, t, i)' <=> r.kind = "sync"
  BY <1>1, <1>3, <1>2, <1>4, <1>10, <1>13 DEF Has, OneHolder
<1>21. ASSUME CoreStatus[t] = "OS_RUN"
       PROVE  Pool(t)'
  <2>0. \A d \in Callers : Has(d, t, i) => d = c BY <1>20, <1>21 DEF Kept
  <2>1. PICK F, W : /\ IsList(freeQue[t], node[t], F) /\ IsList(workQue[t], node[t], W)
                    /\ Places(t, Elements(F), Elements(W)) /\ Works(t, Elements(W))
    BY <1>4, <1>21 DEF IInv, Pool
  <2> DEFINE free == Elements(F)
             work == Elements(W)
             more == work \cup {i}
  <2>2. free \subseteq Nodes /\ work \subseteq Nodes BY <2>1, ListedAreNodes
  <2> HIDE DEF free, work
  <2>3. Places(t, free, work) /\ Works(t, work) BY <2>1 DEF free, work
  <2>4. i \notin free /\ ~ ToDo(t, work, i) BY <1>3, <1>4, <1>20, <2>0, <2>3 DEF Places, Works
  <2>5. i \notin work BY <2>4 DEF ToDo
  <2>6. IsList(workQue[t], base, W) /\ IsList(freeQue[t], base, F) BY <1>8, <2>1, SameLinks
  <2>7. AddsLast(workQue[t], base, W, i) BY <1>4, <1>7, <2>5, <2>6, AddIs DEF work
  <2>8. IsList(added.que, added.station, Append(W, i)) /\ Elements(Append(W, i)) = more
        /\ Relinked(base, added.station, more)
    BY <1>1, <2>7 DEF AddsLast, work
  <2> HIDE DEF more
  <2>9. IsList(freeQue[t], added.station, F)
    BY <2>3, <2>4, <2>6, <2>8, OtherLinks DEF Places, more, free
  <2>10. ~ Busy(t, i)'
    <3>1. ASSUME server[t].node = i
          PROVE  ~ Acts(t) /\ r.kind # "async"
      <4>1. ~ Acts(t) BY <2>4, <3>1 DEF ToDo
      <4>2. node[t][i].RpcSync # "async" BY <1>4, <1>20, <2>3, <3>1 DEF Places, Busy
      <4>3. server[t].pc = "test" /\ node[t][i].RpcSync = "sync"
        <5>1. server[t].pc \in {"act", "write", "done", "test", "give"}
          BY <1>2, <1>4, <3>1, ServedIsNode
        <5>2. server[t].pc # "give" BY <1>2, <1>4, <3>1, <4>2 DEF ServersAgree
        <5>3. QED BY <1>4, <4>1, <4>2, <5>1, <5>2 DEF Station, NodeType, Acts
      <4>4. Uses(t, "sync") BY <2>3, <3>1, <4>3 DEF Works
      <4>5. QED BY <1>5, <4>1, <4>4, OneKind
    <3>2. QED BY <1>6, <1>11, <1>16, <3>1 DEF Busy, Acts, SameData
  <2>11. \A j \in Nodes : j # i => (Busy(t, j)' <=> Busy(t, j))
    BY <1>11, <1>16 DEF Busy, Acts, SameData
  <2>12. \A d \in Callers, j \in Nodes : j # i => (Has(d, t, j)' <=> Has(d, t, j))
    BY <1>4, <1>15, <1>20
  <2>13. Places(t, free, more)'
    <3>1. \A j \in free : j \notin more /\ ~ Busy(t, j)' /\ \A d \in Callers : ~ Has(d, t, j)'
      BY <2>2, <2>3, <2>4, <2>11, <2>12 DEF Places, more
    <3>2. \A j \in more : ~ Busy(t, j)' BY <2>2, <2>3, <2>10, <2>11 DEF Places, more
    <3>3. ASSUME NEW j \in Nodes
          PROVE  LET passed == node'[t][j].RpcSync = "async" /\ (j \in more \/ Busy(t, j)')
                 IN  /\ passed => \A d \in Callers : ~ Has(d, t, j)'
                     /\ j \in free \/ passed \/ \E d \in Callers : Has(d, t, j)'
                     /\ j \in free \cup more \/ node'[t][j].next = OS_RPC_INVALID_TRAIN
      <4>1. CASE j # i
        <5>1. /\ node'[t][j].RpcSync = node[t][j].RpcSync /\ (j \in more <=> j \in work)
              /\ j \notin more => node'[t][j].next = node[t][j].next
          BY <1>8, <1>12, <1>16, <2>8, <4>1 DEF SameData, more, Relinked
        <5>2. QED BY <2>3, <2>11, <2>12, <4>1, <5>1 DEF Places
      <4>2. CASE j = i
        <5>1. node'[t][i].RpcSync = r.kind /\ i \in more BY <1>6, <1>16 DEF SameData, more
        <5>2. r.kind = "async" => \A d \in Callers : ~ Has(d, t, i)' BY <1>4, <1>15, <1>20, <2>0
        <5>3. QED BY <1>5, <1>20, <4>2, <5>1, <5>2
      <4>3. QED BY <4>1, <4>2
    <3>4. QED BY <3>1, <3>2, <3>3 DEF Places
  <2>14. \A j \in Nodes : j # i => (ToDo(t, more, j)' <=> ToDo(t, work, j))
    BY <1>11 DEF ToDo, Acts, more
  <2>15. WorkOK(t, node[t][i])'
    <3>1. caller'[n.call.caller] = x BY <1>5, <1>6, <1>13
    <3>2. n.call \in Calls /\ n.call.target = t /\ n.call.kind = n.RpcSync /\ Uses(t, n.RpcSync)
      BY <1>1, <1>4, <1>5, <1>6
    <3>3. n.call.number <= x.call.number /\ x.pc \notin {"test", "take", "submit"}
      BY <1>4, <1>6, <1>10
    <3>4. WorkOK(t, n)' BY <1>6, <3>1, <3>2, <3>3 DEF WorkOK, Uses
    <3>5. SameData(node'[t][i], n) BY <1>16
    <3>6. QED BY <3>4, <3>5 DEF WorkOK, SameData
  <2>16. ASSUME NEW j \in Nodes, j # i, ToDo(t, work, j)
         PROVE  /\ WorkOK(t, node[t][j])'
                /\ node'[t][j].call # r
                /\ \A d \in Callers : Has(d, t, j)' => caller'[d].pc \in {"remote", "wait"}
                /\ node'[t][j].RetValue = E_NOT_OK \/ (server'[t].pc = "done" /\ server'[t].node = j)
    <3>1. WorkOK(t, node[t][j]) BY <2>3, <2>16 DEF Works
    <3>2. PICK m : m = node[t][j] OBVIOUS
    <3>3. WorkOK(t, m)' BY <1>2, <1>4, <1>15, <3>1, <3>2, WorkStays
    <3>4. SameData(node'[t][j], m) BY <1>16, <2>16, <3>2
    <3>5. m.call # r BY <1>1, <1>3, <1>4, <1>5, <3>1, <3>2 DEF WorkOK
    <3>6. \A d \in Callers : Has(d, t, j)' => caller'[d].pc \in {"remote", "wait"}
      BY <1>4, <1>15, <1>20, <2>3, <2>16 DEF Works
    <3>7. node'[t][j].RetValue = E_NOT_OK \/ (server'[t].pc = "done" /\ server'[t].node = j)
      BY <1>11, <1>16, <2>3, <2>16 DEF Works, SameData
    <3>8. QED BY <3>3, <3>4, <3>5, <3>6, <3>7 DEF WorkOK, SameData
  <2>17. Works(t, more)'
    <3>1. \A j \in Nodes : ToDo(t, more, j)' => WorkOK(t, node[t][j])' BY <2>14, <2>15, <2>16
    <3>2. \A j \in Nodes : ToDo(t, more, j)' => \A d \in Callers : Has(d, t, j)' => caller'[d].pc \in {"remote", "wait"}
      BY <1>4, <1>10, <1>13, <1>15, <1>20, <2>0, <2>14, <2>16
    <3>3. \A j, k \in Nodes : ToDo(t, more, j)' /\ ToDo(t, more, k)' /\ node'[t][j].call = node'[t][k].call => j = k
      BY <1>6, <1>16, <2>3, <2>14, <2>16 DEF SameData, Works
    <3>4. server'[t].pc \in {"test", "give"} => Uses(t, node'[t][server'[t].node].RpcSync)
      <4>1. server[t].pc \in {"test", "give"} => server[t].node \in Nodes
        BY <1>2, <1>4, ServedIsNode
      <4>2. QED BY <1>5, <1>6, <1>11, <1>16, <2>3, <4>1 DEF Works, SameData
    <3>5. \A j \in Nodes : ToDo(t, more, j)' =>
            node'[t][j].RetValue = E_NOT_OK \/ (server'[t].pc = "done" /\ server'[t].node = j)
      BY <1>6, <1>16, <2>14, <2>16 DEF SameData
    <3>6. QED BY <3>1, <3>2, <3>3, <3>4, <3>5 DEF Works, Uses
  <2>18. IsList(freeQue'[t], node'[t], F) /\ IsList(workQue'[t], node'[t], Append(W, i))
    BY <1>11, <1>12, <2>8, <2>9
  <2>19. Places(t, Elements(F), Elements(Append(W, i)))' /\ Works(t, Elements(Append(W, i)))'
    BY <2>8, <2>13, <2>17 DEF free
  <2>20. QED BY <2>18, <2>19 DEF Pool
<1>22. Writes(c, x, t, added.station, freeQue[t], added.que)
  <2>1. freeQue' = [freeQue EXCEPT ![t] = freeQue[t]] BY <1>2, <1>4, <1>11, TypesOf
  <2>2. \A j \in Nodes : j # caller[c].node => SameData(added.station[j], node[t][j])
    BY <1>1, <1>12, <1>16
  <2>3. Kept(t) => \A j \in Nodes : \A d \in Callers : Has(c, t, j)' /\ Has(d, t, j) => c = d
    BY <1>4, <1>20
  <2>4. QED BY <1>1, <1>10, <1>11, <1>20, <2>1, <2>2, <2>3 DEF Writes
<1>23. QED BY <1>4, <1>9, <1>10, <1>14, <1>17, <1>19, <1>21, <1>22, CallerWrites

LEMMA ForgetIs ==
  ASSUME TypeOK, NEW t \in Cores, NEW i \in Nodes
  PROVE  LET base == Forget(t, i)
         IN  /\ base \in Station /\ base[i].RpcSync = node[t][i].RpcSync
             /\ \A j \in Nodes : base[j].next = node[t][j].next
             /\ \A j \in Nodes : j # i => SameData(base[j], node[t][j])
             /\ CoreStatus[t] # "OS_RUN" => base = node[t]
<1> DEFINE base == Forget(t, i)
           n == [[[node[t][i] EXCEPT !.ProcState = "OS_RPC_FREE"] EXCEPT !.RetValue = None] EXCEPT !.call = None]
<1>0. node[t] \in Station BY TypesOf
<1>1. CASE CoreStatus[t] # "OS_RUN" BY <1>0, <1>1 DEF Forget, SameData
<1>2. CASE CoreStatus[t] = "OS_RUN"
  <2>1. base = [node[t] EXCEPT ![i] = n] BY <1>0, <1>2 DEF Forget, Station
  <2>2. node[t][i] \in NodeType BY <1>0 DEF Station
  <2>3. n \in NodeType /\ n.next = node[t][i].next /\ n.RpcSync = node[t][i].RpcSync
    BY <2>2 DEF NodeType
  <2> HIDE DEF n
  <2>4. base \in Station /\ base[i] = n /\ \A j \in Nodes : j # i => base[j] = node[t][j]
    BY <1>0, <2>1, <2>3 DEF Station
  <2> HIDE DEF base
  <2>5. /\ base \in Station /\ base[i].RpcSync = node[t][i].RpcSync
        /\ \A j \in Nodes : base[j].next = node[t][j].next
        /\ \A j \in Nodes : j # i => SameData(base[j], node[t][j])
    BY <2>3, <2>4 DEF SameData
  <2>6. QED BY <1>2, <2>5 DEF base
<1>3. QED BY <1>1, <1>2

LEMMA GiveNodeBackKeeps ==
  ASSUME OneKindPerCore, IInv, NEW c \in Callers, GiveNodeBack(c)
  PROVE  IInv'
<1>1. PICK t, i, base, added :
        /\ t = caller[c].call.target /\ i = caller[c].node /\ base = Forget(t, i)
        /\ added = RpcAddService(freeQue[t], base, i)
  OBVIOUS
<1>2. TypeOK /\ CallersAgree /\ CallerAgrees(c) /\ ServersAgree /\ OneHolder BY CallerFacts DEF IInv
<1>3. caller[c].pc = "give" /\ caller[c].call.kind = "sync" /\ Has(c, t, i)
  BY <1>1, <1>2 DEF GiveNodeBack, At, CallerAgrees, Has
<1>4. /\ t \in Cores /\ i \in Nodes /\ caller[c] \in CallerType /\ caller[c].call.number \in Nat
      /\ node[t] \in Station /\ freeQue[t] \in QueType /\ workQue[t] \in QueType
  BY <1>1, <1>2, <1>3, CallerFacts, TypesOf
<1>5. Uses(t, "sync") /\ Kept(t) BY <1>1, <1>2, <1>3, SyncKept
<1>6. /\ base \in Station /\ base[i].RpcSync = node[t][i].RpcSync
      /\ \A j \in Nodes : base[j].next = node[t][j].next
      /\ \A j \in Nodes : j # i => SameData(base[j], node[t][j])
  BY <1>1, <1>2, <1>4, ForgetIs
<1>7. added.que \in QueType /\ added.station \in Station /\ \A j \in Nodes : SameData(added.station[j], base[j])
  <2>1. added.que \in QueType /\ Relinked(base, added.station, {i, freeQue[t].Tail})
    BY <1>1, <1>4, <1>6, AddTypes
  <2>2. QED BY <2>1 DEF Relinked, SameData
<1> DEFINE x == [caller[c] EXCEPT !.pc = "idle", !.ret = caller[c].ret, !.node = OS_RPC_INVALID_TRAIN]
<1>8. x \in CallerType /\ x.pc = "idle" /\ x.node = OS_RPC_INVALID_TRAIN /\ x.call = caller[c].call
  BY NodesAre, <1>4 DEF CallerType
<1>9. /\ caller' = [caller EXCEPT ![c] = x]
      /\ node' = [node EXCEPT ![t] = added.station]
      /\ freeQue' = [freeQue EXCEPT ![t] = added.que] /\ workQue' = workQue
      /\ UNCHANGED <<server, interrupt, CoreStatus, disabled>>
  BY <1>1 DEF GiveNodeBack, End
<1> HIDE DEF x
<1>10. /\ node'[t] = added.station /\ freeQue'[t] = added.que
       /\ \A u \in Cores : u # t => node'[u] = node[u]
  BY <1>2, <1>4, <1>9 DEF TypeOK
<1>11. caller'[c] = x BY <1>2, <1>9 DEF TypeOK
<1>12. Onward(c) BY <1>4, <1>8, <1>11 DEF Onward
<1>13. /\ caller' \in [Callers -> CallerType]
       /\ \A d \in Callers : Onward(d)
       /\ \A d \in Callers : d # c => caller'[d] = caller[d]
       /\ \A d \in Callers, u \in Cores, j \in Nodes : d # c => (Has(d, u, j)' <=> Has(d, u, j))
  BY <1>2, <1>8, <1>9, <1>12, OthersStay
<1>14. CallerAgrees(c)' BY <1>2, <1>8, <1>11 DEF CallerAgrees
<1>15. /\ \A j \in Nodes : node'[t][j].RpcSync = node[t][j].RpcSync
       /\ \A j \in Nodes : j # i => SameData(node'[t][j], node[t][j])
  BY <1>6, <1>7, <1>10 DEF SameData
<1>16. ServersAgree' BY <1>10, <1>15, <1>2, <1>9, ServersKept
<1>17. /\ \A u \in Cores, j \in Nodes : ~ Has(c, u, j)'
       /\ \A j \in Nodes : j # i => ~ Has(c, t, j)
       /\ \A d \in Callers : Has(d, t, i) => d = c
  <2>1. \A u \in Cores, j \in Nodes : ~ Has(c, u, j)' BY <1>8, <1>11, NodesAre DEF Has
  <2>2. \A d \in Callers : Has(d, t, i) => d = c BY <1>2, <1>3, <1>4, <1>5 DEF OneHolder
  <2>3. QED BY <1>1, <2>1, <2>2 DEF Has
<1>18. ASSUME CoreStatus[t] = "OS_RUN"
       PROVE  Pool(t)'
  <2>1. PICK F, W : /\ IsList(freeQue[t], node[t], F) /\ IsList(workQue[t], node[t], W)
                    /\ Places(t, Elements(F), Elements(W)) /\ Works(t, Elements(W))
    BY <1>4, <1>18 DEF IInv, Pool
  <2> DEFINE free == Elements(F)
             work == Elements(W)
             more == free \cup {i}
  <2>2. free \subseteq Nodes /\ work \subseteq Nodes BY <2>1, ListedAreNodes
  <2> HIDE DEF free, work
  <2>3. Places(t, free, work) /\ Works(t, work) BY <2>1 DEF free, work
  <2>4. i \notin free /\ ~ ToDo(t, work, i) BY <1>3, <1>4, <2>3 DEF Places, Works
  <2>5. i \notin work BY <2>4 DEF ToDo
  <2>6. IsList(workQue[t], base, W) /\ IsList(freeQue[t], base, F) BY <1>6, <2>1, SameLinks
  <2>7. AddsLast(freeQue[t], base, F, i) BY <1>4, <1>6, <2>4, <2>6, AddIs DEF free
  <2>8. IsList(added.que, added.station, Append(F, i)) /\ Elements(Append(F, i)) = more
        /\ Relinked(base, added.station, more)
    BY <1>1, <2>7 DEF AddsLast, free
  <2> HIDE DEF more
  <2>9. IsList(workQue[t], added.station, W)
    BY <2>3, <2>5, <2>6, <2>8, OtherLinks DEF Places, more, work
  <2>10. ~ Busy(t, i) BY <1>2, <1>4, <1>5, OneKind, <2>4 DEF ServersAgree, Busy, ToDo
  <2>11. \A j \in Nodes : Busy(t, j)' <=> Busy(t, j) BY <1>9, <1>15 DEF Busy, Acts
  <2>12. \A d \in Callers : ~ Has(d, t, i)' BY <1>4, <1>13, <1>17
  <2>13. \A d \in Callers, j \in Nodes : j # i => (Has(d, t, j)' <=> Has(d, t, j))
    BY <1>4, <1>13, <1>17
  <2>14. Places(t, more, work)'
    <3>1. \A j \in more : j \notin work /\ ~ Busy(t, j)' /\ \A d \in Callers : ~ Has(d, t, j)'
      BY <1>4, <2>2, <2>3, <2>5, <2>10, <2>11, <2>12, <2>13 DEF Places, more
    <3>2. \A j \in work : ~ Busy(t, j)' BY <2>2, <2>3, <2>11 DEF Places
    <3>3. ASSUME NEW j \in Nodes
          PROVE  LET passed == node'[t][j].RpcSync = "async" /\ (j \in work \/ Busy(t, j)')
                 IN  /\ passed => \A d \in Callers : ~ Has(d, t, j)'
                     /\ j \in more \/ passed \/ \E d \in Callers : Has(d, t, j)'
                     /\ j \in more \cup work \/ node'[t][j].next = OS_RPC_INVALID_TRAIN
      <4>1. CASE j # i
        <5>1. j \notin more => node'[t][j].next = node[t][j].next BY <1>6, <1>10, <2>8 DEF Relinked
        <5>2. QED BY <1>15, <2>3, <2>11, <2>13, <4>1, <5>1 DEF Places, more
      <4>2. CASE j = i BY <2>12, <4>2 DEF more
      <4>3. QED BY <4>1, <4>2
    <3>4. QED BY <3>1, <3>2, <3>3 DEF Places
  <2>15. Works(t, work)'
    <3>1. \A j \in Nodes : ToDo(t, work, j)' => ToDo(t, work, j) /\ SameData(node'[t][j], node[t][j])
      BY <1>9, <1>15, <2>4 DEF ToDo, Acts
    <3>2. \A j \in Nodes : \A d \in Callers : ToDo(t, work, j)' /\ Has(d, t, j)' =>
            Has(d, t, j) /\ (caller[d].pc \in {"remote", "wait"} => caller'[d].pc \in {"remote", "wait"})
      BY <1>4, <1>13, <1>17
    <3>3. server'[t].pc \in {"test", "give"} => Uses(t, node'[t][server'[t].node].RpcSync)
      BY <1>2, <1>4, ServedIsNode, <1>9, <1>15, <2>3 DEF Works
    <3>4. QED BY <1>2, <1>4, <1>9, <1>13, <2>3, <3>1, <3>2, <3>3, WorksKept
  <2>16. IsList(freeQue'[t], node'[t], Append(F, i)) /\ IsList(workQue'[t], node'[t], W)
    BY <1>9, <1>10, <2>8, <2>9
  <2>17. Places(t, Elements(Append(F, i)), Elements(W))' /\ Works(t, Elements(W))'
    BY <2>8, <2>14, <2>15 DEF work
  <2>18. QED BY <2>16, <2>17 DEF Pool
<1>19. Writes(c, x, t, added.station, added.que, workQue[t])
  <2>1. workQue' = [workQue EXCEPT ![t] = workQue[t]] BY <1>2, <1>4, <1>9, TypesOf
  <2>2. \A j \in Nodes : j # caller[c].node => SameData(added.station[j], node[t][j])
    BY <1>1, <1>10, <1>15
  <2>3. \A j \in Nodes : \A d \in Callers : Has(c, t, j)' /\ Has(d, t, j) => c = d BY <1>4, <1>17
  <2>4. QED BY <1>1, <1>3, <1>8, <1>9, <2>1, <2>2, <2>3 DEF Writes
<1>20. QED BY <1>4, <1>7, <1>8, <1>12, <1>14, <1>16, <1>18, <1>19, CallerWrites

\* A step of the interrupt of t, which writes into lists and nodes of t only
Serves(t, s, station, free, work) ==
  /\ server' = [server EXCEPT ![t] = s]
  /\ node' = [node EXCEPT ![t] = station]
  /\ freeQue' = [freeQue EXCEPT ![t] = free] /\ workQue' = [workQue EXCEPT ![t] = work]
  /\ UNCHANGED <<caller, CoreStatus, disabled>>

Waits(d, t) == /\ caller[d].call.target = t /\ caller[d].call.kind = "sync"
               /\ caller[d].pc \in {"remote", "wait", "look", "give"}

LEMMA ServerWrites ==
  ASSUME IInv, NEW t \in Cores, NEW s \in ServerType, NEW station \in Station,
         NEW free \in QueType, NEW work \in QueType, Serves(t, s, station, free, work),
         interrupt' \in [Cores -> BOOLEAN], ServersAgree',
         \A d \in Callers : Waits(d, t) => CallerAgrees(d)',
         CoreStatus[t] = "OS_RUN" => Pool(t)'
  PROVE  IInv'
<1> USE DEF Serves
<1>0. /\ TypeOK /\ CallersAgree /\ OneHolder
      /\ \A u \in Cores : CoreStatus[u] = "OS_RUN" => Pool(u)
      /\ \A d \in Callers : CallerAgrees(d)
  BY EachCallerAgrees DEF IInv
<1>1. /\ node'[t] = station /\ node' \in [Cores -> Station]
      /\ \A u \in Cores : u # t => /\ node'[u] = node[u] /\ freeQue'[u] = freeQue[u] /\ workQue'[u] = workQue[u]
                                   /\ server'[u] = server[u]
  BY <1>0 DEF TypeOK, Station
<1>2. TypeOK' BY <1>0, <1>1 DEF TypeOK, QueType, Station
<1>3. \A d \in Callers : Onward(d) BY <1>0, NodeOfCaller DEF Onward
<1>4. CallersAgree'
  <2>1. ASSUME NEW d \in Callers, ~ Waits(d, t)
        PROVE  CallerAgrees(d)'
    <3> DEFINE u == caller[d].call.target
               i == caller[d].node
    <3>1. u \in Cores /\ caller'[d] = caller[d] BY <1>0, NodeOfCaller
    <3>2. ASSUME caller[d].call.kind = "sync", caller[d].pc \in {"remote", "wait", "look", "give"}
          PROVE  SameData(node'[u][i], node[u][i])
      BY <2>1, <3>2, <1>1, <3>1 DEF Waits, SameData
    <3>3. QED BY <1>0, <3>1, <3>2, CallerKept DEF SameData
  <2>2. QED BY <2>1, EachCallerAgreesNext
<1>5. \A d \in Callers, u \in Cores, i \in Nodes : Has(d, u, i)' <=> Has(d, u, i) BY DEF Has
<1>6. OneHolder' BY <1>0, <1>5 DEF OneHolder, Kept, Uses
<1>7. ASSUME NEW u \in Cores, CoreStatus'[u] = "OS_RUN"
      PROVE  Pool(u)'
  BY <1>7, <1>0, <1>1, <1>3, <1>5, PoolKept DEF TypeOK
<1>8. QED BY <1>2, <1>4, <1>6, <1>7 DEF IInv

\* What a step of the interrupt of t may assume
LEMMA ServerFacts ==
  ASSUME IInv, NEW t \in Cores
  PROVE  /\ TypeOK /\ CallersAgree /\ ServersAgree /\ OneHolder
         /\ server[t] \in ServerType /\ node[t] \in Station /\ freeQue[t] \in QueType /\ workQue[t] \in QueType
         /\ server[t].pc \in {"act", "write", "done", "test", "give"} <=> server[t].node \in Nodes
         /\ interrupt \in [Cores -> BOOLEAN] /\ caller \in [Callers -> CallerType]
         /\ OS_RPC_INVALID_TRAIN \notin Nodes /\ OS_RPC_INVALID_TRAIN \in Trains
         /\ node = [node EXCEPT ![t] = node[t]]
         /\ freeQue = [freeQue EXCEPT ![t] = freeQue[t]] /\ workQue = [workQue EXCEPT ![t] = workQue[t]]
BY NodesAre, TypesOf, ServedIsNode DEF IInv, TypeOK

LEMMA WaitersKept ==
  ASSUME IInv, caller' = caller, CoreStatus' = CoreStatus, NEW t \in Cores, NEW d \in Callers, Waits(d, t),
         LET old == node[t][caller[d].node]
             new == node'[t][caller[d].node]
         IN  new.call = old.call /\ new.RetValue = old.RetValue /\ new.ProcState = old.ProcState
  PROVE  CallerAgrees(d)'
BY EachCallerAgrees, CallerKept DEF IInv, Waits

LEMMA WaiterHas ==
  ASSUME IInv, NEW t \in Cores, NEW d \in Callers, Waits(d, t)
  PROVE  caller[d].node \in Nodes /\ Has(d, t, caller[d].node) /\ Uses(t, "sync")
BY EachCallerAgrees, NodeOfCaller DEF IInv, Waits, CallerAgrees, Has, Uses

LEMMA NobodyMoves ==
  ASSUME IInv, caller' = caller
  PROVE  /\ caller' \in [Callers -> CallerType] /\ \A d \in Callers : Onward(d)
         /\ \A d \in Callers, u \in Cores, i \in Nodes : Has(d, u, i)' <=> Has(d, u, i)
BY NodeOfCaller DEF IInv, Onward, Has, TypeOK

LEMMA EnterInterruptKeeps ==
  ASSUME IInv, NEW t \in Cores, EnterInterrupt(t)
  PROVE  IInv'
<1> DEFINE s == [server[t] EXCEPT !.pc = "get"]
<1>1. /\ TypeOK /\ ServersAgree /\ server[t] \in ServerType /\ server[t].pc = "idle"
      /\ interrupt' \in [Cores -> BOOLEAN] /\ caller' = caller
      /\ UNCHANGED <<node, freeQue, workQue, caller, CoreStatus, disabled>>
  BY ServerFacts DEF EnterInterrupt, Serving
<1>2. s \in ServerType /\ s.pc = "get" /\ s.node = server[t].node /\ s.node \notin Nodes
      /\ s.node = OS_RPC_INVALID_TRAIN
  BY <1>1, NodesAre DEF ServersAgree, ServerType
<1>3. server' = [server EXCEPT ![t] = s] BY DEF EnterInterrupt, ServerGoto
<1> HIDE DEF s
<1>4. server'[t] = s /\ \A u \in Cores : u # t => server'[u] = server[u] BY <1>1, <1>3 DEF TypeOK
<1>5. Serves(t, s, node[t], freeQue[t], workQue[t]) BY <1>1, <1>3, ServerFacts DEF Serves
<1>6. ServersAgree' BY <1>1, <1>2, <1>4 DEF ServersAgree, Uses
<1>7. \A d \in Callers : Waits(d, t) => CallerAgrees(d)' BY <1>1, WaitersKept
<1>8. ASSUME CoreStatus[t] = "OS_RUN"
      PROVE  Pool(t)'
  <2>1. PICK F, W : /\ IsList(freeQue[t], node[t], F) /\ IsList(workQue[t], node[t], W)
                    /\ Places(t, Elements(F), Elements(W)) /\ Works(t, Elements(W))
    BY <1>8 DEF IInv, Pool
  <2> DEFINE free == Elements(F)
             work == Elements(W)
  <2>2. free \subseteq Nodes /\ work \subseteq Nodes BY <2>1, ListedAreNodes
  <2> HIDE DEF free, work
  <2>3. Places(t, free, work) /\ Works(t, work) BY <2>1 DEF free, work
  <2>4. \A i \in Nodes : /\ Busy(t, i)' <=> Busy(t, i)
                         /\ ToDo(t, work, i)' <=> ToDo(t, work, i)
    BY <1>1, <1>2, <1>4 DEF Busy, ToDo, Acts
  <2>5. \A d \in Callers, i \in Nodes : Has(d, t, i)' <=> Has(d, t, i) BY <1>1, NobodyMoves
  <2>6. Places(t, free, work)' BY <1>1, <2>2, <2>3, <2>4, <2>5 DEF Places
  <2>7. Works(t, work)' BY <1>1, <2>4, <2>5, <1>2, <1>4, NobodyMoves, <2>3, WorksKept DEF SameData
  <2>8. IsList(freeQue'[t], node'[t], F) /\ IsList(workQue'[t], node'[t], W) BY <1>1, <2>1
  <2>9. QED BY <2>6, <2>7, <2>8 DEF Pool, free, work
<1>9. QED BY <1>1, <1>2, <1>5, <1>6, <1>7, <1>8, ServerFacts, ServerWrites

LEMMA ServerWorks ==
  ASSUME IInv, caller' = caller, NEW t \in Cores, NEW old, NEW new, Works(t, old),
         \A i \in Nodes : ToDo(t, new, i)' => ToDo(t, old, i) /\ SameData(node'[t][i], node[t][i]),
         server[t].pc = "done" => server'[t] = server[t],
         server'[t].pc \in {"test", "give"} => Uses(t, node'[t][server'[t].node].RpcSync)
  PROVE  Works(t, new)'
BY NobodyMoves, WorksKept DEF IInv

LEMMA GetWorkKeeps ==
  ASSUME IInv, NEW t \in Cores, GetWork(t)
  PROVE  IInv'
<1>1. PICK got, i : got = RpcGetService(workQue[t], node[t]) /\ i = got.node OBVIOUS
<1> DEFINE to == IF i = OS_RPC_INVALID_TRAIN THEN "idle" ELSE "act"
           s == [[server[t] EXCEPT !.pc = to] EXCEPT !.node = i]
<1>2. /\ TypeOK /\ ServersAgree /\ server[t] \in ServerType /\ server[t].pc = "get" /\ server[t].node \notin Nodes
      /\ node[t] \in Station /\ freeQue[t] \in QueType /\ workQue[t] \in QueType
      /\ OS_RPC_INVALID_TRAIN \notin Nodes /\ OS_RPC_INVALID_TRAIN \in Trains
      /\ interrupt' \in [Cores -> BOOLEAN] /\ UNCHANGED <<freeQue, caller, CoreStatus, disabled>>
  BY ServerFacts DEF GetWork, Serving
<1>3. got.que \in QueType /\ got.station \in Station /\ i \in Trains /\ Relinked(node[t], got.station, Nodes)
  BY <1>1, <1>2, GetTypes
<1>4. s \in ServerType /\ s.node = i /\ s.pc = to BY <1>2, <1>3 DEF ServerType
<1>5. /\ server' = [server EXCEPT ![t] = s]
      /\ node' = [node EXCEPT ![t] = got.station]
      /\ workQue' = [workQue EXCEPT ![t] = got.que]
  BY <1>1 DEF GetWork
<1> HIDE DEF s
<1>6. /\ server'[t] = s /\ node'[t] = got.station /\ workQue'[t] = got.que
      /\ \A u \in Cores : u # t => server'[u] = server[u] /\ node'[u] = node[u]
  BY <1>2, <1>5 DEF TypeOK
<1>7. \A j \in Nodes : SameData(node'[t][j], node[t][j]) BY <1>3, <1>6 DEF Relinked, SameData
<1>8. Serves(t, s, got.station, freeQue[t], got.que) BY <1>2, <1>5, ServerFacts DEF Serves
<1>9. ServersAgree' BY <1>6, <1>7, <1>2, ServedIsNode, <1>4 DEF SameData, ServersAgree, Uses
<1>10. \A d \in Callers : Waits(d, t) => CallerAgrees(d)'
  BY WaiterHas, <1>2, <1>7, WaitersKept DEF SameData
<1>11. ASSUME CoreStatus[t] = "OS_RUN"
       PROVE  Pool(t)'
  <2>1. PICK F, W : /\ IsList(freeQue[t], node[t], F) /\ IsList(workQue[t], node[t], W)
                    /\ Places(t, Elements(F), Elements(W)) /\ Works(t, Elements(W))
    BY <1>11 DEF IInv, Pool
  <2> DEFINE free == Elements(F)
             work == Elements(W)
             less == work \ {i}
  <2>2. free \subseteq Nodes /\ work \subseteq Nodes BY <2>1, ListedAreNodes
  <2>3. GetsFirst(workQue[t], node[t], W) BY <1>2, <2>1, GetIs
  <2> HIDE DEF free, work
  <2>4. Places(t, free, work) /\ Works(t, work) BY <2>1 DEF free, work
  <2>5. PICK L : IsList(workQue'[t], node'[t], L) /\ Elements(L) = less /\ IsList(freeQue'[t], node'[t], F)
    <3>1. CASE W = <<>>
      <4>1. i = OS_RPC_INVALID_TRAIN /\ got.que = workQue[t] /\ got.station = node[t]
        BY <1>1, <2>3, <3>1 DEF GetsFirst
      <4>2. i \notin work BY <1>2, <2>2, <4>1
      <4>3. less = Elements(W) BY <4>2 DEF work
      <4> HIDE DEF less
      <4>4. IsList(workQue'[t], node'[t], W) /\ IsList(freeQue'[t], node'[t], F)
        BY <1>2, <1>6, <2>1, <4>1
      <4>5. QED BY <4>3, <4>4
    <3>2. CASE W # <<>>
      <4>1. /\ i \in work /\ IsList(got.que, got.station, Tail(W)) /\ Elements(Tail(W)) = less
            /\ Relinked(node[t], got.station, {i})
        BY <1>1, <2>3, <3>2 DEF GetsFirst, work
      <4>2. free \cap {i} = {} BY <2>4, <4>1 DEF Places
      <4> HIDE DEF less
      <4>3. IsList(freeQue[t], got.station, F) BY <2>1, <4>1, <4>2, OtherLinks DEF free
      <4>4. QED BY <1>2, <1>6, <4>1, <4>3
    <3>3. QED BY <3>1, <3>2
  <2>6. i \in Nodes => i \in work BY <1>1, <1>2, <2>3 DEF GetsFirst, work
  <2>7. \A j \in Nodes : ~ Busy(t, j) /\ (Busy(t, j)' <=> j = i) BY <1>2, <1>4, <1>6 DEF Busy, Acts
  <2>8. \A d \in Callers, j \in Nodes : Has(d, t, j)' <=> Has(d, t, j) BY <1>2, NobodyMoves
  <2>9. /\ \A j \in Nodes : node'[t][j].RpcSync = node[t][j].RpcSync
        /\ \A j \in Nodes : j \notin free \cup less => node'[t][j].next = OS_RPC_INVALID_TRAIN
    <3>1. CASE W = <<>>
      BY <1>1, <1>2, <1>6, <1>7, <2>2, <2>3, <2>4, <3>1 DEF GetsFirst, SameData, Places
    <3>2. CASE W # <<>>
      <4>1. Relinked(node[t], got.station, {i}) /\ got.station[i].next = OS_RPC_INVALID_TRAIN
        BY <1>1, <2>3, <3>2 DEF GetsFirst
      <4>2. \A j \in Nodes : j # i => node'[t][j].next = node[t][j].next BY <1>6, <4>1 DEF Relinked
      <4>3. QED BY <1>6, <1>7, <2>4, <4>1, <4>2 DEF SameData, Places
    <3>3. QED BY <3>1, <3>2
  <2>10. Places(t, free, less)' BY <2>2, <2>4, <2>6, <2>7, <2>8, <2>9 DEF Places
  <2>11. Works(t, less)' BY <1>6, <1>4, <2>6, <1>2, <1>7, <2>4, ServerWorks DEF ToDo, Acts
  <2> HIDE DEF less
  <2>12. QED BY <2>5, <2>10, <2>11 DEF Pool, free
<1>12. QED BY <1>2, <1>3, <1>4, <1>8, <1>9, <1>10, <1>11, ServerWrites

\* The interrupt writes the state or the result of the call that it serves.
LEMMA ServesNode ==
  ASSUME IInv, NEW t \in Cores, NEW i \in Nodes, server[t].node = i,
         NEW n \in NodeType, n.next = node[t][i].next, n.RpcSync = node[t][i].RpcSync, n.call = node[t][i].call,
         NEW s \in ServerType, s.node = i,
         server' = [server EXCEPT ![t] = s], node' = [node EXCEPT ![t] = [node[t] EXCEPT ![i] = n]],
         UNCHANGED <<freeQue, workQue, caller, interrupt, CoreStatus, disabled>>,
         \/ s.pc = "write" /\ server[t].pc = "act" /\ n.ProcState # "OS_RPC_DONE" /\ n.RetValue = node[t][i].RetValue
         \/ s.pc = "done" /\ Acts(t) /\ n.ProcState = node[t][i].ProcState
         \/ s.pc = "test" /\ Acts(t)
         \/ s.pc = "give" /\ server[t].pc = "test" /\ n.RpcSync = "async",
         \A d \in Callers : Waits(d, t) /\ caller[d].node = i =>
           /\ n.RetValue \in {node[t][i].RetValue, n.call}
           /\ n.ProcState = "OS_RPC_DONE" => n.RetValue = n.call
  PROVE  IInv'
<1> DEFINE station == [node[t] EXCEPT ![i] = n]
<1>1. /\ TypeOK /\ ServersAgree /\ server[t].pc \in {"act", "write", "done", "test"}
      /\ node[t] \in Station /\ freeQue[t] \in QueType /\ workQue[t] \in QueType
      /\ i # OS_RPC_INVALID_TRAIN /\ interrupt' \in [Cores -> BOOLEAN]
  BY ServerFacts DEF Acts
<1>2. station \in Station /\ station[i] = n /\ \A j \in Nodes : j # i => station[j] = node[t][j]
  BY <1>1 DEF Station
<1> HIDE DEF station
<1>3. node' = [node EXCEPT ![t] = station] BY DEF station
<1>4. /\ server'[t] = s /\ node'[t] = station
      /\ \A u \in Cores : u # t => server'[u] = server[u] /\ node'[u] = node[u]
  BY <1>1, <1>3 DEF TypeOK
<1>5. \A u \in Cores, j \in Nodes : node'[u][j].next = node[u][j].next /\ node'[u][j].RpcSync = node[u][j].RpcSync
  BY <1>2, <1>4
<1>6. Serves(t, s, station, freeQue[t], workQue[t]) BY <1>3, ServerFacts DEF Serves
<1>7. ServersAgree' BY <1>1, ServedIsNode, <1>4, <1>5 DEF ServersAgree, Uses
<1>8. ASSUME NEW d \in Callers, Waits(d, t)
      PROVE  CallerAgrees(d)'
  <2>1. caller[d].node \in Nodes /\ CallerAgrees(d) BY <1>8, WaiterHas, CallerFacts
  <2>2. CASE caller[d].node # i BY <1>2, <1>4, <2>1, <2>2, <1>8, WaitersKept
  <2>3. CASE caller[d].node = i BY <1>2, <1>4, <1>8, <2>3, <2>1 DEF Held, Waits, CallerAgrees
  <2>4. QED BY <2>2, <2>3
<1>9. ASSUME CoreStatus[t] = "OS_RUN"
      PROVE  Pool(t)'
  <2>1. PICK F, W : /\ IsList(freeQue[t], node[t], F) /\ IsList(workQue[t], node[t], W)
                    /\ Places(t, Elements(F), Elements(W)) /\ Works(t, Elements(W))
    BY <1>9 DEF IInv, Pool
  <2> DEFINE free == Elements(F)
             work == Elements(W)
  <2>2. free \subseteq Nodes /\ work \subseteq Nodes BY <2>1, ListedAreNodes
  <2>3. IsList(freeQue'[t], node'[t], F) /\ IsList(workQue'[t], node'[t], W)
    <3>1. \A j \in Nodes : node'[t][j].next = node[t][j].next BY <1>5
    <3>2. IsList(freeQue[t], node'[t], F) /\ IsList(workQue[t], node'[t], W)
      BY <2>1, <3>1, SameLinks
    <3>3. QED BY <3>2
  <2> HIDE DEF free, work
  <2>4. Places(t, free, work) /\ Works(t, work) BY <2>1 DEF free, work
  <2>5. Busy(t, i) BY DEF Busy, Acts
  <2>6. i \notin work /\ i \notin free BY <2>4, <2>5 DEF Places
  <2>7. \A j \in Nodes : /\ j # i => ~ Busy(t, j) /\ ~ Busy(t, j)'
                         /\ node[t][j].RpcSync = "async" => (Busy(t, j)' <=> Busy(t, j))
    BY <1>4, <1>5 DEF Busy
  <2>8. \A d \in Callers, j \in Nodes : Has(d, t, j)' <=> Has(d, t, j) BY NobodyMoves
  <2>9. Places(t, free, work)' BY <1>5, <2>2, <2>4, <2>6, <2>7, <2>8 DEF Places
  <2>10. /\ Acts(t) => WorkOK(t, node[t][i]) /\ ToDo(t, work, i)
         /\ s.pc = "give" => Uses(t, n.RpcSync)
    BY <2>4 DEF Works, ToDo
  <2>11. \A j \in Nodes : /\ ToDo(t, work, j)' <=> j \in work \/ (s.pc \in {"write", "done"} /\ j = i)
                          /\ ToDo(t, work, j)' => ToDo(t, work, j)
    BY <1>1, <1>4, <2>10 DEF ToDo, Acts
  <2>12. \A j \in Nodes : j # i => SameData(node'[t][j], node[t][j]) BY <1>2, <1>4 DEF SameData
  <2>13. Works(t, work)'
    <3>1. ASSUME NEW j \in Nodes, ToDo(t, work, j)'
          PROVE  /\ WorkOK(t, node[t][j])'
                 /\ node'[t][j].RetValue = E_NOT_OK \/ (server'[t].pc = "done" /\ server'[t].node = j)
                 /\ \A d \in Callers : Has(d, t, j)' => caller'[d].pc \in {"remote", "wait"}
      <4>1. /\ WorkOK(t, node[t][j])
            /\ node[t][j].RetValue = E_NOT_OK \/ (server[t].pc = "done" /\ server[t].node = j)
        BY <2>4, <2>11, <3>1 DEF Works
      <4>2. \A d \in Callers : Has(d, t, j)' => caller'[d].pc \in {"remote", "wait"}
        BY <2>4, <2>8, <2>11, <3>1 DEF Works
      <4>3. CASE j # i
        BY <2>4, <2>11, <2>12, <3>1, <4>1, <4>2, <4>3 DEF Works, WorkOK, SameData, Uses
      <4>4. CASE j = i
        <5>1. s.pc \in {"write", "done"} /\ Acts(t) BY <2>6, <2>11, <3>1, <4>4 DEF Acts
        <5>2. node'[t][i] = n /\ n.ProcState # "OS_RPC_DONE" /\ WorkOK(t, node[t][i])
          BY <1>2, <1>4, <2>10, <5>1 DEF WorkOK
        <5>3. WorkOK(t, node[t][i])' BY <5>2 DEF WorkOK, Uses
        <5>4. node'[t][i].RetValue = E_NOT_OK \/ (server'[t].pc = "done" /\ server'[t].node = i)
          BY <1>4, <2>4, <2>10, <5>1, <5>2 DEF Works
        <5>5. QED BY <4>2, <4>4, <5>3, <5>4
      <4>5. QED BY <4>3, <4>4
    <3>2. \A j \in Nodes : node'[t][j].call = node[t][j].call BY <1>2, <1>4
    <3>3. server'[t].pc \in {"test", "give"} => Uses(t, node'[t][server'[t].node].RpcSync)
      BY <1>2, <1>4, <2>10 DEF WorkOK
    <3>4. QED BY <2>4, <2>11, <3>1, <3>2, <3>3 DEF Works, Uses
  <2>14. QED BY <2>3, <2>9, <2>13 DEF Pool, free, work
<1>10. QED BY <1>1, <1>2, <1>6, <1>7, <1>8, <1>9, ServerWrites

LEMMA PerformCallKeeps ==
  ASSUME IInv, NEW t \in Cores, PerformCall(t)
  PROVE  IInv'
<1>1. PICK i, old : i = server[t].node /\ old = node[t] OBVIOUS
<1> DEFINE n == [old[i] EXCEPT !.ProcState = "OS_RPC_WORK"]
           s == [[server[t] EXCEPT !.pc = "write"] EXCEPT !.result = old[i].call]
<1>2. server[t] \in ServerType /\ server[t].pc = "act" /\ i \in Nodes /\ old[i] \in NodeType
  BY <1>1, ServerFacts DEF PerformCall, Serving, Station
<1>3. /\ n \in NodeType /\ n.next = old[i].next /\ n.RpcSync = old[i].RpcSync /\ n.call = old[i].call
      /\ n.RetValue = old[i].RetValue /\ n.ProcState # "OS_RPC_DONE"
  BY <1>2 DEF NodeType
<1>4. s \in ServerType /\ s.pc = "write" /\ s.node = i BY <1>2, <1>1 DEF NodeType, ServerType
<1>5. /\ server' = [server EXCEPT ![t] = s] /\ node' = [node EXCEPT ![t] = [old EXCEPT ![i] = n]]
      /\ UNCHANGED <<freeQue, workQue, caller, interrupt, CoreStatus, disabled>>
  BY <1>1 DEF PerformCall
<1> HIDE DEF s, n
<1>6. QED BY <1>1, <1>2, <1>3, <1>4, <1>5, ServesNode

\* A core that somebody waits for is one whose nodes have one holder each.
LEMMA WaiterKept ==
  ASSUME IInv, NEW t \in Cores, NEW d \in Callers, Waits(d, t)
  PROVE  Kept(t)
BY WaiterHas DEF Kept

LEMMA WriteResultKeeps ==
  ASSUME IInv, Rest, NEW t \in Cores, WriteResult(t)
  PROVE  IInv'
<1>1. PICK i, old : i = server[t].node /\ old = node[t] OBVIOUS
<1> DEFINE n == [old[i] EXCEPT !.RetValue = server[t].result]
           s == [[server[t] EXCEPT !.pc = "done"] EXCEPT !.result = None]
<1>2. /\ server[t] \in ServerType /\ server[t].pc = "write" /\ t \notin disabled
      /\ i \in Nodes /\ old[i] \in NodeType
  BY <1>1, ServerFacts DEF WriteResult, Serving, ServerRuns, Station
<1>3. /\ n \in NodeType /\ n.next = old[i].next /\ n.RpcSync = old[i].RpcSync /\ n.call = old[i].call
      /\ n.RetValue = server[t].result /\ n.ProcState = old[i].ProcState
  BY <1>2 DEF ServerType, NodeType
<1>4. s \in ServerType /\ s.pc = "done" /\ s.node = i BY <1>1, <1>2 DEF ServerType
<1>5. /\ server' = [server EXCEPT ![t] = s] /\ node' = [node EXCEPT ![t] = [old EXCEPT ![i] = n]]
      /\ UNCHANGED <<freeQue, workQue, caller, interrupt, CoreStatus, disabled>>
  BY <1>1 DEF WriteResult
<1> HIDE DEF s, n
<1>6. \A d \in Callers : Waits(d, t) => n.RetValue = n.call
  BY <1>1, <1>2, <1>3, WaiterKept DEF Rest, Rests, Results
<1>7. QED BY <1>1, <1>2, <1>3, <1>4, <1>5, <1>6, ServesNode DEF Acts

LEMMA SetDoneKeeps ==
  ASSUME IInv, Rest, NEW t \in Cores, SetDone(t)
  PROVE  IInv'
<1>1. PICK i, old : i = server[t].node /\ old = node[t] OBVIOUS
<1> DEFINE n == [old[i] EXCEPT !.ProcState = "OS_RPC_DONE"]
           s == [server[t] EXCEPT !.pc = "test"]
<1>2. /\ server[t] \in ServerType /\ server[t].pc = "done" /\ t \notin disabled
      /\ i \in Nodes /\ old[i] \in NodeType
  BY <1>1, ServerFacts DEF SetDone, Serving, ServerRuns, Station
<1>3. /\ n \in NodeType /\ n.next = old[i].next /\ n.RpcSync = old[i].RpcSync /\ n.call = old[i].call
      /\ n.RetValue = old[i].RetValue
  BY <1>2 DEF NodeType
<1>4. s \in ServerType /\ s.pc = "test" /\ s.node = i BY <1>1, <1>2 DEF ServerType
<1>5. /\ server' = [server EXCEPT ![t] = s] /\ node' = [node EXCEPT ![t] = [old EXCEPT ![i] = n]]
      /\ UNCHANGED <<freeQue, workQue, caller, interrupt, CoreStatus, disabled>>
  BY <1>1 DEF SetDone, ServerGoto
<1> HIDE DEF s, n
<1>6. \A d \in Callers : Waits(d, t) => n.RetValue = n.call
  BY <1>1, <1>2, <1>3, WaiterKept DEF Rest, Rests, Results
<1>7. QED BY <1>1, <1>2, <1>3, <1>4, <1>5, <1>6, ServesNode DEF Acts

\* A core that gets asynchronous calls has nobody wait for it.
LEMMA NobodyWaits ==
  ASSUME OneKindPerCore, IInv, NEW t \in Cores, NEW i \in Nodes, node[t][i].RpcSync = "async"
  PROVE  \A d \in Callers : ~ Waits(d, t)
BY WaiterHas, OneKind DEF IInv, ServersAgree

LEMMA TestSyncKeeps ==
  ASSUME OneKindPerCore, IInv, NEW t \in Cores, TestSync(t)
  PROVE  IInv'
<1>1. PICK i, old : i = server[t].node /\ old = node[t] OBVIOUS
<1>2. /\ TypeOK /\ ServersAgree /\ server[t] \in ServerType /\ server[t].pc = "test" /\ i \in Nodes
      /\ old \in Station /\ freeQue[t] \in QueType /\ workQue[t] \in QueType
      /\ OS_RPC_INVALID_TRAIN \notin Nodes /\ OS_RPC_INVALID_TRAIN \in Trains
      /\ interrupt' \in [Cores -> BOOLEAN] /\ UNCHANGED <<freeQue, workQue, caller, CoreStatus, disabled>>
  BY <1>1, ServerFacts DEF TestSync, Serving
<1>3. \A d \in Callers, j \in Nodes : Has(d, t, j)' <=> Has(d, t, j) BY <1>2, NobodyMoves
<1>4. CASE old[i].RpcSync = "sync"
  <2> DEFINE s == [server[t] EXCEPT !.pc = "get", !.node = OS_RPC_INVALID_TRAIN]
  <2>1. s \in ServerType /\ s.pc = "get" /\ s.node = OS_RPC_INVALID_TRAIN BY <1>2 DEF ServerType
  <2>2. server' = [server EXCEPT ![t] = s] /\ node' = node BY <1>1, <1>4 DEF TestSync, GetNext
  <2> HIDE DEF s
  <2>3. server'[t] = s /\ \A u \in Cores : u # t => server'[u] = server[u] BY <1>2, <2>2 DEF TypeOK
  <2>4. Serves(t, s, old, freeQue[t], workQue[t]) BY <1>1, <1>2, <2>2, ServerFacts DEF Serves
  <2>5. ServersAgree' BY <1>2, <2>1, <2>2, <2>3 DEF ServersAgree, Uses
  <2>6. \A d \in Callers : Waits(d, t) => CallerAgrees(d)' BY <1>2, <2>2, WaitersKept
  <2>7. ASSUME CoreStatus[t] = "OS_RUN"
        PROVE  Pool(t)'
    <3>1. PICK F, W : /\ IsList(freeQue[t], node[t], F) /\ IsList(workQue[t], node[t], W)
                      /\ Places(t, Elements(F), Elements(W)) /\ Works(t, Elements(W))
      BY <2>7 DEF IInv, Pool
    <3> DEFINE free == Elements(F)
               work == Elements(W)
    <3>2. free \subseteq Nodes /\ work \subseteq Nodes BY <3>1, ListedAreNodes
    <3>3. IsList(freeQue'[t], node'[t], F) /\ IsList(workQue'[t], node'[t], W) BY <1>2, <2>2, <3>1
    <3> HIDE DEF free, work
    <3>4. Places(t, free, work) /\ Works(t, work) BY <3>1 DEF free, work
    <3>5. \A j \in Nodes : ~ Busy(t, j) /\ ~ Busy(t, j)'
      BY <1>1, <1>2, <1>4, <2>1, <2>3 DEF Busy, Acts
    <3>6. Places(t, free, work)' BY <1>3, <2>2, <3>2, <3>4, <3>5 DEF Places
    <3>7. Works(t, work)' BY <2>1, <2>2, <2>3, <1>2, <3>4, ServerWorks DEF ToDo, Acts, SameData
    <3>8. QED BY <3>3, <3>6, <3>7 DEF Pool, free, work
  <2>8. QED BY <1>2, <2>1, <2>4, <2>5, <2>6, <2>7, ServerWrites
<1>5. CASE old[i].RpcSync # "sync"
  <2> DEFINE n == [old[i] EXCEPT !.ProcState = "OS_RPC_FREE"]
             s == [server[t] EXCEPT !.pc = "give"]
  <2>1. old[i] \in NodeType /\ old[i].RpcSync = "async" BY <1>2, <1>5 DEF Station, NodeType
  <2>2. n \in NodeType /\ n.next = old[i].next /\ n.RpcSync = old[i].RpcSync /\ n.call = old[i].call
    BY <2>1 DEF NodeType
  <2>3. s \in ServerType /\ s.pc = "give" /\ s.node = i BY <1>1, <1>2 DEF ServerType
  <2>4. server' = [server EXCEPT ![t] = s] /\ node' = [node EXCEPT ![t] = [old EXCEPT ![i] = n]]
    BY <1>1, <1>5 DEF TestSync, ServerGoto
  <2>5. interrupt' = interrupt BY DEF TestSync
  <2> HIDE DEF s, n
  <2>6. \A d \in Callers : ~ Waits(d, t) BY <1>1, <1>2, <2>1, NobodyWaits
  <2>7. QED BY <1>1, <1>2, <2>1, <2>2, <2>3, <2>4, <2>5, <2>6, ServesNode
<1>6. QED BY <1>4, <1>5

LEMMA GiveServedNodeKeeps ==
  ASSUME OneKindPerCore, IInv, NEW t \in Cores, GiveServedNode(t)
  PROVE  IInv'
<1>1. PICK i, base, added : /\ i = server[t].node /\ base = Forget(t, i)
                            /\ added = RpcAddService(freeQue[t], base, i)
  OBVIOUS
<1> DEFINE s == [server[t] EXCEPT !.pc = "get", !.node = OS_RPC_INVALID_TRAIN]
<1>2. /\ TypeOK /\ ServersAgree /\ server[t] \in ServerType /\ server[t].pc = "give" /\ i \in Nodes
      /\ node[t] \in Station /\ freeQue[t] \in QueType /\ workQue[t] \in QueType
      /\ OS_RPC_INVALID_TRAIN \notin Nodes /\ OS_RPC_INVALID_TRAIN \in Trains
      /\ interrupt' \in [Cores -> BOOLEAN] /\ UNCHANGED <<workQue, caller, CoreStatus, disabled>>
  BY <1>1, ServerFacts DEF GiveServedNode, Serving
<1>3. node[t][i].RpcSync = "async" /\ Busy(t, i) BY <1>1, <1>2 DEF ServersAgree, Busy
<1>4. /\ base \in Station /\ base[i].RpcSync = node[t][i].RpcSync
      /\ \A j \in Nodes : base[j].next = node[t][j].next
      /\ \A j \in Nodes : j # i => SameData(base[j], node[t][j])
  BY <1>1, <1>2, ForgetIs
<1>5. added.que \in QueType /\ added.station \in Station /\ \A j \in Nodes : SameData(added.station[j], base[j])
  <2>1. added.que \in QueType /\ Relinked(base, added.station, {i, freeQue[t].Tail})
    BY <1>1, <1>2, <1>4, AddTypes
  <2>2. QED BY <2>1 DEF Relinked, SameData
<1>6. s \in ServerType /\ s.pc = "get" /\ s.node = OS_RPC_INVALID_TRAIN BY <1>2 DEF ServerType
<1>7. /\ server' = [server EXCEPT ![t] = s]
      /\ node' = [node EXCEPT ![t] = added.station]
      /\ freeQue' = [freeQue EXCEPT ![t] = added.que]
  BY <1>1 DEF GiveServedNode, GetNext
<1> HIDE DEF s
<1>8. /\ server'[t] = s /\ node'[t] = added.station /\ freeQue'[t] = added.que
      /\ \A u \in Cores : u # t => server'[u] = server[u] /\ node'[u] = node[u]
  BY <1>2, <1>7 DEF TypeOK
<1>9. /\ \A j \in Nodes : node'[t][j].RpcSync = node[t][j].RpcSync
      /\ \A j \in Nodes : j # i => SameData(node'[t][j], node[t][j])
  BY <1>4, <1>5, <1>8 DEF SameData
<1>10. Serves(t, s, added.station, added.que, workQue[t]) BY <1>2, <1>7, ServerFacts DEF Serves
<1>11. ServersAgree' BY <1>8, <1>9, <1>2, ServedIsNode, <1>6 DEF ServersAgree, Uses
<1>12. \A d \in Callers : Waits(d, t) => CallerAgrees(d)' BY <1>2, <1>3, NobodyWaits
<1>13. ASSUME CoreStatus[t] = "OS_RUN"
       PROVE  Pool(t)'
  <2>1. PICK F, W : /\ IsList(freeQue[t], node[t], F) /\ IsList(workQue[t], node[t], W)
                    /\ Places(t, Elements(F), Elements(W)) /\ Works(t, Elements(W))
    BY <1>13 DEF IInv, Pool
  <2> DEFINE free == Elements(F)
             work == Elements(W)
             more == free \cup {i}
  <2>2. free \subseteq Nodes /\ work \subseteq Nodes BY <2>1, ListedAreNodes
  <2> HIDE DEF free, work
  <2>3. Places(t, free, work) /\ Works(t, work) BY <2>1 DEF free, work
  <2>4. i \notin free /\ i \notin work /\ \A d \in Callers : ~ Has(d, t, i)
    BY <1>2, <1>3, <2>3 DEF Places
  <2>5. IsList(workQue[t], base, W) /\ IsList(freeQue[t], base, F) BY <1>4, <2>1, SameLinks
  <2>6. AddsLast(freeQue[t], base, F, i) BY <1>2, <1>4, <2>4, <2>5, AddIs DEF free
  <2>7. IsList(added.que, added.station, Append(F, i)) /\ Elements(Append(F, i)) = more
        /\ Relinked(base, added.station, more)
    BY <1>1, <2>6 DEF AddsLast, free
  <2> HIDE DEF more
  <2>8. IsList(workQue[t], added.station, W)
    BY <2>3, <2>4, <2>5, <2>7, OtherLinks DEF Places, more, work
  <2>9. \A j \in Nodes : /\ ~ Busy(t, j)'
                         /\ j # i => ~ Busy(t, j)
    BY <1>1, <1>2, <1>6, <1>8 DEF Busy, Acts
  <2>10. \A d \in Callers, j \in Nodes : Has(d, t, j)' <=> Has(d, t, j) BY <1>2, NobodyMoves
  <2>11. Places(t, more, work)'
    <3>1. \A j \in more : j \notin work /\ ~ Busy(t, j)' /\ \A d \in Callers : ~ Has(d, t, j)'
      BY <1>2, <2>2, <2>3, <2>4, <2>9, <2>10 DEF Places, more
    <3>2. \A j \in work : ~ Busy(t, j)' BY <2>2, <2>9
    <3>3. ASSUME NEW j \in Nodes
          PROVE  LET passed == node'[t][j].RpcSync = "async" /\ (j \in work \/ Busy(t, j)')
                 IN  /\ passed => \A d \in Callers : ~ Has(d, t, j)'
                     /\ j \in more \/ passed \/ \E d \in Callers : Has(d, t, j)'
                     /\ j \in more \cup work \/ node'[t][j].next = OS_RPC_INVALID_TRAIN
      <4>1. CASE j # i
        <5>1. j \notin more => node'[t][j].next = node[t][j].next BY <1>4, <1>8, <2>7 DEF Relinked
        <5>2. QED BY <1>9, <2>3, <2>9, <2>10, <4>1, <5>1 DEF Places, more
      <4>2. CASE j = i BY <2>4, <2>10, <4>2 DEF more
      <4>3. QED BY <4>1, <4>2
    <3>4. QED BY <3>1, <3>2, <3>3 DEF Places
  <2>12. Works(t, work)' BY <1>6, <1>8, <2>4, <1>9, <1>2, <2>3, ServerWorks DEF ToDo, Acts
  <2>13. IsList(freeQue'[t], node'[t], Append(F, i)) /\ IsList(workQue'[t], node'[t], W)
    BY <1>2, <1>8, <2>7, <2>8
  <2>14. Places(t, Elements(Append(F, i)), Elements(W))' /\ Works(t, Elements(W))'
    BY <2>7, <2>11, <2>12 DEF work
  <2>15. QED BY <2>13, <2>14 DEF Pool
<1>14. QED BY <1>2, <1>5, <1>6, <1>10, <1>11, <1>12, <1>13, ServerWrites

\* Nothing else changes when a core stops.
LEMMA CoreStops ==
  ASSUME IInv, UNCHANGED <<node, freeQue, workQue, caller, server, interrupt>>,
         CoreStatus' \in [Cores -> {"OS_RUN", "OS_CORE_PRE_SHUTDOWN"}],
         \A t \in Cores : CoreStatus[t] # "OS_RUN" => CoreStatus'[t] # "OS_RUN",
         disabled' \subseteq {t \in Cores : CoreStatus'[t] # "OS_RUN"}
  PROVE  IInv'
<1>1. /\ TypeOK /\ CallersAgree /\ ServersAgree /\ OneHolder
      /\ \A u \in Cores : CoreStatus[u] = "OS_RUN" => Pool(u)
      /\ \A d \in Callers : CallerAgrees(d)
  BY EachCallerAgrees DEF IInv
<1>2. TypeOK' BY <1>1 DEF TypeOK
<1>3. CallersAgree' BY <1>1, CallerKept, EachCallerAgreesNext
<1>4. ServersAgree' BY <1>1 DEF ServersAgree, Uses
<1>5. /\ caller' \in [Callers -> CallerType] /\ \A d \in Callers : Onward(d)
      /\ \A d \in Callers, u \in Cores, i \in Nodes : Has(d, u, i)' <=> Has(d, u, i)
  BY NobodyMoves
<1>6. OneHolder' BY <1>1, <1>5 DEF OneHolder, Kept, Uses
<1>7. ASSUME NEW u \in Cores, CoreStatus'[u] = "OS_RUN"
      PROVE  Pool(u)'
  BY <1>1, <1>2, <1>7, <1>5, PoolKept DEF TypeOK
<1>8. QED BY <1>2, <1>3, <1>4, <1>6, <1>7 DEF IInv

LEMMA ShutdownKeeps ==
  ASSUME IInv, NEW t \in Cores, Shutdown(t)
  PROVE  IInv'
BY CoreStops DEF IInv, Shutdown, TypeOK

LEMMA DisableIntKeeps ==
  ASSUME IInv, NEW t \in Cores, DisableInt(t)
  PROVE  IInv'
BY CoreStops DEF IInv, DisableInt, TypeOK

LEMMA StepKeeps ==
  ASSUME OneKindPerCore, IInv, Rest, [Next]_vars
  PROVE  IInv'
<1>1. CASE UNCHANGED vars BY <1>1, CoreStops DEF vars, IInv, TypeOK
<1>2. ASSUME NEW c \in Callers, Call(c) \/ Caller(c)
      PROVE  IInv'
  BY <1>2, CallKeeps, FindsCoreGoneKeeps, FindsCoreRunningKeeps, TakeNodeKeeps, SubmitNodeKeeps, RemoteCallKeeps,
     SeesDoneKeeps, SeesCoreGoneKeeps, GivesUpKeeps, GiveNodeBackKeeps DEF Caller
<1>3. ASSUME NEW t \in Cores, Server(t) \/ Shutdown(t) \/ DisableInt(t)
      PROVE  IInv'
  BY <1>3, EnterInterruptKeeps, GetWorkKeeps, PerformCallKeeps, WriteResultKeeps, SetDoneKeeps, TestSyncKeeps,
     GiveServedNodeKeeps, ShutdownKeeps, DisableIntKeeps DEF Server
<1>4. QED BY <1>1, <1>2, <1>3 DEF Next

LEMMA InitialPool ==
  ASSUME Init, NEW t \in Cores
  PROVE  Pool(t)
<1> DEFINE m == OS_RPC_MAX_NODE
           F == [k \in 1 .. m |-> k - 1]
<1>1. m \in Nat \ {0} /\ Nodes = 0 .. m - 1 /\ OS_RPC_INVALID_TRAIN = m
  BY RpcConstants DEF Nodes, OS_RPC_INVALID_TRAIN
<1>2. \A k \in 1 .. m : k - 1 \in Nodes BY <1>1
<1>3. F \in Seq(Nodes) /\ Len(F) = m BY <1>1, <1>2, SMT
<1>4. F # <<>> /\ F[1] = 0 /\ F[m] = m - 1
  <2>1. Len(<<>>) = 0 OBVIOUS
  <2> HIDE DEF F
  <2>2. F # <<>> BY <1>1, <1>3, <2>1
  <2>3. 1 \in 1 .. m /\ m \in 1 .. m BY <1>1
  <2>4. F[1] = 1 - 1 /\ F[m] = m - 1 BY <2>3 DEF F
  <2>5. QED BY <2>2, <2>4
<1>5. /\ freeQue[t].Head = 0 /\ freeQue[t].Tail = m - 1
      /\ workQue[t].Head = OS_RPC_INVALID_TRAIN /\ workQue[t].Tail = OS_RPC_INVALID_TRAIN
      /\ \A i \in Nodes : /\ node[t][i].next = IF i + 1 = m THEN OS_RPC_INVALID_TRAIN ELSE i + 1
                          /\ node[t][i].RpcSync = "sync"
      /\ server[t].pc = "idle" /\ server[t].node = OS_RPC_INVALID_TRAIN
      /\ \A c \in Callers : caller[c].node = OS_RPC_INVALID_TRAIN
  BY DEF Init, InitialNode, Empty
<1>6. \A k \in 1 .. m : F[k] = k - 1 OBVIOUS
<1> HIDE DEF F
<1>7. IsList(freeQue[t], node[t], F) BY <1>1, <1>3, <1>6, <1>2, <1>5, <1>4 DEF IsList
<1>8. IsList(workQue[t], node[t], <<>>) BY <1>5 DEF IsList
<1>9. Elements(F) = Nodes /\ Elements(<<>>) = {}
  <2>1. \A i \in Nodes : i + 1 \in 1 .. m /\ F[i + 1] = i BY <1>1, <1>6
  <2>2. Nodes \subseteq Elements(F) BY <1>3, <2>1 DEF Elements
  <2>3. Elements(<<>>) = {} BY DEF Elements
  <2>4. QED BY <1>7, <2>2, <2>3, ListedAreNodes
<1>10. Places(t, Nodes, {}) BY <1>5, NodesAre DEF Places, Has, Busy
<1>11. Works(t, {}) BY <1>5, NodesAre DEF Works, ToDo
<1>12. QED BY <1>7, <1>8, <1>9, <1>10, <1>11 DEF Pool

LEMMA InitKeeps ==
  ASSUME Init
  PROVE  IInv
<1>1. \A c \in Callers : /\ CoreOf[c] \in Cores
                         /\ caller[c].pc = "idle" /\ caller[c].node = OS_RPC_INVALID_TRAIN
                         /\ caller[c].call.caller = c /\ caller[c].ret = None
  BY RpcConstants DEF Init
<1>2. TypeOK
  <2>1. \A i \in Nodes : InitialNode(i) \in NodeType
    BY RpcConstants DEF Nodes, Trains, OS_RPC_INVALID_TRAIN, InitialNode, NodeType
  <2>2. node \in [Cores -> [Nodes -> NodeType]] BY <2>1 DEF Init
  <2>3. 0 \in Trains /\ OS_RPC_MAX_NODE - 1 \in Trains /\ OS_RPC_INVALID_TRAIN \in Trains
    BY RpcConstants DEF Trains, OS_RPC_INVALID_TRAIN
  <2>4. freeQue \in [Cores -> [Head : Trains, Tail : Trains]] /\ workQue \in [Cores -> [Head : Trains, Tail : Trains]]
    BY <2>3 DEF Init, Empty
  <2>5. caller \in [Callers -> CallerType] BY <1>1, <2>3 DEF Calls, CallerType, Init
  <2>6. server \in [Cores -> ServerType] BY <2>3 DEF Init, ServerType
  <2>7. interrupt \in [Cores -> BOOLEAN] /\ CoreStatus \in [Cores -> {"OS_RUN", "OS_CORE_PRE_SHUTDOWN"}]
        /\ disabled \subseteq {t \in Cores : CoreStatus[t] # "OS_RUN"}
    BY DEF Init
  <2>8. QED BY <2>2, <2>4, <2>5, <2>6, <2>7 DEF TypeOK
<1>3. CallersAgree BY <1>1, EachCallerAgrees DEF CallerAgrees
<1>4. ServersAgree BY DEF Init, InitialNode, ServersAgree
<1>5. OneHolder BY <1>1, NodesAre DEF OneHolder, Has
<1>6. QED BY <1>2, <1>3, <1>4, <1>5, InitialPool DEF IInv

-----------------------------------------------------------------------------
(* The results, and the nodes out of reach *)

\* In the lists of t, links lead to nodes that they led to before, and to node i.
Relinks(t, i) ==
  /\ freeQue[t].Tail # OS_RPC_INVALID_TRAIN => freeQue'[t].Head = freeQue[t].Head
  /\ freeQue'[t].Tail = freeQue[t].Tail \/ (i \in Nodes /\ freeQue'[t].Tail = i)
  /\ \A x \in {workQue'[t].Head, workQue'[t].Tail} :
       \/ x \in {workQue[t].Head, workQue[t].Tail, OS_RPC_INVALID_TRAIN, i}
       \/ workQue[t].Head \in Nodes /\ x = node[t][workQue[t].Head].next
  /\ \A j \in Nodes : \/ node'[t][j].next = node[t][j].next
                      \/ /\ node'[t][j].next \in {OS_RPC_INVALID_TRAIN, i}
                         /\ j \in {i, freeQue[t].Tail, workQue[t].Head, workQue[t].Tail}

\* Nobody takes a node of t or sees it run, i is the node of a caller that submits it or gives it back.
Settles(t, i) ==
  /\ i = OS_RPC_INVALID_TRAIN \/ (i \in Nodes /\ \E d \in Callers : Has(d, t, i) /\ caller'[d].pc # "submit")
  /\ server'[t].node \in {server[t].node, OS_RPC_INVALID_TRAIN, workQue[t].Head}
  /\ \A c \in Callers :
       /\ caller'[c].pc \in {"take", "submit"} /\ caller'[c].call.target = t => caller'[c] = caller[c]
       /\ \A j \in Nodes : Has(c, t, j)' => Has(c, t, j)

LEMMA LateKept ==
  ASSUME IInv, NEW t \in Cores, Rests(t), Late(t), NEW i, Relinks(t, i), Settles(t, i), disabled \subseteq disabled'
  PROVE  (\E p : Spare(t, p)') /\ \A c \in Callers : Fresh(t, c)'
<1>1. PICK p : Spare(t, p) BY DEF Rests
<1>2. \A k \in 1 .. Len(p) : p[k] \in Nodes /\ p[k] # i /\ p[k] # OS_RPC_INVALID_TRAIN /\ Unseen(t, p[k])
  <2>1. ASSUME NEW k \in 1 .. Len(p)
        PROVE  p[k] \in Nodes /\ Unseen(t, p[k]) /\ \A c \in Callers : ~ Has(c, t, p[k])
    BY <1>1 DEF Spare
  <2>2. QED BY <2>1, NodesAre DEF Settles
<1>3. ASSUME NEW x \in Nodes, Unseen(t, x), x # i, workQue[t].Head \in Nodes => node[t][workQue[t].Head].next # x
      PROVE  Unseen(t, x)'
  BY NodesAre, <1>3 DEF Unseen, Relinks, Settles
<1>4. \A k \in 1 .. Len(p) : k # 1 => k - 1 \in 1 .. Len(p) /\ k - 1 # Len(p) BY <1>1 DEF Spare
<1>5. Spare(t, p)'
  <2>1. ASSUME NEW k \in 1 .. Len(p)
        PROVE  Unseen(t, p[k])' /\ \A c \in Callers : ~ Has(c, t, p[k])'
    BY <1>1, <1>2, <1>4, <1>3 DEF Spare, Unseen, Settles
  <2>2. ASSUME NEW k \in 1 .. Len(p), k # Len(p)
        PROVE  node'[t][p[k]].next = p[k + 1] /\ freeQue'[t].Tail # p[k]
    BY <1>1, <2>2, <1>2 DEF Spare, Unseen, Relinks
  <2>3. ASSUME NEW k \in 1 .. Len(p), NEW j \in Nodes, node'[t][j].next = p[k]
        PROVE  k # 1 /\ j = p[k - 1]
    BY <1>2, <2>3, <1>1 DEF Relinks, Spare
  <2>4. freeQue[t].Tail = OS_RPC_INVALID_TRAIN => p = <<>> BY <1>1 DEF Spare
  <2>5. freeQue'[t].Tail = OS_RPC_INVALID_TRAIN => p = <<>> BY <2>4, NodesAre DEF Relinks
  <2>6. ASSUME 1 \in 1 .. Len(p)
        PROVE  freeQue'[t].Head = p[1]
    BY <2>4, <2>6, <1>1 DEF Spare, Relinks
  <2>7. IsFiniteSet(Takers(t)') /\ Cardinality(Takers(t)') <= Len(p)
    <3>1. Takers(t)' \in SUBSET Takers(t) /\ IsFiniteSet(Takers(t)) /\ Cardinality(Takers(t)) <= Len(p) /\ Len(p) \in Nat
      BY <1>1 DEF Takers, Settles, Spare
    <3> DEFINE T == Takers(t)
               U == Takers(t)'
    <3> HIDE DEF T, U
    <3>2. IsFiniteSet(U) /\ Cardinality(U) <= Cardinality(T) /\ Cardinality(U) \in Nat /\ Cardinality(T) \in Nat
      BY <3>1, FS_Subset, FS_CardinalityType DEF T, U
    <3>3. QED BY <3>1, <3>2 DEF T, U
  <2>8. p \in Seq(Nodes) /\ \A j, k \in 1 .. Len(p) : p[j] = p[k] => j = k BY <1>1 DEF Spare
  <2>9. \A k \in 1 .. Len(p) : k = 1 => freeQue'[t].Head = p[k] BY <2>6
  <2>10. QED BY <2>1, <2>2, <2>3, <2>5, <2>7, <2>8, <2>9 DEF Spare
<1>6. ASSUME NEW c \in Callers, caller'[c].pc = "submit", caller'[c].call.target = t
      PROVE  Fresh(t, c)'
  <2>1. PICK x : x = caller[c].node OBVIOUS
  <2>2. caller'[c] = caller[c] /\ caller[c].pc = "submit" /\ Has(c, t, x)
    BY <1>6, <2>1 DEF Settles, Has
  <2>3. x \in Nodes /\ x # OS_RPC_INVALID_TRAIN BY <2>1, <2>2, CallerFacts
  <2>4. x # i BY <1>6, <2>2, <2>3 DEF IInv, OneHolder, Late, Kept, Settles
  <2>5. Unseen(t, x) /\ \A j \in Nodes : node[t][j].next # x BY <1>6, <2>1, <2>2 DEF Rests, Fresh
  <2>6. Unseen(t, x)' BY <1>3, <2>3, <2>4, <2>5
  <2>7. \A j \in Nodes : node'[t][j].next # x BY <2>3, <2>4, <2>5 DEF Relinks
  <2>8. QED BY <2>1, <2>2, <2>6, <2>7 DEF Fresh, Unseen
<1>7. \A c \in Callers : Fresh(t, c)' BY <1>6 DEF Fresh
<1>8. QED BY <1>5, <1>7

LEMMA RestsKept ==
  ASSUME IInv, NEW t \in Cores, Rests(t), CoreStatus'[t] = CoreStatus[t], disabled \subseteq disabled', NEW i,
         Late(t) => Relinks(t, i) /\ Settles(t, i),
         \/ Results(t)'
         \/ server'[t] = server[t] /\ (server[t].pc \in {"write", "done"} /\ Kept(t) /\ t \notin disabled =>
              LET old == node[t][server[t].node] new == node'[t][server[t].node]
              IN  new.call = old.call /\ new.RetValue = old.RetValue)
  PROVE  Rests(t)'
BY LateKept DEF Kept, Uses, Rests, Results, Late

\* Steps that leave t alone
Aside(t) == node'[t] = node[t] /\ freeQue'[t] = freeQue[t] /\ workQue'[t] = workQue[t]

LEMMA RestsAside ==
  ASSUME IInv, NEW t \in Cores, Rests(t), CoreStatus'[t] = CoreStatus[t], disabled \subseteq disabled', Aside(t),
         server'[t] = server[t], Settles(t, OS_RPC_INVALID_TRAIN)
  PROVE  Rests(t)'
BY RestsKept DEF Relinks, Aside

\* A step of caller c, at t if it writes into lists or nodes
LEMMA CallerSettles ==
  ASSUME TypeOK, NEW c \in Callers, NEW x, caller' = [caller EXCEPT ![c] = x], server' = server, NEW t \in Cores,
         NEW i, i = OS_RPC_INVALID_TRAIN \/ (i \in Nodes /\ Has(c, t, i) /\ x.pc # "submit"),
         x.call.target = t => /\ x.pc \notin {"take", "submit"}
                              /\ x.node \in Nodes => x.node = caller[c].node /\ x.call = caller[c].call
  PROVE  Settles(t, i)
BY DEF TypeOK, Has, Settles

LEMMA CallerRests ==
  ASSUME IInv, Rest, NEW c \in Callers, NEW x \in CallerType, caller' = [caller EXCEPT ![c] = x],
         UNCHANGED <<server, CoreStatus, disabled>>,
         NEW t \in Cores, t = x.call.target, \A u \in Cores : u # t => Aside(u),
         NEW i, i = OS_RPC_INVALID_TRAIN \/ (i \in Nodes /\ Has(c, t, i) /\ x.pc # "submit"),
         Late(t) => /\ Relinks(t, i)
                    /\ x.pc \notin {"take", "submit"}
                    /\ x.node \in Nodes => x.node = caller[c].node /\ x.call = caller[c].call,
         server[t].pc \in {"write", "done"} /\ Kept(t) /\ t \notin disabled =>
           LET old == node[t][server[t].node] new == node'[t][server[t].node]
           IN  new.call = old.call /\ new.RetValue = old.RetValue
  PROVE  Rest'
BY CallerSettles, RestsAside, RestsKept DEF IInv, Rest

\* The call that a core serves is none of a caller that fills its node, or gives it back in good time.
LEMMA NotServed ==
  ASSUME IInv, Rest, NEW c \in Callers, NEW t \in Cores, t = caller[c].call.target, Kept(t), t \notin disabled,
         server[t].pc \in {"write", "done"}, NEW i \in Nodes, Has(c, t, i),
         caller[c].pc = "submit" \/ (caller[c].pc = "give" /\ CoreStatus[t] = "OS_RUN")
  PROVE  server[t].node # i
<1>1. CASE CoreStatus[t] = "OS_RUN"
  <2>1. PICK W : Works(t, Elements(W)) BY <1>1 DEF IInv, Pool
  <2>2. server[t].node = i => ToDo(t, Elements(W), i) BY DEF ToDo, Acts
  <2>3. QED BY <2>1, <2>2 DEF Works
<1>2. CASE CoreStatus[t] # "OS_RUN" BY <1>2 DEF Rest, Rests, Late, Kept, Fresh, Unseen, Has
<1>3. QED BY <1>1, <1>2

\* The steps of a caller that write nothing
LEMMA StayingRests ==
  ASSUME IInv, Rest, NEW c \in Callers,
         \/ Call(c) \/ FindsCoreGone(c) \/ FindsCoreRunning(c) \/ RemoteCall(c) \/ SeesCoreGone(c) \/ GivesUp(c)
  PROVE  Rest'
<1>1. TypeOK /\ caller[c] \in CallerType /\ OS_RPC_INVALID_TRAIN \notin Nodes
      /\ (caller[c].pc = "idle" => caller[c].node \notin Nodes) /\ caller[c].call.target \in Cores
  BY CallerFacts
<1>2. caller'[c].call.target \in Cores /\ caller'[c] \in CallerType
  <2>1. IInv'
    BY CallKeeps, FindsCoreGoneKeeps, FindsCoreRunningKeeps, RemoteCallKeeps, SeesCoreGoneKeeps, GivesUpKeeps
  <2>2. QED BY <2>1 DEF IInv, TypeOK, CallerType, Calls
<1>3. UNCHANGED <<node, freeQue, workQue, server, CoreStatus, disabled>>
  BY DEF Call, FindsCoreGone, FindsCoreRunning, RemoteCall, SeesCoreGone, GivesUp
<1>4. PICK x : x = caller'[c] OBVIOUS
<1>5. caller' = [caller EXCEPT ![c] = x]
  BY <1>1, <1>4 DEF TypeOK, Call, FindsCoreGone, FindsCoreRunning, RemoteCall, SeesCoreGone, GivesUp, Goto, End
<1>6. Late(x.call.target) => /\ x.pc \notin {"take", "submit"}
                             /\ x.node \in Nodes => x.node = caller[c].node /\ x.call = caller[c].call
  <2>1. CASE Call(c)
    <3>1. caller[c].pc = "idle" BY <2>1 DEF Call, At
    <3>2. PICK r : caller' = [caller EXCEPT ![c].pc = "test", ![c].ret = None, ![c].call = r]
      BY <2>1 DEF Call
    <3>3. caller'[c] = [[[caller[c] EXCEPT !.pc = "test"] EXCEPT !.ret = None] EXCEPT !.call = r]
      BY <1>1, <3>2 DEF TypeOK
    <3>4. caller'[c].pc = "test" /\ caller'[c].node = caller[c].node BY <1>1, <3>3 DEF CallerType
    <3>5. QED BY <1>1, <1>4, <3>1, <3>4
  <2>2. CASE FindsCoreGone(c) BY <1>1, <1>4, <2>2 DEF FindsCoreGone, End, TypeOK, CallerType
  <2>3. CASE FindsCoreRunning(c)
    BY <1>1, <1>4, <2>3 DEF FindsCoreRunning, Goto, Late, TypeOK, CallerType
  <2>4. CASE RemoteCall(c)
    <3>1. CASE caller[c].call.kind = "sync"
      BY <1>1, <1>4, <2>4, <3>1 DEF RemoteCall, Goto, TypeOK, CallerType
    <3>2. CASE caller[c].call.kind # "sync"
      <4>1. End(c, E_OK) BY <2>4, <3>2 DEF RemoteCall
      <4>2. QED BY <1>1, <1>4, <4>1 DEF End, TypeOK, CallerType
    <3>3. QED BY <3>1, <3>2
  <2>5. CASE SeesCoreGone(c) BY <1>1, <1>4, <2>5 DEF SeesCoreGone, Goto, TypeOK, CallerType
  <2>6. CASE GivesUp(c) BY <1>1, <1>4, <2>6 DEF GivesUp, TypeOK, CallerType
  <2>7. QED BY <2>1, <2>2, <2>3, <2>4, <2>5, <2>6
<1>7. Relinks(x.call.target, OS_RPC_INVALID_TRAIN) /\ \A u \in Cores : Aside(u)
  BY <1>3 DEF Relinks, Aside
<1>8. QED BY <1>2, <1>3, <1>4, <1>5, <1>6, <1>7, CallerRests

LEMMA SeesDoneRests ==
  ASSUME IInv, Rest, NEW c \in Callers, SeesDone(c)
  PROVE  Rest'
<1>1. PICK t, i : t = caller[c].call.target /\ i = caller[c].node OBVIOUS
<1> DEFINE x == [[caller[c] EXCEPT !.pc = "give"] EXCEPT !.ret = Held(c).RetValue]
           n == [node[t][i] EXCEPT !.ProcState = "OS_RPC_FREE"]
<1>2. /\ TypeOK /\ t \in Cores /\ i \in Nodes /\ caller[c] \in CallerType /\ node[t] \in Station
      /\ Held(c) = node[t][i] /\ node[t][i] \in NodeType
  BY <1>1, CallerFacts, TypesOf DEF SeesDone, At, Held, Station
<1>3. x \in CallerType /\ x.pc = "give" /\ x.node = caller[c].node /\ x.call = caller[c].call
  BY <1>2 DEF CallerType, NodeType
<1>4. /\ caller' = [caller EXCEPT ![c] = x] /\ UNCHANGED <<freeQue, workQue, server, CoreStatus, disabled>>
      /\ node' = [node EXCEPT ![t] = [node[t] EXCEPT ![i] = n]]
  BY <1>1 DEF SeesDone
<1> HIDE DEF x
<1>5. n.next = node[t][i].next /\ n.call = node[t][i].call /\ n.RetValue = node[t][i].RetValue
  BY <1>2 DEF NodeType
<1> HIDE DEF n
<1>6. /\ \A u \in Cores : u # t => node'[u] = node[u]
      /\ node'[t] = [node[t] EXCEPT ![i] = n]
  BY <1>2, <1>4 DEF TypeOK
<1>7. \A j : LET new == node'[t][j] IN
        new = node[t][j] \/ (j = i /\ new.next = node[t][j].next /\ new.call = node[t][j].call
                             /\ new.RetValue = node[t][j].RetValue)
  BY <1>2, <1>5, <1>6 DEF Station
<1>8. Relinks(t, OS_RPC_INVALID_TRAIN) /\ (\A u \in Cores : u # t => Aside(u)) /\ t = x.call.target
  BY <1>1, <1>3, <1>4, <1>6, <1>7 DEF Relinks, Aside
<1>9. LET old == node[t][server[t].node] new == node'[t][server[t].node]
      IN  new.call = old.call /\ new.RetValue = old.RetValue
  BY <1>7
<1>10. caller' = [caller EXCEPT ![c] = x] /\ UNCHANGED <<server, CoreStatus, disabled>> BY <1>4
<1>11. x.pc \notin {"take", "submit"} /\ (x.node \in Nodes => x.node = caller[c].node /\ x.call = caller[c].call)
  BY <1>3
<1>12. QED BY <1>2, <1>3, <1>8, <1>9, <1>10, <1>11, CallerRests

LEMMA TakeNodeRests ==
  ASSUME IInv, Rest, NEW c \in Callers, TakeNode(c)
  PROVE  Rest'
<1>1. PICK t, got, i : t = caller[c].call.target /\ got = RpcGetService(freeQue[t], node[t]) /\ i = got.node
  OBVIOUS
<1>2. /\ TypeOK /\ t \in Cores /\ caller[c] \in CallerType /\ caller[c].pc = "take" /\ caller[c].node \notin Nodes
      /\ node[t] \in Station /\ freeQue[t] \in QueType
  BY <1>1, CallerFacts, TypesOf DEF TakeNode, At
<1> DEFINE to == IF i = OS_RPC_INVALID_TRAIN THEN "test" ELSE "submit"
           x == [[caller[c] EXCEPT !.pc = to] EXCEPT !.node = i]
<1>3. /\ i \in Trains /\ \A j \in Nodes : SameData(got.station[j], node[t][j])
  BY <1>1, <1>2, GetTypes DEF Relinked, SameData
<1>4. x \in CallerType /\ x.pc = to /\ x.node = i /\ x.call = caller[c].call
  BY <1>2, <1>3 DEF CallerType
<1>5. /\ caller' = [caller EXCEPT ![c] = x] /\ UNCHANGED <<workQue, server, CoreStatus, disabled>>
      /\ node' = [node EXCEPT ![t] = got.station] /\ freeQue' = [freeQue EXCEPT ![t] = got.que]
  BY <1>1 DEF TakeNode
<1> HIDE DEF x
<1>6. /\ caller'[c] = x /\ node'[t] = got.station /\ freeQue'[t] = got.que
      /\ \A d \in Callers : d # c => caller'[d] = caller[d]
      /\ \A u \in Cores : u # t => Aside(u)
  BY <1>2, <1>5 DEF TypeOK, Aside
<1>7. server[t].pc \in {"write", "done"} =>
        LET old == node[t][server[t].node] new == node'[t][server[t].node]
        IN  new.call = old.call /\ new.RetValue = old.RetValue
  BY <1>2, ServerFacts, <1>3, <1>6 DEF SameData
<1>8. CASE ~ Late(t)
  <2>1. t = x.call.target BY <1>1, <1>4
  <2>2. QED BY <1>2, <1>4, <1>5, <1>6, <1>7, <1>8, <2>1, CallerRests
<1>9. CASE Late(t)
  <2>1. PICK p : /\ Spare(t, p) /\ p # <<>> /\ 1 \in 1 .. Len(p) /\ freeQue[t].Head = p[1] /\ p[1] \in Nodes
                 /\ Cardinality(Takers(t) \ {c}) <= Len(p) - 1 /\ IsFiniteSet(Takers(t) \ {c})
    BY <1>1, <1>2, <1>9, SpareIs
  <2>2. p[1] # OS_RPC_INVALID_TRAIN /\ p \in Seq(Nodes) BY <2>1, NodesAre DEF Spare
  <2> DEFINE q == Tail(p)
  <2>3. /\ q \in Seq(Nodes) /\ Len(q) = Len(p) - 1 /\ Len(p) \in Nat \ {0}
        /\ \A k \in 1 .. Len(q) : k + 1 \in 1 .. Len(p) /\ q[k] = p[k + 1] /\ k + 1 # 1
        /\ \A k \in 1 .. Len(q) : k # Len(q) => k + 1 # Len(p) /\ q[k + 1] = p[(k + 1) + 1]
        /\ \A k \in 1 .. Len(q) : k # 1 => q[k - 1] = p[k]
    <3>1. q \in Seq(Nodes) /\ Len(q) = Len(p) - 1 /\ Len(p) \in Nat \ {0}
          /\ \A k \in 1 .. Len(q) : k + 1 \in 1 .. Len(p) /\ q[k] = p[k + 1]
      BY <2>1, <2>2, TailOf
    <3> HIDE DEF q
    <3>2. \A k \in 1 .. Len(q) : k # 1 => k - 1 \in 1 .. Len(q) /\ (k - 1) + 1 = k BY <3>1
    <3>3. QED BY <3>1, <3>2
  <2>4. Len(p) = 1 => q = <<>> BY <2>1, <2>2, TailOf
  <2>5. i = p[1] BY <1>1, <2>1 DEF RpcGetService
  <2> HIDE DEF q
  <2>6. /\ Len(p) # 1 => got.que.Head = p[2] /\ got.que.Tail = freeQue[t].Tail
        /\ \A j \in Nodes : got.station[j].next = IF j = i THEN OS_RPC_INVALID_TRAIN ELSE node[t][j].next
    <3>1. node[t][p[1]].next # OS_RPC_INVALID_TRAIN =>
            got = [que |-> [freeQue[t] EXCEPT !.Head = node[t][p[1]].next],
                   station |-> [node[t] EXCEPT ![p[1]].next = OS_RPC_INVALID_TRAIN], node |-> p[1]]
      BY <1>1, <2>1, <2>2 DEF RpcGetService
    <3>2. node[t][p[1]].next = OS_RPC_INVALID_TRAIN => got.station = node[t]
      BY <1>1, <2>1, <2>2 DEF RpcGetService
    <3>3. Len(p) # 1 => node[t][p[1]].next = p[2] /\ p[2] # OS_RPC_INVALID_TRAIN
      BY <2>2, <2>3, <2>1, NodesAre DEF Spare
    <3>4. \A j \in Nodes : node[t][j] \in NodeType BY <1>2 DEF Station
    <3>5. ASSUME NEW j \in Nodes
          PROVE  got.station[j].next = IF j = i THEN OS_RPC_INVALID_TRAIN ELSE node[t][j].next
      BY <1>2, <2>1, <2>5, <3>1, <3>2, <3>4 DEF Station, NodeType
    <3>6. Len(p) # 1 => got.que.Head = p[2] /\ got.que.Tail = freeQue[t].Tail
      BY <1>2, <3>1, <3>3 DEF QueType
    <3>7. QED BY <3>5, <3>6
  <2>7. \A j \in Nodes : node'[t][j].next = IF j = i THEN OS_RPC_INVALID_TRAIN ELSE node[t][j].next
    BY <1>6, <2>6
  <2>8. \A y \in Nodes : Unseen(t, y)' <=> Unseen(t, y) BY <1>5 DEF Unseen
  <2>9. \A d \in Callers, j \in Nodes : Has(d, t, j)' => Has(d, t, j) \/ (d = c /\ j = i)
    BY <1>4, <1>6 DEF Has
  <2>10. ASSUME NEW k \in 1 .. Len(q)
         PROVE  /\ Unseen(t, q[k])' /\ \A d \in Callers : ~ Has(d, t, q[k])'
                /\ k = 1 => freeQue'[t].Head = q[k]
                /\ k # Len(q) => node'[t][q[k]].next = q[k + 1] /\ freeQue'[t].Tail # q[k]
                /\ \A j \in Nodes : node'[t][j].next = q[k] => k # 1 /\ j = q[k - 1]
    <3>1. k + 1 \in 1 .. Len(p) /\ q[k] = p[k + 1] /\ k + 1 # 1 /\ q[k] \in Nodes /\ Len(p) # 1
      BY <2>3
    <3>2. q[k] # i BY <2>1, <2>5, <3>1 DEF Spare
    <3>3. Unseen(t, q[k]) /\ \A d \in Callers : ~ Has(d, t, q[k]) BY <2>1, <3>1 DEF Spare
    <3>4. k = 1 => freeQue'[t].Head = q[k] BY <1>6, <2>6, <3>1
    <3>5. ASSUME k # Len(q)
          PROVE  node'[t][q[k]].next = q[k + 1] /\ freeQue'[t].Tail # q[k]
      <4>1. k + 1 \in 1 .. Len(q) /\ (k + 1) + 1 \in 1 .. Len(p) /\ q[k + 1] = p[(k + 1) + 1] /\ k + 1 # Len(p)
        BY <2>3, <3>1, <3>5
      <4>2. node[t][p[k + 1]].next = p[(k + 1) + 1] /\ freeQue[t].Tail # p[k + 1]
        BY <2>1, <3>1, <4>1 DEF Spare
      <4>3. node'[t][q[k]].next = q[k + 1] BY <2>7, <3>1, <3>2, <4>1, <4>2
      <4>4. freeQue'[t].Tail # q[k] BY <1>6, <2>6, <3>1, <4>2
      <4>5. QED BY <4>3, <4>4
    <3>6. ASSUME NEW j \in Nodes, node'[t][j].next = q[k]
          PROVE  k # 1 /\ j = q[k - 1]
      <4>1. j # i /\ node[t][j].next = q[k] BY <2>7, <3>1, <3>6, NodesAre
      <4>2. j = p[(k + 1) - 1] /\ (k + 1) - 1 = k BY <2>1, <3>1, <4>1 DEF Spare
      <4>3. QED BY <2>3, <2>5, <4>1, <4>2
    <3>7. QED BY <2>8, <2>9, <3>1, <3>2, <3>3, <3>4, <3>5, <3>6
  <2>11. freeQue'[t].Tail = OS_RPC_INVALID_TRAIN => q = <<>> BY <1>6, <2>1, <2>4, <2>6 DEF Spare
  <2>12. Takers(t)' = Takers(t) \ {c} BY <1>4, <1>6 DEF Takers
  <2>13. \A j, k \in 1 .. Len(q) : q[j] = q[k] => j = k
    <3>1. \A j, k \in 1 .. Len(p) : p[j] = p[k] => j = k BY <2>1 DEF Spare
    <3>2. \A k \in 1 .. Len(q) : k \in Nat BY <2>3
    <3>3. \A j, k \in 1 .. Len(q) : q[j] = q[k] => j + 1 = k + 1 BY <2>3, <3>1
    <3>4. QED BY <3>2, <3>3
  <2>14. Spare(t, q)' BY <2>1, <2>3, <2>10, <2>11, <2>12, <2>13 DEF Spare
  <2>15. ASSUME NEW d \in Callers
         PROVE  Fresh(t, d)'
    <3>1. PICK y : y = caller'[d].node OBVIOUS
    <3>2. caller'[d].pc = "submit" /\ caller'[d].call.target = t =>
            y \in Nodes /\ Unseen(t, y) /\ \A j \in Nodes : node[t][j].next # y
      <4>1. CASE d = c BY <2>1, <2>5, <1>4, <1>6, <3>1, <4>1 DEF Spare
      <4>2. CASE d # c BY <1>2, <1>9, CallerFacts, <1>6, <3>1, <4>2 DEF Rest, Rests, Fresh
      <4>3. QED BY <4>1, <4>2
    <3>3. y \in Nodes => y # OS_RPC_INVALID_TRAIN BY NodesAre
    <3>4. QED BY <2>7, <2>8, <3>1, <3>2, <3>3 DEF Fresh, Unseen
  <2>16. Rests(t)'
    <3>1. Rests(t) BY <1>2 DEF Rest
    <3>2. Results(t)' BY <1>5, <1>7, <3>1 DEF Rests, Results, Kept, Uses
    <3>3. QED BY <2>14, <2>15, <3>2 DEF Rests
  <2>17. ASSUME NEW u \in Cores, u # t
         PROVE  Rests(u)'
    BY <1>1, <1>4, <2>17, <1>2, <1>5, CallerSettles, <1>6, RestsAside DEF Rest
  <2>18. QED BY <2>16, <2>17 DEF Rest
<1>10. QED BY <1>8, <1>9

LEMMA AddLinks ==
  ASSUME NEW q \in QueType, NEW station \in Station, NEW i \in Nodes
  PROVE  LET added == RpcAddService(q, station, i)
         IN  /\ added.que.Head = IF q.Tail = OS_RPC_INVALID_TRAIN THEN i ELSE q.Head
             /\ added.que.Tail = i
             /\ \A j \in Nodes : \/ added.station[j].next = station[j].next
                                 \/ added.station[j].next \in {OS_RPC_INVALID_TRAIN, i} /\ j \in {i, q.Tail}
<1> DEFINE added == RpcAddService(q, station, i)
           ended == [station EXCEPT ![i].next = OS_RPC_INVALID_TRAIN]
           linked == [station EXCEPT ![q.Tail].next = i]
           both == [linked EXCEPT ![i].next = OS_RPC_INVALID_TRAIN]
<1>1. \A j \in Nodes : station[j] \in NodeType /\ station \in [Nodes -> NodeType] /\ q.Tail \in Trains
  BY DEF Station, QueType
<1>2. CASE q.Tail = OS_RPC_INVALID_TRAIN BY <1>2, <1>1 DEF RpcAddService, NodeType
<1>3. CASE q.Tail # OS_RPC_INVALID_TRAIN
  <2>1. added = [que |-> [q EXCEPT !.Tail = i], station |-> both] BY <1>3 DEF RpcAddService
  <2>2. q.Tail \in Nodes BY <1>1, <1>3, NodesAre
  <2>3. Relinked(station, linked, {q.Tail}) /\ linked[q.Tail].next = i BY <2>2, NodesAre, LinkedIs
  <2>4. linked \in Station BY <2>3 DEF Relinked
  <2> HIDE DEF linked
  <2>5. Relinked(linked, both, {i}) /\ both[i].next = OS_RPC_INVALID_TRAIN
    BY <2>4, NodesAre, LinkedIs
  <2> HIDE DEF both
  <2>6. \A j \in Nodes : \/ both[j].next = station[j].next
                         \/ both[j].next \in {OS_RPC_INVALID_TRAIN, i} /\ j \in {i, q.Tail}
    BY <2>3, <2>5 DEF Relinked
  <2>7. added.que.Head = q.Head /\ added.que.Tail = i BY <2>1 DEF QueType
  <2>8. QED BY <1>3, <2>1, <2>6, <2>7
<1>4. QED BY <1>2, <1>3

LEMMA SubmitNodeRests ==
  ASSUME OneKindPerCore, IInv, Rest, NEW c \in Callers, SubmitNode(c)
  PROVE  Rest'
<1>1. PICK t, i, r, n, base, added :
        /\ r = caller[c].call /\ t = r.target /\ i = caller[c].node
        /\ n = RpcProcessParameter(node[t][i], r) /\ base = [node[t] EXCEPT ![i] = n]
        /\ added = RpcAddService(workQue[t], base, i)
  OBVIOUS
<1>2. /\ TypeOK /\ t \in Cores /\ i \in Nodes /\ caller[c] \in CallerType /\ caller[c].pc = "submit"
      /\ node[t] \in Station /\ workQue[t] \in QueType /\ Has(c, t, i)
  BY <1>1, CallerFacts, TypesOf DEF SubmitNode, At, Has
<1> DEFINE x == [caller[c] EXCEPT !.pc = "remote"]
<1>3. x \in CallerType /\ x.pc = "remote" /\ x.node = caller[c].node /\ x.call = caller[c].call
  BY <1>2 DEF CallerType
<1>4. /\ caller' = [caller EXCEPT ![c] = x] /\ UNCHANGED <<freeQue, server, CoreStatus, disabled>>
      /\ node' = [node EXCEPT ![t] = added.station] /\ workQue' = [workQue EXCEPT ![t] = added.que]
  BY <1>1 DEF SubmitNode, Goto
<1> HIDE DEF x
<1>5. n \in NodeType /\ n.next = node[t][i].next
  <2>1. node[t][i] \in NodeType /\ r \in Calls BY <1>1, <1>2, CallerFacts DEF Station
  <2>2. r.kind \in {"sync", "async"} BY <2>1 DEF Calls
  <2>3. QED BY <1>1, <2>1, <2>2 DEF RpcProcessParameter, NodeType
<1>6. base \in Station /\ \A j \in Nodes : base[j].next = node[t][j].next /\ (j # i => base[j] = node[t][j])
  BY <1>1, <1>2, <1>5 DEF Station
<1>7. node'[t] = added.station /\ workQue'[t] = added.que /\ \A u \in Cores : u # t => Aside(u)
  BY <1>2, <1>4 DEF TypeOK, Aside
<1>8. Relinks(t, i)
  <2>1. /\ added.que.Head = IF workQue[t].Tail = OS_RPC_INVALID_TRAIN THEN i ELSE workQue[t].Head
        /\ added.que.Tail = i
        /\ \A j \in Nodes : \/ added.station[j].next = base[j].next
                            \/ /\ added.station[j].next \in {OS_RPC_INVALID_TRAIN, i}
                               /\ j \in {i, workQue[t].Tail}
    <3>1. added = RpcAddService(workQue[t], base, i) BY <1>1
    <3>2. QED BY <1>2, <1>6, <3>1, AddLinks
  <2>2. /\ freeQue'[t] = freeQue[t] /\ workQue'[t] = added.que /\ node'[t] = added.station
        /\ \A j \in Nodes : base[j].next = node[t][j].next
    BY <1>4, <1>6, <1>7
  <2>3. QED BY <1>2, <2>1, <2>2 DEF Relinks
<1>9. ASSUME server[t].pc \in {"write", "done"}, Kept(t), t \notin disabled
      PROVE  LET old == node[t][server[t].node] new == node'[t][server[t].node]
             IN  new.call = old.call /\ new.RetValue = old.RetValue
  <2>1. server[t].node # i /\ server[t].node \in Nodes BY <1>1, <1>2, <1>9, NotServed, ServerFacts
  <2>2. Relinked(base, added.station, {i, workQue[t].Tail}) BY <1>1, <1>2, <1>6, AddTypes
  <2>3. QED BY <1>6, <1>7, <2>1, <2>2 DEF Relinked
<1>10. t = x.call.target BY <1>1, <1>3
<1>11. QED BY <1>1, <1>2, <1>3, <1>4, <1>7, <1>8, <1>9, <1>10, CallerRests

LEMMA GiveNodeBackRests ==
  ASSUME IInv, Rest, NEW c \in Callers, GiveNodeBack(c)
  PROVE  Rest'
<1>1. PICK t, i, base, added :
        /\ t = caller[c].call.target /\ i = caller[c].node /\ base = Forget(t, i)
        /\ added = RpcAddService(freeQue[t], base, i)
  OBVIOUS
<1>2. /\ TypeOK /\ t \in Cores /\ i \in Nodes /\ caller[c] \in CallerType /\ caller[c].pc = "give"
      /\ node[t] \in Station /\ freeQue[t] \in QueType /\ Has(c, t, i)
  BY CallerFacts, <1>1, TypesOf DEF GiveNodeBack, At, CallerAgrees, Has
<1> DEFINE x == [caller[c] EXCEPT !.pc = "idle", !.ret = caller[c].ret, !.node = OS_RPC_INVALID_TRAIN]
<1>3. x \in CallerType /\ x.pc = "idle" /\ x.node \notin Nodes /\ x.call = caller[c].call
  BY <1>2, NodesAre DEF CallerType
<1>4. /\ caller' = [caller EXCEPT ![c] = x] /\ UNCHANGED <<workQue, server, CoreStatus, disabled>>
      /\ node' = [node EXCEPT ![t] = added.station] /\ freeQue' = [freeQue EXCEPT ![t] = added.que]
  BY <1>1 DEF GiveNodeBack, End
<1> HIDE DEF x
<1>5. /\ base \in Station /\ \A j \in Nodes : base[j].next = node[t][j].next
      /\ \A j \in Nodes : j # i => SameData(base[j], node[t][j])
      /\ CoreStatus[t] # "OS_RUN" => base = node[t]
  BY <1>1, <1>2, ForgetIs
<1>6. node'[t] = added.station /\ freeQue'[t] = added.que /\ \A u \in Cores : u # t => Aside(u)
  BY <1>2, <1>4 DEF TypeOK, Aside
<1>7. Relinks(t, i)
  <2>0. freeQue[t] \in QueType /\ base \in Station /\ i \in Nodes BY <1>2, <1>5
  <2>1. /\ added.que.Head = IF freeQue[t].Tail = OS_RPC_INVALID_TRAIN THEN i ELSE freeQue[t].Head
        /\ added.que.Tail = i
        /\ \A j \in Nodes : \/ added.station[j].next = base[j].next
                            \/ /\ added.station[j].next \in {OS_RPC_INVALID_TRAIN, i}
                               /\ j \in {i, freeQue[t].Tail}
    BY <2>0, <1>1, AddLinks
  <2>2. /\ workQue'[t] = workQue[t] /\ freeQue'[t] = added.que /\ node'[t] = added.station
        /\ \A j \in Nodes : base[j].next = node[t][j].next
    BY <1>4, <1>5, <1>6
  <2>3. QED BY <1>2, <2>1, <2>2 DEF Relinks
<1>8. ASSUME server[t].pc \in {"write", "done"}, Kept(t), t \notin disabled
      PROVE  LET old == node[t][server[t].node] new == node'[t][server[t].node]
             IN  new.call = old.call /\ new.RetValue = old.RetValue
  <2>1. server[t].node \in Nodes BY <1>2, <1>8, ServerFacts
  <2>2. SameData(base[server[t].node], node[t][server[t].node])
    BY <1>1, <1>2, <1>5, <1>8, <2>1, NotServed DEF SameData
  <2>3. Relinked(base, added.station, {i, freeQue[t].Tail}) BY <1>1, <1>2, <1>5, AddTypes
  <2>4. QED BY <1>6, <2>1, <2>2, <2>3 DEF Relinked, SameData
<1>9. t = x.call.target BY <1>1, <1>3
<1>10. QED BY <1>2, <1>3, <1>4, <1>6, <1>7, <1>8, <1>9, CallerRests

\* A step of the interrupt of t
LEMMA ServerRests ==
  ASSUME IInv, Rest, NEW t \in Cores, UNCHANGED <<caller, CoreStatus, disabled>>,
         \A u \in Cores : u # t => Aside(u) /\ server'[u] = server[u],
         Late(t) => /\ Relinks(t, OS_RPC_INVALID_TRAIN)
                    /\ server'[t].node \in {server[t].node, OS_RPC_INVALID_TRAIN, workQue[t].Head},
         Results(t)'
  PROVE  Rest'
BY NobodyMoves, RestsAside, RestsKept DEF Rest, Settles

\* It is at work on node i and writes no link.
LEMMA ServingRests ==
  ASSUME IInv, Rest, NEW t \in Cores, UNCHANGED <<freeQue, workQue, caller, CoreStatus, disabled>>,
         NEW s, server' = [server EXCEPT ![t] = s], s.node \in {server[t].node, OS_RPC_INVALID_TRAIN},
         NEW i, NEW n, node' = [node EXCEPT ![t] = [node[t] EXCEPT ![i] = n]], n.next = node[t][i].next,
         Results(t)'
  PROVE  Rest'
<1>1. TypeOK /\ node[t] \in Station BY ServerFacts
<1>2. node'[t] = [node[t] EXCEPT ![i] = n] /\ server'[t] = s
      /\ \A u \in Cores : u # t => Aside(u) /\ server'[u] = server[u]
  BY <1>1 DEF TypeOK, Aside
<1>3. \A j \in Nodes : node'[t][j].next = node[t][j].next BY <1>1, <1>2 DEF Station
<1>4. QED BY <1>2, <1>3, ServerRests DEF Relinks

LEMMA EnterInterruptRests ==
  ASSUME IInv, Rest, NEW t \in Cores, EnterInterrupt(t)
  PROVE  Rest'
BY ServerFacts, ServerRests DEF EnterInterrupt, ServerGoto, TypeOK, ServerType, Aside, Results, Relinks

LEMMA GetWorkRests ==
  ASSUME IInv, Rest, NEW t \in Cores, GetWork(t)
  PROVE  Rest'
<1>1. PICK got, q, next : got = RpcGetService(q, node[t]) /\ q = workQue[t] /\ next = node[t][q.Head].next
  OBVIOUS
<1>2. /\ TypeOK /\ node[t] \in Station /\ q \in QueType /\ server[t] \in ServerType
      /\ UNCHANGED <<freeQue, caller, CoreStatus, disabled>>
  BY <1>1, ServerFacts DEF GetWork
<1>3. /\ server' = [server EXCEPT ![t].pc = IF got.node = OS_RPC_INVALID_TRAIN THEN "idle" ELSE "act",
                                  ![t].node = got.node]
      /\ node' = [node EXCEPT ![t] = got.station] /\ workQue' = [workQue EXCEPT ![t] = got.que]
  BY <1>1 DEF GetWork
<1>4. /\ server'[t].pc \in {"idle", "act"} /\ server'[t].node = got.node
      /\ node'[t] = got.station /\ workQue'[t] = got.que
      /\ \A u \in Cores : u # t => Aside(u) /\ server'[u] = server[u]
  BY <1>2, <1>3 DEF TypeOK, ServerType, Aside
<1>5. /\ got.node = q.Head /\ got.que.Tail \in {q.Tail, OS_RPC_INVALID_TRAIN}
      /\ got.que.Head \in {q.Head, OS_RPC_INVALID_TRAIN} \/ (q.Head \in Nodes /\ got.que.Head = next)
      /\ \A j \in Nodes : \/ got.station[j].next = node[t][j].next
                          \/ got.station[j].next = OS_RPC_INVALID_TRAIN /\ j = q.Head
  <2>1. CASE q.Head = OS_RPC_INVALID_TRAIN BY <1>1, <2>1 DEF RpcGetService
  <2>2. CASE q.Head # OS_RPC_INVALID_TRAIN /\ next = OS_RPC_INVALID_TRAIN
    BY <1>1, <2>2 DEF RpcGetService, Empty
  <2>3. CASE q.Head # OS_RPC_INVALID_TRAIN /\ next # OS_RPC_INVALID_TRAIN
    <3>1. q.Head \in Nodes BY <1>2, <2>3, NodesAre DEF QueType
    <3>2. got = [que |-> [q EXCEPT !.Head = next],
                 station |-> [node[t] EXCEPT ![q.Head].next = OS_RPC_INVALID_TRAIN], node |-> q.Head]
      BY <1>1, <2>3 DEF RpcGetService
    <3>3. Relinked(node[t], got.station, {q.Head}) /\ got.station[q.Head].next = OS_RPC_INVALID_TRAIN
      <4>1. PICK h, old : h = q.Head /\ old = node[t] OBVIOUS
      <4> DEFINE new == [old EXCEPT ![h].next = OS_RPC_INVALID_TRAIN]
      <4>2. Relinked(old, new, {h}) /\ new[h].next = OS_RPC_INVALID_TRAIN
        BY <1>2, <3>1, <4>1, NodesAre, LinkedIs
      <4>3. got.station = new BY <3>2, <4>1
      <4>4. QED BY <4>1, <4>2, <4>3
    <3>4. got.que.Head = next /\ got.que.Tail = q.Tail /\ got.node = q.Head
      BY <1>2, <3>2 DEF QueType
    <3>5. QED BY <3>1, <3>3, <3>4 DEF Relinked
  <2>4. QED BY <2>1, <2>2, <2>3
<1>6. Relinks(t, OS_RPC_INVALID_TRAIN) BY <1>1, <1>2, <1>4, <1>5 DEF Relinks
<1>7. server'[t].node = workQue[t].Head BY <1>1, <1>4, <1>5
<1>8. Results(t)' BY <1>4 DEF Results
<1>9. QED BY <1>2, <1>4, <1>6, <1>7, <1>8, ServerRests

LEMMA PerformCallRests ==
  ASSUME IInv, Rest, NEW t \in Cores, PerformCall(t)
  PROVE  Rest'
<1>1. PICK i : i = server[t].node OBVIOUS
<1> DEFINE n == [node[t][i] EXCEPT !.ProcState = "OS_RPC_WORK"]
           s == [[server[t] EXCEPT !.pc = "write"] EXCEPT !.result = node[t][i].call]
<1>2. /\ server[t] \in ServerType /\ i \in Nodes /\ node[t] \in Station /\ node[t][i] \in NodeType /\ TypeOK
  BY <1>1, ServerFacts DEF PerformCall, Serving, Station
<1>3. n.next = node[t][i].next /\ n.call = node[t][i].call BY <1>2 DEF NodeType
<1>4. s.pc = "write" /\ s.node = i /\ s.result = node[t][i].call BY <1>1, <1>2 DEF ServerType
<1>5. /\ server' = [server EXCEPT ![t] = s] /\ node' = [node EXCEPT ![t] = [node[t] EXCEPT ![i] = n]]
      /\ UNCHANGED <<freeQue, workQue, caller, CoreStatus, disabled>>
  BY <1>1 DEF PerformCall
<1> HIDE DEF s, n
<1>6. server'[t] = s /\ node'[t][i] = n BY <1>2, <1>5 DEF TypeOK, Station
<1>7. Results(t)' BY <1>3, <1>4, <1>6 DEF Results
<1>8. QED BY <1>1, <1>3, <1>4, <1>5, <1>7, ServingRests

LEMMA WriteResultRests ==
  ASSUME IInv, Rest, NEW t \in Cores, WriteResult(t)
  PROVE  Rest'
<1>1. PICK i : i = server[t].node OBVIOUS
<1> DEFINE n == [node[t][i] EXCEPT !.RetValue = server[t].result]
           s == [[server[t] EXCEPT !.pc = "done"] EXCEPT !.result = None]
<1>2. /\ server[t] \in ServerType /\ server[t].pc = "write" /\ t \notin disabled
      /\ i \in Nodes /\ node[t] \in Station /\ node[t][i] \in NodeType /\ TypeOK
  BY <1>1, ServerFacts DEF WriteResult, Serving, ServerRuns, Station
<1>3. n.next = node[t][i].next /\ n.call = node[t][i].call /\ n.RetValue = server[t].result
  BY <1>2 DEF NodeType
<1>4. s.pc = "done" /\ s.node = i BY <1>1, <1>2 DEF ServerType
<1>5. /\ server' = [server EXCEPT ![t] = s] /\ node' = [node EXCEPT ![t] = [node[t] EXCEPT ![i] = n]]
      /\ UNCHANGED <<freeQue, workQue, caller, CoreStatus, disabled>>
  BY <1>1 DEF WriteResult
<1> HIDE DEF s, n
<1>6. server'[t] = s /\ node'[t][i] = n BY <1>2, <1>5 DEF TypeOK, Station
<1>7. Kept(t)' => server[t].result = node[t][i].call
  BY <1>1, <1>2, <1>5 DEF Rest, Rests, Results, Kept, Uses
<1>8. Results(t)' BY <1>3, <1>4, <1>6, <1>7 DEF Results
<1>9. QED BY <1>1, <1>3, <1>4, <1>5, <1>8, ServingRests

LEMMA SetDoneRests ==
  ASSUME IInv, Rest, NEW t \in Cores, SetDone(t) \/ TestSync(t)
  PROVE  Rest'
<1>1. /\ TypeOK /\ server[t] \in ServerType /\ node[t] \in Station /\ server[t].node \in Nodes
      /\ UNCHANGED <<freeQue, workQue, caller, CoreStatus, disabled>>
  BY ServerFacts DEF SetDone, TestSync, Serving
<1>2. PICK s, v : /\ server' = [server EXCEPT ![t] = s] /\ s.node \in {server[t].node, OS_RPC_INVALID_TRAIN}
                  /\ s.pc \in {"get", "test", "give"}
                  /\ node' = node \/ node' = [node EXCEPT ![t][server[t].node].ProcState = v]
  BY <1>1 DEF SetDone, ServerGoto, ServerType, TestSync, GetNext
<1>3. /\ server'[t] = s /\ \A u \in Cores : u # t => Aside(u) /\ server'[u] = server[u]
  BY <1>1, <1>2 DEF TypeOK, Aside
<1>4. ASSUME NEW j \in Nodes
      PROVE  node'[t][j].next = node[t][j].next
  <2>1. CASE node' = [node EXCEPT ![t][server[t].node].ProcState = v]
    BY <1>1, <2>1 DEF TypeOK, Station, NodeType
  <2>2. QED BY <1>2, <2>1
<1>5. Relinks(t, OS_RPC_INVALID_TRAIN) BY <1>1, <1>4 DEF Relinks
<1>6. Results(t)' BY <1>2, <1>3 DEF Results
<1>7. QED BY <1>1, <1>2, <1>3, <1>5, <1>6, ServerRests

LEMMA GiveServedNodeRests ==
  ASSUME OneKindPerCore, IInv, Rest, NEW t \in Cores, GiveServedNode(t)
  PROVE  Rest'
<1>1. /\ TypeOK /\ server[t] \in ServerType /\ server[t].pc = "give" /\ server[t].node \in Nodes
      /\ UNCHANGED <<caller, CoreStatus, disabled>>
  BY ServerFacts DEF GiveServedNode, Serving
<1>2. /\ server'[t].pc = "get" /\ \A u \in Cores : u # t => Aside(u) /\ server'[u] = server[u]
  BY <1>1 DEF GiveServedNode, GetNext, TypeOK, ServerType, Aside
<1>3. ~ Late(t) BY <1>1, OneKind DEF IInv, ServersAgree, Late
<1>4. QED BY <1>1, <1>2, <1>3, ServerRests DEF Results

\* Links lead nowhere, or on in their list.
LEMMA LinksAre ==
  ASSUME NEW q, NEW station, NEW s, IsList(q, station, s)
  PROVE  /\ \A x \in {q.Head, q.Tail} : x = OS_RPC_INVALID_TRAIN \/ x \in Elements(s)
         /\ \A j \in Elements(s) : station[j].next = OS_RPC_INVALID_TRAIN \/ station[j].next \in Elements(s)
<1>1. s \in Seq(Nodes) /\ Len(s) \in Nat BY DEF IsList
<1>2. ASSUME NEW x \in {q.Head, q.Tail}, s # <<>>
      PROVE  x \in Elements(s)
  BY <1>1, <1>2, TailOf DEF IsList, Elements
<1>3. ASSUME NEW j \in Elements(s), station[j].next # OS_RPC_INVALID_TRAIN
      PROVE  station[j].next \in Elements(s)
  <2>1. PICK k \in 1 .. Len(s) : j = s[k] BY DEF Elements
  <2>2. k # Len(s) /\ station[j].next = s[k + 1] BY <1>3, <2>1 DEF IsList
  <2>3. k + 1 \in 1 .. Len(s) BY <1>1, <2>2
  <2>4. QED BY <2>2, <2>3 DEF Elements
<1>4. QED BY <1>2, <1>3 DEF IsList

\* When a core stops, its free nodes are enough for the callers that saw it run: each other node is
\* at a synchronous caller of its own.
LEMMA EnoughNodes ==
  ASSUME OneKindPerCore, RoomForCallers, IInv, NEW t \in Stopping, t \in Cores, Uses(t, "sync"), NEW F, NEW W,
         IsList(freeQue[t], node[t], F), Places(t, Elements(F), Elements(W))
  PROVE  IsFiniteSet(Takers(t)) /\ Cardinality(Takers(t)) <= Len(F)
<1> DEFINE m == OS_RPC_MAX_NODE
           waiters == {c \in Callers : <<t, "sync">> \in Services[c]}
           H == {c \in Callers : \E i \in Nodes : Has(c, t, i)}
           T == Takers(t)
           taken == Nodes \ Elements(F)
<1>1. IsFiniteSet(waiters) /\ Cardinality(waiters) <= m /\ m \in Nat BY NodesAre DEF RoomForCallers
<1>2. T \cup H \subseteq waiters /\ T \cap H = {}
  <2>1. ASSUME NEW c \in Callers, caller[c].pc # "idle", caller[c].call.target = t
        PROVE  c \in waiters
    <3>1. <<t, caller[c].call.kind>> \in Services[c] BY <2>1, CallerFacts DEF CallerAgrees
    <3>2. Uses(t, caller[c].call.kind) BY <3>1 DEF Uses
    <3>3. QED BY <3>1, <3>2, OneKind
  <2>2. \A c \in H : caller[c].pc \in {"submit", "remote", "wait", "look", "give"} /\ caller[c].call.target = t
    BY CallerFacts DEF Has
  <2>3. QED BY <2>1, <2>2 DEF Takers
<1>3. Len(F) \in Nat /\ IsFiniteSet(Elements(F)) /\ Cardinality(Elements(F)) <= Len(F) /\ Elements(F) \subseteq Nodes
  <2> DEFINE f == [k \in 1 .. Len(F) |-> F[k]]
  <2>1. Len(F) \in Nat BY DEF IsList
  <2>2. f \in Surjection(1 .. Len(F), Elements(F)) BY DEF Surjection, Elements
  <2>3. IsFiniteSet(1 .. Len(F)) /\ Cardinality(1 .. Len(F)) = Len(F)
    <3>1. 1 \in Int /\ Len(F) \in Int BY <2>1
    <3>2. QED BY <2>1, <3>1, FS_Interval
  <2> HIDE DEF f
  <2>4. QED BY <2>1, <2>2, <2>3, FS_Surjection, ListedAreNodes
<1>4. IsFiniteSet(H) /\ Cardinality(taken) <= Cardinality(H)
  <2> DEFINE g == [c \in H |-> caller[c].node]
  <2>1. \A i \in Nodes : node[t][i].RpcSync # "async" BY OneKind DEF IInv, ServersAgree
  <2>2. \A i \in taken : \E c \in H : caller[c].node = i BY <2>1 DEF Places, Has
  <2>3. \A c \in H : caller[c].node \in taken BY DEF Places, Has
  <2>4. g \in Surjection(H, taken) BY <2>2, <2>3 DEF Surjection
  <2> HIDE DEF g, taken, H
  <2>5. IsFiniteSet(H) BY <1>1, <1>2, FS_Subset
  <2>6. QED BY <2>4, <2>5, FS_Surjection
<1>5. Cardinality(taken) = m - Cardinality(Elements(F))
  <2>1. IsFiniteSet(Nodes) /\ Cardinality(Nodes) = m BY FS_Interval, NodesAre DEF Nodes
  <2>2. Nodes \cap Elements(F) = Elements(F) BY <1>3
  <2>3. QED BY <2>1, <2>2, FS_Difference
<1> HIDE DEF taken, H, T, waiters
<1>6. IsFiniteSet(T) /\ IsFiniteSet(T \cup H) /\ Cardinality(T \cup H) <= Cardinality(waiters)
  BY <1>1, <1>2, FS_Subset
<1>7. /\ Cardinality(T) \in Nat /\ Cardinality(H) \in Nat /\ Cardinality(waiters) \in Nat
      /\ Cardinality(Elements(F)) \in Nat /\ Cardinality(T \cup H) \in Nat
  BY <1>1, <1>3, <1>4, <1>6, FS_CardinalityType
<1>8. Cardinality(T \cup H) = Cardinality(T) + Cardinality(H)
  <2>1. Cardinality(T \cap H) = 0 BY <1>2, FS_EmptySet
  <2>2. Cardinality(T \cup H) = Cardinality(T) + Cardinality(H) - Cardinality(T \cap H)
    BY <1>4, <1>6, FS_Union
  <2>3. QED BY <1>7, <2>1, <2>2
<1>9. Cardinality(T) <= Len(F) BY <1>1, <1>3, <1>4, <1>5, <1>6, <1>7, <1>8
<1>10. QED BY <1>6, <1>9 DEF T

LEMMA ShutdownRests ==
  ASSUME OneKindPerCore, RoomForCallers, IInv, Rest, NEW t \in Cores, Shutdown(t)
  PROVE  Rest'
<1>1. /\ TypeOK /\ t \in Stopping /\ CoreStatus[t] = "OS_RUN"
      /\ CoreStatus' = [CoreStatus EXCEPT ![t] = "OS_CORE_PRE_SHUTDOWN"]
      /\ disabled \subseteq disabled' /\ (server[t].pc # "idle" => t \in disabled')
      /\ UNCHANGED <<node, freeQue, workQue, caller, server>>
  BY DEF Shutdown, IInv
<1>2. ASSUME NEW u \in Cores, u # t
      PROVE  Rests(u)'
  BY <1>1, NobodyMoves, <1>2, RestsAside DEF Settles, TypeOK, Rest, Aside
<1>3. Results(t)' BY <1>1 DEF Results
<1>4. ASSUME Uses(t, "sync")
      PROVE  (\E p : Spare(t, p)') /\ \A c \in Callers : Fresh(t, c)'
  <2>1. PICK F, W : /\ IsList(freeQue[t], node[t], F) /\ IsList(workQue[t], node[t], W)
                    /\ Places(t, Elements(F), Elements(W)) /\ Works(t, Elements(W))
    BY <1>1 DEF IInv, Pool
  <2> DEFINE free == Elements(F)
             work == Elements(W)
  <2>2. free \subseteq Nodes /\ work \subseteq Nodes /\ F \in Seq(Nodes) /\ Len(F) \in Nat
    BY <2>1, ListedAreNodes DEF IsList
  <2>3. /\ \A x \in {workQue[t].Head, workQue[t].Tail} : x = OS_RPC_INVALID_TRAIN \/ x \in work
        /\ \A j \in work : node[t][j].next = OS_RPC_INVALID_TRAIN \/ node[t][j].next \in work
        /\ \A j \in free : node[t][j].next = OS_RPC_INVALID_TRAIN \/ node[t][j].next \in free
    BY <2>1, LinksAre
  <2>4. t \notin disabled' => server'[t].node = OS_RPC_INVALID_TRAIN
    BY <1>1, ServerFacts DEF ServersAgree
  <2> HIDE DEF free, work
  <2>5. Places(t, free, work) /\ Works(t, work) BY <2>1 DEF free, work
  <2>6. \A x \in Nodes : x \notin work => Unseen(t, x)' BY <1>1, <2>3, <2>4, NodesAre DEF Unseen
  <2>7. \A j \in Nodes : j \in free \/ node[t][j].next = OS_RPC_INVALID_TRAIN \/ node[t][j].next \in work
    BY <2>3, <2>5 DEF Places
  <2>8. ASSUME NEW c \in Callers
        PROVE  Fresh(t, c)'
    <3>1. CASE caller[c].pc = "submit" /\ caller[c].call.target = t
      <4>1. PICK x : x = caller[c].node OBVIOUS
      <4>2. x \in Nodes /\ Has(c, t, x) BY <3>1, <4>1, CallerFacts DEF Has
      <4>3. x \notin work /\ x \notin free BY <3>1, <4>2, <2>5 DEF Works, ToDo, Places
      <4>4. Unseen(t, x)' /\ \A j \in Nodes : node[t][j].next # x
        BY <2>3, <2>6, <2>7, <4>2, <4>3, NodesAre
      <4>5. QED BY <1>1, <4>1, <4>4 DEF Fresh, Unseen
    <3>2. CASE ~ (caller[c].pc = "submit" /\ caller[c].call.target = t) BY <1>1, <3>2 DEF Fresh
    <3>3. QED BY <3>1, <3>2
  <2>9. ASSUME NEW k \in 1 .. Len(F)
        PROVE  /\ Unseen(t, F[k])' /\ \A c \in Callers : ~ Has(c, t, F[k])'
               /\ k = 1 => freeQue[t].Head = F[k]
               /\ k # Len(F) => node[t][F[k]].next = F[k + 1] /\ freeQue[t].Tail # F[k]
               /\ \A j \in Nodes : node[t][j].next = F[k] => k # 1 /\ j = F[k - 1]
    <3>1. F[k] \in free /\ F[k] \in Nodes /\ F[k] \notin work /\ \A c \in Callers : ~ Has(c, t, F[k])
      BY <2>2, <2>5 DEF free, Elements, Places
    <3>2. Unseen(t, F[k])' /\ \A c \in Callers : ~ Has(c, t, F[k])' BY <1>1, <2>6, <3>1, NobodyMoves
    <3>3. k = 1 => freeQue[t].Head = F[k] BY <2>1, <2>2 DEF IsList
    <3>4. k # Len(F) => node[t][F[k]].next = F[k + 1] /\ freeQue[t].Tail # F[k]
      BY <2>2, <2>1 DEF IsList
    <3>5. ASSUME NEW j \in Nodes, node[t][j].next = F[k]
          PROVE  k # 1 /\ j = F[k - 1]
      <4>1. j \in free BY <2>7, <3>1, <3>5, NodesAre
      <4>2. PICK l \in 1 .. Len(F) : j = F[l] BY <4>1 DEF free, Elements
      <4>3. l # Len(F) /\ F[l + 1] = F[k] BY <2>1, <3>1, <3>5, <4>2, NodesAre DEF IsList
      <4>4. l + 1 \in 1 .. Len(F) BY <2>2, <4>3
      <4>5. l + 1 = k BY <2>1, <4>3, <4>4 DEF IsList
      <4>6. k # 1 /\ k - 1 = l BY <2>2, <4>5
      <4>7. QED BY <4>2, <4>6
    <3>6. QED BY <3>2, <3>3, <3>4, <3>5
  <2>10. IsFiniteSet(Takers(t)) /\ Cardinality(Takers(t)) <= Len(F) /\ Takers(t)' = Takers(t)
    BY <1>1, <1>4, <2>1, EnoughNodes DEF Takers
  <2>11. freeQue[t].Tail = OS_RPC_INVALID_TRAIN => F = <<>> BY <2>1, <2>2, NodesAre DEF IsList
  <2>12. \A j, k \in 1 .. Len(F) : F[j] = F[k] => j = k BY <2>1 DEF IsList
  <2>13. Spare(t, F)' BY <1>1, <2>2, <2>9, <2>10, <2>11, <2>12 DEF Spare
  <2>14. QED BY <2>8, <2>13
<1>5. Rests(t)' BY <1>3, <1>4 DEF Rests, Late, Uses
<1>6. QED BY <1>2, <1>5 DEF Rest

LEMMA StepRests ==
  ASSUME OneKindPerCore, RoomForCallers, IInv, Rest, [Next]_vars
  PROVE  Rest'
<1>1. CASE UNCHANGED vars \/ \E t \in Cores : DisableInt(t)
  BY <1>1, NobodyMoves, RestsAside DEF vars, DisableInt, Settles, Aside, Rest
<1>2. ASSUME NEW c \in Callers, Call(c) \/ Caller(c)
      PROVE  Rest'
  BY <1>2, StayingRests, SeesDoneRests, TakeNodeRests, SubmitNodeRests, GiveNodeBackRests DEF Caller
<1>3. ASSUME NEW t \in Cores, Server(t) \/ Shutdown(t)
      PROVE  Rest'
  BY <1>3, EnterInterruptRests, GetWorkRests, PerformCallRests, WriteResultRests, SetDoneRests, GiveServedNodeRests,
     ShutdownRests DEF Server
<1>4. QED BY <1>1, <1>2, <1>3 DEF Next

LEMMA InitRests ==
  ASSUME Init
  PROVE  Rest
BY DEF Init, Rest, Rests, Results, Late

-----------------------------------------------------------------------------
(* The invariant of the runs *)

\* A list begins nowhere when it ends nowhere, and its tail is its last node.
LEMMA ListEnds ==
  ASSUME NEW q, NEW station, NEW s, IsList(q, station, s)
  PROVE  /\ q.Tail = OS_RPC_INVALID_TRAIN <=> q.Head = OS_RPC_INVALID_TRAIN
         /\ q.Tail # OS_RPC_INVALID_TRAIN =>
              q.Tail \in ListNodes(q, station) /\ station[q.Tail].next = OS_RPC_INVALID_TRAIN
<1>1. CASE s = <<>> BY <1>1 DEF IsList
<1>2. CASE s # <<>> BY <1>2, TailOf, ListIs, NodesAre DEF IsList, Elements
<1>3. QED BY <1>1, <1>2

\* What the pool of a running core is like
Lists(t, F, W) ==
  /\ IsList(freeQue[t], node[t], F) /\ IsList(workQue[t], node[t], W)
  /\ FreeNodes(t) = Elements(F) /\ WorkNodes(t) = Elements(W)
  /\ Elements(F) \subseteq Nodes /\ Elements(W) \subseteq Nodes
  /\ Places(t, Elements(F), Elements(W)) /\ Works(t, Elements(W))

LEMMA PoolIs ==
  ASSUME IInv, NEW t \in Cores, CoreStatus[t] = "OS_RUN"
  PROVE  \E F, W : Lists(t, F, W)
<1>1. PICK F, W : /\ IsList(freeQue[t], node[t], F) /\ IsList(workQue[t], node[t], W)
                  /\ Places(t, Elements(F), Elements(W)) /\ Works(t, Elements(W))
  BY DEF IInv, Pool
<1>2. FreeNodes(t) = Elements(F) /\ WorkNodes(t) = Elements(W)
  BY <1>1, ListIs DEF FreeNodes, WorkNodes
<1>3. QED BY <1>1, <1>2, ListedAreNodes DEF Lists

LEMMA HoldersAre ==
  ASSUME IInv, NEW t \in Cores, CoreStatus[t] = "OS_RUN", NEW i \in Nodes
  PROVE  /\ CallersWith(t, i) = {} <=> \A c \in Callers : ~ Has(c, t, i)
         /\ Cardinality(CallersWith(t, i)) <= 1
<1> DEFINE H == CallersWith(t, i)
<1>1. H = {c \in Callers : Has(c, t, i)} BY DEF CallersWith, Has
<1>2. \A c, d \in Callers : Has(c, t, i) /\ Has(d, t, i) => c = d BY DEF IInv, OneHolder, Kept
<1>3. \A c, d \in H : c = d BY <1>1, <1>2
<1> HIDE DEF H
<1>4. Cardinality(H) <= 1
  <2>1. CASE H = {} BY <2>1, FS_EmptySet
  <2>2. CASE H # {}
    <3>1. PICK c : H = {c} BY <1>3, <2>2
    <3>2. QED BY <3>1, FS_Singleton
  <2>3. QED BY <2>1, <2>2
<1>5. H = {} <=> \A c \in Callers : ~ Has(c, t, i) BY <1>1
<1>6. QED BY <1>4, <1>5 DEF H

LEMMA EachNodeHasItsPlace ==
  ASSUME IInv
  PROVE  OnePlace
<1> SUFFICES ASSUME NEW t \in Cores, CoreStatus[t] = "OS_RUN", NEW free, NEW work,
                    free = FreeNodes(t), work = WorkNodes(t)
             PROVE  /\ \A i \in Nodes :
                         LET holders == CallersWith(t, i)
                             queued == i \in work /\ node[t][i].RpcSync = "async" IN
                         /\ Cardinality(holders) <= 1
                         /\ i \in free => holders = {} /\ i \notin work /\ ~ ServesAsync(t, i)
                         /\ queued => holders = {} /\ ~ ServesAsync(t, i)
                         /\ i \in free \/ queued \/ holders # {} \/ ServesAsync(t, i)
                    /\ \A que \in {freeQue[t], workQue[t]} :
                         /\ que.Tail = OS_RPC_INVALID_TRAIN <=> que.Head = OS_RPC_INVALID_TRAIN
                         /\ que.Tail # OS_RPC_INVALID_TRAIN =>
                              que.Tail \in ListNodes(que, node[t]) /\ node[t][que.Tail].next = OS_RPC_INVALID_TRAIN
  BY DEF OnePlace
<1>1. PICK F, W : Lists(t, F, W) BY PoolIs
<1>2. ASSUME NEW i \in Nodes
      PROVE  LET holders == CallersWith(t, i)
                 queued == i \in work /\ node[t][i].RpcSync = "async" IN
             /\ Cardinality(holders) <= 1
             /\ i \in free => holders = {} /\ i \notin work /\ ~ ServesAsync(t, i)
             /\ queued => holders = {} /\ ~ ServesAsync(t, i)
             /\ i \in free \/ queued \/ holders # {} \/ ServesAsync(t, i)
  BY <1>1, HoldersAre DEF Lists, ServesAsync, Busy, Places
<1>3. ASSUME NEW que \in {freeQue[t], workQue[t]}
      PROVE  /\ que.Tail = OS_RPC_INVALID_TRAIN <=> que.Head = OS_RPC_INVALID_TRAIN
             /\ que.Tail # OS_RPC_INVALID_TRAIN =>
                  que.Tail \in ListNodes(que, node[t]) /\ node[t][que.Tail].next = OS_RPC_INVALID_TRAIN
  <2>1. PICK s : IsList(que, node[t], s) BY <1>1 DEF Lists
  <2>2. QED BY <2>1, ListEnds
<1>4. QED BY <1>2, <1>3

LEMMA UnperformedIs ==
  ASSUME IInv, NEW t \in Cores, NEW F, NEW W, Lists(t, F, W)
  PROVE  Unperformed(t) = {i \in Nodes : ToDo(t, Elements(W), i) /\ ~ (server[t].pc = "done" /\ server[t].node = i)}
BY DEF Lists, Places, Busy, Acts, Unperformed, Performs, ToDo

LEMMA WorkIsCalls ==
  ASSUME IInv
  PROVE  WorkAgrees
<1> SUFFICES ASSUME NEW t \in Cores, CoreStatus[t] = "OS_RUN", NEW todo, todo = Unperformed(t)
             PROVE  /\ \A i \in todo :
                         LET n == node[t][i] s == caller[n.call.caller] IN
                         /\ n.ProcState # "OS_RPC_DONE" /\ n.RetValue = E_NOT_OK
                         /\ n.call \in Calls /\ n.call.target = t /\ n.call.kind = n.RpcSync
                         /\ Uses(t, n.RpcSync)
                         /\ n.call.number <= s.call.number
                         /\ n.call.number = s.call.number => s.pc \notin {"test", "take", "submit"}
                    /\ \A i, j \in todo : node[t][i].call = node[t][j].call => i = j
                    /\ server[t].pc \in {"test", "give"} => Uses(t, node[t][server[t].node].RpcSync)
  BY DEF WorkAgrees, Running
<1>1. PICK F, W : Lists(t, F, W) BY PoolIs
<1>2. PICK work : work = Elements(W) OBVIOUS
<1>3. /\ Works(t, work)
      /\ todo = {i \in Nodes : ToDo(t, work, i) /\ ~ (server[t].pc = "done" /\ server[t].node = i)}
  BY <1>1, <1>2, UnperformedIs DEF Lists
<1>4. \A i \in todo : WorkOK(t, node[t][i]) /\ node[t][i].RetValue = E_NOT_OK BY <1>3 DEF Works
<1>5. \A i, j \in todo : node[t][i].call = node[t][j].call => i = j BY <1>3 DEF Works
<1>6. server[t].pc \in {"test", "give"} => Uses(t, node[t][server[t].node].RpcSync)
  BY <1>3 DEF Works
<1>7. QED BY <1>4, <1>5, <1>6 DEF WorkOK

\* Whatever the callers, the interrupts and cores that stop do meanwhile: no node of a core that
\* runs is lost or in two places, a waiting caller reads the result of its own call, and the work
\* of a core are calls that were made to it, each of them once (Os_RpcCallService and
\* Os_RpcServiceOperation), where a core gets synchronous calls or asynchronous ones and one that
\* may stop has a node for each of its synchronous callers.
THEOREM RpcStaysConsistent ==
  ASSUME OneKindPerCore, RoomForCallers
  PROVE  Spec => []RpcInvariant
<1>1. Init => IInv /\ Rest BY InitKeeps, InitRests
<1>2. IInv /\ Rest /\ [Next]_vars => IInv' /\ Rest' BY StepKeeps, StepRests
<1>3. IInv => RpcInvariant BY EachNodeHasItsPlace, WorkIsCalls DEF IInv, RpcInvariant
<1>4. QED BY <1>1, <1>2, <1>3, PTL DEF Spec

-----------------------------------------------------------------------------
(* The refinement *)

PhaseOf == [c \in Callers |-> Phase(c)]
CallOf == [c \in Callers |-> caller[c].call]
GotOf == [c \in Callers |-> IF InCall(c) THEN None ELSE caller[c].ret]
OpenCalls == UNION {{node[t][i].call : i \in Unperformed(t)} : t \in Running}

LEMMA OpenIs ==
  ASSUME NEW r
  PROVE  r \in OpenCalls <=> \E t \in Running : \E i \in Unperformed(t) : r = node[t][i].call
BY DEF OpenCalls

LEMMA OpenIsNext ==
  ASSUME NEW r
  PROVE  r \in OpenCalls' <=> \E t \in Running' : \E i \in Unperformed(t)' : r = node'[t][i].call
BY DEF OpenCalls

\* What a caller and the calls see of a node
SameCall(m, n) == m.call = n.call /\ m.RetValue = n.RetValue

\* A step writes into no node but node i of t.
Untouched(t, i) == \A u \in Cores, j \in Nodes : u # t \/ j # i => SameCall(node'[u][j], node[u][j])

Elsewhere(t) == \A u \in Cores : u # t => node'[u] = node[u] /\ workQue'[u] = workQue[u] /\ server'[u] = server[u]

LEMMA SeenKept ==
  ASSUME IInv, NEW t, NEW i, Untouched(t, i), NEW d \in Callers, caller'[d] = caller[d],
         i \in Nodes => ~ (Waits(d, t) /\ caller[d].node = i)
  PROVE  Phase(d)' = Phase(d)
BY NodeOfCaller DEF IInv, Submitted, Waits, Untouched, SameCall, Held, Phase, InCall

\* The interrupt of t performs the call of the same node as before, or none.
SameDuty(t) == /\ server'[t].pc \in {"act", "write"} <=> Performs(t)
               /\ Performs(t) => server'[t].node = server[t].node

LEMMA UnperformedKept ==
  ASSUME NEW t \in Cores, WorkNodes(t)' = WorkNodes(t), server'[t] = server[t] \/ SameDuty(t)
  PROVE  Unperformed(t)' = Unperformed(t)
BY DEF Performs, SameDuty, Unperformed

LEMMA UnperformedAreNodes ==
  ASSUME IInv, NEW t \in Running
  PROVE  t \in Cores /\ CoreStatus[t] = "OS_RUN" /\ Unperformed(t) \subseteq Nodes
<1>1. t \in Cores /\ CoreStatus[t] = "OS_RUN" BY DEF Running
<1>2. PICK F, W : Lists(t, F, W) BY <1>1, PoolIs
<1>3. QED BY <1>1, <1>2, UnperformedIs

\* What there is to perform elsewhere, and with it what is open, changes with t only.
LEMMA ElsewhereKept ==
  ASSUME NEW t, Elsewhere(t), NEW u \in Cores, u # t
  PROVE  Unperformed(u)' = Unperformed(u)
BY UnperformedKept DEF WorkNodes, Elsewhere

LEMMA OpenKept ==
  ASSUME IInv, NEW t, NEW i, Untouched(t, i), Elsewhere(t), CoreStatus' = CoreStatus,
         t \in Running => i \notin Unperformed(t) /\ Unperformed(t)' = Unperformed(t)
  PROVE  OpenCalls' = OpenCalls
<1>1. Running' = Running /\ Running \subseteq Cores BY DEF Running
<1>2. \A u \in Running : Unperformed(u)' = Unperformed(u) BY <1>1, ElsewhereKept
<1>3. \A u \in Running : \A j \in Unperformed(u) : node'[u][j].call = node[u][j].call
  BY <1>1, UnperformedAreNodes DEF Untouched, SameCall
<1>4. \A r : r \in OpenCalls' <=> r \in OpenCalls BY <1>1, <1>2, <1>3, OpenIs, OpenIsNext
<1>5. QED BY <1>4

OthersKept(c) == \A d \in Callers : d # c => Phase(d)' = Phase(d) /\ caller'[d] = caller[d]

LEMMA OnlyOneSeen ==
  ASSUME NEW c \in Callers, OthersKept(c)
  PROVE  /\ PhaseOf' = [PhaseOf EXCEPT ![c] = Phase(c)']
         /\ CallOf' = [CallOf EXCEPT ![c] = caller'[c].call]
         /\ GotOf' = [GotOf EXCEPT ![c] = IF InCall(c)' THEN None ELSE caller'[c].ret]
         /\ PhaseOf[c] = Phase(c) /\ CallOf[c] = caller[c].call
BY DEF PhaseOf, OthersKept, CallOf, GotOf, InCall

Seen == <<PhaseOf, CallOf, GotOf, OpenCalls, Running>>

LEMMA SeenIs ==
  UNCHANGED Seen => UNCHANGED Abstract!vars
BY DEF Seen, PhaseOf, CallOf, GotOf, OpenCalls, Abstract!vars

LEMMA NothingSeen ==
  ASSUME NEW c \in Callers, OthersKept(c), Phase(c)' = Phase(c), caller'[c].call = caller[c].call,
         InCall(c), InCall(c)', OpenCalls' = OpenCalls, CoreStatus' = CoreStatus
  PROVE  UNCHANGED Seen
<1>1. PhaseOf' = PhaseOf /\ CallOf' = CallOf BY OnlyOneSeen DEF PhaseOf, CallOf
<1>2. GotOf' = [GotOf EXCEPT ![c] = None] /\ GotOf[c] = None BY OnlyOneSeen DEF GotOf
<1>3. GotOf' = GotOf BY <1>2 DEF GotOf
<1>4. QED BY <1>1, <1>3 DEF Seen, Running

\* The actions of OsRpcSpec in these terms
LEMMA CallIs ==
  ASSUME NEW c \in Callers, PhaseOf[c] = "idle", PhaseOf' = [PhaseOf EXCEPT ![c] = "calling"],
         NEW t \in Cores, NEW k \in {"sync", "async"},
         CallOf' = [CallOf EXCEPT ![c] = [caller |-> c, number |-> CallOf[c].number + 1, target |-> t, kind |-> k]],
         GotOf' = [GotOf EXCEPT ![c] = None], OpenCalls' = OpenCalls, Running' = Running
  PROVE  Abstract!Next
<1>1. Abstract!Call(c) BY DEF Abstract!Call, Abstract!Kinds, PhaseOf, CallOf, GotOf, OpenCalls
<1>2. QED BY <1>1 DEF Abstract!Next

LEMMA AcceptIs ==
  ASSUME NEW c \in Callers, PhaseOf[c] = "calling", PhaseOf' = [PhaseOf EXCEPT ![c] = "accepted"],
         OpenCalls' = IF CallOf[c].target \in Running THEN OpenCalls \cup {CallOf[c]} ELSE OpenCalls,
         UNCHANGED <<CallOf, GotOf, Running>>
  PROVE  Abstract!Next
BY DEF Abstract!Accept, PhaseOf, CallOf, GotOf, OpenCalls, Abstract!Next

LEMMA PerformIs ==
  ASSUME NEW r \in OpenCalls, OpenCalls' = OpenCalls \ {r},
         PhaseOf' = IF r = CallOf[r.caller] /\ PhaseOf[r.caller] = "accepted" /\ r.kind = "sync"
                    THEN [PhaseOf EXCEPT ![r.caller] = "performed"] ELSE PhaseOf,
         UNCHANGED <<CallOf, GotOf, Running>>
  PROVE  Abstract!Next
BY DEF Abstract!Perform, PhaseOf, CallOf, GotOf, OpenCalls, Abstract!Next

LEMMA PerformLateIs ==
  ASSUME NEW c \in Callers, PhaseOf[c] = "accepted", CallOf[c].kind = "sync", CallOf[c].target \notin Running,
         PhaseOf' = [PhaseOf EXCEPT ![c] = "performed"],
         UNCHANGED <<CallOf, GotOf, OpenCalls, Running>>
  PROVE  Abstract!Next
BY DEF Abstract!PerformLate, PhaseOf, CallOf, GotOf, OpenCalls, Abstract!Next

LEMMA ReturnIs ==
  ASSUME NEW c \in Callers, PhaseOf' = [PhaseOf EXCEPT ![c] = "idle"],
         IF CallOf[c].kind = "sync" THEN PhaseOf[c] = "performed" /\ GotOf' = [GotOf EXCEPT ![c] = CallOf[c]]
         ELSE PhaseOf[c] = "accepted" /\ GotOf' = [GotOf EXCEPT ![c] = E_OK],
         UNCHANGED <<CallOf, OpenCalls, Running>>
  PROVE  Abstract!Next
BY DEF Abstract!Return, PhaseOf, CallOf, GotOf, OpenCalls, Abstract!Next

LEMMA FailIs ==
  ASSUME NEW c \in Callers, PhaseOf[c] # "idle", CallOf[c].target \notin Running,
         PhaseOf' = [PhaseOf EXCEPT ![c] = "idle"], GotOf' = [GotOf EXCEPT ![c] = E_OS_CORE],
         UNCHANGED <<CallOf, OpenCalls, Running>>
  PROVE  Abstract!Next
BY DEF Abstract!Fail, PhaseOf, CallOf, GotOf, OpenCalls, Abstract!Next

LEMMA StopIs ==
  ASSUME NEW t \in Cores, Running' = Running \ {t}, OpenCalls' = {r \in OpenCalls : r.target # t},
         UNCHANGED <<PhaseOf, CallOf, GotOf>>
  PROVE  Abstract!Next
BY DEF Abstract!Stop, PhaseOf, CallOf, GotOf, OpenCalls, Abstract!Next

Allowed == Abstract!Next \/ UNCHANGED Seen

LEMMA NodesStay ==
  ASSUME IInv, NEW c \in Callers, UNCHANGED <<node, workQue, server, CoreStatus>>,
         \A d \in Callers : d # c => caller'[d] = caller[d]
  PROVE  OthersKept(c) /\ OpenCalls' = OpenCalls /\ Running' = Running
<1>1. Untouched(None, OS_RPC_INVALID_TRAIN) /\ Elsewhere(None) BY DEF Untouched, SameCall, Elsewhere
<1>2. None \in Running => /\ OS_RPC_INVALID_TRAIN \notin Unperformed(None)
                          /\ Unperformed(None)' = Unperformed(None)
  BY UnperformedAreNodes, NodesAre, UnperformedKept DEF WorkNodes
<1>3. OpenCalls' = OpenCalls BY <1>1, <1>2, OpenKept
<1>4. OthersKept(c) BY <1>1, SeenKept, NodesAre DEF OthersKept
<1>5. QED BY <1>3, <1>4 DEF Running

LEMMA CallIsAllowed ==
  ASSUME IInv, NEW c \in Callers, Call(c)
  PROVE  Allowed
<1>1. /\ TypeOK /\ CallerAgrees(c) /\ caller[c] \in CallerType /\ caller[c].call \in Calls
      /\ caller[c].call.number \in Nat
  BY CallerFacts
<1>2. PICK s \in Services[c] :
        caller' = [caller EXCEPT ![c].pc = "test", ![c].ret = None,
                    ![c].call = [caller[c].call EXCEPT !.number = @ + 1, !.target = s[1], !.kind = s[2]]]
  BY DEF Call
<1>3. PICK old, n, t, k : old = caller[c].call /\ n = caller[c].call.number + 1 /\ t = s[1] /\ k = s[2]
  OBVIOUS
<1>4. t \in Cores /\ k \in {"sync", "async"} /\ old \in Calls /\ old.caller = c /\ n \in Nat
  BY <1>1, <1>3, RpcConstants DEF CallerAgrees
<1> DEFINE r == [old EXCEPT !.number = n, !.target = t, !.kind = k]
<1>5. r = [caller |-> c, number |-> n, target |-> t, kind |-> k]
  <2>1. r \in Calls /\ r.caller = c /\ r.number = n /\ r.target = t /\ r.kind = k BY <1>4 DEF Calls
  <2> HIDE DEF r
  <2>2. QED BY <2>1, Zenon DEF Calls
<1>6. [caller[c].call EXCEPT !.number = @ + 1, !.target = s[1], !.kind = s[2]] = r BY <1>3
<1> HIDE DEF r
<1>7. caller' = [caller EXCEPT ![c].pc = "test", ![c].ret = None, ![c].call = r] BY <1>2, <1>6
<1>8. caller'[c].pc = "test" /\ caller'[c].call = r /\ \A d \in Callers : d # c => caller'[d] = caller[d]
  BY <1>1, <1>7 DEF TypeOK, CallerType
<1>9. OthersKept(c) /\ OpenCalls' = OpenCalls /\ Running' = Running BY <1>8, NodesStay DEF Call
<1>10. Phase(c) = "idle" /\ Phase(c)' = "calling" /\ InCall(c)'
  BY <1>8 DEF Call, At, Phase, InCall, Submitted
<1>11. QED BY <1>3, <1>4, <1>5, <1>8, <1>9, <1>10, OnlyOneSeen, CallIs DEF Allowed

LEMMA EndSeen ==
  ASSUME IInv, NEW c \in Callers, NEW ret, End(c, ret)
  PROVE  /\ \A d \in Callers : d # c => caller'[d] = caller[d]
         /\ caller'[c].ret = ret /\ caller'[c].call = caller[c].call
         /\ ~ InCall(c)' /\ Phase(c)' = "idle"
BY DEF IInv, TypeOK, End, CallerType, InCall, Phase

LEMMA SameCallOf ==
  ASSUME NEW c \in Callers, OthersKept(c), caller'[c].call = caller[c].call
  PROVE  CallOf' = CallOf
BY OnlyOneSeen DEF CallOf

LEMMA FindsCoreGoneIsAllowed ==
  ASSUME IInv, NEW c \in Callers, FindsCoreGone(c)
  PROVE  Allowed
<1>1. /\ \A d \in Callers : d # c => caller'[d] = caller[d]
      /\ caller'[c].ret = E_OS_CORE /\ caller'[c].call = caller[c].call
      /\ ~ InCall(c)' /\ Phase(c)' = "idle"
  BY EndSeen DEF FindsCoreGone
<1>2. OthersKept(c) /\ OpenCalls' = OpenCalls /\ Running' = Running
  BY <1>1, NodesStay DEF FindsCoreGone
<1>3. Phase(c) = "calling" /\ caller[c].call.target \notin Running
  BY DEF FindsCoreGone, At, Phase, InCall, Submitted, Running
<1>4. QED BY <1>1, <1>2, <1>3, OnlyOneSeen, SameCallOf, FailIs DEF Allowed

LEMMA FindsCoreRunningIsAllowed ==
  ASSUME IInv, NEW c \in Callers, FindsCoreRunning(c)
  PROVE  Allowed
<1>1. caller[c].pc = "test" /\ UNCHANGED <<node, workQue, server, CoreStatus>>
  BY DEF FindsCoreRunning, At
<1>2. /\ caller'[c].pc = "take" /\ caller'[c].call = caller[c].call
      /\ \A d \in Callers : d # c => caller'[d] = caller[d]
  BY DEF IInv, TypeOK, FindsCoreRunning, Goto, CallerType
<1>3. OthersKept(c) /\ OpenCalls' = OpenCalls BY <1>1, <1>2, NodesStay
<1>4. Phase(c)' = Phase(c) /\ InCall(c) /\ InCall(c)' BY <1>1, <1>2 DEF Phase, InCall, Submitted
<1>5. QED BY <1>1, <1>2, <1>3, <1>4, NothingSeen DEF Allowed

\* A step of c that is not seen
LEMMA MovesOn ==
  ASSUME IInv, NEW c \in Callers, NEW pc \in {"wait", "look", "give"}, caller[c].pc \in {"remote", "wait", "look"},
         NEW ret, caller' = [caller EXCEPT ![c].pc = pc, ![c].ret = ret]
  PROVE  /\ \A d \in Callers : d # c => caller'[d] = caller[d]
         /\ caller'[c].call = caller[c].call /\ caller'[c].node = caller[c].node
         /\ Submitted(c) /\ Submitted(c)' /\ InCall(c) /\ InCall(c)'
BY DEF IInv, TypeOK, CallerType, Submitted, InCall

LEMMA GotoIs ==
  ASSUME IInv, NEW c \in Callers, NEW pc, Goto(c, pc)
  PROVE  caller' = [caller EXCEPT ![c].pc = pc, ![c].ret = caller[c].ret]
BY DEF IInv, TypeOK, CallerType, Goto

LEMMA UnseenIsAllowed ==
  ASSUME IInv, NEW c \in Callers, NEW pc \in {"wait", "look", "give"}, caller[c].pc \in {"remote", "wait", "look"},
         NEW ret, caller' = [caller EXCEPT ![c].pc = pc, ![c].ret = ret],
         UNCHANGED <<node, workQue, server, CoreStatus>>
  PROVE  Allowed
BY MovesOn, NodesStay, NothingSeen DEF Phase, Held, Allowed

LEMMA RemoteCallIsAllowed ==
  ASSUME IInv, NEW c \in Callers, RemoteCall(c)
  PROVE  Allowed
<1>1. caller[c].pc = "remote" /\ UNCHANGED <<node, workQue, server, CoreStatus>>
  BY DEF RemoteCall, At
<1>2. CASE caller[c].call.kind = "sync"
  <2>1. caller' = [caller EXCEPT ![c].pc = "wait", ![c].ret = caller[c].ret]
    BY <1>2, GotoIs DEF RemoteCall
  <2>2. QED BY <1>1, <2>1, UnseenIsAllowed
<1>3. CASE caller[c].call.kind # "sync"
  <2>1. End(c, E_OK) BY <1>3 DEF RemoteCall
  <2>2. /\ \A d \in Callers : d # c => caller'[d] = caller[d]
        /\ caller'[c].ret = E_OK /\ caller'[c].call = caller[c].call
        /\ ~ InCall(c)' /\ Phase(c)' = "idle"
    BY <2>1, EndSeen
  <2>3. OthersKept(c) /\ OpenCalls' = OpenCalls /\ Running' = Running BY <1>1, <2>2, NodesStay
  <2>4. Phase(c) = "accepted" BY <1>1, <1>3 DEF Phase, InCall, Submitted
  <2>5. QED BY <1>3, <2>2, <2>3, <2>4, OnlyOneSeen, SameCallOf, ReturnIs DEF Allowed
<1>4. QED BY <1>2, <1>3

LEMMA SeesCoreGoneIsAllowed ==
  ASSUME IInv, NEW c \in Callers, SeesCoreGone(c)
  PROVE  Allowed
<1>1. caller[c].pc = "wait" /\ UNCHANGED <<node, workQue, server, CoreStatus>>
  BY DEF SeesCoreGone, At
<1>2. caller' = [caller EXCEPT ![c].pc = "look", ![c].ret = caller[c].ret]
  BY GotoIs DEF SeesCoreGone
<1>3. QED BY <1>1, <1>2, UnseenIsAllowed

LEMMA GivesUpIsAllowed ==
  ASSUME IInv, NEW c \in Callers, GivesUp(c)
  PROVE  Allowed
BY UnseenIsAllowed DEF GivesUp, At

LEMMA WorkKept ==
  ASSUME IInv, NEW t \in Running, workQue'[t] = workQue[t], \A j \in WorkNodes(t) : node'[t][j].next = node[t][j].next
  PROVE  WorkNodes(t)' = WorkNodes(t)
<1>1. PICK F, W : Lists(t, F, W) BY PoolIs DEF Running
<1>2. IsList(workQue[t], node[t], W) /\ WorkNodes(t) = Elements(W) BY <1>1 DEF Lists
<1>3. \A k \in 1 .. Len(W) : node'[t][W[k]].next = node[t][W[k]].next BY <1>2 DEF Elements
<1>4. IsList(workQue'[t], node'[t], W) BY <1>2, <1>3 DEF IsList
<1>5. WorkNodes(t)' = Elements(W) BY <1>4, ListIs DEF WorkNodes
<1>6. QED BY <1>2, <1>5

WritesOne(t, i, station) ==
  /\ node' = [node EXCEPT ![t] = station]
  /\ \A j \in Nodes : j # i => SameCall(station[j], node[t][j])

LEMMA OneWritten ==
  ASSUME IInv, NEW t \in Cores, NEW i, NEW station, WritesOne(t, i, station)
  PROVE  node'[t] = station /\ Untouched(t, i) /\ \A u \in Cores : u # t => node'[u] = node[u]
BY DEF IInv, TypeOK, WritesOne, Untouched, SameCall

\* Node i is free, or somebody has it who has not submitted it or has seen it done.
LEMMA NotToPerform ==
  ASSUME IInv, NEW t \in Running, NEW i \in Nodes,
         \/ i \in FreeNodes(t)
         \/ \E c \in Callers : Has(c, t, i) /\ caller[c].pc \notin {"remote", "wait"}
  PROVE  i \notin Unperformed(t)
<1>1. PICK F, W : Lists(t, F, W) BY PoolIs DEF Running
<1>2. PICK free, work : free = Elements(F) /\ work = Elements(W) OBVIOUS
<1>3. /\ FreeNodes(t) = free /\ Places(t, free, work) /\ Works(t, work)
      /\ \A j \in Unperformed(t) : ToDo(t, work, j)
  BY <1>1, <1>2, UnperformedIs DEF Lists, Running
<1>4. CASE i \in free BY <1>3, <1>4 DEF Places, ToDo, Busy
<1>5. CASE i \notin free BY <1>3, <1>5 DEF Works
<1>6. QED BY <1>4, <1>5

LEMMA TakeNodeIsAllowed ==
  ASSUME IInv, NEW c \in Callers, TakeNode(c)
  PROVE  Allowed
<1>1. PICK t, got, pc : /\ t = caller[c].call.target /\ got = RpcGetService(freeQue[t], node[t])
                        /\ pc = IF got.node = OS_RPC_INVALID_TRAIN THEN "test" ELSE "submit"
  OBVIOUS
<1>2. /\ TypeOK /\ t \in Cores /\ caller[c].pc = "take"
      /\ node[t] \in Station /\ freeQue[t] \in QueType
  BY <1>1, CallerFacts, TypesOf DEF TakeNode, At
<1>3. /\ caller' = [caller EXCEPT ![c].pc = pc, ![c].node = got.node]
      /\ node' = [node EXCEPT ![t] = got.station]
      /\ UNCHANGED <<workQue, server, CoreStatus>>
  BY <1>1 DEF TakeNode
<1>4. /\ caller'[c].pc \in {"test", "submit"} /\ caller'[c].call = caller[c].call
      /\ \A d \in Callers : d # c => caller'[d] = caller[d]
  BY <1>1, <1>2, <1>3 DEF TypeOK, CallerType
<1>5. \A j \in Nodes : SameCall(got.station[j], node[t][j])
  BY <1>1, <1>2, GetTypes DEF Relinked, SameCall
<1>6. /\ node'[t] = got.station /\ Untouched(t, OS_RPC_INVALID_TRAIN)
      /\ \A u \in Cores : u # t => node'[u] = node[u]
  BY <1>2, <1>3, <1>5, OneWritten DEF WritesOne
<1>7. ASSUME t \in Running
      PROVE  WorkNodes(t)' = WorkNodes(t)
  <2>1. PICK F, W : Lists(t, F, W) BY <1>7, PoolIs DEF Running
  <2>2. GetsFirst(freeQue[t], node[t], F) BY <1>2, <2>1, GetIs DEF Lists
  <2>3. Relinked(node[t], got.station, Elements(F))
    BY <1>1, <1>2, <2>2, GetTypes DEF GetsFirst, Relinked
  <2>4. \A j \in WorkNodes(t) : j \in Nodes /\ j \notin Elements(F) BY <2>1 DEF Lists, Places
  <2>5. \A j \in WorkNodes(t) : node'[t][j].next = node[t][j].next BY <1>6, <2>3, <2>4 DEF Relinked
  <2>6. QED BY <1>3, <1>7, <2>5, WorkKept
<1>8. OpenCalls' = OpenCalls
  BY <1>2, <1>3, <1>7, UnperformedKept, UnperformedAreNodes, NodesAre, <1>6, OpenKept DEF Elsewhere
<1>9. OthersKept(c) BY <1>4, <1>6, SeenKept, NodesAre DEF OthersKept
<1>10. Phase(c)' = Phase(c) /\ InCall(c) /\ InCall(c)' BY <1>2, <1>4 DEF Phase, InCall, Submitted
<1>11. QED BY <1>3, <1>4, <1>8, <1>9, <1>10, NothingSeen DEF Allowed

LEMMA SeesDoneIsAllowed ==
  ASSUME IInv, NEW c \in Callers, SeesDone(c)
  PROVE  Allowed
<1>1. PICK t, i : t = caller[c].call.target /\ i = caller[c].node OBVIOUS
<1>2. /\ TypeOK /\ t \in Cores /\ i \in Nodes /\ caller[c].pc \in {"wait", "look"} /\ node[t] \in Station
  BY <1>1, CallerFacts, TypesOf DEF SeesDone, At
<1> DEFINE n == [node[t][i] EXCEPT !.ProcState = "OS_RPC_FREE"]
           station == [node[t] EXCEPT ![i] = n]
<1>3. /\ caller' = [caller EXCEPT ![c].pc = "give", ![c].ret = Held(c).RetValue]
      /\ UNCHANGED <<workQue, server, CoreStatus>>
  BY DEF SeesDone
<1>4. node' = [node EXCEPT ![t] = station] BY <1>1 DEF SeesDone
<1>5. /\ \A d \in Callers : d # c => caller'[d] = caller[d]
      /\ caller'[c].call = caller[c].call /\ caller'[c].node = caller[c].node
      /\ Submitted(c) /\ Submitted(c)' /\ InCall(c) /\ InCall(c)'
  BY <1>2, <1>3, MovesOn
<1>6. \A j \in Nodes : SameCall(station[j], node[t][j]) /\ station[j].next = node[t][j].next
  <2>1. n.next = node[t][i].next /\ n.call = node[t][i].call /\ n.RetValue = node[t][i].RetValue
    BY <1>2 DEF Station, NodeType
  <2> HIDE DEF n
  <2>2. QED BY <1>2, <2>1 DEF Station, SameCall
<1> HIDE DEF station
<1>7. /\ node'[t] = station /\ Untouched(t, OS_RPC_INVALID_TRAIN)
      /\ \A u \in Cores : u # t => node'[u] = node[u]
  BY <1>2, <1>4, <1>6, OneWritten DEF WritesOne
<1>8. OpenCalls' = OpenCalls
  <2>1. ASSUME t \in Running
        PROVE  OS_RPC_INVALID_TRAIN \notin Unperformed(t) /\ Unperformed(t)' = Unperformed(t)
    <3>1. OS_RPC_INVALID_TRAIN \notin Unperformed(t) /\ WorkNodes(t) \subseteq Nodes
      BY <2>1, UnperformedAreNodes, NodesAre DEF Unperformed
    <3>2. WorkNodes(t)' = WorkNodes(t) BY <1>3, <1>6, <1>7, <2>1, <3>1, WorkKept
    <3>3. QED BY <1>2, <1>3, <3>1, <3>2, UnperformedKept
  <2>2. Elsewhere(t) BY <1>3, <1>7 DEF Elsewhere
  <2>3. QED BY <1>3, <1>7, <2>1, <2>2, OpenKept
<1>9. OthersKept(c) BY <1>5, <1>7, SeenKept, NodesAre DEF OthersKept
<1>10. Phase(c)' = Phase(c) BY <1>1, <1>2, <1>5, <1>6, <1>7 DEF Held, SameCall, Phase
<1>11. QED BY <1>3, <1>5, <1>8, <1>9, <1>10, NothingSeen DEF Allowed

LEMMA SubmitNodeIsAllowed ==
  ASSUME IInv, NEW c \in Callers, SubmitNode(c)
  PROVE  Allowed
<1>1. PICK t, i, r, n, base, added :
        /\ r = caller[c].call /\ t = r.target /\ i = caller[c].node
        /\ n = RpcProcessParameter(node[t][i], r) /\ base = [node[t] EXCEPT ![i] = n]
        /\ added = RpcAddService(workQue[t], base, i)
  OBVIOUS
<1>2. caller[c].pc = "submit" /\ UNCHANGED <<server, CoreStatus>> BY DEF SubmitNode, At
<1>3. /\ TypeOK /\ t \in Cores /\ i \in Nodes /\ r \in Calls /\ node[t] \in Station /\ workQue[t] \in QueType
      /\ caller \in [Callers -> CallerType] /\ Has(c, t, i)
  BY <1>1, <1>2, CallerFacts, TypesOf DEF Has, TypeOK
<1>4. n \in NodeType /\ n.next = node[t][i].next /\ n.RetValue = E_NOT_OK /\ n.call = r
  <2>1. node[t][i] \in NodeType /\ r.kind \in {"sync", "async"} BY <1>3 DEF Station, Calls
  <2>2. QED BY <1>1, <1>3, <2>1 DEF RpcProcessParameter, NodeType
<1>5. base \in Station /\ base[i] = n /\ \A j \in Nodes : j # i => base[j] = node[t][j]
  BY <1>1, <1>3, <1>4 DEF Station
<1>6. \A j \in Nodes : SameCall(added.station[j], base[j])
  <2>1. Relinked(base, added.station, {i, workQue[t].Tail}) BY <1>1, <1>3, <1>5, AddTypes
  <2>2. QED BY <2>1 DEF Relinked, SameCall
<1>7. /\ node' = [node EXCEPT ![t] = added.station] /\ workQue' = [workQue EXCEPT ![t] = added.que]
      /\ Goto(c, "remote")
  BY <1>1 DEF SubmitNode
<1>8. /\ caller'[c].pc = "remote" /\ caller'[c].call = r /\ caller'[c].node = i
      /\ \A d \in Callers : d # c => caller'[d] = caller[d]
  BY <1>1, <1>3, <1>7 DEF Goto, CallerType
<1>9. \A j \in Nodes : j # i => SameCall(added.station[j], node[t][j]) BY <1>5, <1>6
<1>10. node'[t] = added.station /\ Untouched(t, i) /\ \A u \in Cores : u # t => node'[u] = node[u]
  BY <1>3, <1>7, <1>9, OneWritten DEF WritesOne
<1>11. node'[t][i].call = r /\ node'[t][i].RetValue = E_NOT_OK
  BY <1>3, <1>4, <1>5, <1>6, <1>10 DEF SameCall
<1>12. Elsewhere(t) /\ workQue'[t] = added.que BY <1>2, <1>3, <1>7, <1>10 DEF Elsewhere, TypeOK
<1>13. OthersKept(c)
  BY <1>3, WaiterHas, WaiterKept, <1>8, <1>10, SeenKept DEF IInv, OneHolder, OthersKept
<1>14. Phase(c) = "calling" /\ Phase(c)' = "accepted" /\ InCall(c) /\ InCall(c)'
  <2>1. E_NOT_OK # r BY <1>3, RpcConstants
  <2>2. Held(c)'.RetValue # caller'[c].call BY <1>1, <1>8, <1>11, <2>1 DEF Held
  <2>3. QED BY <1>2, <1>8, <2>2 DEF Phase, InCall, Submitted
<1>15. ASSUME t \in Running
       PROVE  OpenCalls' = OpenCalls \cup {r}
  <2>1. PICK F, W : Lists(t, F, W) BY <1>3, <1>15, PoolIs DEF Running
  <2>2. i \notin Unperformed(t) BY <1>2, <1>3, <1>15, NotToPerform
  <2>3. WorkNodes(t) = Elements(W) /\ IsList(workQue[t], node[t], W) BY <2>1 DEF Lists
  <2>4. i \notin Elements(W) BY <2>2, <2>3 DEF Unperformed
  <2>5. IsList(workQue[t], base, W) BY <1>4, <1>5, <2>3, SameLinks
  <2>6. AddsLast(workQue[t], base, W, i) BY <1>3, <1>5, <2>4, <2>5, AddIs
  <2>7. PICK L : IsList(added.que, added.station, L) /\ Elements(L) = Elements(W) \cup {i}
    BY <1>1, <2>6 DEF AddsLast
  <2>8. WorkNodes(t)' = WorkNodes(t) \cup {i} BY <1>10, <1>12, <2>3, <2>7, ListIs DEF WorkNodes
  <2>9. Unperformed(t)' = Unperformed(t) \cup {i} BY <1>2, <2>8 DEF Unperformed, Performs
  <2>10. Running' = Running /\ \A u \in Running : u # t => Unperformed(u)' = Unperformed(u)
    BY <1>2, <1>12, ElsewhereKept DEF Running
  <2>11. \A u \in Running : \A j \in Unperformed(u) : node'[u][j].call = node[u][j].call
    BY <1>10, <2>2, UnperformedAreNodes DEF Untouched, SameCall
  <2>12. \A q : q \in OpenCalls' <=> q \in OpenCalls \/ q = r
    BY <1>11, <1>15, <2>9, <2>10, <2>11, OpenIs, OpenIsNext
  <2>13. QED BY <2>12
<1>16. ASSUME t \notin Running
       PROVE  OpenCalls' = OpenCalls
  BY <1>2, <1>10, <1>12, <1>16, OpenKept
<1>17. CallOf' = CallOf /\ GotOf' = GotOf /\ Running' = Running
  BY <1>13, <1>14, OnlyOneSeen, <1>1, <1>2, <1>8, SameCallOf DEF GotOf, Running
<1>18. QED BY <1>1, <1>13, <1>14, <1>15, <1>16, <1>17, OnlyOneSeen, AcceptIs DEF Allowed

\* Giving back a node nobody else has and that is not to be performed
LEMMA GivenBack ==
  ASSUME IInv, NEW t \in Cores, NEW i \in Nodes,
         NEW added, added = RpcAddService(freeQue[t], Forget(t, i), i), node' = [node EXCEPT ![t] = added.station],
         workQue' = workQue, CoreStatus' = CoreStatus, \A u \in Cores : u # t => server'[u] = server[u],
         server'[t] = server[t] \/ SameDuty(t),
         t \in Running => i \notin Unperformed(t) /\ i \notin FreeNodes(t)
  PROVE  Untouched(t, i) /\ OpenCalls' = OpenCalls
<1>1. PICK base : base = Forget(t, i) /\ added = RpcAddService(freeQue[t], base, i) OBVIOUS
<1>2. TypeOK /\ node[t] \in Station /\ freeQue[t] \in QueType BY TypesOf DEF IInv
<1>3. /\ base \in Station /\ \A j \in Nodes : base[j].next = node[t][j].next
      /\ \A j \in Nodes : j # i => SameData(base[j], node[t][j])
  BY <1>1, <1>2, ForgetIs
<1>4. \A j \in Nodes : SameCall(added.station[j], base[j])
  BY <1>1, <1>2, <1>3, AddTypes DEF Relinked, SameCall
<1>5. \A j \in Nodes : j # i => SameCall(added.station[j], node[t][j])
  BY <1>3, <1>4 DEF SameCall, SameData
<1>6. node'[t] = added.station /\ Untouched(t, i) /\ \A u \in Cores : u # t => node'[u] = node[u]
  <2>1. WritesOne(t, i, added.station) BY <1>5 DEF WritesOne
  <2>2. QED BY <2>1, OneWritten
<1>7. ASSUME t \in Running
      PROVE  Unperformed(t)' = Unperformed(t)
  <2>1. PICK F, W : Lists(t, F, W) BY <1>7, PoolIs DEF Running
  <2>2. IsList(freeQue[t], base, F) BY <1>3, <2>1, SameLinks DEF Lists
  <2>3. FreeNodes(t) = Elements(F) /\ i \notin Elements(F) BY <1>7, <2>1 DEF Lists
  <2>4. AddsLast(freeQue[t], base, F, i) BY <1>2, <1>3, <2>2, <2>3, AddIs
  <2>5. Relinked(base, added.station, Elements(F) \cup {i}) BY <1>1, <2>4 DEF AddsLast
  <2>6. \A j \in WorkNodes(t) : j \in Nodes /\ j \notin Elements(F) /\ j # i
    BY <1>7, <2>1 DEF Lists, Places, Unperformed
  <2>7. \A j \in WorkNodes(t) : node'[t][j].next = node[t][j].next
    BY <1>3, <1>6, <2>5, <2>6 DEF Relinked
  <2>8. WorkNodes(t)' = WorkNodes(t) BY <1>7, <2>7, WorkKept
  <2>9. QED BY <2>8, UnperformedKept
<1>8. Elsewhere(t) BY <1>6 DEF Elsewhere
<1>9. QED BY <1>6, <1>7, <1>8, OpenKept

LEMMA GiveNodeBackIsAllowed ==
  ASSUME IInv, NEW c \in Callers, GiveNodeBack(c)
  PROVE  Allowed
<1>1. PICK t, i : t = caller[c].call.target /\ i = caller[c].node OBVIOUS
<1>2. caller[c].pc = "give" /\ UNCHANGED <<workQue, server, CoreStatus>> /\ End(c, caller[c].ret)
  BY DEF GiveNodeBack, At
<1>3. /\ TypeOK /\ CallerAgrees(c) /\ t \in Cores /\ i \in Nodes /\ caller[c].call.kind = "sync" /\ Has(c, t, i)
  BY <1>1, <1>2, CallerFacts DEF CallerAgrees, Has
<1>4. /\ \A d \in Callers : d # c => caller'[d] = caller[d]
      /\ caller'[c].ret = caller[c].ret /\ caller'[c].call = caller[c].call
      /\ ~ InCall(c)' /\ Phase(c)' = "idle"
  BY <1>2, EndSeen
<1>5. Untouched(t, i) /\ OpenCalls' = OpenCalls
  <2>1. ASSUME t \in Running
        PROVE  i \notin Unperformed(t) /\ i \notin FreeNodes(t)
    <3>1. i \notin Unperformed(t) BY <1>2, <1>3, <2>1, NotToPerform
    <3>2. PICK F, W : Lists(t, F, W) BY <2>1, PoolIs DEF Running
    <3>3. i \notin FreeNodes(t) BY <1>3, <3>2 DEF Lists, Places
    <3>4. QED BY <3>1, <3>3
  <2>2. PICK added : /\ added = RpcAddService(freeQue[t], Forget(t, i), i)
                     /\ node' = [node EXCEPT ![t] = added.station]
    BY <1>1 DEF GiveNodeBack
  <2>3. QED BY <1>2, <1>3, <2>1, <2>2, GivenBack
<1>6. OthersKept(c)
  <2>1. \A d \in Callers : d # c => ~ Has(d, t, i) BY <1>1, <1>2, <1>3, SyncKept DEF IInv, OneHolder
  <2>2. QED BY <1>4, <1>5, <2>1, SeenKept DEF OthersKept, Has, Waits
<1>7. /\ CallOf' = CallOf /\ Running' = Running /\ PhaseOf[c] = Phase(c) /\ CallOf[c] = caller[c].call
      /\ PhaseOf' = [PhaseOf EXCEPT ![c] = "idle"] /\ GotOf' = [GotOf EXCEPT ![c] = caller[c].ret]
  BY <1>2, <1>4, <1>6, OnlyOneSeen, SameCallOf DEF Running
<1>8. Phase(c) = IF Held(c).RetValue = caller[c].call THEN "performed" ELSE "accepted"
  BY <1>2, <1>3 DEF Phase, InCall, Submitted
<1>9. CASE caller[c].ret = caller[c].call /\ Held(c).RetValue = caller[c].call
  BY <1>3, <1>5, <1>7, <1>8, <1>9, ReturnIs DEF Allowed
<1>10. CASE caller[c].ret = E_OS_CORE /\ CoreStatus[caller[c].call.target] # "OS_RUN"
  BY <1>8, <1>10, <1>5, <1>7, FailIs DEF Running, Allowed
<1>11. QED BY <1>2, <1>3, <1>9, <1>10 DEF CallerAgrees

LEMMA OnlyServerMoves ==
  ASSUME caller' = caller, CoreStatus' = CoreStatus, \A d \in Callers : Phase(d)' = Phase(d), OpenCalls' = OpenCalls
  PROVE  UNCHANGED Seen
BY DEF Seen, PhaseOf, CallOf, GotOf, InCall, Running

\* A step of the interrupt of t that writes neither call nor result of a node
LEMMA ServerUnseen ==
  ASSUME IInv, NEW t \in Cores, NEW station, WritesOne(t, OS_RPC_INVALID_TRAIN, station),
         UNCHANGED <<caller, CoreStatus>>,
         \A u \in Cores : u # t => workQue'[u] = workQue[u] /\ server'[u] = server[u],
         t \in Running => Unperformed(t)' = Unperformed(t)
  PROVE  Allowed
BY OneWritten, UnperformedAreNodes, NodesAre, OpenKept, SeenKept, OnlyServerMoves DEF Elsewhere, Allowed

LEMMA EnterInterruptIsAllowed ==
  ASSUME IInv, NEW t \in Cores, EnterInterrupt(t)
  PROVE  Allowed
<1>1. /\ server[t].pc = "idle" /\ UNCHANGED <<node, workQue, caller, CoreStatus>>
      /\ server' = [server EXCEPT ![t].pc = "get"]
  BY DEF EnterInterrupt, Serving, ServerGoto
<1>2. TypeOK /\ server[t] \in ServerType /\ node = [node EXCEPT ![t] = node[t]] BY ServerFacts
<1>3. server'[t].pc = "get" /\ \A u \in Cores : u # t => server'[u] = server[u]
  BY <1>1, <1>2 DEF TypeOK, ServerType
<1>4. WritesOne(t, OS_RPC_INVALID_TRAIN, node[t]) BY <1>1, <1>2 DEF WritesOne, SameCall
<1>5. Unperformed(t)' = Unperformed(t)
  BY <1>1, <1>3, UnperformedKept DEF WorkNodes, SameDuty, Performs
<1>6. QED BY <1>1, <1>3, <1>4, <1>5, ServerUnseen

LEMMA GetWorkIsAllowed ==
  ASSUME IInv, NEW t \in Cores, GetWork(t)
  PROVE  Allowed
<1>1. PICK got, i, pc : /\ got = RpcGetService(workQue[t], node[t]) /\ i = got.node
                        /\ pc = IF got.node = OS_RPC_INVALID_TRAIN THEN "idle" ELSE "act"
  OBVIOUS
<1>2. /\ TypeOK /\ server[t].pc = "get" /\ node[t] \in Station /\ workQue[t] \in QueType
      /\ UNCHANGED <<caller, CoreStatus>>
  BY ServerFacts DEF GetWork, Serving
<1>3. /\ node' = [node EXCEPT ![t] = got.station] /\ workQue' = [workQue EXCEPT ![t] = got.que]
      /\ server' = [server EXCEPT ![t].pc = pc, ![t].node = i]
  BY <1>1 DEF GetWork
<1>4. Relinked(node[t], got.station, Nodes) BY <1>1, <1>2, GetTypes
<1>5. WritesOne(t, OS_RPC_INVALID_TRAIN, got.station)
  BY <1>3, <1>4 DEF WritesOne, SameCall, Relinked
<1>6. /\ node'[t] = got.station /\ workQue'[t] = got.que
      /\ server'[t].pc = pc /\ server'[t].node = i
      /\ \A u \in Cores : u # t => workQue'[u] = workQue[u] /\ server'[u] = server[u]
  BY <1>2, <1>3 DEF TypeOK, ServerType
<1>7. ASSUME t \in Running
      PROVE  Unperformed(t)' = Unperformed(t)
  <2>1. PICK F, W : Lists(t, F, W) BY <1>7, PoolIs DEF Running
  <2>2. GetsFirst(workQue[t], node[t], W) BY <1>2, <2>1, GetIs DEF Lists
  <2>3. WorkNodes(t) = Elements(W) /\ Unperformed(t) = WorkNodes(t)
    BY <1>2, <2>1 DEF Lists, Unperformed, Performs
  <2>4. CASE W = <<>>
    <3>1. got.que = workQue[t] /\ got.station = node[t] /\ i = OS_RPC_INVALID_TRAIN
      BY <1>1, <2>2, <2>4 DEF GetsFirst
    <3>2. WorkNodes(t)' = WorkNodes(t) /\ server'[t].pc = "idle" BY <1>1, <1>6, <3>1 DEF WorkNodes
    <3>3. QED BY <1>2, <3>2, UnperformedKept DEF SameDuty, Performs
  <2>5. CASE W # <<>>
    <3>1. /\ IsList(got.que, got.station, Tail(W)) /\ Elements(Tail(W)) = Elements(W) \ {i}
          /\ i \in Elements(W) /\ i \in Nodes
      BY <1>1, <2>2, <2>5 DEF GetsFirst
    <3>2. WorkNodes(t)' = WorkNodes(t) \ {i} BY <1>6, <2>3, <3>1, ListIs DEF WorkNodes
    <3>3. Performs(t)' /\ server'[t].node = i BY <1>1, <1>6, <3>1, NodesAre DEF Performs
    <3>4. {j \in Nodes : Performs(t)' /\ server'[t].node = j} = {i} BY <3>1, <3>3
    <3>5. Unperformed(t)' = (WorkNodes(t) \ {i}) \cup {i} BY <3>2, <3>4 DEF Unperformed
    <3>6. QED BY <2>3, <3>1, <3>5
  <2>6. QED BY <2>4, <2>5
<1>8. QED BY <1>2, <1>5, <1>6, <1>7, ServerUnseen

LEMMA TestSyncIsAllowed ==
  ASSUME IInv, NEW t \in Cores, TestSync(t)
  PROVE  Allowed
<1>1. PICK i, old : i = server[t].node /\ old = node[t] OBVIOUS
<1>2. /\ TypeOK /\ server[t] \in ServerType /\ server[t].pc = "test" /\ i \in Nodes /\ old \in Station
      /\ node = [node EXCEPT ![t] = old] /\ UNCHANGED <<workQue, caller, CoreStatus>>
  BY <1>1, ServerFacts DEF TestSync, Serving
<1>3. /\ server'[t].pc \in {"get", "give"} /\ \A u \in Cores : u # t => server'[u] = server[u]
      /\ node' \in {node, [node EXCEPT ![t][i].ProcState = "OS_RPC_FREE"]}
  <2>1. CASE node[t][server[t].node].RpcSync = "sync"
    <3>1. /\ server' = [server EXCEPT ![t] = [[@ EXCEPT !.pc = "get"] EXCEPT !.node = OS_RPC_INVALID_TRAIN]]
          /\ node' = node
      BY <2>1 DEF TestSync, GetNext
    <3>2. server'[t].pc = "get" /\ \A u \in Cores : u # t => server'[u] = server[u]
      BY <1>2, <3>1 DEF TypeOK, ServerType
    <3>3. QED BY <3>1, <3>2
  <2>2. CASE node[t][server[t].node].RpcSync # "sync"
    BY <1>1, <1>2, <2>2 DEF TestSync, ServerGoto, TypeOK, ServerType
  <2>3. QED BY <2>1, <2>2
<1>4. PICK station : /\ WritesOne(t, OS_RPC_INVALID_TRAIN, station)
                     /\ \A j \in Nodes : station[j].next = old[j].next
  <2>1. CASE node' = node BY <1>1, <1>2, <2>1 DEF WritesOne, SameCall
  <2>2. CASE node' = [node EXCEPT ![t][i].ProcState = "OS_RPC_FREE"]
    <3> DEFINE n == [old[i] EXCEPT !.ProcState = "OS_RPC_FREE"]
               new == [old EXCEPT ![i] = n]
    <3>1. node' = [node EXCEPT ![t] = new] BY <1>1, <2>2
    <3>2. n.next = old[i].next /\ n.call = old[i].call /\ n.RetValue = old[i].RetValue
      BY <1>2 DEF Station, NodeType
    <3> HIDE DEF n
    <3>3. \A j \in Nodes : SameCall(new[j], old[j]) /\ new[j].next = old[j].next
      BY <1>2, <3>2 DEF Station, SameCall
    <3> HIDE DEF new
    <3>4. QED BY <1>1, <3>1, <3>3 DEF WritesOne
  <2>3. QED BY <1>3, <2>1, <2>2
<1>5. ASSUME t \in Running
      PROVE  Unperformed(t)' = Unperformed(t)
  <2>1. WorkNodes(t) \subseteq Nodes BY <1>5, UnperformedAreNodes DEF Unperformed
  <2>2. \A j \in WorkNodes(t) : node'[t][j].next = node[t][j].next BY <1>1, <1>4, <2>1, OneWritten
  <2>3. WorkNodes(t)' = WorkNodes(t) BY <1>2, <1>5, <2>2, WorkKept
  <2>4. QED BY <1>2, <1>3, <2>3, UnperformedKept DEF SameDuty, Performs
<1>6. QED BY <1>2, <1>3, <1>4, <1>5, ServerUnseen

LEMMA GiveServedNodeIsAllowed ==
  ASSUME OneKindPerCore, IInv, NEW t \in Cores, GiveServedNode(t)
  PROVE  Allowed
<1>1. PICK i, added : i = server[t].node /\ added = RpcAddService(freeQue[t], Forget(t, i), i)
  OBVIOUS
<1>2. /\ TypeOK /\ ServersAgree /\ server[t].pc = "give" /\ i \in Nodes
      /\ UNCHANGED <<workQue, caller, CoreStatus>>
  BY <1>1, ServerFacts DEF GiveServedNode, Serving
<1>3. node' = [node EXCEPT ![t] = added.station] BY <1>1 DEF GiveServedNode
<1>4. server'[t].pc = "get" /\ \A u \in Cores : u # t => server'[u] = server[u]
  BY <1>2 DEF GiveServedNode, GetNext, TypeOK, ServerType
<1>5. node[t][i].RpcSync = "async" /\ Busy(t, i) BY <1>1, <1>2 DEF ServersAgree, Busy
<1>6. ASSUME t \in Running
      PROVE  i \notin Unperformed(t) /\ i \notin FreeNodes(t)
  <2>1. PICK F, W : Lists(t, F, W) BY <1>6, PoolIs DEF Running
  <2>2. i \notin Elements(F) /\ i \notin Elements(W) BY <1>5, <2>1 DEF Lists, Places
  <2>3. QED BY <1>2, <2>1, <2>2 DEF Lists, Unperformed, Performs
<1>7. Untouched(t, i) /\ OpenCalls' = OpenCalls
  BY <1>2, <1>4, <1>1, <1>3, <1>6, GivenBack DEF SameDuty, Performs
<1>8. \A d \in Callers : ~ Waits(d, t) BY <1>2, <1>5, NobodyWaits
<1>9. \A d \in Callers : Phase(d)' = Phase(d) BY <1>2, <1>7, <1>8, SeenKept
<1>10. QED BY <1>2, <1>7, <1>9, OnlyServerMoves DEF Allowed

LEMMA WorkOf ==
  ASSUME IInv, NEW t \in Running, NEW i \in Unperformed(t)
  PROVE  /\ t \in Cores /\ i \in Nodes /\ WorkOK(t, node[t][i]) /\ node[t][i].RetValue = E_NOT_OK
         /\ \A j \in Unperformed(t) : node[t][j].call = node[t][i].call => j = i
BY UnperformedAreNodes, WorkIsCalls DEF WorkAgrees, WorkOK

LEMMA WaiterCall ==
  ASSUME IInv, NEW t \in Cores, NEW d \in Callers, Waits(d, t)
  PROVE  /\ node[t][caller[d].node].call = caller[d].call /\ caller[d].call.caller = d
         /\ node[t][caller[d].node].RetValue \in {E_NOT_OK, caller[d].call}
         /\ caller[d].call \in Calls /\ caller[d].call # E_NOT_OK
         /\ Phase(d) = IF node[t][caller[d].node].RetValue = caller[d].call THEN "performed" ELSE "accepted"
<1>1. CallerAgrees(d) /\ caller[d].call \in Calls /\ Held(d) = node[t][caller[d].node]
  BY CallerFacts DEF Held, Waits
<1>2. caller[d].call # E_NOT_OK BY <1>1, RpcConstants
<1>3. Phase(d) = IF Held(d).RetValue = caller[d].call THEN "performed" ELSE "accepted"
  BY DEF Phase, InCall, Submitted, Waits
<1>4. QED BY <1>1, <1>2, <1>3 DEF CallerAgrees, Waits

\* Whoever made a synchronous call that is still to be performed waits with its node.
LEMMA SyncHolder ==
  ASSUME IInv, NEW t \in Running, NEW i \in Unperformed(t), node[t][i].call.kind = "sync"
  PROVE  \E c \in Callers : Waits(c, t) /\ caller[c].node = i /\ caller[c].call = node[t][i].call
<1>1. t \in Cores /\ i \in Nodes /\ WorkOK(t, node[t][i]) BY WorkOf
<1>2. PICK F, W : Lists(t, F, W) BY <1>1, PoolIs DEF Running
<1>3. PICK free, work : free = Elements(F) /\ work = Elements(W) OBVIOUS
<1>4. Places(t, free, work) /\ Works(t, work) /\ ToDo(t, work, i)
  BY <1>1, <1>2, <1>3, UnperformedIs DEF Lists
<1>5. i \notin free /\ node[t][i].RpcSync = "sync" BY <1>1, <1>4 DEF Places, ToDo, Busy, WorkOK
<1>6. PICK c \in Callers : Has(c, t, i) BY <1>1, <1>4, <1>5 DEF Places
<1>7. caller[c].pc \in {"remote", "wait"} BY <1>1, <1>4, <1>6 DEF Works
<1>8. Waits(c, t) /\ caller[c].node = i BY <1>6, <1>7 DEF Has, Waits
<1>9. QED BY <1>1, <1>8, WaiterCall

\* Nobody else waits with the node of a waiting caller.
LEMMA OneWaiter ==
  ASSUME IInv, NEW t \in Cores, NEW c \in Callers, NEW d \in Callers, Waits(c, t), Waits(d, t),
         caller[c].node = caller[d].node
  PROVE  c = d
BY WaiterHas, WaiterKept DEF Has, Waits, IInv, OneHolder

\* A step of the interrupt that writes the state of the node it serves
LEMMA StateIsAllowed ==
  ASSUME IInv, NEW t \in Cores, NEW i \in Nodes, NEW state, NEW s,
         server' = [server EXCEPT ![t] = s], s.pc \in {"act", "write"} <=> Performs(t),
         Performs(t) => s.node = server[t].node,
         node' = [node EXCEPT ![t][i].ProcState = state], UNCHANGED <<workQue, caller, CoreStatus>>
  PROVE  Allowed
<1>1. PICK old : old = node[t] OBVIOUS
<1>2. TypeOK /\ server[t] \in ServerType /\ old \in Station BY <1>1, ServerFacts
<1> DEFINE n == [old[i] EXCEPT !.ProcState = state]
           new == [old EXCEPT ![i] = n]
<1>3. node' = [node EXCEPT ![t] = new] BY <1>1
<1>4. n.next = old[i].next /\ n.call = old[i].call /\ n.RetValue = old[i].RetValue
  BY <1>2 DEF Station, NodeType
<1> HIDE DEF n
<1>5. \A j \in Nodes : SameCall(new[j], old[j]) /\ new[j].next = old[j].next
  BY <1>2, <1>4 DEF Station, SameCall
<1> HIDE DEF new
<1>6. WritesOne(t, OS_RPC_INVALID_TRAIN, new) BY <1>1, <1>3, <1>5 DEF WritesOne
<1>7. server'[t] = s /\ \A u \in Cores : u # t => server'[u] = server[u] BY <1>2 DEF TypeOK
<1>8. ASSUME t \in Running
      PROVE  Unperformed(t)' = Unperformed(t)
  <2>1. WorkNodes(t) \subseteq Nodes BY <1>8, UnperformedAreNodes DEF Unperformed
  <2>2. \A j \in WorkNodes(t) : node'[t][j].next = node[t][j].next
    BY <1>1, <1>5, <1>6, <2>1, OneWritten
  <2>3. WorkNodes(t)' = WorkNodes(t) BY <1>8, <2>2, WorkKept
  <2>4. QED BY <1>7, <2>3, UnperformedKept DEF SameDuty
<1>9. QED BY <1>6, <1>7, <1>8, ServerUnseen

LEMMA PerformCallIsAllowed ==
  ASSUME IInv, NEW t \in Cores, PerformCall(t)
  PROVE  Allowed
<1>1. PICK i, r : i = server[t].node /\ r = node[t][server[t].node].call OBVIOUS
<1> DEFINE s == [[server[t] EXCEPT !.pc = "write"] EXCEPT !.result = r]
<1>2. server[t] \in ServerType /\ server[t].pc = "act" /\ i \in Nodes
  BY <1>1, ServerFacts DEF PerformCall, Serving
<1>3. s.pc = "write" /\ s.node = i BY <1>1, <1>2 DEF ServerType
<1>4. /\ server' = [server EXCEPT ![t] = s] /\ node' = [node EXCEPT ![t][i].ProcState = "OS_RPC_WORK"]
      /\ UNCHANGED <<workQue, caller, CoreStatus>>
  BY <1>1 DEF PerformCall
<1> HIDE DEF s
<1>5. QED BY <1>1, <1>2, <1>3, <1>4, StateIsAllowed DEF Performs

LEMMA SetDoneIsAllowed ==
  ASSUME IInv, NEW t \in Cores, SetDone(t)
  PROVE  Allowed
<1>1. PICK i : i = server[t].node OBVIOUS
<1> DEFINE s == [server[t] EXCEPT !.pc = "test"]
<1>2. server[t] \in ServerType /\ server[t].pc = "done" /\ i \in Nodes
  BY <1>1, ServerFacts DEF SetDone, Serving
<1>3. s.pc = "test" BY <1>2 DEF ServerType
<1>4. /\ server' = [server EXCEPT ![t] = s] /\ node' = [node EXCEPT ![t][i].ProcState = "OS_RPC_DONE"]
      /\ UNCHANGED <<workQue, caller, CoreStatus>>
  BY <1>1 DEF SetDone, ServerGoto
<1> HIDE DEF s
<1>5. QED BY <1>2, <1>3, <1>4, StateIsAllowed DEF Performs

LEMMA WriteResultIsAllowed ==
  ASSUME IInv, Rest, NEW t \in Cores, WriteResult(t)
  PROVE  Allowed
<1>1. PICK i, old, r, res : i = server[t].node /\ old = node[t] /\ r = old[i].call /\ res = server[t].result
  OBVIOUS
<1>2. /\ TypeOK /\ server[t] \in ServerType /\ server[t].pc = "write" /\ i \in Nodes /\ old \in Station
      /\ UNCHANGED <<workQue, caller, CoreStatus>> /\ t \notin disabled
  BY <1>1, ServerFacts DEF WriteResult, Serving, ServerRuns
<1> DEFINE n == [old[i] EXCEPT !.RetValue = res]
           station == [old EXCEPT ![i] = n]
<1>3. node' = [node EXCEPT ![t] = station] BY <1>1 DEF WriteResult
<1>4. server'[t].pc = "done" /\ \A u \in Cores : u # t => server'[u] = server[u]
  BY <1>2 DEF WriteResult, TypeOK, ServerType
<1>5. n.next = old[i].next /\ n.call = r /\ n.RetValue = res BY <1>1, <1>2 DEF Station, NodeType
<1> HIDE DEF n
<1>17. Kept(t) => res = r BY <1>1, <1>2 DEF Rest, Rests, Results
<1>6. /\ station[i] = n /\ \A j \in Nodes : station[j].next = old[j].next
      /\ \A j \in Nodes : j # i => SameCall(station[j], old[j])
  BY <1>2, <1>5 DEF Station, SameCall
<1> HIDE DEF station
<1>7. node'[t] = station /\ Untouched(t, i) /\ \A u \in Cores : u # t => node'[u] = node[u]
  <2>1. WritesOne(t, i, station) BY <1>1, <1>3, <1>6 DEF WritesOne
  <2>2. QED BY <2>1, OneWritten
<1>8. Elsewhere(t) /\ Running' = Running BY <1>2, <1>4, <1>7 DEF Elsewhere, Running
<1>9. \A d \in Callers : ~ (Waits(d, t) /\ caller[d].node = i) => Phase(d)' = Phase(d)
  BY <1>2, <1>7, SeenKept
<1>10. ASSUME NEW d \in Callers, Waits(d, t), caller[d].node = i
       PROVE  Phase(d)' = "performed" /\ caller[d].call = r /\ r.kind = "sync" /\ r.caller = d
  <2>1. caller[d].call = r /\ r.caller = d BY <1>1, <1>10, WaiterCall
  <2>2. Held(d)'.RetValue = r BY <1>2, <1>5, <1>6, <1>7, <1>10, <1>17, WaiterKept DEF Held, Waits
  <2>3. Phase(d)' = "performed" BY <1>2, <1>10, <2>1, <2>2 DEF Phase, InCall, Submitted, Waits
  <2>4. QED BY <1>10, <2>1, <2>3 DEF Waits
<1>11. \A c \in Callers : Waits(c, t) /\ caller[c].node = i => OthersKept(c)
  BY <1>2, <1>9, OneWaiter DEF OthersKept
<1>12. CallOf' = CallOf /\ GotOf' = GotOf BY <1>2 DEF CallOf, GotOf, InCall
<1>13. ASSUME \A d \in Callers : ~ (Waits(d, t) /\ caller[d].node = i)
       PROVE  PhaseOf' = PhaseOf
  BY <1>9, <1>13 DEF PhaseOf
<1>14. CASE t \in Running
  <2>1. i \in Unperformed(t) BY <1>1, <1>2 DEF Unperformed, Performs
  <2>2. WorkOK(t, old[i]) /\ \A j \in Unperformed(t) : old[j].call = r => j = i
    BY <1>1, <1>14, <2>1, WorkOf
  <2>3. Unperformed(t)' = Unperformed(t) \ {i}
    <3>1. PICK F, W : Lists(t, F, W) BY <1>14, PoolIs DEF Running
    <3>2. i \notin WorkNodes(t) /\ WorkNodes(t) \subseteq Nodes
      BY <1>1, <1>2, <3>1 DEF Lists, Places, Busy, Acts
    <3>3. \A j \in WorkNodes(t) : node'[t][j].next = node[t][j].next BY <1>1, <1>6, <1>7, <3>2
    <3>4. WorkNodes(t)' = WorkNodes(t) BY <1>2, <1>14, <3>3, WorkKept
    <3>5. Performs(t) /\ server[t].node = i BY <1>1, <1>2 DEF Performs
    <3>6. ~ Performs(t)' BY <1>4 DEF Performs
    <3>7. QED BY <1>2, <3>2, <3>4, <3>5, <3>6 DEF Unperformed
  <2>4. \A u \in Running : u # t => Unperformed(u)' = Unperformed(u)
    BY <1>8, ElsewhereKept DEF Running
  <2>5. \A u \in Running : \A j \in Unperformed(u) : node[u][j].call = r => u = t /\ j = i
    <3>1. ASSUME NEW u \in Running, NEW j \in Unperformed(u), node[u][j].call = r
          PROVE  u = t
      <4>1. WorkOK(u, node[u][j]) BY WorkOf
      <4>2. QED BY <1>1, <2>2, <3>1, <4>1 DEF WorkOK
    <3>2. QED BY <1>1, <2>2, <3>1
  <2>6. \A u \in Running : \A j \in Unperformed(u) : u # t \/ j # i => node'[u][j].call = node[u][j].call
    BY <1>7, UnperformedAreNodes DEF Untouched, SameCall
  <2>7. r \in OpenCalls /\ \A q : q \in OpenCalls' <=> q \in OpenCalls /\ q # r
    BY <1>1, <1>8, <1>14, <2>1, <2>3, <2>4, <2>5, <2>6, OpenIs, OpenIsNext
  <2>8. OpenCalls' = OpenCalls \ {r} BY <2>7
  <2>9. CASE r.kind = "sync"
    <3>1. PICK c \in Callers : Waits(c, t) /\ caller[c].node = i /\ caller[c].call = r
      BY <1>1, <1>14, <2>1, <2>9, SyncHolder
    <3>2. Phase(c) = "accepted" BY <1>1, <1>14, <2>1, WorkOf, <3>1, WaiterCall
    <3>3. PhaseOf' = [PhaseOf EXCEPT ![c] = "performed"] /\ PhaseOf[c] = "accepted" /\ CallOf[c] = r /\ r.caller = c
      BY <1>10, <1>11, <3>1, <3>2, OnlyOneSeen
    <3>4. QED BY <1>8, <1>12, <2>7, <2>8, <2>9, <3>3, PerformIs DEF Allowed
  <2>10. CASE r.kind # "sync" BY <1>10, <1>13, <2>10, <1>8, <1>12, <2>7, <2>8, PerformIs DEF Allowed
  <2>11. QED BY <2>9, <2>10
<1>15. CASE t \notin Running
  <2>1. OpenCalls' = OpenCalls BY <1>2, <1>7, <1>8, <1>15, OpenKept
  <2>2. CASE \A d \in Callers : ~ (Waits(d, t) /\ caller[d].node = i)
    BY <1>13, <2>2, <1>8, <1>12, <2>1 DEF Allowed, Seen
  <2>3. ASSUME NEW c \in Callers, Waits(c, t), caller[c].node = i
        PROVE  Allowed
    <3>1. PhaseOf' = [PhaseOf EXCEPT ![c] = "performed"] /\ PhaseOf[c] = Phase(c) /\ CallOf[c] = caller[c].call
      BY <1>10, <1>11, <2>3, OnlyOneSeen
    <3>2. CallOf[c].kind = "sync" /\ CallOf[c].target \notin Running BY <1>15, <2>3, <3>1 DEF Waits
    <3>3. CASE Phase(c) = "accepted"
      BY <1>8, <1>12, <2>1, <3>1, <3>2, <3>3, PerformLateIs DEF Allowed
    <3>4. CASE Phase(c) = "performed" BY <3>1, <3>4, <1>8, <1>12, <2>1 DEF PhaseOf, Allowed, Seen
    <3>5. QED BY <2>3, <3>3, <3>4, WaiterCall
  <2>4. QED BY <2>2, <2>3
<1>16. QED BY <1>14, <1>15

LEMMA ShutdownIsAllowed ==
  ASSUME IInv, NEW t \in Cores, Shutdown(t)
  PROVE  Allowed
<1>1. UNCHANGED <<node, workQue, caller, server>> /\ CoreStatus' = [CoreStatus EXCEPT ![t] = "OS_CORE_PRE_SHUTDOWN"]
  BY DEF Shutdown
<1>2. Running' = Running \ {t} BY <1>1 DEF IInv, TypeOK, Running
<1>3. \A u \in Running : Unperformed(u)' = Unperformed(u)
  BY <1>1 DEF Unperformed, Performs, WorkNodes
<1>4. \A u \in Running : \A i \in Unperformed(u) : node[u][i].call.target = u BY WorkOf DEF WorkOK
<1>5. \A q : q \in OpenCalls' <=> q \in OpenCalls /\ q.target # t
  BY <1>1, <1>2, <1>3, <1>4, OpenIs, OpenIsNext
<1>6. OpenCalls' = {r \in OpenCalls : r.target # t} BY <1>5
<1>7. UNCHANGED <<PhaseOf, CallOf, GotOf>>
  BY <1>1 DEF PhaseOf, CallOf, GotOf, Phase, InCall, Submitted, Held
<1>8. QED BY <1>2, <1>6, <1>7, StopIs DEF Allowed

LEMMA StandsStill ==
  ASSUME IInv, UNCHANGED <<node, workQue, caller, server, CoreStatus>>
  PROVE  UNCHANGED Seen
<1>1. Running' = Running BY DEF Running
<1>2. \A t : Unperformed(t)' = Unperformed(t) BY DEF Unperformed, Performs, WorkNodes
<1>3. \A r : r \in OpenCalls' <=> r \in OpenCalls BY <1>1, <1>2, OpenIs, OpenIsNext
<1>4. OpenCalls' = OpenCalls BY <1>3
<1>5. \A d \in Callers : Phase(d)' = Phase(d) BY DEF Phase, InCall, Submitted, Held
<1>6. QED BY <1>4, <1>5, OnlyServerMoves

LEMMA StepIsAllowed ==
  ASSUME OneKindPerCore, IInv, Rest, [Next]_vars
  PROVE  [Abstract!Next]_(Abstract!vars)
<1>1. ASSUME UNCHANGED vars
      PROVE  Allowed
  BY <1>1, StandsStill DEF vars, Allowed
<1>2. ASSUME NEW c \in Callers, Call(c) \/ Caller(c)
      PROVE  Allowed
  BY <1>2, CallIsAllowed, FindsCoreGoneIsAllowed, FindsCoreRunningIsAllowed, TakeNodeIsAllowed,
     SubmitNodeIsAllowed, RemoteCallIsAllowed, SeesDoneIsAllowed, SeesCoreGoneIsAllowed, GivesUpIsAllowed, GiveNodeBackIsAllowed DEF Caller
<1>3. ASSUME NEW t \in Cores, Server(t) \/ Shutdown(t)
      PROVE  Allowed
  BY <1>3, EnterInterruptIsAllowed, GetWorkIsAllowed, PerformCallIsAllowed, WriteResultIsAllowed,
     SetDoneIsAllowed, TestSyncIsAllowed, GiveServedNodeIsAllowed, ShutdownIsAllowed DEF Server
<1>4. ASSUME NEW t \in Cores, DisableInt(t)
      PROVE  Allowed
  BY <1>4, StandsStill DEF DisableInt, Allowed
<1>5. Allowed BY <1>1, <1>2, <1>3, <1>4 DEF Next
<1>6. QED BY <1>5, SeenIs DEF Allowed

LEMMA StartsAtStart ==
  ASSUME Init
  PROVE  Abstract!Init
<1>1. \A c \in Callers : /\ CoreOf[c] \in Cores /\ caller[c].pc = "idle" /\ caller[c].ret = None
                         /\ caller[c].call = [caller |-> c, number |-> 0, target |-> CoreOf[c], kind |-> "sync"]
  BY RpcConstants DEF Init
<1>2. Running = Cores /\ IInv BY InitKeeps DEF Init, Running
<1>3. ASSUME NEW t \in Cores
      PROVE  Unperformed(t) = {}
  <2>1. workQue[t].Head = OS_RPC_INVALID_TRAIN /\ server[t].pc = "idle" BY DEF Init, Empty
  <2>2. PICK F, W : Lists(t, F, W) BY <1>2, PoolIs DEF Running
  <2>3. W = <<>> BY <2>2, TailOf, <2>1, NodesAre DEF Lists, IsList
  <2>4. WorkNodes(t) = {} BY <2>2, <2>3 DEF Lists, Elements
  <2>5. QED BY <2>1, <2>4 DEF Unperformed, Performs
<1>4. OpenCalls = {} BY <1>2, <1>3 DEF OpenCalls
<1>5. PhaseOf = [c \in Callers |-> "idle"] /\ GotOf = [c \in Callers |-> None]
  BY <1>1 DEF PhaseOf, GotOf, Phase, InCall
<1>6. CallOf = [c \in Callers |-> [caller |-> c, number |-> 0, target |-> CoreOf[c], kind |-> "sync"]]
  BY <1>1 DEF CallOf
<1>7. CoreOf \in [Callers -> Cores] BY RpcConstants
<1>8. \E own \in [Callers -> Cores] :
        CallOf = [c \in Callers |-> [caller |-> c, number |-> 0, target |-> own[c], kind |-> "sync"]]
  BY <1>6, <1>7
<1>9. QED BY <1>2, <1>4, <1>5, <1>8 DEF Abstract!Init, PhaseOf, CallOf, GotOf, OpenCalls

\* Seen from outside every call is performed at most once and a synchronous caller gets the result
\* of its own call; only a core that shuts down leaves a call undone, and then its caller is told
\* (Os_RpcCallService and Os_RpcServiceOperation), where a core gets synchronous calls or
\* asynchronous ones and one that may stop has a node for each of its synchronous callers.
THEOREM RemoteCallsRefine ==
  ASSUME OneKindPerCore, RoomForCallers
  PROVE  Spec => ImplementsRemoteCall
<1>1. Init => IInv /\ Rest /\ Abstract!Init BY InitKeeps, InitRests, StartsAtStart
<1>2. IInv /\ Rest /\ [Next]_vars => IInv' /\ Rest' /\ [Abstract!Next]_(Abstract!vars)
  BY StepKeeps, StepRests, StepIsAllowed
<1>3. QED BY <1>1, <1>2, PTL DEF Spec, ImplementsRemoteCall, Abstract!Spec
=============================================================================
