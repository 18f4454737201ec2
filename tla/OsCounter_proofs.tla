--------------------------- MODULE OsCounter_proofs ---------------------------
(***************************************************************************)
(* Theorems about what a counter drives.  The list of its alarms along      *)
(* AlarmNext ends, holds each alarm in use once and in the order of expiry  *)
(* across the wrap of the counter, and implements OsAlarmSpec.  The list of *)
(* its schedule tables is linked both ways, holds the tables that are       *)
(* started in the order of their expiry points, and implements              *)
(* OsScheduleTableSpec.  Both hold for any number of alarms and tables, any *)
(* expiry points, range of the counter and width of Os_TickType.            *)
(***************************************************************************)
EXTENDS OsAlarm, OsScheduleTable, FiniteSetTheorems, SequenceTheorems, WellFoundedInduction, TLAPS

-----------------------------------------------------------------------------
(* Numbers *)

\* What holds of 0 and is handed on up to n holds of every number up to n.
LEMMA UpTo ==
  ASSUME NEW n \in Nat, NEW S, 0 \in S, \A k \in 0 .. n - 1 : k \in S => k + 1 \in S
  PROVE  0 .. n \subseteq S
<1> DEFINE T == {k \in 0 .. n : k \notin S}
<1>1. SUFFICES ASSUME T # {}
               PROVE  FALSE
  OBVIOUS
<1>2. PICK k \in T : \A y \in T : ~ (<<y, k>> \in OpToRel(<, Nat))
  <2>1. T \subseteq Nat OBVIOUS
  <2>2. QED BY <1>1, <2>1, NatLessThanWellFounded, WFMin
<1>3. k # 0 /\ k \in 1 .. n /\ k - 1 \in 0 .. n - 1 /\ (k - 1) + 1 = k OBVIOUS
<1>4. k - 1 \in T BY <1>3
<1>5. <<k - 1, k>> \in OpToRel(<, Nat) BY <1>3 DEF OpToRel
<1>6. QED BY <1>2, <1>4, <1>5

LEMMA MinIs ==
  ASSUME NEW n \in Nat, NEW T \in SUBSET (0 .. n), T # {}
  PROVE  Min(T) \in T /\ \A y \in T : Min(T) <= y
<1>1. PICK k \in T : \A y \in T : ~ (<<y, k>> \in OpToRel(<, Nat))
  <2>1. T \subseteq Nat OBVIOUS
  <2>2. QED BY <2>1, NatLessThanWellFounded, WFMin
<1>2. ASSUME NEW y \in T
      PROVE  k <= y
  <2>1. y \in Nat /\ k \in Nat OBVIOUS
  <2>2. ~ (y < k) BY <1>1, <2>1 DEF OpToRel
  <2>3. QED BY <2>1, <2>2
<1>3. QED BY <1>2 DEF Min

\* The number of ticks in twice the range of the counter.
Round == 2 * MaxAllowedValue + 2

LEMMA TicksAre ==
  /\ MaxAllowedValue \in Nat /\ MaxAllowedValue >= 1 /\ Round \in Nat
  /\ TwiceMaxTicks = Round - 1 /\ Ticks = 0 .. Round - 1
  /\ 2 ^ TickBits \in Nat /\ Round <= 2 ^ TickBits
BY CounterConstants DEF Round, TwiceMaxTicks, Ticks, Word

\* The distance from a tick to a later one, around the wrap.
LEMMA DistanceIs ==
  ASSUME NEW x \in Ticks, NEW y \in Ticks
  PROVE  /\ GetDistance(x, y) = IF x <= y THEN y - x ELSE y - x + Round
         /\ GetDistance(x, y) \in 0 .. Round - 1
         /\ GetDistance(x, y) = 0 <=> x = y
<1> DEFINE W == 2 ^ TickBits
<1>1. /\ x \in 0 .. Round - 1 /\ y \in 0 .. Round - 1 /\ Round \in Nat
      /\ TwiceMaxTicks = Round - 1 /\ W \in Nat /\ Round <= W
  BY TicksAre
<1> HIDE DEF W
<1>2. CASE x <= y BY <1>1, <1>2 DEF GetDistance
<1>3. CASE ~ (x <= y) BY <1>1, <1>3 DEF GetDistance, Word, W
<1>4. QED BY <1>2, <1>3

\* The way from one tick to another over a third.
LEMMA DistanceOver ==
  ASSUME NEW x \in Ticks, NEW y \in Ticks, NEW z \in Ticks
  PROVE  /\ Round \in Nat
         /\ GetDistance(x, y) \in 0 .. Round - 1
         /\ GetDistance(y, z) \in 0 .. Round - 1
         /\ GetDistance(x, z) = IF GetDistance(x, y) + GetDistance(y, z) < Round
                                THEN GetDistance(x, y) + GetDistance(y, z)
                                ELSE GetDistance(x, y) + GetDistance(y, z) - Round
<1>1. x \in 0 .. Round - 1 /\ y \in 0 .. Round - 1 /\ z \in 0 .. Round - 1 /\ Round \in Nat
  BY TicksAre
<1>2. /\ GetDistance(x, y) = IF x <= y THEN y - x ELSE y - x + Round
      /\ GetDistance(y, z) = IF y <= z THEN z - y ELSE z - y + Round
      /\ GetDistance(x, z) = IF x <= z THEN z - x ELSE z - x + Round
  BY DistanceIs
<1>3. QED BY <1>1, <1>2

\* A sum around the wrap, where it fits the type.
LEMMA SumIs ==
  ASSUME NEW x \in Ticks, NEW d \in 0 .. Round - 1,
         x + d < 2 ^ TickBits \/ Round = 2 ^ TickBits
  PROVE  /\ CalcAbsTicks(x, d) = IF x + d < Round THEN x + d ELSE x + d - Round
         /\ CalcAbsTicks(x, d) \in Ticks
         /\ GetDistance(x, CalcAbsTicks(x, d)) = d
<1> DEFINE W == 2 ^ TickBits
<1>1. /\ x \in 0 .. Round - 1 /\ Round \in Nat
      /\ TwiceMaxTicks = Round - 1 /\ W \in Nat /\ Round <= W /\ Ticks = 0 .. Round - 1
      /\ x + d < W \/ Round = W
  BY TicksAre
<1>2. CalcAbsTicks(x, d) = IF (x + d) % W <= TwiceMaxTicks THEN (x + d) % W
                           ELSE (((x + d) % W) - ((TwiceMaxTicks + 1) % W)) % W
  BY DEF CalcAbsTicks, Word
<1> HIDE DEF W
<1>3. CASE x + d < Round
  <2>1. (x + d) % W = x + d BY <1>1, <1>3
  <2>2. CalcAbsTicks(x, d) = x + d /\ x + d \in Ticks /\ x <= x + d BY <1>1, <1>2, <1>3, <2>1
  <2>3. QED BY <1>1, <1>3, <2>2, DistanceIs
<1>4. CASE x + d >= Round /\ x + d < W
  <2>1. (x + d) % W = x + d /\ Round < W BY <1>1, <1>4
  <2>2. (TwiceMaxTicks + 1) % W = Round BY <1>1, <2>1
  <2>3. x + d - Round \in 0 .. Round - 1 /\ (x + d - Round) % W = x + d - Round BY <1>1, <1>4
  <2>4. CalcAbsTicks(x, d) = x + d - Round BY <1>1, <1>2, <1>4, <2>1, <2>2, <2>3
  <2>5. x + d - Round \in Ticks /\ ~ (x + d < Round) /\ (x <= x + d - Round => d = Round)
    BY <1>1, <1>4, <2>3
  <2>6. GetDistance(x, x + d - Round) = d BY <1>1, <2>5, DistanceIs
  <2>7. QED BY <2>4, <2>5, <2>6
<1>5. CASE x + d >= W
  <2>1. Round = W BY <1>1, <1>5
  <2>2. (x + d) % W = x + d - W BY <1>1, <1>5, <2>1
  <2>3. CalcAbsTicks(x, d) = x + d - Round BY <1>1, <1>2, <1>5, <2>1, <2>2
  <2>4. x + d - Round \in Ticks /\ ~ (x <= x + d - Round) /\ ~ (x + d < Round) BY <1>1, <1>5, <2>1
  <2>5. GetDistance(x, x + d - Round) = d BY <1>1, <2>4, DistanceIs
  <2>6. QED BY <2>3, <2>4, <2>5
<1>6. QED BY <1>1, <1>3, <1>4, <1>5

\* The same for an alarm, which is set no farther ahead than the range.
LEMMA AbsTicksIs ==
  ASSUME SumsFit, NEW x \in Ticks, NEW d \in 0 .. MaxAllowedValue
  PROVE  /\ CalcAbsTicks(x, d) = IF x + d < Round THEN x + d ELSE x + d - Round
         /\ CalcAbsTicks(x, d) \in Ticks
         /\ GetDistance(x, CalcAbsTicks(x, d)) = d
<1>1. /\ x \in 0 .. Round - 1 /\ MaxAllowedValue \in Nat /\ Round = 2 * MaxAllowedValue + 2
      /\ 2 ^ TickBits \in Nat
      /\ 3 * MaxAllowedValue + 1 < 2 ^ TickBits \/ Round = 2 ^ TickBits
  BY TicksAre DEF Round, SumsFit
<1>2. d \in 0 .. Round - 1 /\ (x + d < 2 ^ TickBits \/ Round = 2 ^ TickBits) BY <1>1
<1>3. QED BY <1>2, SumIs

\* One tick on, what lies ahead is one nearer.
LEMMA OneOn ==
  ASSUME NEW x \in Ticks, NEW y \in Ticks
  PROVE  /\ CalcAbsTicks(x, 1) \in Ticks
         /\ x # y => GetDistance(CalcAbsTicks(x, 1), y) = GetDistance(x, y) - 1
         /\ GetDistance(CalcAbsTicks(x, 1), y) < Round - 1 =>
              GetDistance(x, y) = GetDistance(CalcAbsTicks(x, 1), y) + 1
<1> DEFINE z == CalcAbsTicks(x, 1)
<1>1. /\ x \in 0 .. Round - 1 /\ y \in 0 .. Round - 1 /\ Round \in Nat /\ Round >= 4
      /\ MaxAllowedValue \in Nat /\ MaxAllowedValue >= 1
      /\ 2 ^ TickBits \in Nat /\ Round <= 2 ^ TickBits
  BY TicksAre DEF Round
<1>2. z \in Ticks /\ z = IF x + 1 < Round THEN x + 1 ELSE x + 1 - Round BY <1>1, SumIs
<1>3. /\ GetDistance(x, y) = IF x <= y THEN y - x ELSE y - x + Round
      /\ GetDistance(z, y) = IF z <= y THEN y - z ELSE y - z + Round
  BY <1>2, DistanceIs
<1> HIDE DEF z
<1>4. /\ x # y => GetDistance(z, y) = GetDistance(x, y) - 1
      /\ GetDistance(z, y) < Round - 1 => GetDistance(x, y) = GetDistance(z, y) + 1
  BY <1>1, <1>2, <1>3
<1>5. QED BY <1>2, <1>4 DEF z

-----------------------------------------------------------------------------
(* Links *)

\* n links from the head on, none behind the end.
Along(w, n, none, que, next) ==
  /\ w = [k \in 0 .. n |-> w[k]]
  /\ w[0] = que
  /\ \A k \in 0 .. n - 1 : w[k + 1] = IF w[k] = none THEN none ELSE next[w[k]]

WalkAlong(n, none, que, next) ==
  LET w[k \in 0 .. n] ==
        IF k = 0 THEN que
        ELSE IF w[k - 1] = none THEN none
        ELSE next[w[k - 1]]
  IN  w

LEMMA AlongExists ==
  ASSUME NEW n \in Nat, NEW none, NEW que, NEW next
  PROVE  \E w : Along(w, n, none, que, next)
<1> DEFINE S == {k \in Nat : \E w : Along(w, k, none, que, next)}
<1>1. 0 \in S
  <2>1. Along([k \in 0 .. 0 |-> que], 0, none, que, next) BY DEF Along
  <2>2. QED BY <2>1
<1>2. ASSUME NEW k \in 0 .. n - 1, k \in S
      PROVE  k + 1 \in S
  <2>1. PICK w : Along(w, k, none, que, next) BY <1>2
  <2> DEFINE v == [j \in 0 .. k + 1 |->
                     IF j = k + 1 THEN IF w[k] = none THEN none ELSE next[w[k]]
                     ELSE w[j]]
  <2>2. /\ \A j \in 0 .. k : v[j] = w[j]
        /\ v[k + 1] = IF w[k] = none THEN none ELSE next[w[k]]
    OBVIOUS
  <2>3. v = [j \in 0 .. k + 1 |-> v[j]] OBVIOUS
  <2> HIDE DEF v
  <2>4. \A j \in 0 .. k : v[j + 1] = IF v[j] = none THEN none ELSE next[v[j]]
    <3>1. SUFFICES ASSUME NEW j \in 0 .. k
                   PROVE  v[j + 1] = IF v[j] = none THEN none ELSE next[v[j]]
      OBVIOUS
    <3>2. CASE j = k BY <2>2, <3>2
    <3>3. CASE j # k
      <4>1. j \in 0 .. k - 1 /\ j + 1 \in 0 .. k BY <3>3
      <4>2. w[j + 1] = IF w[j] = none THEN none ELSE next[w[j]] BY <2>1, <4>1 DEF Along
      <4>3. QED BY <2>2, <4>1, <4>2
    <3>4. QED BY <3>2, <3>3
  <2>5. Along(v, k + 1, none, que, next)
    <3>1. (k + 1) - 1 = k /\ 0 \in 0 .. k OBVIOUS
    <3>2. v[0] = que BY <2>1, <2>2, <3>1 DEF Along
    <3>3. QED BY <2>3, <2>4, <3>1, <3>2 DEF Along
  <2>6. QED BY <2>5
<1> HIDE DEF S
<1>3. 0 .. n \subseteq S BY <1>1, <1>2, UpTo
<1>4. n \in S BY <1>3
<1>5. QED BY <1>4 DEF S

LEMMA AlongAgree ==
  ASSUME NEW n \in Nat, NEW none, NEW que, NEW next, NEW v, NEW w,
         Along(v, n, none, que, next), Along(w, n, none, que, next)
  PROVE  v = w
<1> DEFINE S == {k \in 0 .. n : v[k] = w[k]}
<1>1. 0 \in S BY DEF Along
<1>2. ASSUME NEW k \in 0 .. n - 1, k \in S
      PROVE  k + 1 \in S
  <2>1. k + 1 \in 0 .. n /\ v[k] = w[k] BY <1>2
  <2>2. v[k + 1] = w[k + 1] BY <2>1 DEF Along
  <2>3. QED BY <2>1, <2>2
<1>3. 0 .. n \subseteq S BY <1>1, <1>2, UpTo
<1>4. QED BY <1>3 DEF Along

LEMMA WalkIsAlong ==
  ASSUME NEW n \in Nat, NEW none, NEW que, NEW next
  PROVE  Along(WalkAlong(n, none, que, next), n, none, que, next)
<1> DEFINE Steps(w) == [k \in 0 .. n |-> IF k = 0 THEN que
                                         ELSE IF w[k - 1] = none THEN none
                                         ELSE next[w[k - 1]]]
<1>1. PICK w : Along(w, n, none, que, next) BY AlongExists
<1>2. w = Steps(w)
  <2>1. \A k \in 0 .. n : w[k] = Steps(w)[k] BY <1>1 DEF Along
  <2>2. QED BY <1>1, <2>1 DEF Along
<1> DEFINE W == WalkAlong(n, none, que, next)
<1>3. W = Steps(W) BY <1>2 DEF WalkAlong
<1> HIDE DEF W
<1>4. W = [k \in 0 .. n |-> W[k]] /\ W[0] = que BY <1>3
<1>5. \A k \in 0 .. n - 1 : W[k + 1] = IF W[k] = none THEN none ELSE next[W[k]] BY <1>3
<1>6. QED BY <1>4, <1>5 DEF Along, W

-----------------------------------------------------------------------------
(* The list of the alarms *)

\* The test of Os_InsertAlarm compares distances from the counter's value.
LEMMA PassesIs ==
  ASSUME NEW x \in Ticks, NEW tick \in Ticks, NEW cur \in Ticks, tick # cur
  PROVE  Passes(x, tick, cur) <=> GetDistance(cur, x) <= GetDistance(cur, tick)
<1>1. /\ x \in 0 .. Round - 1 /\ tick \in 0 .. Round - 1 /\ cur \in 0 .. Round - 1 /\ Round \in Nat
  BY TicksAre
<1>2. /\ GetDistance(cur, x) = IF cur <= x THEN x - cur ELSE x - cur + Round
      /\ GetDistance(cur, tick) = IF cur <= tick THEN tick - cur ELSE tick - cur + Round
  BY DistanceIs
<1>3. QED BY <1>1, <1>2 DEF Passes
LEMMA AlarmsAreFinite == Cardinality(Alarm) \in Nat
BY AlarmConstants, FS_CardinalityType

\* The links make a chain of the n alarms of q, from the head on; the others point to themselves.
Chain(q, n, que, next) ==
  /\ q \in [0 .. n - 1 -> Alarm]
  /\ \A i, j \in 0 .. n - 1 : q[i] = q[j] => i = j
  /\ que = IF n = 0 THEN INVALID_ALARM ELSE q[0]
  /\ \A i \in 0 .. n - 1 : next[q[i]] = IF i = n - 1 THEN INVALID_ALARM ELSE q[i + 1]
  /\ \A a \in Alarm : next[a] # a <=> \E i \in 0 .. n - 1 : q[i] = a

\* A chain holds no more alarms than there are, and fewer when one is not in it.
LEMMA ChainIsShort ==
  ASSUME NEW n \in Nat, NEW q, NEW que, NEW next, Chain(q, n, que, next)
  PROVE  /\ n <= Cardinality(Alarm)
         /\ \A a \in Alarm : next[a] = a => n < Cardinality(Alarm)
<1>1. IsFiniteSet(Alarm) /\ Cardinality(Alarm) \in Nat BY AlarmConstants, AlarmsAreFinite
<1>2. IsFiniteSet(0 .. n - 1) /\ Cardinality(0 .. n - 1) = n BY FS_Interval
<1>3. q \in Injection(0 .. n - 1, Alarm) BY DEF Chain, Injection, IsInjective
<1>4. n <= Cardinality(Alarm) /\ (n = Cardinality(Alarm) => q \in Surjection(0 .. n - 1, Alarm))
  BY <1>1, <1>2, <1>3, FS_Injection
<1>5. ASSUME NEW a \in Alarm, next[a] = a, q \in Surjection(0 .. n - 1, Alarm)
      PROVE  FALSE
  BY <1>5 DEF Surjection, Chain
<1>6. QED BY <1>1, <1>4, <1>5

\* The walk along a chain.
LEMMA WalkOfChain ==
  ASSUME NEW n \in Nat, NEW q, NEW que, NEW next, Chain(q, n, que, next)
  PROVE  WalkAlong(Cardinality(Alarm), INVALID_ALARM, que, next) =
           [k \in 0 .. Cardinality(Alarm) |-> IF k < n THEN q[k] ELSE INVALID_ALARM]
<1> DEFINE C == Cardinality(Alarm)
           w == [k \in 0 .. C |-> IF k < n THEN q[k] ELSE INVALID_ALARM]
<1>1. C \in Nat /\ n <= C BY AlarmsAreFinite, ChainIsShort
<1>2. w[0] = que BY <1>1 DEF Chain
<1>3. ASSUME NEW k \in 0 .. C - 1
      PROVE  w[k + 1] = IF w[k] = INVALID_ALARM THEN INVALID_ALARM ELSE next[w[k]]
  BY <1>1, AlarmConstants DEF Chain
<1>4. w = [k \in 0 .. C |-> w[k]] OBVIOUS
<1> HIDE DEF w
<1>5. Along(w, C, INVALID_ALARM, que, next) BY <1>2, <1>3, <1>4 DEF Along
<1>6. WalkAlong(Cardinality(Alarm), INVALID_ALARM, que, next) = w
  BY <1>1, <1>5, WalkIsAlong, AlongAgree
<1>7. QED BY <1>6 DEF w

-----------------------------------------------------------------------------
(* The invariant of the list, by its chain *)

Sorted(q, n) ==
  \A i \in 0 .. n - 1 :
    /\ Remaining(q[i]) <= MaxAllowedValue + 1
    /\ \A j \in 0 .. n - 1 : i < j => Remaining(q[i]) <= Remaining(q[j])

Listing(q, n) == Chain(q, n, CounterAlmQue, AlarmNext) /\ Sorted(q, n)

LEMMA ListingMeansOrder ==
  ASSUME NEW n \in Nat, NEW q, Listing(q, n)
  PROVE  ListInOrder
<1> DEFINE C == Cardinality(Alarm)
<1>1. Walk = [k \in 0 .. C |-> IF k < n THEN q[k] ELSE INVALID_ALARM]
  BY WalkOfChain DEF Walk, WalkAlong, Listing
<1>2. C \in Nat /\ n <= C BY AlarmsAreFinite, ChainIsShort DEF Listing
<1>3. Walk[C] = INVALID_ALARM BY <1>1, <1>2
<1>4. \A k \in 0 .. n - 1 : Walk[k] = q[k] /\ q[k] \in Alarm /\ q[k] # INVALID_ALARM
  BY <1>1, <1>2, AlarmConstants DEF Listing, Chain
<1>5. Listed = 0 .. n - 1
  <2>1. ASSUME NEW k \in 0 .. C - 1
        PROVE  Walk[k] # INVALID_ALARM <=> k < n
    BY <1>4, <1>2, <1>1
  <2>2. Listed = {k \in 0 .. C - 1 : k < n} BY <2>1 DEF Listed
  <2>3. QED BY <1>2, <2>2
<1>6. {Walk[k] : k \in Listed} = {a \in Alarm : InUse(a)}
  <2>1. \A a \in Alarm : AlarmNext[a] # a <=> \E i \in 0 .. n - 1 : q[i] = a BY DEF Listing, Chain
  <2>2. {Walk[k] : k \in Listed} = {q[i] : i \in 0 .. n - 1} BY <1>4, <1>5
  <2>3. QED BY <1>4, <2>1, <2>2 DEF InUse
<1>7. QED BY <1>3, <1>4, <1>5, <1>6 DEF ListInOrder, Listing, Sorted

HasListing == \E n \in Nat : \E q : Listing(q, n)

LEMMA OrderOfListing == HasListing => ListInOrder
BY ListingMeansOrder DEF HasListing

\* A walk that ends has no place twice before its end.
LEMMA WalkIsStraight ==
  ASSUME NEW C \in Nat, NEW w, NEW que, NEW next, Along(w, C, INVALID_ALARM, que, next),
         NEW n \in 0 .. C, \A k \in 0 .. n - 1 : w[k] # INVALID_ALARM, w[n] = INVALID_ALARM,
         NEW i \in 0 .. n - 1, NEW j \in 0 .. n - 1, i < j
  PROVE  w[i] # w[j]
<1>1. SUFFICES ASSUME w[i] = w[j]
               PROVE  FALSE
  OBVIOUS
<1> DEFINE S == {d \in 0 .. n - j : w[i + d] = w[j + d]}
<1>2. 0 \in S BY <1>1
<1>3. ASSUME NEW d \in 0 .. (n - j) - 1, d \in S
      PROVE  d + 1 \in S
  <2>1. /\ i + d \in 0 .. n - 1 /\ j + d \in 0 .. n - 1 /\ d + 1 \in 0 .. n - j
        /\ i + d \in 0 .. C - 1 /\ j + d \in 0 .. C - 1
        /\ (i + d) + 1 = i + (d + 1) /\ (j + d) + 1 = j + (d + 1)
    OBVIOUS
  <2>2. w[i + d] = w[j + d] BY <1>3
  <2>3. w[(i + d) + 1] = next[w[i + d]] /\ w[(j + d) + 1] = next[w[j + d]] BY <2>1 DEF Along
  <2>4. QED BY <2>1, <2>2, <2>3
<1>4. n - j \in S
  <2>1. n - j \in Nat OBVIOUS
  <2>2. 0 .. n - j \subseteq S BY <1>2, <1>3, <2>1, UpTo
  <2>3. QED BY <2>1, <2>2
<1>5. i + (n - j) \in 0 .. n - 1 /\ j + (n - j) = n OBVIOUS
<1>6. QED BY <1>4, <1>5

LEMMA OrderMeansListing ==
  ASSUME AlarmTypeOK, ListInOrder
  PROVE  \E n \in Nat : \E q : Listing(q, n)
<1> DEFINE C == Cardinality(Alarm)
           W == Walk
<1>1. C \in Nat BY AlarmsAreFinite
<1>2. Along(W, C, INVALID_ALARM, CounterAlmQue, AlarmNext) BY <1>1, WalkIsAlong DEF Walk, WalkAlong
<1>3. W[C] = INVALID_ALARM BY DEF ListInOrder
<1>4. PICK n \in 0 .. C : W[n] = INVALID_ALARM /\ \A k \in 0 .. n - 1 : W[k] # INVALID_ALARM
  <2> DEFINE S == {k \in 0 .. C : \A j \in 0 .. k : W[j] # INVALID_ALARM}
  <2>1. SUFFICES ASSUME \A k \in 0 .. C : W[k] = INVALID_ALARM =>
                          \E j \in 0 .. k - 1 : W[j] = INVALID_ALARM
                 PROVE  FALSE
    OBVIOUS
  <2>2. 0 \in S BY <1>1, <2>1
  <2>3. ASSUME NEW k \in 0 .. C - 1, k \in S
        PROVE  k + 1 \in S
    BY <1>1, <2>1, <2>3
  <2> HIDE DEF W
  <2>4. C \in S
    <3>1. 0 .. C \subseteq S BY <1>1, <2>2, <2>3, UpTo
    <3>2. QED BY <1>1, <3>1
  <2>5. QED BY <1>1, <1>3, <2>4
<1> HIDE DEF W
<1>5. \A k \in n .. C : W[k] = INVALID_ALARM
  <2> DEFINE S == {k \in 0 .. C : k >= n => W[k] = INVALID_ALARM}
  <2>1. 0 \in S BY <1>1, <1>4
  <2>2. ASSUME NEW k \in 0 .. C - 1, k \in S
        PROVE  k + 1 \in S
    BY <1>1, <1>2, <1>4, <2>2 DEF Along
  <2>3. 0 .. C \subseteq S BY <1>1, <2>1, <2>2, UpTo
  <2>4. QED BY <2>3
<1>6. \A k \in 0 .. C : W[k] \in Alarm \cup {INVALID_ALARM}
  <2> DEFINE S == {k \in 0 .. C : W[k] \in Alarm \cup {INVALID_ALARM}}
  <2>1. 0 \in S BY <1>1, <1>2 DEF Along, AlarmTypeOK
  <2>2. ASSUME NEW k \in 0 .. C - 1, k \in S
        PROVE  k + 1 \in S
    <3>1. k + 1 \in 0 .. C /\ W[k + 1] = IF W[k] = INVALID_ALARM THEN INVALID_ALARM ELSE AlarmNext[W[k]]
      BY <1>1, <1>2 DEF Along
    <3>2. QED BY <2>2, <3>1 DEF AlarmTypeOK
  <2>3. 0 .. C \subseteq S BY <1>1, <2>1, <2>2, UpTo
  <2>4. QED BY <2>3
<1> DEFINE q == [k \in 0 .. n - 1 |-> W[k]]
<1>7. \A k \in 0 .. n - 1 : q[k] = W[k] /\ k \in 0 .. C - 1 BY <1>1
<1>8. q \in [0 .. n - 1 -> Alarm] BY <1>1, <1>4, <1>6
<1> HIDE DEF q
<1>9. \A i, j \in 0 .. n - 1 : q[i] = q[j] => i = j BY <1>1, <1>2, <1>4, WalkIsStraight, <1>7
<1>10. CounterAlmQue = IF n = 0 THEN INVALID_ALARM ELSE q[0]
  <2>1. W[0] = CounterAlmQue BY <1>2 DEF Along
  <2>2. CASE n = 0 BY <1>4, <2>1, <2>2
  <2>3. CASE n # 0 BY <2>3, <1>7, <2>1
  <2>4. QED BY <2>2, <2>3
<1>11. ASSUME NEW i \in 0 .. n - 1
       PROVE  AlarmNext[q[i]] = IF i = n - 1 THEN INVALID_ALARM ELSE q[i + 1]
  <2>1. W[i] # INVALID_ALARM /\ W[i + 1] = AlarmNext[W[i]] BY <1>2, <1>4, <1>7 DEF Along
  <2>2. CASE i = n - 1 BY <1>4, <1>7, <2>1, <2>2
  <2>3. CASE i # n - 1 BY <2>3, <1>7, <2>1
  <2>4. QED BY <2>2, <2>3
<1>12. Listed = 0 .. n - 1 BY <1>1, <1>4, <1>5 DEF Listed, W
<1>13. \A k \in 0 .. n - 1 : q[k] = Walk[k] BY <1>7 DEF W
<1>14. \A a \in Alarm : AlarmNext[a] # a <=> \E i \in 0 .. n - 1 : q[i] = a
  BY <1>12, <1>13 DEF ListInOrder, InUse
<1>15. Sorted(q, n) BY <1>12, <1>13 DEF Sorted, ListInOrder
<1>16. Listing(q, n) BY <1>8, <1>9, <1>10, <1>11, <1>14, <1>15 DEF Listing, Chain
<1>17. QED BY <1>1, <1>16

-----------------------------------------------------------------------------
(* Insertion and removal *)

\* The chain with a in place k.
With(q, n, k, a) ==
  [i \in 0 .. n |-> IF i < k THEN q[i] ELSE IF i = k THEN a ELSE q[i - 1]]

\* The chain without the alarm in place k.
Without(q, n, k) ==
  [i \in 0 .. n - 2 |-> IF i < k THEN q[i] ELSE q[i + 1]]

LEMMA ChainWith ==
  ASSUME NEW n \in Nat, NEW q, NEW que, NEW next, Chain(q, n, que, next),
         NEW a \in Alarm, next[a] = a, NEW k \in 0 .. n, NEW que2, NEW next2,
         que2 = IF k = 0 THEN a ELSE que,
         \A b \in Alarm : next2[b] = IF b = a THEN IF k < n THEN q[k] ELSE INVALID_ALARM
                                     ELSE IF k > 0 /\ b = q[k - 1] THEN a
                                     ELSE next[b]
  PROVE  Chain(With(q, n, k, a), n + 1, que2, next2)
<1> DEFINE r == With(q, n, k, a)
<1>1. /\ \A i \in 0 .. n - 1 : q[i] \in Alarm /\ q[i] # a
      /\ \A i, j \in 0 .. n - 1 : q[i] = q[j] => i = j
      /\ \A i \in 0 .. n - 1 : next[q[i]] = IF i = n - 1 THEN INVALID_ALARM ELSE q[i + 1]
      /\ \A b \in Alarm : next[b] # b <=> \E i \in 0 .. n - 1 : q[i] = b
      /\ a # INVALID_ALARM
  BY AlarmConstants DEF Chain
<1>2. /\ \A i \in 0 .. n : r[i] = IF i < k THEN q[i] ELSE IF i = k THEN a ELSE q[i - 1]
      /\ (n + 1) - 1 = n
  BY DEF With
<1>3. r \in [0 .. n -> Alarm] BY <1>1 DEF With
<1> HIDE DEF r
\* Where an alarm of r comes from
<1>4. ASSUME NEW i \in 0 .. n
      PROVE  \/ i < k /\ i \in 0 .. n - 1 /\ r[i] = q[i]
             \/ i = k /\ r[i] = a
             \/ i > k /\ i - 1 \in 0 .. n - 1 /\ r[i] = q[i - 1]
  BY <1>2
<1>5. \A i, j \in 0 .. n : r[i] = r[j] => i = j BY <1>1, <1>4
<1>6. que2 = r[0] BY <1>2 DEF Chain
<1>7. ASSUME NEW i \in 0 .. n
      PROVE  next2[r[i]] = IF i = n THEN INVALID_ALARM ELSE r[i + 1]
  BY <1>2, <1>1, <1>4
<1>8. ASSUME NEW b \in Alarm
      PROVE  next2[b] # b <=> \E i \in 0 .. n : r[i] = b
  <2>1. CASE b = a BY <1>1, <1>2, <2>1
  <2>2. CASE b # a
    <3>1. (\E i \in 0 .. n : r[i] = b) <=> \E i \in 0 .. n - 1 : q[i] = b
      <4>1. ASSUME NEW i \in 0 .. n - 1, q[i] = b
            PROVE  \E j \in 0 .. n : r[j] = b
        <5>1. CASE i < k BY <1>2, <4>1, <5>1
        <5>2. CASE ~ (i < k)
          <6>1. i + 1 \in 0 .. n /\ (i + 1) - 1 = i /\ ~ (i + 1 < k) /\ i + 1 # k BY <5>2
          <6>2. QED BY <1>2, <4>1, <6>1
        <5>3. QED BY <5>1, <5>2
      <4>2. QED BY <1>4, <2>2, <4>1
    <3>2. CASE k > 0 /\ b = q[k - 1] BY <3>2, <2>2, <3>1
    <3>3. CASE ~ (k > 0 /\ b = q[k - 1]) BY <1>1, <2>2, <3>1, <3>3
    <3>4. QED BY <3>2, <3>3
  <2>3. QED BY <2>1, <2>2
<1>9. QED BY <1>2, <1>3, <1>5, <1>6, <1>7, <1>8 DEF Chain, r

LEMMA ChainWithout ==
  ASSUME NEW n \in Nat, NEW q, NEW que, NEW next, Chain(q, n, que, next),
         NEW k \in 0 .. n - 1, NEW que2, NEW next2,
         que2 = IF k = 0 THEN next[q[0]] ELSE que,
         \A b \in Alarm : next2[b] = IF b = q[k] THEN b
                                     ELSE IF k > 0 /\ b = q[k - 1] THEN next[q[k]]
                                     ELSE next[b]
  PROVE  Chain(Without(q, n, k), n - 1, que2, next2)
<1> DEFINE m == n - 1
           r == Without(q, n, k)
<1>1. /\ \A i \in 0 .. n - 1 : q[i] \in Alarm
      /\ \A i, j \in 0 .. n - 1 : q[i] = q[j] => i = j
      /\ \A i \in 0 .. n - 1 : next[q[i]] = IF i = n - 1 THEN INVALID_ALARM ELSE q[i + 1]
      /\ \A b \in Alarm : next[b] # b <=> \E i \in 0 .. n - 1 : q[i] = b
      /\ INVALID_ALARM \notin Alarm
  BY AlarmConstants DEF Chain
<1>2. /\ m \in Nat /\ n = m + 1 /\ m - 1 = n - 2 /\ k \in 0 .. m
      /\ \A i \in 0 .. m - 1 : r[i] = IF i < k THEN q[i] ELSE q[i + 1]
  BY DEF Without
<1>3. \A i \in 0 .. m - 1 : i \in 0 .. n - 1 /\ i + 1 \in 0 .. n - 1 BY <1>2
<1>4. r \in [0 .. m - 1 -> Alarm] BY <1>1, <1>2, <1>3 DEF Without
<1> HIDE DEF r, m
<1>5. \A i, j \in 0 .. m - 1 : r[i] = r[j] => i = j BY <1>2, <1>1, <1>3
<1>6. que2 = IF m = 0 THEN INVALID_ALARM ELSE r[0] BY <1>1, <1>2 DEF Chain
<1>7. ASSUME NEW i \in 0 .. m - 1
      PROVE  next2[r[i]] = IF i = m - 1 THEN INVALID_ALARM ELSE r[i + 1]
  BY <1>2, <1>1
<1>8. ASSUME NEW b \in Alarm
      PROVE  next2[b] # b <=> \E i \in 0 .. m - 1 : r[i] = b
  <2>1. (\E i \in 0 .. m - 1 : r[i] = b) <=> \E i \in 0 .. n - 1 : i # k /\ q[i] = b
    <3>1. ASSUME NEW i \in 0 .. n - 1, i # k, q[i] = b
          PROVE  \E j \in 0 .. m - 1 : r[j] = b
      BY <1>2, <3>1
    <3>2. ASSUME NEW i \in 0 .. m - 1, r[i] = b
          PROVE  \E j \in 0 .. n - 1 : j # k /\ q[j] = b
      BY <1>2, <1>3, <3>2
    <3>3. QED BY <3>1, <3>2
  <2>2. CASE b = q[k] BY <1>1, <2>1, <2>2
  <2>3. CASE b # q[k] /\ k > 0 /\ b = q[k - 1] BY <2>3, <1>1, <2>1
  <2>4. CASE b # q[k] /\ ~ (k > 0 /\ b = q[k - 1]) BY <1>1, <2>1, <2>4
  <2>5. QED BY <2>2, <2>3, <2>4
<1>9. Chain(r, m, que2, next2) BY <1>4, <1>5, <1>6, <1>7, <1>8 DEF Chain
<1>10. QED BY <1>9 DEF r, m
-----------------------------------------------------------------------------
\* In the order of R, none further ahead than the counter can tell from behind.
SortedBy(R, q, n) ==
  \A i \in 0 .. n - 1 :
    /\ R[q[i]] <= MaxAllowedValue + 1
    /\ \A j \in 0 .. n - 1 : i < j => R[q[i]] <= R[q[j]]

LEMMA SortedWith ==
  ASSUME NEW n \in Nat, NEW q \in [0 .. n - 1 -> Alarm], NEW a \in Alarm, NEW k \in 0 .. n,
         NEW R \in [Alarm -> Int], NEW R2 \in [Alarm -> Int],
         \A i \in 0 .. n - 1 : R2[q[i]] = R[q[i]],
         SortedBy(R, q, n), R2[a] <= MaxAllowedValue + 1,
         \A i \in 0 .. k - 1 : R[q[i]] <= R2[a],
         k < n => R2[a] < R[q[k]]
  PROVE  SortedBy(R2, With(q, n, k, a), n + 1)
<1> DEFINE r == With(q, n, k, a)
<1>1. \A i \in 0 .. n : r[i] = IF i < k THEN q[i] ELSE IF i = k THEN a ELSE q[i - 1] BY DEF With
<1> HIDE DEF r
<1>3. \A i \in 0 .. n - 1 : R[q[i]] \in Int /\ R[q[i]] <= MaxAllowedValue + 1 BY DEF SortedBy
<1>4. \A i, j \in 0 .. n - 1 : i <= j => R[q[i]] <= R[q[j]] BY <1>3 DEF SortedBy
<1>5. ASSUME NEW i \in 0 .. n
      PROVE  \/ i < k /\ i \in 0 .. n - 1 /\ i \in 0 .. k - 1 /\ r[i] = q[i]
             \/ i = k /\ r[i] = a
             \/ i > k /\ i - 1 \in 0 .. n - 1 /\ r[i] = q[i - 1]
  BY <1>1
<1>6. ASSUME NEW i \in 0 .. n
      PROVE  R2[r[i]] <= MaxAllowedValue + 1
  BY <1>3, <1>5
<1>7. ASSUME NEW i \in 0 .. n, NEW j \in 0 .. n, i < j
      PROVE  R2[r[i]] <= R2[r[j]]
  <2>1. R2[a] \in Int /\ (k < n => k \in 0 .. n - 1) OBVIOUS
  <2>2. CASE i > k
    <3>1. /\ i - 1 \in 0 .. n - 1 /\ j - 1 \in 0 .. n - 1 /\ i - 1 <= j - 1
          /\ r[i] = q[i - 1] /\ r[j] = q[j - 1]
      BY <1>5, <1>7, <2>2
    <3>2. QED BY <1>4, <3>1
  <2>3. CASE i = k BY <1>5, <1>7, <2>3, <1>3, <1>4, <2>1
  <2>4. CASE i < k BY <1>5, <2>4, <1>4, <1>7
  <2>5. QED BY <2>2, <2>3, <2>4
<1>8. QED BY <1>6, <1>7 DEF SortedBy, r

LEMMA SortedWithout ==
  ASSUME NEW n \in Nat, NEW q \in [0 .. n - 1 -> Alarm], NEW k \in 0 .. n - 1,
         NEW R, SortedBy(R, q, n)
  PROVE  SortedBy(R, Without(q, n, k), n - 1)
<1> DEFINE r == Without(q, n, k)
<1>1. \A i \in 0 .. n - 2 : r[i] = IF i < k THEN q[i] ELSE q[i + 1] BY DEF Without
<1> HIDE DEF r
<1>2. \A i \in 0 .. n - 2 : i \in 0 .. n - 1 /\ i + 1 \in 0 .. n - 1 OBVIOUS
<1>3. ASSUME NEW i \in 0 .. n - 2
      PROVE  R[r[i]] <= MaxAllowedValue + 1
  BY <1>1, <1>2 DEF SortedBy
<1>4. ASSUME NEW i \in 0 .. n - 2, NEW j \in 0 .. n - 2, i < j
      PROVE  R[r[i]] <= R[r[j]]
  BY <1>4, <1>1, <1>2 DEF SortedBy
<1>5. QED BY <1>3, <1>4 DEF SortedBy, r

\* The ticks until each alarm expires.
Rest == [b \in Alarm |-> Remaining(b)]

LEMMA RestIs ==
  ASSUME AlarmTypeOK
  PROVE  /\ Rest \in [Alarm -> Int]
         /\ \A b \in Alarm : Rest[b] = Remaining(b) /\ Rest[b] \in 0 .. Round - 1
<1>1. ASSUME NEW b \in Alarm
      PROVE  Remaining(b) \in 0 .. Round - 1
  BY DistanceIs DEF AlarmTypeOK, Remaining, TicksTo
<1>2. Round \in Nat BY TicksAre
<1>3. QED BY <1>1, <1>2 DEF Rest

LEMMA SortedIs ==
  ASSUME NEW n \in Nat, NEW q \in [0 .. n - 1 -> Alarm]
  PROVE  Sorted(q, n) <=> SortedBy(Rest, q, n)
BY DEF Sorted, SortedBy, Rest

-----------------------------------------------------------------------------
(* Os_InsertAlarm and Os_DeleteAlarm *)

\* Os_InsertAlarm puts an alarm behind those that expire no later, counted from cur.
LEMMA InsertsInOrder ==
  ASSUME AlarmTypeOK, NEW n \in Nat, NEW q, Chain(q, n, CounterAlmQue, AlarmNext),
         NEW a \in Alarm, ~InUse(a), NEW tick \in Ticks, NEW cur \in Ticks, tick # cur,
         InsertAlarm(a, tick, cur)
  PROVE  /\ AlarmStart' = [AlarmStart EXCEPT ![a] = tick] /\ AlarmStart' \in [Alarm -> Ticks]
         /\ CounterAlmQue' \in Alarm \cup {INVALID_ALARM}
         /\ AlarmNext' \in [Alarm -> Alarm \cup {INVALID_ALARM}]
         /\ \E k \in 0 .. n :
              /\ Chain(With(q, n, k, a), n + 1, CounterAlmQue', AlarmNext')
              /\ \A i \in 0 .. k - 1 : GetDistance(cur, AlarmStart[q[i]]) <= GetDistance(cur, tick)
              /\ k < n => GetDistance(cur, tick) < GetDistance(cur, AlarmStart[q[k]])
<1> DEFINE C == Cardinality(Alarm)
           w == Walk
           D == {j \in DOMAIN w : w[j] = INVALID_ALARM \/ ~Passes(AlarmStart'[w[j]], tick, cur)}
           k == Min(D)
<1>1. C \in Nat /\ n < C BY AlarmsAreFinite, ChainIsShort DEF InUse
<1>2. w = [j \in 0 .. C |-> IF j < n THEN q[j] ELSE INVALID_ALARM]
  BY WalkOfChain DEF Walk, WalkAlong
<1>3. /\ AlarmStart' = [AlarmStart EXCEPT ![a] = tick]
      /\ k = 0 => CounterAlmQue' = a /\ AlarmNext' = [AlarmNext EXCEPT ![a] = w[0]]
      /\ k # 0 => CounterAlmQue' = CounterAlmQue
                  /\ AlarmNext' = [AlarmNext EXCEPT ![a] = w[k], ![w[k - 1]] = a]
  BY DEF InsertAlarm
<1> HIDE DEF w
<1>4. /\ \A i \in 0 .. n - 1 : w[i] = q[i] /\ q[i] \in Alarm /\ q[i] # a /\ q[i] # INVALID_ALARM
      /\ w[n] = INVALID_ALARM /\ DOMAIN w = 0 .. C
  BY <1>1, <1>2, AlarmConstants DEF Chain, InUse
<1>5. k \in D /\ \A j \in D : k <= j
  <2>1. D \in SUBSET (0 .. C) /\ D # {} BY <1>1, <1>4
  <2> HIDE DEF D
  <2>2. QED BY <1>1, <2>1, MinIs
<1>6. k \in 0 .. n BY <1>1, <1>4, <1>5
<1>7. \A i \in 0 .. n - 1 : AlarmStart[q[i]] \in Ticks /\ AlarmStart'[q[i]] = AlarmStart[q[i]]
  BY <1>3, <1>4 DEF AlarmTypeOK
<1>8. ASSUME NEW i \in 0 .. k - 1
      PROVE  GetDistance(cur, AlarmStart[q[i]]) <= GetDistance(cur, tick)
  <2>1. i \in 0 .. n - 1 /\ i \in 0 .. C /\ ~ (k <= i) BY <1>1, <1>6
  <2>2. i \notin D BY <1>5, <2>1
  <2>3. Passes(AlarmStart[q[i]], tick, cur) BY <1>4, <1>7, <2>1, <2>2
  <2>4. QED BY <1>7, <2>1, <2>3, PassesIs
<1>9. ASSUME k < n
      PROVE  GetDistance(cur, tick) < GetDistance(cur, AlarmStart[q[k]])
  <2>1. k \in 0 .. n - 1 BY <1>6, <1>9
  <2>2. ~Passes(AlarmStart[q[k]], tick, cur) BY <1>4, <1>5, <1>7, <2>1
  <2>3. /\ ~ (GetDistance(cur, AlarmStart[q[k]]) <= GetDistance(cur, tick))
        /\ GetDistance(cur, AlarmStart[q[k]]) \in 0 .. Round - 1 /\ GetDistance(cur, tick) \in 0 .. Round - 1
    BY <1>7, <2>1, <2>2, PassesIs, DistanceIs
  <2>4. Round \in Nat BY TicksAre
  <2>5. QED BY <2>3, <2>4
<1> HIDE DEF k
<1>10. /\ k > 0 => k - 1 \in 0 .. n - 1 /\ w[k - 1] = q[k - 1]
       /\ k < n => w[k] = q[k] /\ q[k] \in Alarm
       /\ ~ (k < n) => w[k] = INVALID_ALARM
  BY <1>6, <1>4
<1>11. ASSUME NEW b \in Alarm
       PROVE  AlarmNext'[b] = IF b = a THEN IF k < n THEN q[k] ELSE INVALID_ALARM
                              ELSE IF k > 0 /\ b = q[k - 1] THEN a
                              ELSE AlarmNext[b]
  BY <1>3, <1>10, <1>6, <1>4 DEF AlarmTypeOK
<1>12. CounterAlmQue' = IF k = 0 THEN a ELSE CounterAlmQue BY <1>3
<1>13. Chain(With(q, n, k, a), n + 1, CounterAlmQue', AlarmNext')
  <2>1. AlarmNext[a] = a BY DEF InUse
  <2>2. \A b \in Alarm : AlarmNext'[b] = IF b = a THEN IF k < n THEN q[k] ELSE INVALID_ALARM
                                         ELSE IF k > 0 /\ b = q[k - 1] THEN a
                                         ELSE AlarmNext[b]
    BY <1>11
  <2>3. QED BY <1>6, <1>12, <2>1, <2>2, ChainWith
<1>14. AlarmNext' \in [Alarm -> Alarm \cup {INVALID_ALARM}] BY <1>10, <1>3 DEF AlarmTypeOK
<1>15. AlarmStart' \in [Alarm -> Ticks] /\ CounterAlmQue' \in Alarm \cup {INVALID_ALARM}
  BY <1>3, <1>12 DEF AlarmTypeOK
<1>16. QED BY <1>3, <1>6, <1>8, <1>9, <1>13, <1>14, <1>15

LEMMA DeletesOne ==
  ASSUME AlarmTypeOK, NEW n \in Nat, NEW q, Chain(q, n, CounterAlmQue, AlarmNext),
         NEW a \in Alarm, InUse(a), DeleteAlarm(a)
  PROVE  /\ CounterAlmQue' \in Alarm \cup {INVALID_ALARM}
         /\ AlarmNext' \in [Alarm -> Alarm \cup {INVALID_ALARM}]
         /\ \E k \in 0 .. n - 1 :
              q[k] = a /\ Chain(Without(q, n, k), n - 1, CounterAlmQue', AlarmNext')
<1>1. PICK k \in 0 .. n - 1 : q[k] = a BY DEF Chain, InUse
<1>2. /\ \A i \in 0 .. n - 1 : q[i] \in Alarm
      /\ \A i, j \in 0 .. n - 1 : q[i] = q[j] => i = j
      /\ \A i \in 0 .. n - 1 : AlarmNext[q[i]] = IF i = n - 1 THEN INVALID_ALARM ELSE q[i + 1]
      /\ \A b \in Alarm : AlarmNext[b] # b <=> \E i \in 0 .. n - 1 : q[i] = b
      /\ INVALID_ALARM \notin Alarm
      /\ n # 0 /\ 0 \in 0 .. n - 1 /\ CounterAlmQue = q[0]
  BY <1>1, AlarmConstants DEF Chain
<1>3. CounterAlmQue = a <=> k = 0 BY <1>1, <1>2
\* Who points to the k-th alarm
<1>4. ASSUME NEW b \in Alarm, b # a
      PROVE  AlarmNext[b] = a <=> k > 0 /\ b = q[k - 1]
  <2>1. ASSUME AlarmNext[b] = a
        PROVE  k > 0 /\ b = q[k - 1]
    <3>1. PICK i \in 0 .. n - 1 : q[i] = b BY <1>2, <1>4, <2>1
    <3>2. i # n - 1 /\ q[i + 1] = q[k] BY <1>1, <1>2, <2>1, <3>1
    <3>3. i + 1 \in 0 .. n - 1 BY <3>2
    <3>4. i + 1 = k BY <1>2, <3>2, <3>3
    <3>5. QED BY <3>1, <3>4
  <2>2. ASSUME k > 0, b = q[k - 1]
        PROVE  AlarmNext[b] = a
    BY <2>2, <1>1, <1>2
  <2>3. QED BY <2>1, <2>2
<1>5. CounterAlmQue' = IF k = 0 THEN AlarmNext[q[0]] ELSE CounterAlmQue
  BY <1>2, <1>3 DEF DeleteAlarm
<1>6. ASSUME NEW b \in Alarm
      PROVE  AlarmNext'[b] = IF b = q[k] THEN b
                             ELSE IF k > 0 /\ b = q[k - 1] THEN AlarmNext[q[k]]
                             ELSE AlarmNext[b]
  BY <1>3, <1>1, <1>4 DEF DeleteAlarm, AlarmTypeOK
<1>7. Chain(Without(q, n, k), n - 1, CounterAlmQue', AlarmNext') BY <1>5, <1>6, ChainWithout
<1>8. /\ CounterAlmQue' \in Alarm \cup {INVALID_ALARM}
      /\ AlarmNext' \in [Alarm -> Alarm \cup {INVALID_ALARM}]
  BY DEF DeleteAlarm, AlarmTypeOK
<1>9. QED BY <1>1, <1>7, <1>8

-----------------------------------------------------------------------------
(* Ticks *)

\* Of the ticks up to MaxAllowedValue + 1 ahead, only the one just reached has passed.
LEMMA PassedIs ==
  ASSUME AlarmTypeOK, NEW y \in Ticks
  PROVE  /\ TicksTo(y) = 0 => HasPassed(y)
         /\ TicksTo(y) <= MaxAllowedValue + 1 /\ HasPassed(y) => TicksTo(y) = 0
<1> DEFINE x == CounterCurVal
<1>1. x \in Ticks /\ x \in 0 .. Round - 1 /\ y \in 0 .. Round - 1 BY TicksAre DEF AlarmTypeOK
<1>2. MaxAllowedValue \in Nat /\ Round = 2 * MaxAllowedValue + 2 BY TicksAre DEF Round
<1>3. /\ GetDistance(x, y) = IF x <= y THEN y - x ELSE y - x + Round
      /\ GetDistance(y, x) = IF y <= x THEN x - y ELSE x - y + Round
  BY <1>1, DistanceIs
<1>4. TicksTo(y) = GetDistance(x, y) /\ (HasPassed(y) <=> GetDistance(y, x) <= MaxAllowedValue)
  BY DEF TicksTo, HasPassed
<1> HIDE DEF x
<1>5. QED BY <1>1, <1>2, <1>3, <1>4

\* What the invariant says without the walk.
LEMMA ListingOf ==
  ASSUME AlarmInvariant
  PROVE  \E n \in Nat : \E q : Listing(q, n)
BY OrderMeansListing DEF AlarmInvariant

LEMMA UseOfChain ==
  ASSUME NEW n \in Nat, NEW q, Chain(q, n, CounterAlmQue, AlarmNext), NEW b \in Alarm
  PROVE  InUse(b) <=> \E i \in 0 .. n - 1 : q[i] = b
BY DEF Chain, InUse

\* An alarm that is not in use is set to a tick ahead: it is in the list after that, in order, and
\* nothing else is different.  cur is the counter's value or the one before it.
LEMMA AlarmSet ==
  ASSUME SumsFit, AlarmTypeOK, ListInOrder, NEW a \in Alarm, ~InUse(a), NEW tick \in Ticks,
         NEW cur \in Ticks, cur = CounterCurVal \/ CounterCurVal = CalcAbsTicks(cur, 1),
         TicksTo(tick) \in 1 .. MaxAllowedValue, InsertAlarm(a, tick, cur), UNCHANGED counterVars
  PROVE  /\ ListInOrder'
         /\ AlarmStart' \in [Alarm -> Ticks]
         /\ CounterAlmQue' \in Alarm \cup {INVALID_ALARM}
         /\ AlarmNext' \in [Alarm -> Alarm \cup {INVALID_ALARM}]
         /\ \A b \in Alarm : InUse(b)' <=> InUse(b) \/ b = a
         /\ \A b \in Alarm : Remaining(b)' = IF b = a THEN TicksTo(tick) ELSE Remaining(b)
         /\ \A b \in Alarm : b # a => AlarmStart'[b] = AlarmStart[b]
<1>1. /\ MaxAllowedValue \in Nat /\ Round = 2 * MaxAllowedValue + 2 /\ MaxAllowedValue >= 1
      /\ CounterCurVal \in Ticks /\ CounterCurVal' = CounterCurVal
  BY TicksAre DEF Round, AlarmTypeOK, counterVars
\* Seen from cur, ticks are in the same order.
<1>2. ASSUME NEW y \in Ticks, TicksTo(y) <= MaxAllowedValue + 1
      PROVE  \/ cur = CounterCurVal /\ GetDistance(cur, y) = TicksTo(y)
             \/ cur # CounterCurVal /\ GetDistance(cur, y) = TicksTo(y) + 1
  BY <1>1, <1>2, DistanceIs, OneOn DEF TicksTo
<1>3. tick # cur BY <1>1, <1>2, DistanceIs
<1>4a. PICK n \in Nat : \E q : Listing(q, n) BY OrderMeansListing
<1>4. PICK q : Listing(q, n) BY <1>4a
<1>5. Chain(q, n, CounterAlmQue, AlarmNext) /\ q \in [0 .. n - 1 -> Alarm]
  BY <1>4 DEF Listing, Chain
<1>6. /\ AlarmStart' = [AlarmStart EXCEPT ![a] = tick] /\ AlarmStart' \in [Alarm -> Ticks]
      /\ CounterAlmQue' \in Alarm \cup {INVALID_ALARM}
      /\ AlarmNext' \in [Alarm -> Alarm \cup {INVALID_ALARM}]
      /\ \E k \in 0 .. n :
           /\ Chain(With(q, n, k, a), n + 1, CounterAlmQue', AlarmNext')
           /\ \A i \in 0 .. k - 1 : GetDistance(cur, AlarmStart[q[i]]) <= GetDistance(cur, tick)
           /\ k < n => GetDistance(cur, tick) < GetDistance(cur, AlarmStart[q[k]])
  BY <1>3, <1>5, InsertsInOrder
<1>7. PICK k \in 0 .. n :
           /\ Chain(With(q, n, k, a), n + 1, CounterAlmQue', AlarmNext')
           /\ \A i \in 0 .. k - 1 : GetDistance(cur, AlarmStart[q[i]]) <= GetDistance(cur, tick)
           /\ k < n => GetDistance(cur, tick) < GetDistance(cur, AlarmStart[q[k]])
  BY <1>6
<1>8. \A b \in Alarm : Remaining(b)' = IF b = a THEN TicksTo(tick) ELSE Remaining(b)
  BY <1>1, <1>6 DEF Remaining, TicksTo, AlarmTypeOK
<1>9. \A b \in Alarm : InUse(b)' <=> InUse(b) \/ b = a
  <2> DEFINE r == With(q, n, k, a)
  <2>1. \A i \in 0 .. n : r[i] = IF i < k THEN q[i] ELSE IF i = k THEN a ELSE q[i - 1] BY DEF With
  <2>2. ASSUME NEW b \in Alarm
        PROVE  (\E i \in 0 .. n : r[i] = b) <=> b = a \/ \E i \in 0 .. n - 1 : q[i] = b
    <3> HIDE DEF r
    <3>1. ASSUME NEW i \in 0 .. n - 1
          PROVE  \E j \in 0 .. n : r[j] = q[i]
      <4>1. CASE i < k BY <2>1, <4>1
      <4>2. CASE ~ (i < k) BY <4>2, <2>1
      <4>3. QED BY <4>1, <4>2
    <3>2. ASSUME NEW i \in 0 .. n
          PROVE  r[i] = a \/ \E j \in 0 .. n - 1 : r[i] = q[j]
      BY <2>1
    <3>3. r[k] = a BY <2>1
    <3>4. QED BY <3>1, <3>2, <3>3
  <2>3. ASSUME NEW b \in Alarm
        PROVE  AlarmNext'[b] # b <=> \E i \in 0 .. n : r[i] = b
    BY <1>7 DEF Chain
  <2>4. ASSUME NEW b \in Alarm
        PROVE  InUse(b)' <=> InUse(b) \/ b = a
    <3>1. InUse(b) <=> \E i \in 0 .. n - 1 : q[i] = b BY <1>5, UseOfChain
    <3>2. InUse(b)' <=> AlarmNext'[b] # b BY DEF InUse
    <3>3. QED BY <2>2, <2>3, <3>1, <3>2
  <2>5. QED BY <2>4
<1>10. AlarmTypeOK => Rest \in [Alarm -> Int] /\ \A b \in Alarm : Rest[b] = Remaining(b) /\ Rest[b] \in 0 .. Round - 1
  BY RestIs
<1>11. SortedBy(Rest, q, n) BY <1>4, <1>5, SortedIs DEF Listing
<1>12. Rest' = [b \in Alarm |-> IF b = a THEN TicksTo(tick) ELSE Rest[b]] BY <1>8, <1>10 DEF Rest
<1>13. Rest' \in [Alarm -> Int] /\ Rest'[a] = TicksTo(tick) /\ \A i \in 0 .. n - 1 : Rest'[q[i]] = Rest[q[i]]
  BY <1>5, <1>1, <1>10, <1>12 DEF Chain, InUse
<1>14. ASSUME NEW i \in 0 .. n - 1
       PROVE  /\ q[i] \in Alarm /\ AlarmStart[q[i]] \in Ticks
              /\ Rest[q[i]] = TicksTo(AlarmStart[q[i]]) /\ Rest[q[i]] <= MaxAllowedValue + 1
              /\ Rest[q[i]] \in Int
  BY <1>5, <1>10, <1>11 DEF AlarmTypeOK, SortedBy, Remaining
<1>15. TicksTo(tick) <= MaxAllowedValue + 1 /\ TicksTo(tick) \in Int BY <1>1
<1>16. ASSUME NEW i \in 0 .. k - 1
       PROVE  Rest[q[i]] <= Rest'[a]
  BY <1>7, <1>2, <1>13, <1>14, <1>15
<1>17. ASSUME k < n
       PROVE  Rest'[a] < Rest[q[k]]
  BY <1>17, <1>7, <1>2, <1>13, <1>14, <1>15
<1>18. SortedBy(Rest', With(q, n, k, a), n + 1)
  BY <1>5, <1>10, <1>11, <1>13, <1>15, <1>16, <1>17, SortedWith
<1>19. Listing(With(q, n, k, a), n + 1)'
  BY <1>7, <1>18 DEF Chain, With, SortedBy, Sorted, Rest, Listing
<1>20. ListInOrder'
  <2>1. n + 1 \in Nat OBVIOUS
  <2>2. HasListing' BY <1>19, <2>1 DEF HasListing
  <2>3. QED BY <2>2, OrderOfListing, PTL
<1>21. QED BY <1>6, <1>8, <1>9, <1>20 DEF AlarmTypeOK
-----------------------------------------------------------------------------
\* An alarm is taken out of the list, and nothing else is different.
LEMMA AlarmTakenOut ==
  ASSUME AlarmTypeOK, ListInOrder, NEW a \in Alarm, InUse(a), DeleteAlarm(a),
         UNCHANGED <<counterVars, AlarmStart>>
  PROVE  /\ ListInOrder'
         /\ CounterAlmQue' \in Alarm \cup {INVALID_ALARM}
         /\ AlarmNext' \in [Alarm -> Alarm \cup {INVALID_ALARM}]
         /\ \A b \in Alarm : InUse(b)' <=> InUse(b) /\ b # a
         /\ \A b \in Alarm : Remaining(b)' = Remaining(b)
<1>1a. PICK n \in Nat : \E q : Listing(q, n) BY OrderMeansListing
<1>1. PICK q : Listing(q, n) BY <1>1a
<1>2. Chain(q, n, CounterAlmQue, AlarmNext) /\ q \in [0 .. n - 1 -> Alarm]
  BY <1>1 DEF Listing, Chain
<1>3. /\ CounterAlmQue' \in Alarm \cup {INVALID_ALARM}
      /\ AlarmNext' \in [Alarm -> Alarm \cup {INVALID_ALARM}]
      /\ \E k \in 0 .. n - 1 :
           q[k] = a /\ Chain(Without(q, n, k), n - 1, CounterAlmQue', AlarmNext')
  BY <1>2, DeletesOne
<1>4. PICK k \in 0 .. n - 1 :
           q[k] = a /\ Chain(Without(q, n, k), n - 1, CounterAlmQue', AlarmNext')
  BY <1>3
<1>5. \A b \in Alarm : Remaining(b)' = Remaining(b) BY DEF Remaining, TicksTo, counterVars
<1>6. n - 1 \in Nat OBVIOUS
<1>7. ASSUME NEW b \in Alarm
      PROVE  InUse(b)' <=> InUse(b) /\ b # a
  <2> DEFINE r == Without(q, n, k)
  <2>1. \A i \in 0 .. n - 2 : r[i] = IF i < k THEN q[i] ELSE q[i + 1] BY DEF Without
  <2>2. InUse(b)' <=> \E i \in 0 .. n - 2 : r[i] = b BY <1>4 DEF Chain, InUse
  <2> HIDE DEF r
  <2>3. InUse(b) <=> \E i \in 0 .. n - 1 : q[i] = b BY <1>2, UseOfChain
  <2>4. ASSUME NEW i \in 0 .. n - 1, q[i] = b, b # a
        PROVE  \E j \in 0 .. n - 2 : r[j] = b
    BY <2>1, <2>4, <1>4
  <2>5. ASSUME NEW i \in 0 .. n - 2, r[i] = b
        PROVE  b # a /\ \E j \in 0 .. n - 1 : q[j] = b
    <3>1. \A x, y \in 0 .. n - 1 : q[x] = q[y] => x = y BY <1>2 DEF Chain
    <3>2. CASE i < k
      <4>1. i \in 0 .. n - 1 /\ i # k /\ q[i] = b BY <2>1, <2>5, <3>2
      <4>2. QED BY <1>4, <3>1, <4>1
    <3>3. CASE ~ (i < k)
      <4>1. i + 1 \in 0 .. n - 1 /\ i + 1 # k /\ q[i + 1] = b BY <2>1, <2>5, <3>3
      <4>2. QED BY <1>4, <3>1, <4>1
    <3>4. QED BY <3>2, <3>3
  <2>6. QED BY <2>2, <2>3, <2>4, <2>5
<1>8. SortedBy(Rest, Without(q, n, k), n - 1) BY <1>1, <1>2, SortedIs, SortedWithout DEF Listing
<1>9. Sorted(Without(q, n, k), n - 1)'
  <2>1. Without(q, n, k) \in [0 .. (n - 1) - 1 -> Alarm] BY <1>4 DEF Chain
  <2>2. ASSUME NEW r \in [0 .. (n - 1) - 1 -> Alarm], SortedBy(Rest, r, n - 1)
        PROVE  Sorted(r, n - 1)'
    BY <1>5, <2>2 DEF Sorted, SortedBy, Rest
  <2>3. QED BY <1>8, <2>1, <2>2 DEF Without
<1>10. ListInOrder'
  <2>1. HasListing' BY <1>4, <1>6, <1>9 DEF HasListing, Listing, Chain, Without
  <2>2. QED BY <2>1, OrderOfListing, PTL
<1>11. QED BY <1>3, <1>5, <1>7, <1>10

\* The head of the list is the alarm that expires next, and there is one while any is in use.
LEMMA HeadIsNext ==
  ASSUME AlarmTypeOK, ListInOrder
  PROVE  /\ CounterAlmQue = INVALID_ALARM => \A b \in Alarm : ~InUse(b)
         /\ CounterAlmQue # INVALID_ALARM =>
              /\ CounterAlmQue \in Alarm /\ InUse(CounterAlmQue)
              /\ Remaining(CounterAlmQue) \in 0 .. MaxAllowedValue + 1
              /\ \A b \in Alarm : InUse(b) => Remaining(CounterAlmQue) <= Remaining(b)
<1>1a. PICK n \in Nat : \E q : Listing(q, n) BY OrderMeansListing
<1>1. PICK q : Listing(q, n) BY <1>1a
<1>2. /\ CounterAlmQue = IF n = 0 THEN INVALID_ALARM ELSE q[0]
      /\ \A i \in 0 .. n - 1 : q[i] \in Alarm
      /\ \A b \in Alarm : InUse(b) <=> \E i \in 0 .. n - 1 : q[i] = b
  BY <1>1, UseOfChain DEF Listing, Chain
<1>3. CASE n = 0 BY <1>2, <1>3
<1>4. CASE n # 0
  <2>1. 0 \in 0 .. n - 1 /\ \A i \in 0 .. n - 1 : i = 0 \/ 0 < i BY <1>4
  <2>2. CounterAlmQue = q[0] /\ q[0] \in Alarm /\ InUse(q[0]) /\ q[0] # INVALID_ALARM
    BY <1>2, <1>4, <2>1, AlarmConstants
  <2>3. Remaining(q[0]) <= MaxAllowedValue + 1 /\ \A i \in 0 .. n - 1 : 0 < i => Remaining(q[0]) <= Remaining(q[i])
    BY <1>1, <2>1 DEF Listing, Sorted
  <2>4. Remaining(q[0]) \in 0 .. Round - 1 /\ Round \in Nat /\ MaxAllowedValue \in Nat
    BY <2>2, RestIs, TicksAre
  <2>5. ASSUME NEW b \in Alarm, InUse(b)
        PROVE  Remaining(q[0]) <= Remaining(b)
    <3>1. PICK i \in 0 .. n - 1 : q[i] = b BY <1>2, <2>5
    <3>2. QED BY <2>1, <2>3, <2>4, <3>1
  <2>6. QED BY <2>2, <2>3, <2>4, <2>5
<1>5. QED BY <1>3, <1>4

\* Alarms in use lie ahead, no further than the counter can tell from behind.
LEMMA AheadOnly ==
  ASSUME AlarmTypeOK, ListInOrder, NEW b \in Alarm
  PROVE  /\ Remaining(b) \in 0 .. Round - 1 /\ Remaining(b) \in Int
         /\ InUse(b) => Remaining(b) \in 0 .. MaxAllowedValue + 1
<1>1. Remaining(b) \in 0 .. Round - 1 /\ Round \in Nat /\ MaxAllowedValue \in Nat
  BY RestIs, TicksAre
<1>2. ASSUME InUse(b)
      PROVE  Remaining(b) <= MaxAllowedValue + 1
  <2>1a. PICK n \in Nat : \E q : Listing(q, n) BY OrderMeansListing
  <2>1. PICK q : Listing(q, n) BY <2>1a
  <2>2. \E i \in 0 .. n - 1 : q[i] = b BY <1>2, <2>1, UseOfChain DEF Listing
  <2>3. QED BY <2>1, <2>2 DEF Listing, Sorted
<1>3. QED BY <1>1, <1>2

-----------------------------------------------------------------------------
(* The steps: each keeps the invariant, and is a step of OsAlarmSpec or none.   *)

Left == [b \in Alarm |-> IF InUse(b) THEN Remaining(b) ELSE -1]
Ringing == IF phase \in Alarm THEN phase ELSE INVALID_ALARM

Same == Left' = Left /\ AlarmCycle' = AlarmCycle /\ Ringing' = Ringing

LEMMA CyclesFit ==
  /\ MaxAllowedValue \in Nat
  /\ \A c \in Cycles \cup {0} : c \in 0 .. MaxAllowedValue
  /\ INVALID_ALARM \notin Alarm
  /\ \A b \in Alarm : b # "idle" /\ b # "counted" /\ b # "working"
BY CounterConstants, AlarmConstants

\* An alarm that is not in use, nor the one whose callback runs, is set.
LEMMA SetStep ==
  ASSUME SumsFit, AlarmInvariant, NEW a \in Alarm, ~InUse(a), phase # a,
         NEW tick \in Ticks, TicksTo(tick) \in 1 .. MaxAllowedValue,
         InsertAlarm(a, tick, CounterCurVal),
         NEW cycle \in Cycles, AlarmCycle' = [AlarmCycle EXCEPT ![a] = cycle],
         UNCHANGED <<counterVars, phase>>, booting' \subseteq booting \ {a}
  PROVE  AlarmInvariant' /\ Abstract!Set(a)
<1>1. /\ AlarmTypeOK /\ ListInOrder /\ TicksAgree
      /\ CounterCurVal' = CounterCurVal /\ CounterLastVal' = CounterLastVal /\ phase' = phase
      /\ CounterCurVal \in Ticks
  BY DEF AlarmInvariant, AlarmTypeOK, counterVars
<1>2. /\ ListInOrder'
      /\ AlarmStart' \in [Alarm -> Ticks]
      /\ CounterAlmQue' \in Alarm \cup {INVALID_ALARM}
      /\ AlarmNext' \in [Alarm -> Alarm \cup {INVALID_ALARM}]
      /\ \A b \in Alarm : InUse(b)' <=> InUse(b) \/ b = a
      /\ \A b \in Alarm : Remaining(b)' = IF b = a THEN TicksTo(tick) ELSE Remaining(b)
      /\ \A b \in Alarm : b # a => AlarmStart'[b] = AlarmStart[b]
  BY <1>1, AlarmSet
<1>3. AlarmTypeOK' BY <1>1, <1>2 DEF AlarmTypeOK
<1>4. TicksAgree'
  <2>1. (booting # {} => phase = "idle" /\ CounterCurVal = 0 /\ \A b \in booting : ~InUse(b))'
    BY <1>1, <1>2 DEF AlarmTypeOK, TicksAgree
  <2>2. (phase = "idle" => \A b \in Alarm : InUse(b) => Remaining(b) # 0)'
    BY <1>2, <1>1 DEF TicksAgree
  <2>3. (phase # "idle" => CounterCurVal = CalcAbsTicks(CounterLastVal, 1))'
    BY <1>1 DEF CalcAbsTicks, TwiceMaxTicks, Word, TicksAgree
  <2>4. (phase \in Alarm => ~InUse(phase) /\ Remaining(phase) = 0)'
    <3>1. ASSUME phase \in Alarm
          PROVE  ~InUse(phase)' /\ Remaining(phase)' = 0
      <4>1. ~InUse(phase) /\ Remaining(phase) = 0 BY <1>1, <3>1 DEF TicksAgree
      <4>2. phase' = phase BY <1>1
      <4>3. PICK b \in Alarm : b = phase BY <3>1
      <4>4. ~InUse(b)' /\ Remaining(b)' = 0 BY <1>2, <4>1, <4>3
      <4>5. b = phase' BY <4>2, <4>3
      <4>6. QED BY <4>4, <4>5 DEF InUse, Remaining
    <3>2. QED BY <1>1, <3>1
  <2>5. QED BY <2>1, <2>2, <2>3, <2>4 DEF TicksAgree
<1>5. Left' = [Left EXCEPT ![a] = TicksTo(tick)] /\ Left[a] = -1 BY <1>2 DEF Left
<1>6. TicksTo(tick) \in 1 .. MaxAllowedValue + 1 /\ cycle \in 0 .. MaxAllowedValue BY CyclesFit
<1>7. Abstract!Set(a) BY <1>5, <1>6, <1>1 DEF Ringing, Abstract!Set, Abstract!Off, Left
<1>8. QED BY <1>2, <1>3, <1>4, <1>7 DEF AlarmInvariant

LEMMA InitAlarmStep ==
  ASSUME SumsFit, SetsAhead, AlarmInvariant, NEW a \in Alarm, InitAlarm(a)
  PROVE  AlarmInvariant' /\ (Abstract!Set(a) \/ Same)
<1>1. a \in booting /\ booting' = booting \ {a} /\ ~InUse(a) /\ phase = "idle" /\ CounterCurVal = 0 /\ phase # a
  BY CyclesFit DEF InitAlarm, AlarmInvariant, TicksAgree
<1>2. CASE UNCHANGED acbVars
  <2>1. UNCHANGED <<counterVars, acbVars, phase>> BY <1>2 DEF InitAlarm
  <2>2. AlarmTypeOK' BY <1>1, <2>1 DEF AlarmInvariant, AlarmTypeOK, counterVars, acbVars
  <2>3. ListInOrder'
    BY <2>1 DEF AlarmInvariant, ListInOrder, Listed, Walk, InUse, Remaining, TicksTo, counterVars, acbVars
  <2>4. TicksAgree'
    BY <1>1, <2>1 DEF AlarmInvariant, TicksAgree, InUse, Remaining, TicksTo, counterVars, acbVars
  <2>5. Same BY <2>1 DEF Same, Left, Ringing, InUse, Remaining, TicksTo, counterVars, acbVars
  <2>6. QED BY <2>2, <2>3, <2>4, <2>5 DEF AlarmInvariant
<1>3. CASE \E start \in AutostartTimes, cycle \in Cycles :
             /\ InsertAlarm(a, start, CounterCurVal)
             /\ AlarmCycle' = [AlarmCycle EXCEPT ![a] = cycle]
  <2>1. PICK start \in AutostartTimes, cycle \in Cycles :
             /\ InsertAlarm(a, start, CounterCurVal)
             /\ AlarmCycle' = [AlarmCycle EXCEPT ![a] = cycle]
    BY <1>3
  <2>2. start \in 1 .. MaxAllowedValue /\ MaxAllowedValue \in Nat /\ Round = 2 * MaxAllowedValue + 2
    BY CyclesFit, AlarmConstants DEF SetsAhead, Round
  <2>3. start \in Ticks /\ CounterCurVal \in Ticks BY <2>2, TicksAre DEF AlarmInvariant, AlarmTypeOK
  <2>4. TicksTo(start) = start BY <1>1, <2>2, <2>3, DistanceIs DEF TicksTo
  <2>5. UNCHANGED <<counterVars, phase>> BY DEF InitAlarm
  <2>6. AlarmInvariant' /\ Abstract!Set(a) BY <1>1, <2>1, <2>2, <2>3, <2>4, <2>5, SetStep
  <2>7. QED BY <2>6
<1>4. QED BY <1>2, <1>3 DEF InitAlarm

LEMMA SetRelAlarmStep ==
  ASSUME SumsFit, SetsAhead, AlarmInvariant, NEW a \in Alarm,
         NEW increment \in 1 .. MaxAllowedValue, NEW cycle \in Cycles, SetRelAlarm(a, increment, cycle)
  PROVE  AlarmInvariant' /\ Abstract!Set(a)
<1> DEFINE tick == CalcAbsTicks(CounterCurVal, increment)
<1>1. /\ phase # a /\ ~InUse(a) /\ booting = {} /\ booting' = {}
      /\ InsertAlarm(a, tick, CounterCurVal)
      /\ AlarmCycle' = [AlarmCycle EXCEPT ![a] = cycle]
      /\ UNCHANGED <<counterVars, phase>>
  BY DEF SetRelAlarm, MayCall, SetsAhead
<1>2. tick \in Ticks /\ TicksTo(tick) = increment
  BY CyclesFit, AbsTicksIs DEF AlarmInvariant, AlarmTypeOK, TicksTo
<1> HIDE DEF tick
<1>3. QED BY <1>1, <1>2, SetStep

\* Of the two values that stand for start, the one taken is the next one.
LEMMA AbsStartIs ==
  ASSUME AlarmTypeOK, NEW start \in 0 .. MaxAllowedValue, start # CounterValue
  PROVE  AbsStart(start) \in Ticks /\ TicksTo(AbsStart(start)) \in 1 .. MaxAllowedValue
<1> DEFINE M == MaxAllowedValue
           x == CounterCurVal
           u == start + M + 1
<1>1. M \in Nat /\ M >= 1 /\ Round = 2 * M + 2 /\ x \in 0 .. Round - 1 /\ x \in Ticks
  BY TicksAre DEF Round, AlarmTypeOK
<1>2. /\ x <= M => CounterValue = x
      /\ x >= M + 1 => CounterValue = x - (M + 1)
  BY <1>1 DEF CounterValue
<1>3. start \in Ticks /\ u \in Ticks BY <1>1, TicksAre
<1>4. /\ TicksTo(start) = IF x <= start THEN start - x ELSE start - x + Round
      /\ TicksTo(u) = IF x <= u THEN u - x ELSE u - x + Round
  BY <1>1, <1>3, DistanceIs DEF TicksTo
<1>5. AbsStart(start) = IF TicksTo(start) <= M THEN start ELSE u BY DEF AbsStart
<1> HIDE DEF M, x
<1>6. CASE TicksTo(start) <= M BY <1>1, <1>2, <1>6, <1>3, <1>4, <1>5 DEF M
<1>7. CASE ~ (TicksTo(start) <= M) BY <1>1, <1>2, <1>4, <1>7, <1>3, <1>5 DEF M
<1>8. QED BY <1>6, <1>7

LEMMA SetAbsAlarmStep ==
  ASSUME SumsFit, SetsAhead, AlarmInvariant, NEW a \in Alarm,
         NEW start \in 0 .. MaxAllowedValue, NEW cycle \in Cycles, SetAbsAlarm(a, start, cycle)
  PROVE  AlarmInvariant' /\ Abstract!Set(a)
BY AbsStartIs, SetStep DEF SetAbsAlarm, MayCall, SetsAhead, AlarmInvariant
-----------------------------------------------------------------------------
LEMMA CancelAlarmStep ==
  ASSUME AlarmInvariant, NEW a \in Alarm, CancelAlarm(a)
  PROVE  AlarmInvariant' /\ Abstract!Cancel(a)
<1>1. /\ AlarmTypeOK /\ ListInOrder /\ TicksAgree /\ booting = {} /\ InUse(a) /\ DeleteAlarm(a)
      /\ AlarmStart' = AlarmStart /\ AlarmCycle' = AlarmCycle /\ booting' = booting /\ phase' = phase
      /\ CounterCurVal' = CounterCurVal /\ CounterLastVal' = CounterLastVal
  BY DEF AlarmInvariant, CancelAlarm, MayCall, counterVars
<1>2. /\ ListInOrder'
      /\ CounterAlmQue' \in Alarm \cup {INVALID_ALARM}
      /\ AlarmNext' \in [Alarm -> Alarm \cup {INVALID_ALARM}]
      /\ \A b \in Alarm : InUse(b)' <=> InUse(b) /\ b # a
      /\ \A b \in Alarm : Remaining(b)' = Remaining(b)
  BY <1>1, AlarmTakenOut DEF counterVars
<1>3. AlarmTypeOK' BY <1>1, <1>2 DEF AlarmTypeOK
<1>4. TicksAgree'
  <2>1. CalcAbsTicks(CounterLastVal, 1)' = CalcAbsTicks(CounterLastVal, 1)
    BY <1>1 DEF CalcAbsTicks, TwiceMaxTicks, Word
  <2>2. (phase \in Alarm => ~InUse(phase) /\ Remaining(phase) = 0)'
    <3>1. ASSUME phase \in Alarm
          PROVE  ~InUse(phase)' /\ Remaining(phase)' = 0
      <4>1. PICK b \in Alarm : b = phase /\ b = phase' BY <1>1, <3>1
      <4>2. ~InUse(b)' /\ Remaining(b)' = 0 BY <1>1, <1>2, <3>1, <4>1 DEF TicksAgree
      <4>3. QED BY <4>1, <4>2 DEF InUse, Remaining
    <3>2. QED BY <1>1, <3>1
  <2>3. (phase = "idle" => \A b \in Alarm : InUse(b) => Remaining(b) # 0)'
    BY <1>1, <1>2 DEF TicksAgree
  <2>4. QED BY <1>1, <2>1, <2>2, <2>3 DEF TicksAgree
<1>5. Left[a] # -1 BY <1>1, AheadOnly DEF Left
<1>6. Left' = [Left EXCEPT ![a] = -1] BY <1>2 DEF Left
<1>7. Abstract!Cancel(a) BY <1>1, <1>5, <1>6 DEF Ringing, Abstract!Cancel, Abstract!Off, Left
<1>8. QED BY <1>2, <1>3, <1>4, <1>7 DEF AlarmInvariant

LEMMA ProcessAlarmStep ==
  ASSUME AlarmInvariant, ProcessAlarm
  PROVE  AlarmInvariant' /\ \E a \in Alarm : Abstract!Expire(a)
<1> DEFINE a == CounterAlmQue
<1>1. /\ AlarmTypeOK /\ ListInOrder /\ TicksAgree
      /\ phase \in {"counted", "working"} /\ Due
      /\ CounterAlmQue' = AlarmNext[a] /\ AlarmNext' = [AlarmNext EXCEPT ![a] = a] /\ phase' = a
      /\ AlarmStart' = AlarmStart /\ AlarmCycle' = AlarmCycle /\ booting' = booting
      /\ CounterCurVal' = CounterCurVal /\ CounterLastVal' = CounterLastVal
  BY DEF AlarmInvariant, ProcessAlarm, counterVars
<1>2. phase # "idle" /\ booting = {} /\ phase \notin Alarm BY <1>1, CyclesFit DEF TicksAgree
<1>3. a \in Alarm /\ InUse(a) /\ Remaining(a) \in 0 .. MaxAllowedValue + 1 /\ a # "idle"
  BY <1>1, HeadIsNext, CyclesFit DEF Due
<1>4. Remaining(a) = 0 BY <1>1, <1>3, CyclesFit, PassedIs DEF Due, AlarmTypeOK, Remaining
<1>5. DeleteAlarm(a) /\ UNCHANGED <<counterVars, AlarmStart>> BY <1>1 DEF DeleteAlarm, counterVars
<1>6. /\ ListInOrder'
      /\ CounterAlmQue' \in Alarm \cup {INVALID_ALARM}
      /\ AlarmNext' \in [Alarm -> Alarm \cup {INVALID_ALARM}]
      /\ \A b \in Alarm : InUse(b)' <=> InUse(b) /\ b # a
      /\ \A b \in Alarm : Remaining(b)' = Remaining(b)
  BY <1>1, <1>3, <1>5, AlarmTakenOut
<1>7. AlarmTypeOK' BY <1>1, <1>3, <1>6 DEF AlarmTypeOK
<1>8. TicksAgree'
  <2>1. CalcAbsTicks(CounterLastVal, 1)' = CalcAbsTicks(CounterLastVal, 1)
    BY <1>1 DEF CalcAbsTicks, TwiceMaxTicks, Word
  <2>2. ~InUse(phase)' /\ Remaining(phase)' = 0
    <3>1. PICK b \in Alarm : b = a /\ b = phase' BY <1>1, <1>3
    <3>2. ~InUse(b)' /\ Remaining(b)' = 0 BY <1>4, <1>6, <3>1
    <3>3. QED BY <3>1, <3>2 DEF InUse, Remaining
  <2>3. CounterCurVal' = CalcAbsTicks(CounterLastVal, 1)' BY <1>1, <1>2, <2>1 DEF TicksAgree
  <2>4. QED BY <1>1, <1>2, <1>3, <2>2, <2>3 DEF TicksAgree
<1>9. Left' = [Left EXCEPT ![a] = -1] /\ Left[a] = 0 BY <1>3, <1>4, <1>6 DEF Left
<1>10. Ringing = INVALID_ALARM /\ Ringing' = a BY <1>1, <1>2, <1>3 DEF Ringing
<1>11. Abstract!Expire(a) BY <1>1, <1>9, <1>10 DEF Abstract!Expire, Abstract!Off, Left, Ringing
<1>12. QED BY <1>3, <1>6, <1>7, <1>8, <1>11 DEF AlarmInvariant

LEMMA CallbackReturnsStep ==
  ASSUME SumsFit, AlarmInvariant, CallbackReturns
  PROVE  AlarmInvariant' /\ Abstract!Served
<1> DEFINE a == phase
           c == AlarmCycle[a]
<1>1. /\ AlarmTypeOK /\ ListInOrder /\ TicksAgree
      /\ a \in Alarm /\ phase' = "working"
      /\ AlarmCycle' = AlarmCycle /\ booting' = booting
      /\ CounterCurVal' = CounterCurVal /\ CounterLastVal' = CounterLastVal
      /\ UNCHANGED counterVars
  BY DEF AlarmInvariant, CallbackReturns, counterVars
<1>2. /\ phase # "idle" /\ booting = {} /\ "working" \notin Alarm /\ ~InUse(a) /\ Remaining(a) = 0
      /\ CounterCurVal = CalcAbsTicks(CounterLastVal, 1)
  BY <1>1, CyclesFit DEF TicksAgree
<1>3. c \in 0 .. MaxAllowedValue BY <1>1, CyclesFit DEF AlarmTypeOK
\* What each case of the code leaves
<1>4. /\ ListInOrder'
      /\ AlarmStart' \in [Alarm -> Ticks]
      /\ CounterAlmQue' \in Alarm \cup {INVALID_ALARM}
      /\ AlarmNext' \in [Alarm -> Alarm \cup {INVALID_ALARM}]
      /\ Left' = [Left EXCEPT ![a] = IF c > 0 THEN c ELSE @]
  <2>0. Left' = [b \in Alarm |-> IF InUse(b)' THEN Remaining(b)' ELSE -1] BY DEF Left
  <2>1. CASE c > 0
    <3> DEFINE tick == CalcAbsTicks(AlarmStart[a], c)
    <3>1. AlarmStart[a] = CounterCurVal /\ CounterCurVal \in Ticks
      BY <1>1, <1>2, DistanceIs DEF AlarmTypeOK, Remaining, TicksTo
    <3>2. tick \in Ticks /\ TicksTo(tick) = c /\ c \in 1 .. MaxAllowedValue
      BY <1>3, <2>1, <3>1, AbsTicksIs DEF TicksTo
    <3>3. InsertAlarm(a, tick, CounterLastVal) BY <1>1, <2>1 DEF CallbackReturns
    <3> HIDE DEF tick
    <3>4. CounterLastVal \in Ticks BY <1>1 DEF AlarmTypeOK
    <3>5. /\ ListInOrder'
          /\ AlarmStart' \in [Alarm -> Ticks]
          /\ CounterAlmQue' \in Alarm \cup {INVALID_ALARM}
          /\ AlarmNext' \in [Alarm -> Alarm \cup {INVALID_ALARM}]
          /\ \A b \in Alarm : InUse(b)' <=> InUse(b) \/ b = a
          /\ \A b \in Alarm : Remaining(b)' = IF b = a THEN TicksTo(tick) ELSE Remaining(b)
      BY <1>1, <1>2, <3>2, <3>3, <3>4, AlarmSet
    <3>6. QED BY <2>0, <2>1, <3>2, <3>5 DEF Left
  <2>2. CASE ~ (c > 0)
    <3>1. UNCHANGED <<CounterAlmQue, AlarmStart, AlarmNext>> BY <1>1, <2>2 DEF CallbackReturns
    <3>2. ListInOrder' BY <1>1, <3>1 DEF ListInOrder, Listed, Walk, InUse, Remaining, TicksTo
    <3>3. Left' = Left BY <1>1, <3>1 DEF Left, InUse, Remaining, TicksTo
    <3>4. Left' = [Left EXCEPT ![a] = IF c > 0 THEN c ELSE @] BY <1>1, <2>2, <3>3 DEF Left
    <3>5. QED BY <1>1, <3>1, <3>2, <3>4 DEF AlarmTypeOK
  <2>3. QED BY <2>1, <2>2
<1>5. AlarmTypeOK' BY <1>1, <1>4 DEF AlarmTypeOK
<1>6. TicksAgree' BY <1>1, <1>2 DEF CalcAbsTicks, TwiceMaxTicks, Word, TicksAgree
<1>7. Ringing = a /\ Ringing' = INVALID_ALARM /\ a # INVALID_ALARM
  BY <1>1, <1>2, CyclesFit DEF Ringing
<1>8. Abstract!Served BY <1>1, <1>4, <1>7 DEF Abstract!Served, Left, Ringing
<1>9. QED BY <1>4, <1>5, <1>6, <1>8 DEF AlarmInvariant

LEMMA WorkDoneStep ==
  ASSUME AlarmInvariant, WorkDone
  PROVE  AlarmInvariant' /\ Same
<1>1. /\ AlarmTypeOK /\ ListInOrder /\ TicksAgree
      /\ phase \in {"counted", "working"} /\ ~Due /\ phase' = "idle"
      /\ UNCHANGED <<counterVars, acbVars, booting>>
  BY DEF AlarmInvariant, WorkDone
<1>2. phase # "idle" /\ booting = {} /\ phase \notin Alarm /\ "idle" \notin Alarm
  BY <1>1, CyclesFit DEF TicksAgree
<1>3. /\ AlarmTypeOK'
      /\ ListInOrder'
  <2>1. AlarmTypeOK' BY <1>1 DEF AlarmTypeOK, counterVars, acbVars
  <2>2. ListInOrder'
    BY <1>1 DEF ListInOrder, Listed, Walk, InUse, Remaining, TicksTo, counterVars, acbVars
  <2>3. QED BY <2>1, <2>2
<1>4. ASSUME NEW b \in Alarm, InUse(b)
      PROVE  Remaining(b) # 0
  BY <1>1, <1>4, HeadIsNext, CyclesFit, PassedIs, AheadOnly DEF Due, AlarmTypeOK, Remaining
<1>5. TicksAgree'
  BY <1>1, <1>2, <1>4 DEF TicksAgree, InUse, Remaining, TicksTo, counterVars, acbVars
<1>6. Same BY <1>1, <1>2 DEF Same, Left, Ringing, InUse, Remaining, TicksTo, counterVars, acbVars
<1>7. QED BY <1>3, <1>5, <1>6 DEF AlarmInvariant

LEMMA IncrementCounterStep ==
  ASSUME SumsFit, AlarmInvariant, IncrementCounter
  PROVE  AlarmInvariant' /\ Abstract!Tick
<1>1. /\ AlarmTypeOK /\ ListInOrder /\ TicksAgree
      /\ booting = {} /\ booting' = {} /\ phase = "idle" /\ phase' = "counted"
      /\ CounterLastVal' = CounterCurVal /\ CounterCurVal' = CalcAbsTicks(CounterCurVal, 1)
      /\ UNCHANGED <<CounterAlmQue, AlarmStart, AlarmCycle, AlarmNext>>
  BY DEF AlarmInvariant, IncrementCounter, CountUp, acbVars
<1>2. CounterCurVal \in Ticks /\ CounterCurVal' \in Ticks BY <1>1, OneOn DEF AlarmTypeOK
<1>3. ASSUME NEW b \in Alarm, InUse(b)
      PROVE  /\ Remaining(b)' = Remaining(b) - 1
             /\ Remaining(b) \in 1 .. MaxAllowedValue + 1
  <2>1. AlarmStart[b] \in Ticks /\ AlarmStart'[b] = AlarmStart[b] /\ Remaining(b) # 0
    BY <1>1, <1>3 DEF AlarmTypeOK, TicksAgree
  <2>2. CounterCurVal # AlarmStart[b] BY <1>2, <2>1, DistanceIs DEF Remaining, TicksTo
  <2>3. GetDistance(CalcAbsTicks(CounterCurVal, 1), AlarmStart[b]) = GetDistance(CounterCurVal, AlarmStart[b]) - 1
    BY <1>2, <2>1, <2>2, OneOn
  <2>4. Remaining(b)' = GetDistance(CounterCurVal', AlarmStart'[b])
    BY DEF Remaining, TicksTo, GetDistance, Word, TwiceMaxTicks
  <2>5. Remaining(b)' = Remaining(b) - 1 BY <1>1, <2>1, <2>3, <2>4 DEF Remaining, TicksTo
  <2>6. Remaining(b) \in 0 .. MaxAllowedValue + 1 BY <1>1, <1>3, AheadOnly
  <2>7. QED BY <2>1, <2>5, <2>6
<1>4. AlarmTypeOK' BY <1>1, <1>2 DEF AlarmTypeOK
<1>5. ListInOrder'
  <2>1a. PICK n \in Nat : \E q : Listing(q, n) BY <1>1, OrderMeansListing
  <2>1. PICK q : Listing(q, n) BY <2>1a
  <2>2. \A i \in 0 .. n - 1 : q[i] \in Alarm /\ InUse(q[i]) BY <2>1, UseOfChain DEF Listing, Chain
  <2>3. Sorted(q, n)' BY <1>3, <2>2, CyclesFit, <2>1 DEF Listing, Sorted
  <2>4. Chain(q, n, CounterAlmQue, AlarmNext)' BY <1>1, <2>1 DEF Listing, Chain
  <2>5. HasListing' BY <2>3, <2>4 DEF HasListing, Listing
  <2>6. QED BY <2>5, OrderOfListing, PTL
<1>6. TicksAgree' BY CyclesFit, <1>1 DEF CalcAbsTicks, TwiceMaxTicks, Word, TicksAgree
<1>7. Abstract!Tick BY <1>1, <1>3, CyclesFit DEF Left, InUse, Ringing, Abstract!Tick, Abstract!Off
<1>8. QED BY <1>4, <1>5, <1>6, <1>7 DEF AlarmInvariant

-----------------------------------------------------------------------------
(* The theorems *)

LEMMA AlarmInitHolds == AlarmInit => AlarmInvariant /\ Abstract!AlarmsOff
<1>1. SUFFICES ASSUME AlarmInit
               PROVE  AlarmInvariant /\ Abstract!AlarmsOff
  OBVIOUS
<1>2. /\ CounterCurVal = 0 /\ CounterLastVal = 0 /\ CounterAlmQue = INVALID_ALARM
      /\ AlarmStart = [a \in Alarm |-> 0] /\ AlarmCycle = [a \in Alarm |-> 0]
      /\ AlarmNext = [a \in Alarm |-> a] /\ booting = Alarm /\ phase = "idle"
  BY <1>1 DEF AlarmInit, InitCounter
<1>3. 0 \in Ticks BY TicksAre, CyclesFit DEF Round
<1>4. \A a \in Alarm : ~InUse(a) BY <1>2 DEF InUse
<1>5. AlarmTypeOK BY <1>2, <1>3 DEF AlarmTypeOK
<1>6. ListInOrder
  <2>1. Listing([i \in 0 .. 0 - 1 |-> 0], 0) BY <1>2 DEF Listing, Chain, Sorted
  <2>2. QED BY <2>1, ListingMeansOrder
<1>7. TicksAgree BY <1>2, <1>4, CyclesFit DEF TicksAgree
<1>8. Abstract!AlarmsOff BY <1>2, <1>4, CyclesFit DEF Abstract!AlarmsOff, Abstract!Off
<1>9. QED BY <1>5, <1>6, <1>7, <1>8 DEF AlarmInvariant

LEMMA SameMeans == Same => UNCHANGED Abstract!alarmVars
BY DEF Same, Left, Ringing, Abstract!alarmVars

LEMMA AlarmStepHolds ==
  ASSUME SumsFit, SetsAhead
  PROVE  AlarmInvariant /\ [AlarmNextStep]_alarmVars =>
           AlarmInvariant' /\ [Abstract!AlarmsNext]_(Abstract!alarmVars)
<1>1. SUFFICES ASSUME AlarmInvariant, [AlarmNextStep]_alarmVars
               PROVE  AlarmInvariant' /\ [Abstract!AlarmsNext]_(Abstract!alarmVars)
  OBVIOUS
<1>2. CASE IncrementCounter BY <1>1, <1>2, IncrementCounterStep DEF Abstract!AlarmsNext
<1>3. CASE ProcessAlarm BY <1>1, <1>3, ProcessAlarmStep DEF Abstract!AlarmsNext
<1>4. CASE CallbackReturns BY <1>1, <1>4, CallbackReturnsStep DEF Abstract!AlarmsNext
<1>5. CASE WorkDone BY <1>1, <1>5, WorkDoneStep, SameMeans
<1>6. ASSUME NEW a \in Alarm, InitAlarm(a)
      PROVE  AlarmInvariant' /\ [Abstract!AlarmsNext]_(Abstract!alarmVars)
  BY <1>1, <1>6, InitAlarmStep, SameMeans DEF Abstract!AlarmsNext
<1>7. ASSUME NEW a \in Alarm, CancelAlarm(a)
      PROVE  AlarmInvariant' /\ [Abstract!AlarmsNext]_(Abstract!alarmVars)
  BY <1>1, <1>7, CancelAlarmStep DEF Abstract!AlarmsNext
<1>8. ASSUME NEW a \in Alarm, NEW increment \in 1 .. MaxAllowedValue, NEW cycle \in Cycles,
             SetRelAlarm(a, increment, cycle)
      PROVE  AlarmInvariant' /\ [Abstract!AlarmsNext]_(Abstract!alarmVars)
  BY <1>1, <1>8, SetRelAlarmStep DEF Abstract!AlarmsNext
<1>9. ASSUME NEW a \in Alarm, NEW start \in 0 .. MaxAllowedValue, NEW cycle \in Cycles,
             SetAbsAlarm(a, start, cycle)
      PROVE  AlarmInvariant' /\ [Abstract!AlarmsNext]_(Abstract!alarmVars)
  BY <1>1, <1>9, SetAbsAlarmStep DEF Abstract!AlarmsNext
<1>10. CASE UNCHANGED alarmVars
  <2>1. /\ AlarmTypeOK /\ ListInOrder /\ TicksAgree
        /\ UNCHANGED <<CounterCurVal, CounterLastVal, CounterAlmQue, AlarmStart, AlarmCycle, AlarmNext, booting, phase>>
    BY <1>1, <1>10 DEF AlarmInvariant, alarmVars, acbVars, counterVars
  <2>2. AlarmTypeOK' BY <2>1 DEF AlarmTypeOK
  <2>3. ListInOrder' BY <2>1 DEF ListInOrder, Listed, Walk, InUse, Remaining, TicksTo
  <2>4. TicksAgree'
    BY <2>1 DEF CalcAbsTicks, TwiceMaxTicks, Word, TicksAgree, InUse, Remaining, TicksTo
  <2>5. Same BY <2>1 DEF Same, Left, Ringing, InUse, Remaining, TicksTo
  <2>6. QED BY <2>2, <2>3, <2>4, <2>5, SameMeans DEF AlarmInvariant
<1>11. QED BY <1>1, <1>2, <1>3, <1>4, <1>5, <1>6, <1>7, <1>8, <1>9, <1>10 DEF AlarmNextStep

\* The list ends, holds each alarm in use once and in the order of expiry across the wrap of the
\* counter, and no alarm is due when the counter goes on (Os_InsertAlarm, Os_WorkAlarm).
THEOREM AlarmsStayInOrder ==
  ASSUME SumsFit, SetsAhead
  PROVE  AlarmSpec => []AlarmInvariant
<1>1. AlarmInit => AlarmInvariant BY AlarmInitHolds
<1>2. AlarmInvariant /\ [AlarmNextStep]_alarmVars => AlarmInvariant' BY AlarmStepHolds
<1>3. QED BY <1>1, <1>2, PTL DEF AlarmSpec

\* Each alarm expires after exactly the ticks asked for, a cyclic one again every cycle, whatever is
\* set, cancelled or due in between: the alarms of the code implement OsAlarmSpec.
THEOREM AlarmsExpireOnTime ==
  ASSUME SumsFit, SetsAhead
  PROVE  AlarmSpec => ExpiresOnTime
<1>1. AlarmInit => Abstract!AlarmsOff BY AlarmInitHolds
<1>2. AlarmInvariant /\ [AlarmNextStep]_alarmVars => [Abstract!AlarmsNext]_(Abstract!alarmVars)
  BY AlarmStepHolds
<1>3. QED BY <1>1, <1>2, AlarmsStayInOrder, PTL DEF AlarmSpec, ExpiresOnTime, Abstract!Alarms

-----------------------------------------------------------------------------
(* The list of the schedule tables *)

\* WalkTables takes as many links as there are tables.
LEMMA TablesAreFinite == Cardinality(Table) \in Nat
BY TableConstants, FS_CardinalityType

\* What WalkTables returns.
LEMMA WalkTablesIs ==
  ASSUME NEW q, q.cb = [u \in Table |-> q.cb[u]], q.head \in Table \cup {NULL},
         \A u \in Table : q.cb[u].nextNode \in Table \cup {NULL}
  PROVE  /\ WalkTables(q) = [k \in 0 .. Cardinality(Table) |-> WalkTables(q)[k]]
         /\ WalkTables(q)[0] = q.head
         /\ \A k \in 0 .. Cardinality(Table) - 1 :
              WalkTables(q)[k + 1] = IF WalkTables(q)[k] = NULL THEN NULL
                                     ELSE q.cb[WalkTables(q)[k]].nextNode
<1> DEFINE C == Cardinality(Table)
           f == [u \in Table \cup {NULL} |-> q.cb[u].nextNode]
           w == WalkAlong(C, NULL, q.head, f)
<1>1. C \in Nat /\ NULL \notin Table BY TablesAreFinite, TableConstants
<1>2. Along(w, C, NULL, q.head, f) BY <1>1, WalkIsAlong
<1>3. \A k \in 0 .. C : w[k] \in Table \cup {NULL}
  <2> DEFINE S == {k \in 0 .. C : w[k] \in Table \cup {NULL}}
  <2> HIDE DEF w
  <2>1. 0 \in S BY <1>1, <1>2 DEF Along
  <2>2. ASSUME NEW k \in 0 .. C - 1, k \in S
        PROVE  k + 1 \in S
    <3>1. w[k + 1] = IF w[k] = NULL THEN NULL ELSE f[w[k]] BY <1>2 DEF Along
    <3>2. QED BY <1>1, <2>2, <3>1
  <2>3. 0 .. C \subseteq S BY <1>1, <2>1, <2>2, UpTo
  <2>4. QED BY <2>3
<1>4. WalkTables(q) = w
  <2> DEFINE Steps(v) == [k \in 0 .. C |-> IF k = 0 THEN q.head
                                           ELSE IF v[k - 1] = NULL THEN NULL
                                           ELSE q.cb[v[k - 1]].nextNode]
             v == CHOOSE x : x = Steps(x)
  <2>1. WalkTables(q) = v BY DEF WalkTables
  <2> HIDE DEF w
  <2>2. w = Steps(w)
    <3>1. \A k \in 0 .. C : w[k] = Steps(w)[k]
      <4>1. SUFFICES ASSUME NEW k \in 0 .. C, k # 0
                     PROVE  w[k] = Steps(w)[k]
        BY <1>1, <1>2 DEF Along
      <4>2. k - 1 \in 0 .. C - 1 /\ (k - 1) + 1 = k BY <1>1, <4>1
      <4>3. w[k] = IF w[k - 1] = NULL THEN NULL ELSE f[w[k - 1]] BY <1>2, <4>2 DEF Along
      <4>4. w[k - 1] \in Table \cup {NULL} BY <1>1, <1>3, <4>2
      <4>5. QED BY <4>1, <4>3, <4>4
    <3>2. QED BY <1>2, <3>1 DEF Along
  <2>3. v = Steps(v) BY <2>2
  <2> HIDE DEF v
  <2>4. v = [k \in 0 .. C |-> v[k]] /\ v[0] = q.head BY <1>1, <2>3
  <2>5. \A k \in 0 .. C - 1 : v[k + 1] = IF v[k] = NULL THEN NULL ELSE q.cb[v[k]].nextNode
    <3>1. SUFFICES ASSUME NEW k \in 0 .. C - 1
                   PROVE  v[k + 1] = IF v[k] = NULL THEN NULL ELSE q.cb[v[k]].nextNode
      OBVIOUS
    <3>2. k + 1 \in 0 .. C /\ k + 1 # 0 /\ (k + 1) - 1 = k BY <1>1
    <3>3. QED BY <2>3, <3>2
  <2> DEFINE S == {k \in 0 .. C : v[k] = w[k]}
  <2>6. 0 \in S BY <1>1, <1>2, <2>4 DEF Along
  <2>7. ASSUME NEW k \in 0 .. C - 1, k \in S
        PROVE  k + 1 \in S
    <3>1. k \in 0 .. C /\ k + 1 \in 0 .. C /\ v[k] = w[k] /\ w[k] \in Table \cup {NULL}
      BY <1>1, <1>3, <2>7
    <3>2. w[k + 1] = IF w[k] = NULL THEN NULL ELSE f[w[k]] BY <1>2 DEF Along
    <3>3. QED BY <2>5, <3>1, <3>2
  <2>8. 0 .. C \subseteq S BY <1>1, <2>6, <2>7, UpTo
  <2>9. v = w BY <1>2, <2>4, <2>8 DEF Along
  <2>10. QED BY <2>1, <2>9
<1> HIDE DEF w
<1>5. \A k \in 0 .. C - 1 : w[k + 1] = IF w[k] = NULL THEN NULL ELSE q.cb[w[k]].nextNode
  <2>1. SUFFICES ASSUME NEW k \in 0 .. C - 1
                 PROVE  w[k + 1] = IF w[k] = NULL THEN NULL ELSE q.cb[w[k]].nextNode
    OBVIOUS
  <2>2. w[k] \in Table \cup {NULL} BY <1>1, <1>3
  <2>3. w[k + 1] = IF w[k] = NULL THEN NULL ELSE f[w[k]] BY <1>2 DEF Along
  <2>4. QED BY <2>2, <2>3
<1>6. QED BY <1>2, <1>4, <1>5 DEF Along

Lists == [head : Table \cup {NULL}, cb : [Table -> CB]]

\* All of a control block but its links.
SameData(c, b) ==
  /\ c.state = b.state /\ c.epId = b.epId /\ c.nextEP = b.nextEP /\ c.delay = b.delay
  /\ c.startAbsTick = b.startAbsTick /\ c.nextEpAbsTick = b.nextEpAbsTick
  /\ c.nextTbl = b.nextTbl /\ c.prevTbl = b.prevTbl

\* The ticks until the next expiry point of a table
Ahead(cur, q, t) == GetDistance(cur, q.cb[t].nextEpAbsTick)

\* The tables of L are linked both ways, n of them, each at its place from the head.
Linked(q, L, n, place) ==
  /\ L \subseteq Table
  /\ place \in [L -> 0 .. n - 1]
  /\ \A u, v \in L : place[u] = place[v] => u = v
  /\ IF n = 0 THEN q.head = NULL ELSE q.head \in L /\ place[q.head] = 0
  /\ \A u \in L : IF place[u] = n - 1 THEN q.cb[u].nextNode = NULL
                  ELSE q.cb[u].nextNode \in L /\ place[q.cb[u].nextNode] = place[u] + 1
  /\ \A u \in L : IF place[u] = 0 THEN q.cb[u].preNode = NULL
                  ELSE q.cb[u].preNode \in L /\ place[q.cb[u].preNode] = place[u] - 1

\* The tables of M stand in the order of their next expiry points.
OrderedOn(cur, q, M, place) ==
  \A u, v \in M : place[u] < place[v] => Ahead(cur, q, u) <= Ahead(cur, q, v)

\* The list holds the tables of L, those of M in the order of their expiry points.
Threads(cur, q, L, M) ==
  \E n \in Nat : \E place : Linked(q, L, n, place) /\ OrderedOn(cur, q, M, place)

\* An expiry point lies less than a round ahead.
LEMMA AheadIs ==
  ASSUME NEW q \in Lists, NEW t \in Table, NEW cur \in Ticks
  PROVE  Ahead(cur, q, t) \in 0 .. Round - 1 /\ Round \in Nat
BY DistanceIs, TicksAre DEF Lists, CB, Ahead

\* Equal data, equal distance.
LEMMA SameAhead ==
  ASSUME NEW cur, NEW q, NEW p, NEW u, SameData(p.cb[u], q.cb[u])
  PROVE  Ahead(cur, p, u) = Ahead(cur, q, u)
BY DEF SameData, Ahead

\* A change of data leaves the links as they are.
LEMMA SameLinks ==
  ASSUME NEW q, NEW p, NEW L, NEW n, NEW place, Linked(q, L, n, place),
         p.head = q.head,
         \A u \in L : p.cb[u].nextNode = q.cb[u].nextNode /\ p.cb[u].preNode = q.cb[u].preNode
  PROVE  Linked(p, L, n, place)
BY DEF Linked

\* What leaves links and expiry points as they are leaves the list as it is.
LEMMA SameThreads ==
  ASSUME NEW cur, NEW q, NEW p, NEW L, NEW M, Threads(cur, q, L, M), p.head = q.head,
         \A u \in L : p.cb[u].nextNode = q.cb[u].nextNode /\ p.cb[u].preNode = q.cb[u].preNode,
         \A u \in M : Ahead(cur, p, u) = Ahead(cur, q, u)
  PROVE  Threads(cur, p, L, M)
<1>0. PICK n \in Nat : \E place : Linked(q, L, n, place) /\ OrderedOn(cur, q, M, place)
  BY DEF Threads
<1>1. PICK place : Linked(q, L, n, place) /\ OrderedOn(cur, q, M, place) BY <1>0
<1>2. Linked(p, L, n, place) BY <1>1, SameLinks
<1>3. OrderedOn(cur, p, M, place) BY <1>1 DEF OrderedOn
<1>4. QED BY <1>2, <1>3 DEF Threads

\* What Os_DelSchedTblNode does to the links.
LEMMA DelFields ==
  ASSUME NEW q \in Lists, NEW t \in Table, q.head # NULL,
         q.cb[t].preNode # t, q.cb[t].nextNode # t,
         q.cb[t].preNode = q.cb[t].nextNode => q.cb[t].preNode = NULL
  PROVE  LET d    == DelSchedTblNode(q, t)
             pre  == q.cb[t].preNode
             next == q.cb[t].nextNode
         IN  /\ d \in Lists
             /\ d.head = IF pre = NULL THEN next ELSE q.head
             /\ \A u \in Table : SameData(d.cb[u], q.cb[u])
             /\ d.cb[t].preNode = NULL
             /\ d.cb[t].nextNode = IF pre = NULL THEN NULL ELSE next
             /\ \A u \in Table : u # t /\ u # pre /\ u # next => d.cb[u] = q.cb[u]
             /\ \A u \in Table : u # t /\ u = pre =>
                  d.cb[u].nextNode = next /\ d.cb[u].preNode = q.cb[u].preNode
             /\ \A u \in Table : u # t /\ u # pre /\ u = next =>
                  d.cb[u].preNode = pre /\ d.cb[u].nextNode = q.cb[u].nextNode
<1> DEFINE d    == DelSchedTblNode(q, t)
           pre  == q.cb[t].preNode
           next == q.cb[t].nextNode
           new(u) == CASE u = t    -> [q.cb[u] EXCEPT !.preNode = NULL,
                                                      !.nextNode = IF pre = NULL THEN NULL ELSE next]
                       [] u = pre  -> [q.cb[u] EXCEPT !.nextNode = next]
                       [] u = next -> [q.cb[u] EXCEPT !.preNode = pre]
                       [] OTHER    -> q.cb[u]
<1>1. d = [head |-> IF pre = NULL THEN next ELSE q.head, cb |-> [u \in Table |-> new(u)]]
  BY DEF DelSchedTblNode
<1>2. d.head = (IF pre = NULL THEN next ELSE q.head) /\ \A u \in Table : d.cb[u] = new(u)
  <2> HIDE DEF d, new, pre, next
  <2>1. QED BY <1>1
<1>3. /\ q.head \in Table \cup {NULL} /\ \A u \in Table : q.cb[u] \in CB
      /\ pre \in Table \cup {NULL} /\ next \in Table \cup {NULL}
  BY DEF Lists, CB
<1>4. new(t) = [q.cb[t] EXCEPT !.preNode = NULL, !.nextNode = IF pre = NULL THEN NULL ELSE next]
  OBVIOUS
<1>5. ASSUME NEW u \in Table, u # t, u = pre
      PROVE  new(u) = [q.cb[u] EXCEPT !.nextNode = next]
  BY <1>5, TableConstants
<1>6. ASSUME NEW u \in Table, u # t, u # pre, u = next
      PROVE  new(u) = [q.cb[u] EXCEPT !.preNode = pre]
  BY <1>6
<1>7. ASSUME NEW u \in Table, u # t, u # pre, u # next
      PROVE  new(u) = q.cb[u]
  BY <1>7
<1>8. ASSUME NEW u \in Table
      PROVE  new(u) \in CB /\ SameData(new(u), q.cb[u])
  <2>1. q.cb[u] \in CB BY <1>3
  <2> HIDE DEF new, pre, next
  <2>2. CASE u = t BY <1>4, <2>2, <1>3, <2>1 DEF CB, SameData
  <2>3. CASE u # t /\ u = pre BY <1>5, <2>3, <1>3, <2>1 DEF CB, SameData
  <2>4. CASE u # t /\ u # pre /\ u = next BY <1>6, <2>4, <1>3, <2>1 DEF CB, SameData
  <2>5. CASE u # t /\ u # pre /\ u # next BY <1>7, <2>1, <2>5 DEF SameData
  <2>6. QED BY <2>2, <2>3, <2>4, <2>5
<1>9. d \in Lists
  <2>1. [u \in Table |-> new(u)] \in [Table -> CB] BY <1>8
  <2> HIDE DEF new, pre, next, d
  <2>2. QED BY <1>1, <1>3, <2>1 DEF Lists
<1>10. /\ d.cb[t].preNode = NULL
       /\ d.cb[t].nextNode = IF pre = NULL THEN NULL ELSE next
  <2>1. q.cb[t] \in CB /\ d.cb[t] = new(t) BY <1>2, <1>3
  <2> HIDE DEF new, pre, next, d
  <2>2. QED BY <1>4, <2>1 DEF CB
<1>11. ASSUME NEW u \in Table, u # t, u = pre
       PROVE  d.cb[u].nextNode = next /\ d.cb[u].preNode = q.cb[u].preNode
  <2>1. q.cb[u] \in CB /\ d.cb[u] = new(u) BY <1>2, <1>3
  <2> HIDE DEF new, pre, next, d
  <2>2. QED BY <1>5, <1>11, <2>1 DEF CB
<1>12. ASSUME NEW u \in Table, u # t, u # pre, u = next
       PROVE  d.cb[u].preNode = pre /\ d.cb[u].nextNode = q.cb[u].nextNode
  <2>1. q.cb[u] \in CB /\ d.cb[u] = new(u) BY <1>2, <1>3
  <2> HIDE DEF new, pre, next, d
  <2>2. QED BY <1>6, <1>12, <2>1 DEF CB
<1> HIDE DEF new
<1>13. QED BY <1>2, <1>7, <1>8, <1>9, <1>10, <1>11, <1>12

\* A table of the list and its neighbours.
Between(q, L, n, place, t, pre, next) ==
  /\ n >= 1 /\ place[t] \in 0 .. n - 1 /\ t \in Table
  /\ q.head \in L /\ place[q.head] = 0 /\ q.head # NULL
  /\ pre = NULL <=> place[t] = 0
  /\ next = NULL <=> place[t] = n - 1
  /\ pre # NULL => pre \in L /\ place[pre] = place[t] - 1 /\ q.cb[pre].nextNode = t
  /\ next # NULL => next \in L /\ place[next] = place[t] + 1 /\ q.cb[next].preNode = t
  /\ pre # t /\ next # t /\ (pre = next => pre = NULL)
  /\ pre = NULL <=> q.head = t

LEMMA Neighbours ==
  ASSUME NEW q \in Lists, NEW L, NEW n \in Nat, NEW place, Linked(q, L, n, place), NEW t \in L
  PROVE  Between(q, L, n, place, t, q.cb[t].preNode, q.cb[t].nextNode)
<1> DEFINE pre  == q.cb[t].preNode
           next == q.cb[t].nextNode
<1>1. NULL \notin L /\ t \in Table BY TableConstants DEF Linked
<1>2. place[t] \in 0 .. n - 1 /\ n >= 1 /\ \A u \in L : place[u] \in 0 .. n - 1 BY DEF Linked
<1>3. q.head \in L /\ place[q.head] = 0 /\ q.head # NULL BY <1>1, <1>2 DEF Linked
<1>4. IF place[t] = 0 THEN pre = NULL ELSE pre \in L /\ place[pre] = place[t] - 1 BY DEF Linked
<1>5. IF place[t] = n - 1 THEN next = NULL ELSE next \in L /\ place[next] = place[t] + 1
  BY DEF Linked
<1> HIDE DEF pre, next
<1>6. pre # NULL => q.cb[pre].nextNode = t BY <1>2, <1>4 DEF Linked
<1>7. next # NULL => q.cb[next].preNode = t BY <1>2, <1>5 DEF Linked
<1>8. pre # t /\ next # t /\ (pre = next => pre = NULL) BY <1>1, <1>2, <1>4, <1>5
<1>9. pre = NULL <=> q.head = t BY <1>1, <1>4, <1>3 DEF Linked
<1>10. QED BY <1>1, <1>2, <1>3, <1>4, <1>5, <1>6, <1>7, <1>8, <1>9 DEF pre, next, Between

\* Os_DelSchedTblNode takes one table out of the list and leaves the order of the others.
PlacesWithout(place, L, t) ==
  [u \in L \ {t} |-> IF place[u] > place[t] THEN place[u] - 1 ELSE place[u]]

LEMMA DelKeepsLinks ==
  ASSUME NEW q \in Lists, NEW L, NEW n \in Nat, NEW place, Linked(q, L, n, place), NEW t \in L
  PROVE  /\ n - 1 \in Nat
         /\ Linked(DelSchedTblNode(q, t), L \ {t}, n - 1, PlacesWithout(place, L, t))
         /\ \A u, v \in L \ {t} :
              PlacesWithout(place, L, t)[u] < PlacesWithout(place, L, t)[v] => place[u] < place[v]
<1> DEFINE d    == DelSchedTblNode(q, t)
           pre  == q.cb[t].preNode
           next == q.cb[t].nextNode
           new  == [u \in L \ {t} |-> IF place[u] > place[t] THEN place[u] - 1 ELSE place[u]]
<1>1. Between(q, L, n, place, t, pre, next) BY Neighbours
<1>2. /\ d.head = IF pre = NULL THEN next ELSE q.head
      /\ \A u \in Table : u # t /\ u # pre /\ u # next => d.cb[u] = q.cb[u]
      /\ \A u \in Table : u # t /\ u = pre =>
           d.cb[u].nextNode = next /\ d.cb[u].preNode = q.cb[u].preNode
      /\ \A u \in Table : u # t /\ u # pre /\ u = next =>
           d.cb[u].preNode = pre /\ d.cb[u].nextNode = q.cb[u].nextNode
  BY <1>1, DelFields DEF Between
<1> HIDE DEF d, pre, next
<1>3. /\ L \subseteq Table /\ NULL \notin L
      /\ \A u \in L : place[u] \in 0 .. n - 1
      /\ \A u, v \in L : place[u] = place[v] => u = v
      /\ \A u \in L : IF place[u] = n - 1 THEN q.cb[u].nextNode = NULL
                      ELSE q.cb[u].nextNode \in L /\ place[q.cb[u].nextNode] = place[u] + 1
      /\ \A u \in L : IF place[u] = 0 THEN q.cb[u].preNode = NULL
                      ELSE q.cb[u].preNode \in L /\ place[q.cb[u].preNode] = place[u] - 1
  BY TableConstants DEF Linked
<1>4. \A u \in L \ {t} : /\ new[u] = IF place[u] > place[t] THEN place[u] - 1 ELSE place[u]
                         /\ place[u] # place[t]
  BY <1>3
<1>5. new \in [L \ {t} -> 0 .. n - 2] BY <1>1, <1>3, <1>4 DEF Between
<1>6. \A u, v \in L \ {t} : (new[u] < new[v] <=> place[u] < place[v]) /\ (new[u] = new[v] => u = v)
  BY <1>1, <1>3, <1>4 DEF Between
<1> HIDE DEF new
<1>7. IF n - 1 = 0 THEN d.head = NULL ELSE d.head \in L \ {t} /\ new[d.head] = 0
  BY <1>1, <1>2, <1>4 DEF Between
<1>8. ASSUME NEW u \in L \ {t}
      PROVE  IF new[u] = n - 2 THEN d.cb[u].nextNode = NULL
             ELSE d.cb[u].nextNode \in L \ {t} /\ new[d.cb[u].nextNode] = new[u] + 1
  <2>1. u \in Table /\ place[u] \in 0 .. n - 1 /\ place[u] # place[t] /\ u # t
        /\ new[u] = IF place[u] > place[t] THEN place[u] - 1 ELSE place[u]
    BY <1>3, <1>4
  <2>2. CASE u = pre BY <1>1, <1>2, <1>3, <2>1, <2>2, <1>4 DEF Between
  <2>3. CASE u # pre BY <1>2, <2>1, <2>3, <1>1, <1>3, <1>4 DEF Between
  <2>4. QED BY <2>2, <2>3
<1>9. ASSUME NEW u \in L \ {t}
      PROVE  IF new[u] = 0 THEN d.cb[u].preNode = NULL
             ELSE d.cb[u].preNode \in L \ {t} /\ new[d.cb[u].preNode] = new[u] - 1
  <2>1. u \in Table /\ place[u] \in 0 .. n - 1 /\ place[u] # place[t] /\ u # t
        /\ new[u] = IF place[u] > place[t] THEN place[u] - 1 ELSE place[u]
    BY <1>3, <1>4
  <2>2. CASE u = next BY <1>1, <1>3, <2>1, <2>2, <1>2, <1>4 DEF Between
  <2>3. CASE u # next BY <1>2, <2>1, <2>3, <1>1, <1>3, <1>4 DEF Between
  <2>4. QED BY <2>2, <2>3
<1>10. n - 1 \in Nat /\ (n - 1) - 1 = n - 2 BY <1>1 DEF Between
<1>11. Linked(d, L \ {t}, n - 1, new) BY <1>3, <1>5, <1>6, <1>7, <1>8, <1>9, <1>10 DEF Linked
<1>12. QED BY <1>6, <1>10, <1>11 DEF d, new, PlacesWithout

\* w meets the tables of the list at their places, and nothing behind them.
Meets(w, L, n, place) ==
  /\ n <= Cardinality(Table) /\ Cardinality(Table) \in Nat
  /\ w = [k \in 0 .. Cardinality(Table) |-> w[k]]
  /\ \A k \in 0 .. Cardinality(Table) :
       IF k < n THEN w[k] \in L /\ place[w[k]] = k ELSE w[k] = NULL
  /\ \A u \in L : place[u] \in 0 .. n - 1 /\ w[place[u]] = u

LEMMA WalkOfLinked ==
  ASSUME NEW q \in Lists, NEW L, NEW n \in Nat, NEW place, Linked(q, L, n, place)
  PROVE  Meets(WalkTables(q), L, n, place)
<1> DEFINE C == Cardinality(Table)
           w == WalkTables(q)
<1>1. C \in Nat /\ IsFiniteSet(Table) /\ NULL \notin Table BY TablesAreFinite, TableConstants
<1>2. /\ w = [k \in 0 .. C |-> w[k]]
      /\ w[0] = q.head
      /\ \A k \in 0 .. C - 1 : w[k + 1] = IF w[k] = NULL THEN NULL ELSE q.cb[w[k]].nextNode
  BY WalkTablesIs DEF Lists, CB
<1> HIDE DEF C, w
<1>3. /\ L \subseteq Table /\ NULL \notin L
      /\ \A u \in L : place[u] \in 0 .. n - 1
      /\ \A u, v \in L : place[u] = place[v] => u = v
      /\ IF n = 0 THEN q.head = NULL ELSE q.head \in L /\ place[q.head] = 0
      /\ \A u \in L : IF place[u] = n - 1 THEN q.cb[u].nextNode = NULL
                      ELSE q.cb[u].nextNode \in L /\ place[q.cb[u].nextNode] = place[u] + 1
  BY <1>1 DEF Linked
<1> DEFINE At(k) == IF k < n THEN w[k] \in L /\ place[w[k]] = k ELSE w[k] = NULL
           S == {k \in 0 .. C : At(k)}
<1>4. \A k \in 0 .. C : At(k)
  <2>1. 0 \in S BY <1>1, <1>2, <1>3
  <2>2. ASSUME NEW k \in 0 .. C - 1, k \in S
        PROVE  k + 1 \in S
    <3>1. k + 1 \in 0 .. C /\ At(k) BY <1>1, <2>2
    <3>2. w[k + 1] = IF w[k] = NULL THEN NULL ELSE q.cb[w[k]].nextNode BY <1>2
    <3>3. CASE k < n BY <1>3, <3>1, <3>2, <3>3
    <3>4. CASE ~ (k < n) BY <3>1, <3>2, <3>4
    <3>5. QED BY <3>3, <3>4
  <2>3. 0 .. C \subseteq S BY <1>1, <2>1, <2>2, UpTo
  <2>4. QED BY <2>3
<1>5. n <= C
  <2>1. SUFFICES ASSUME n > C
                 PROVE  FALSE
    BY <1>1
  <2> DEFINE f == [k \in 0 .. C |-> w[k]]
  <2>2. \A k \in 0 .. C : f[k] \in Table /\ place[f[k]] = k BY <1>1, <1>3, <1>4, <2>1
  <2>3. f \in Injection(0 .. C, Table)
    <3>1. f \in [0 .. C -> Table] BY <2>2
    <3>2. \A i, j \in 0 .. C : f[i] = f[j] => i = j BY <2>2
    <3> HIDE DEF f
    <3>3. QED BY <3>1, <3>2 DEF Injection, IsInjective
  <2>4. IsFiniteSet(0 .. C) /\ Cardinality(0 .. C) = C + 1 BY <1>1, FS_Interval
  <2>5. Cardinality(0 .. C) <= Cardinality(Table) BY <1>1, <2>3, <2>4, FS_Injection
  <2>6. QED BY <1>1, <2>4, <2>5 DEF C
<1>6. ASSUME NEW u \in L
      PROVE  place[u] \in 0 .. n - 1 /\ w[place[u]] = u
  BY <1>1, <1>3, <1>5, <1>4
<1>7. QED BY <1>1, <1>2, <1>4, <1>5, <1>6 DEF C, w, Meets

\* What Os_InsertSchedTblList does to the links, before the table cur and behind pre.
InsertedAt(q, t, k, pre, cur) ==
  [head |-> IF k = 0 THEN t ELSE q.head,
   cb   |-> [u \in Table |->
               CASE u = t   -> [q.cb[u] EXCEPT !.nextNode = cur, !.preNode = pre]
                 [] u = pre -> [q.cb[u] EXCEPT !.nextNode = t]
                 [] u = cur -> [q.cb[u] EXCEPT !.preNode = t]
                 [] OTHER   -> q.cb[u]]]

IsInserted(d, q, t, k, pre, cur) ==
  /\ d \in Lists
  /\ d.head = IF k = 0 THEN t ELSE q.head
  /\ \A u \in Table : SameData(d.cb[u], q.cb[u])
  /\ d.cb[t].preNode = pre /\ d.cb[t].nextNode = cur
  /\ \A u \in Table : u # t /\ u # pre /\ u # cur => d.cb[u] = q.cb[u]
  /\ \A u \in Table : u # t /\ u = pre =>
       d.cb[u].nextNode = t /\ d.cb[u].preNode = q.cb[u].preNode
  /\ \A u \in Table : u # t /\ u # pre /\ u = cur =>
       d.cb[u].preNode = t /\ d.cb[u].nextNode = q.cb[u].nextNode

\* What Os_InsertSchedTblList writes, table by table.
LEMMA InsertFields ==
  ASSUME NEW q \in Lists, NEW t \in Table, NEW k, NEW pre \in Table \cup {NULL},
         NEW cur \in Table \cup {NULL}, pre # t, cur # t, pre = cur => pre = NULL
  PROVE  IsInserted(InsertedAt(q, t, k, pre, cur), q, t, k, pre, cur)
<1> DEFINE d    == InsertedAt(q, t, k, pre, cur)
           new(u) == CASE u = t   -> [q.cb[u] EXCEPT !.nextNode = cur, !.preNode = pre]
                       [] u = pre -> [q.cb[u] EXCEPT !.nextNode = t]
                       [] u = cur -> [q.cb[u] EXCEPT !.preNode = t]
                       [] OTHER   -> q.cb[u]
<1>1. d = [head |-> IF k = 0 THEN t ELSE q.head, cb |-> [u \in Table |-> new(u)]] BY DEF InsertedAt
<1>2. d.head = (IF k = 0 THEN t ELSE q.head) /\ \A u \in Table : d.cb[u] = new(u)
  <2> HIDE DEF d, new
  <2>1. QED BY <1>1
<1>3. q.head \in Table \cup {NULL} /\ \A u \in Table : q.cb[u] \in CB BY DEF Lists, CB
<1>4. new(t) = [q.cb[t] EXCEPT !.nextNode = cur, !.preNode = pre] OBVIOUS
<1>5. ASSUME NEW u \in Table, u # t, u = pre
      PROVE  new(u) = [q.cb[u] EXCEPT !.nextNode = t]
  BY <1>5, TableConstants
<1>6. ASSUME NEW u \in Table, u # t, u # pre, u = cur
      PROVE  new(u) = [q.cb[u] EXCEPT !.preNode = t]
  BY <1>6
<1>7. ASSUME NEW u \in Table, u # t, u # pre, u # cur
      PROVE  new(u) = q.cb[u]
  BY <1>7
<1>8. ASSUME NEW u \in Table
      PROVE  new(u) \in CB /\ SameData(new(u), q.cb[u])
  <2>1. q.cb[u] \in CB BY <1>3
  <2> HIDE DEF new
  <2>2. CASE u = t BY <1>4, <2>2, <2>1 DEF CB, SameData
  <2>3. CASE u # t /\ u = pre BY <1>5, <2>3, <2>1 DEF CB, SameData
  <2>4. CASE u # t /\ u # pre /\ u = cur BY <1>6, <2>4, <2>1 DEF CB, SameData
  <2>5. CASE u # t /\ u # pre /\ u # cur BY <1>7, <2>1, <2>5 DEF SameData
  <2>6. QED BY <2>2, <2>3, <2>4, <2>5
<1>9. d \in Lists
  <2>1. [u \in Table |-> new(u)] \in [Table -> CB] BY <1>8
  <2> HIDE DEF new, d
  <2>2. QED BY <1>1, <1>3, <2>1 DEF Lists
<1>10. d.cb[t].preNode = pre /\ d.cb[t].nextNode = cur
  <2>1. q.cb[t] \in CB /\ d.cb[t] = new(t) BY <1>2, <1>3
  <2> HIDE DEF new, d
  <2>2. QED BY <1>4, <2>1 DEF CB
<1>11. ASSUME NEW u \in Table, u # t, u = pre
       PROVE  d.cb[u].nextNode = t /\ d.cb[u].preNode = q.cb[u].preNode
  <2>1. q.cb[u] \in CB /\ d.cb[u] = new(u) BY <1>2, <1>3
  <2> HIDE DEF new, d
  <2>2. QED BY <1>5, <1>11, <2>1 DEF CB
<1>12. ASSUME NEW u \in Table, u # t, u # pre, u = cur
       PROVE  d.cb[u].preNode = t /\ d.cb[u].nextNode = q.cb[u].nextNode
  <2>1. q.cb[u] \in CB /\ d.cb[u] = new(u) BY <1>2, <1>3
  <2> HIDE DEF new, d
  <2>2. QED BY <1>6, <1>12, <2>1 DEF CB
<1> HIDE DEF new, d
<1>13. QED BY <1>2, <1>7, <1>8, <1>9, <1>10, <1>11, <1>12 DEF IsInserted, d

\* Inserting a table between its neighbours moves those behind it on by one place.
PlacesWith(place, L, t, k) ==
  [u \in L \cup {t} |-> IF u = t THEN k ELSE IF place[u] >= k THEN place[u] + 1 ELSE place[u]]

LEMMA InsertKeepsLinks ==
  ASSUME NEW q \in Lists, NEW L, NEW n \in Nat, NEW place, Linked(q, L, n, place),
         NEW t \in Table \ L, NEW k \in 0 .. n, NEW pre, NEW cur,
         IF k = 0 THEN pre = NULL ELSE pre \in L /\ place[pre] = k - 1,
         IF k = n THEN cur = NULL ELSE cur \in L /\ place[cur] = k
  PROVE  Linked(InsertedAt(q, t, k, pre, cur), L \cup {t}, n + 1, PlacesWith(place, L, t, k))
<1> DEFINE d   == InsertedAt(q, t, k, pre, cur)
           M   == L \cup {t}
           new == [u \in M |-> IF u = t THEN k ELSE IF place[u] >= k THEN place[u] + 1 ELSE place[u]]
<1>1. /\ L \subseteq Table /\ NULL \notin L /\ t \in Table /\ t \notin L
      /\ \A u \in L : place[u] \in 0 .. n - 1
      /\ \A u, v \in L : place[u] = place[v] => u = v
      /\ IF n = 0 THEN q.head = NULL ELSE q.head \in L /\ place[q.head] = 0
      /\ \A u \in L : IF place[u] = n - 1 THEN q.cb[u].nextNode = NULL
                      ELSE q.cb[u].nextNode \in L /\ place[q.cb[u].nextNode] = place[u] + 1
      /\ \A u \in L : IF place[u] = 0 THEN q.cb[u].preNode = NULL
                      ELSE q.cb[u].preNode \in L /\ place[q.cb[u].preNode] = place[u] - 1
  BY TableConstants DEF Linked
<1>2. /\ pre \in Table \cup {NULL} /\ cur \in Table \cup {NULL} /\ pre # t /\ cur # t
      /\ pre = cur => pre = NULL
  <2>1. NULL # t BY TableConstants
  <2>2. QED BY <1>1, <2>1
<1>3. IsInserted(d, q, t, k, pre, cur) BY <1>2, InsertFields
<1> HIDE DEF d
<1>4. new[t] = k /\ \A u \in L : new[u] = IF place[u] >= k THEN place[u] + 1 ELSE place[u]
  <2>1. t \in M /\ \A u \in L : u \in M /\ u # t BY <1>1
  <2>2. \A u \in M : new[u] = IF u = t THEN k ELSE IF place[u] >= k THEN place[u] + 1 ELSE place[u]
    OBVIOUS
  <2> HIDE DEF new, M
  <2>3. QED BY <2>1, <2>2
<1>5. new \in [M -> 0 .. (n + 1) - 1] BY <1>1, <1>4
<1> HIDE DEF new
<1>6. \A u, v \in M : new[u] = new[v] => u = v BY <1>1, <1>4
<1>7. d.head \in M /\ new[d.head] = 0 BY <1>3, <1>4, <1>1 DEF IsInserted
<1>8. ASSUME NEW u \in M
      PROVE  IF new[u] = n THEN d.cb[u].nextNode = NULL
             ELSE d.cb[u].nextNode \in M /\ new[d.cb[u].nextNode] = new[u] + 1
  BY <1>3, <1>4, <1>1 DEF IsInserted
<1>9. ASSUME NEW u \in M
      PROVE  IF new[u] = 0 THEN d.cb[u].preNode = NULL
             ELSE d.cb[u].preNode \in M /\ new[d.cb[u].preNode] = new[u] - 1
  BY <1>3, <1>4, <1>1, <1>2 DEF IsInserted
<1>10. M \subseteq Table /\ (n + 1) - 1 = n /\ n + 1 # 0 BY <1>1
<1> HIDE DEF M
<1>11. Linked(d, M, n + 1, new) BY <1>5, <1>6, <1>7, <1>8, <1>9, <1>10 DEF Linked
<1>12. QED BY <1>11 DEF d, M, new, PlacesWith

\* The counter's value is the one the list is sorted from or the next.
ClockOK ==
  /\ CounterCurVal \in Ticks /\ CounterLastVal \in Ticks
  /\ CounterCurVal = CounterLastVal \/ CounterCurVal = CalcAbsTicks(CounterLastVal, 1)

\* The test of Os_InsertSchedTblList compares what lies ahead.
LEMMA LaterIs ==
  ASSUME ClockOK, NEW x \in Ticks, NEW y \in Ticks,
         TicksTo(x) <= Round - 2, TicksTo(y) <= Round - 2
  PROVE  GetDistance(CounterLastVal, x) > GetDistance(CounterLastVal, y) <=> TicksTo(x) > TicksTo(y)
<1>1. /\ CounterCurVal \in Ticks /\ CounterLastVal \in Ticks /\ Round \in Nat
      /\ \A z \in Ticks : /\ GetDistance(CounterLastVal, z) \in 0 .. Round - 1
                          /\ GetDistance(CounterCurVal, z) \in 0 .. Round - 1
  BY DistanceIs, TicksAre DEF ClockOK
<1>2. CASE CounterCurVal = CounterLastVal BY <1>1, <1>2 DEF TicksTo
<1>3. CASE CounterCurVal = CalcAbsTicks(CounterLastVal, 1) BY <1>1, <1>3, OneOn DEF TicksTo
<1>4. QED BY <1>2, <1>3 DEF ClockOK

\* d is q with other links, and only between the tables of L.
Relinked(d, q, L) ==
  /\ d \in Lists
  /\ \A u \in Table : SameData(d.cb[u], q.cb[u])
  /\ \A u \in Table \ L : d.cb[u] = q.cb[u]

\* Os_InsertSchedTblNode puts a table that is in no list at its place in the order.
LEMMA InsertsTableInOrder ==
  ASSUME ClockOK, NEW q \in Lists, NEW L, Threads(CounterCurVal, q, L, L), NEW t \in Table \ L,
         q.cb[t].nextNode = NULL, q.cb[t].preNode = NULL,
         \A u \in L \cup {t} : Ahead(CounterCurVal, q, u) <= Round - 2
  PROVE  /\ Relinked(InsertSchedTblNode(q, t), q, L \cup {t})
         /\ Threads(CounterCurVal, InsertSchedTblNode(q, t), L \cup {t}, L \cup {t})
<1> DEFINE d == InsertSchedTblNode(q, t)
           C == Cardinality(Table)
           w == WalkTables(q)
<1>0. PICK n \in Nat : \E place : Linked(q, L, n, place) /\ OrderedOn(CounterCurVal, q, L, place)
  BY DEF Threads
<1>1. PICK place : Linked(q, L, n, place) /\ OrderedOn(CounterCurVal, q, L, place) BY <1>0
<1>2. /\ L \subseteq Table /\ NULL \notin L /\ NULL \notin Table /\ t \in Table /\ t \notin L
      /\ IF n = 0 THEN q.head = NULL ELSE q.head \in L /\ place[q.head] = 0
      /\ \A u \in L : place[u] \in 0 .. n - 1
      /\ \A u, v \in L : place[u] = place[v] => u = v
  BY <1>1, TableConstants DEF Linked
<1>3. \A u \in Table : Ahead(CounterCurVal, q, u) \in 0 .. Round - 1 /\ q.cb[u].nextEpAbsTick \in Ticks
  BY AheadIs DEF ClockOK, Lists, CB
<1>4. CASE q.head = NULL
  <2>1. n = 0 /\ L = {} BY <1>2, <1>4
  <2>2. d = [q EXCEPT !.head = t] BY <1>4 DEF InsertSchedTblNode
  <2>3. d \in Lists /\ d.head = t /\ d.cb = q.cb BY <1>2, <2>2 DEF Lists
  <2> HIDE DEF d
  <2> DEFINE one == [u \in {t} |-> 0]
  <2>4. Linked(d, {t}, 1, one)
    <3>1. one \in [{t} -> 0 .. 1 - 1] /\ one[t] = 0 OBVIOUS
    <3> HIDE DEF one
    <3>2. QED BY <1>2, <2>3, <3>1 DEF Linked
  <2>5. OrderedOn(CounterCurVal, d, {t}, one) BY DEF OrderedOn
  <2> HIDE DEF one
  <2>6. Threads(CounterCurVal, d, {t}, {t}) BY <2>4, <2>5 DEF Threads
  <2>7. L \cup {t} = {t} BY <2>1
  <2>8. QED BY <2>3, <2>6, <2>7 DEF SameData, d, Relinked
<1>5. CASE q.head # NULL
  <2> DEFINE later(u) == GetDistance(CounterLastVal, q.cb[u].nextEpAbsTick)
                         > GetDistance(CounterLastVal, q.cb[t].nextEpAbsTick)
             T   == {m \in DOMAIN w : w[m] = NULL \/ later(w[m])}
             k   == Min(T)
             cur == w[k]
             pre == IF k = 0 THEN NULL ELSE w[k - 1]
  <2>1. d = InsertedAt(q, t, k, pre, cur)
    BY <1>5 DEF InsertSchedTblNode, InsertSchedTblList, InsertedAt
  <2>2. /\ n <= C /\ C \in Nat
        /\ w = [m \in 0 .. C |-> w[m]]
        /\ \A m \in 0 .. C : IF m < n THEN w[m] \in L /\ place[w[m]] = m ELSE w[m] = NULL
        /\ \A u \in L : place[u] \in 0 .. n - 1 /\ w[place[u]] = u
    <3>1. Meets(w, L, n, place) BY <1>1, WalkOfLinked
    <3> HIDE DEF w
    <3>2. QED BY <3>1 DEF Meets
  <2> HIDE DEF w, C
  <2>3. \A u \in L : later(u) <=> Ahead(CounterCurVal, q, u) > Ahead(CounterCurVal, q, t)
    BY <1>2, <1>3, LaterIs DEF Ahead, TicksTo
  <2> HIDE DEF later
  <2>4. DOMAIN w = 0 .. C BY <2>2
  <2>5. n \in T BY <2>2, <2>4
  <2>6. k \in T /\ \A m \in T : k <= m
    <3>1. T \in SUBSET (0 .. C) /\ T # {} BY <2>4, <2>5
    <3> HIDE DEF T
    <3>2. QED BY <2>2, <3>1, MinIs
  <2>7. k \in 0 .. n /\ (w[k] = NULL \/ later(w[k])) /\ \A m \in 0 .. C : m < k => w[m] # NULL /\ ~ later(w[m])
    <3>1. k \in 0 .. C /\ k <= n /\ (w[k] = NULL \/ later(w[k])) BY <2>4, <2>5, <2>6
    <3>2. ASSUME NEW m \in 0 .. C, m < k
          PROVE  w[m] # NULL /\ ~ later(w[m])
      <4>1. m \notin T
        <5> HIDE DEF T, k
        <5>1. QED BY <2>2, <2>6, <3>1, <3>2
      <4>2. QED BY <2>4, <4>1
    <3> HIDE DEF T, k
    <3>3. k \in 0 .. n BY <3>1
    <3>4. QED BY <3>1, <3>2, <3>3
  <2> HIDE DEF T, k
  <2>8. /\ IF k = 0 THEN pre = NULL ELSE pre \in L /\ place[pre] = k - 1
        /\ IF k = n THEN cur = NULL ELSE cur \in L /\ place[cur] = k
    BY <2>2, <2>7
  <2> HIDE DEF pre, cur, d
  <2> DEFINE new == PlacesWith(place, L, t, k)
  <2>9. Linked(d, L \cup {t}, n + 1, new) BY <1>1, <2>1, <2>7, <2>8, InsertKeepsLinks
  <2>10. IsInserted(d, q, t, k, pre, cur) BY <1>2, <2>7, <2>8, <2>1, InsertFields
  <2>11. \A u \in L \cup {t} : new[u] = IF u = t THEN k
                                        ELSE IF place[u] >= k THEN place[u] + 1 ELSE place[u]
    BY DEF PlacesWith
  <2> HIDE DEF new
  <2>12. \A u \in L : /\ place[u] < k => Ahead(CounterCurVal, q, u) <= Ahead(CounterCurVal, q, t)
                      /\ place[u] >= k => Ahead(CounterCurVal, q, u) >= Ahead(CounterCurVal, q, t)
    <3>1. SUFFICES ASSUME NEW u \in L
                   PROVE  /\ place[u] < k => Ahead(CounterCurVal, q, u) <= Ahead(CounterCurVal, q, t)
                          /\ place[u] >= k => Ahead(CounterCurVal, q, u) >= Ahead(CounterCurVal, q, t)
      OBVIOUS
    <3>2. /\ u \in Table /\ place[u] \in 0 .. n - 1 /\ place[u] \in 0 .. C /\ w[place[u]] = u
          /\ Ahead(CounterCurVal, q, u) \in Nat /\ Ahead(CounterCurVal, q, t) \in Nat
      BY <1>2, <1>3, <2>2
    <3>3. CASE place[u] < k BY <2>7, <3>2, <3>3, <2>3
    <3>4. CASE place[u] >= k
      <4>1. k < n /\ k \in 0 .. C BY <2>2, <2>7, <3>2, <3>4
      <4>2. w[k] \in L /\ place[w[k]] = k /\ w[k] \in Table /\ Ahead(CounterCurVal, q, w[k]) \in Nat
        BY <1>2, <1>3, <2>2, <4>1
      <4>3. Ahead(CounterCurVal, q, w[k]) > Ahead(CounterCurVal, q, t) BY <1>2, <2>3, <2>7, <4>2
      <4>4. Ahead(CounterCurVal, q, w[k]) <= Ahead(CounterCurVal, q, u)
        BY <1>2, <3>2, <4>2, <1>1, <2>7, <3>4 DEF OrderedOn
      <4>5. QED BY <2>7, <3>2, <3>4, <4>2, <4>3, <4>4
    <3>5. QED BY <2>7, <3>2, <3>3, <3>4
  <2>13. \A u \in Table : Ahead(CounterCurVal, d, u) = Ahead(CounterCurVal, q, u)
    BY <2>10, SameAhead DEF IsInserted
  <2>14. OrderedOn(CounterCurVal, d, L \cup {t}, new)
    BY <1>2, <2>13, <2>7, <2>11, <1>3, <2>12, <1>1 DEF OrderedOn
  <2>15. Threads(CounterCurVal, d, L \cup {t}, L \cup {t}) BY <2>9, <2>14 DEF Threads
  <2>16. \A u \in Table \ (L \cup {t}) : d.cb[u] = q.cb[u] BY <1>2, <2>7, <2>8, <2>10 DEF IsInserted
  <2>17. QED BY <2>10, <2>15, <2>16 DEF IsInserted, d, Relinked
<1>6. QED BY <1>4, <1>5

\* Offsets and delays of expiry points are natural numbers.
LEMMA OffsetsAre ==
  ASSUME NEW t \in Table
  PROVE  /\ LastEP(t) \in Nat /\ Duration[t] \in Nat /\ FinalDelay(t) \in Nat
         /\ \A n \in 0 .. LastEP(t) : Offset(t, n) \in Nat
         /\ \A n \in 0 .. LastEP(t) : GetEpDelay(t, n) \in Nat
<1>1. EPOffset[t] \in Seq(Nat) /\ EPOffset[t] # <<>> /\ Duration[t] \in Nat /\ FinalDelay(t) \in Nat
      /\ \A n \in 0 .. LastEP(t) - 1 : GetEpDelay(t, n) \in 1 .. MaxAllowedValue
  BY TableConstants
<1>2. Len(EPOffset[t]) \in Nat /\ Len(EPOffset[t]) # 0 BY <1>1, EmptySeq
<1>3. LastEP(t) \in Nat BY <1>2 DEF LastEP
<1>4. \A n \in 0 .. LastEP(t) : Offset(t, n) \in Nat BY <1>2, <1>1 DEF LastEP, Offset
<1>5. \A n \in 0 .. LastEP(t) : GetEpDelay(t, n) \in Nat
  <2>1. SUFFICES ASSUME NEW n \in 0 .. LastEP(t)
                 PROVE  GetEpDelay(t, n) \in Nat
    OBVIOUS
  <2>2. CASE n = LastEP(t) BY <1>3, <2>2, <1>1, <1>4 DEF GetEpDelay
  <2>3. CASE n # LastEP(t) BY <1>3, <2>3, <1>1, TicksAre
  <2>4. QED BY <2>2, <2>3
<1>6. QED BY <1>1, <1>3, <1>4, <1>5

\* Os_InitSchedTblCB leaves a control block.
LEMMA FreshIs ==
  ASSUME NEW t \in Table
  PROVE  FreshCB(t) \in CB
BY OffsetsAre, TicksAre DEF Round, FreshCB, CB

\* Os_DelSchedTblNode and the order of the tables that stay.
LEMMA DelKeepsThreads ==
  ASSUME NEW q \in Lists, NEW L, NEW M \in SUBSET L, Threads(CounterCurVal, q, L, M), NEW t \in L
  PROVE  /\ Relinked(DelSchedTblNode(q, t), q, L)
         /\ Threads(CounterCurVal, DelSchedTblNode(q, t), L \ {t}, M \ {t})
         /\ DelSchedTblNode(q, t).cb[t].preNode = NULL
         /\ q.head = t => DelSchedTblNode(q, t).cb[t].nextNode = NULL
<1> DEFINE d    == DelSchedTblNode(q, t)
           pre  == q.cb[t].preNode
           next == q.cb[t].nextNode
<1>0. PICK n \in Nat : \E place : Linked(q, L, n, place) /\ OrderedOn(CounterCurVal, q, M, place)
  BY DEF Threads
<1>1. PICK place : Linked(q, L, n, place) /\ OrderedOn(CounterCurVal, q, M, place) BY <1>0
<1>2. Between(q, L, n, place, t, pre, next) /\ L \subseteq Table /\ NULL \notin L
  BY <1>1, Neighbours, TableConstants DEF Linked
<1>3. t \in Table /\ q.head # NULL /\ pre # t /\ next # t /\ (pre = next => pre = NULL)
  BY <1>2 DEF Between
<1>4. /\ d \in Lists
      /\ \A u \in Table : SameData(d.cb[u], q.cb[u])
      /\ d.cb[t].preNode = NULL
      /\ d.cb[t].nextNode = IF pre = NULL THEN NULL ELSE next
      /\ \A u \in Table : u # t /\ u # pre /\ u # next => d.cb[u] = q.cb[u]
  BY <1>3, DelFields
<1> HIDE DEF d, pre, next
<1>5. \A u \in Table \ L : d.cb[u] = q.cb[u] BY <1>2, TableConstants, <1>4 DEF Between
<1>6. q.head = t => d.cb[t].nextNode = NULL BY <1>2, <1>4 DEF Between
<1> DEFINE new == PlacesWithout(place, L, t)
<1>7. n - 1 \in Nat /\ Linked(d, L \ {t}, n - 1, new)
      /\ \A u, v \in L \ {t} : new[u] < new[v] => place[u] < place[v]
  BY <1>1, DelKeepsLinks DEF d
<1> HIDE DEF new
<1>8. OrderedOn(CounterCurVal, d, M \ {t}, new) BY <1>2, <1>4, SameAhead, <1>7, <1>1 DEF OrderedOn
<1>9. Threads(CounterCurVal, d, L \ {t}, M \ {t}) BY <1>7, <1>8 DEF Threads
<1>10. QED BY <1>4, <1>5, <1>6, <1>9 DEF d, Relinked

\* A table that is stopped leaves the list, and its control block is as at startup.
Removed(d, q, L, t) ==
  /\ d \in Lists
  /\ d.cb[t] = FreshCB(t)
  /\ \A u \in Table \ {t} : SameData(d.cb[u], q.cb[u])
  /\ \A u \in Table \ L : d.cb[u] = q.cb[u]

LEMMA RemoveIs ==
  ASSUME NEW q \in Lists, NEW L, NEW M \in SUBSET L, Threads(CounterCurVal, q, L, M), NEW t \in L
  PROVE  Removed(Remove(q, t), q, L, t) /\ Threads(CounterCurVal, Remove(q, t), L \ {t}, M \ {t})
<1> DEFINE p == DelSchedTblNode(q, t)
           d == Remove(q, t)
<1>1. Relinked(p, q, L) /\ Threads(CounterCurVal, p, L \ {t}, M \ {t}) BY DelKeepsThreads
<1>2. t \in Table /\ L \subseteq Table BY DEF Threads, Linked
<1>3. d = [p EXCEPT !.cb[t] = FreshCB(t)] BY DEF Remove, InitSchedTblCB
<1> HIDE DEF p, d
<1>4. d \in Lists /\ d.head = p.head /\ d.cb[t] = FreshCB(t) /\ \A u \in Table \ {t} : d.cb[u] = p.cb[u]
  BY <1>1, <1>2, <1>3, FreshIs DEF Lists, Relinked
<1>5. Threads(CounterCurVal, d, L \ {t}, M \ {t}) BY <1>2, <1>4, <1>1, SameThreads DEF Ahead
<1>6. \A u \in Table \ {t} : SameData(d.cb[u], q.cb[u]) BY <1>1, <1>4 DEF SameData, Relinked
<1>7. \A u \in Table \ L : d.cb[u] = q.cb[u] BY <1>1, <1>2, <1>4 DEF Relinked
<1>8. QED BY <1>4, <1>5, <1>6, <1>7 DEF d, Removed

\* The head of the list, with a later expiry point, comes to its place in the order.
LEMMA ReinsertIs ==
  ASSUME ClockOK, NEW q \in Lists, NEW L, NEW t \in L, q.head = t, Threads(CounterCurVal, q, L, L \ {t}),
         \A u \in L : Ahead(CounterCurVal, q, u) <= Round - 2
  PROVE  Relinked(Reinsert(q, t), q, L) /\ Threads(CounterCurVal, Reinsert(q, t), L, L)
<1> DEFINE p == DelSchedTblNode(q, t)
           d == Reinsert(q, t)
           K == L \ {t}
<1>1. /\ Relinked(p, q, L) /\ Threads(CounterCurVal, p, K, K \ {t})
      /\ p.cb[t].preNode = NULL /\ p.cb[t].nextNode = NULL
  BY DelKeepsThreads
<1>2. t \in Table /\ L \subseteq Table BY DEF Threads, Linked
<1>3. K \ {t} = K /\ K \cup {t} = L /\ t \in Table \ K BY <1>2
<1>4. d = InsertSchedTblNode(p, t) BY DEF Reinsert
<1>5. \A u \in K \cup {t} : Ahead(CounterCurVal, p, u) <= Round - 2
  BY <1>1, <1>2, <1>3, SameAhead DEF Relinked
<1> HIDE DEF p, d, K
<1>6. Relinked(d, p, L) /\ Threads(CounterCurVal, d, L, L)
  <2>1. p \in Lists /\ Threads(CounterCurVal, p, K, K) BY <1>1, <1>3 DEF Relinked
  <2>2. Relinked(d, p, K \cup {t}) /\ Threads(CounterCurVal, d, K \cup {t}, K \cup {t})
    BY <1>1, <1>3, <1>4, <1>5, <2>1, InsertsTableInOrder
  <2>3. QED BY <1>3, <2>2
<1>7. \A u \in Table : SameData(d.cb[u], q.cb[u]) BY <1>1, <1>6 DEF SameData, Relinked
<1>8. \A u \in Table \ L : d.cb[u] = q.cb[u] BY <1>1, <1>6 DEF Relinked
<1>9. QED BY <1>6, <1>7, <1>8 DEF d, Relinked

LEMMA TableSumIs ==
  ASSUME TableSumsFit, NEW x \in Ticks, NEW d \in 0 .. MaxAllowedValue
  PROVE  CalcAbsTicks(x, d) \in Ticks /\ GetDistance(x, CalcAbsTicks(x, d)) = d
<1>1. /\ x \in 0 .. Round - 1 /\ Round = 2 * MaxAllowedValue + 2 /\ Round \in Nat /\ MaxAllowedValue \in Nat
      /\ 2 ^ TickBits \in Nat
  BY TicksAre DEF Round
<1>2. 3 * MaxAllowedValue + 1 < 2 ^ TickBits \/ Round = 2 ^ TickBits BY <1>1 DEF TableSumsFit
<1>3. d \in 0 .. Round - 1 /\ (x + d < 2 ^ TickBits \/ Round = 2 ^ TickBits) BY <1>1, <1>2
<1>4. QED BY <1>3, SumIs

\* The expiry points of a table come one after the other, within its duration.
LEMMA OffsetsRise ==
  ASSUME NEW t \in Table, NEW m \in 0 .. LastEP(t), NEW n \in m .. LastEP(t)
  PROVE  Offset(t, m) <= Offset(t, n) /\ Offset(t, n) <= Duration[t]
<1>1. /\ LastEP(t) \in Nat /\ Duration[t] \in Nat /\ FinalDelay(t) \in Nat
      /\ \A k \in 0 .. LastEP(t) : Offset(t, k) \in Nat
  BY OffsetsAre
<1>2. ASSUME NEW i \in 0 .. LastEP(t), NEW j \in i .. LastEP(t)
      PROVE  Offset(t, i) <= Offset(t, j)
  <2> DEFINE S == {k \in 0 .. LastEP(t) - i : Offset(t, i) <= Offset(t, i + k)}
  <2>1. 0 \in S BY <1>1
  <2>2. ASSUME NEW k \in 0 .. (LastEP(t) - i) - 1, k \in S
        PROVE  k + 1 \in S
    <3>1. i + k \in 0 .. LastEP(t) - 1 /\ i + k \in 0 .. LastEP(t) /\ (i + k) + 1 \in 0 .. LastEP(t)
          /\ (i + k) + 1 = i + (k + 1) /\ k + 1 \in 0 .. LastEP(t) - i
      BY <1>1
    <3>2. GetEpDelay(t, i + k) \in Nat
      <4>1. GetEpDelay(t, i + k) \in 1 .. MaxAllowedValue BY <3>1, TableConstants
      <4>2. QED BY <4>1, TicksAre
    <3>3. GetEpDelay(t, i + k) = Offset(t, i + (k + 1)) - Offset(t, i + k)
      BY <1>1, <3>1 DEF GetEpDelay
    <3>4. Offset(t, i) \in Nat /\ Offset(t, i + k) \in Nat /\ Offset(t, i + (k + 1)) \in Nat
      BY <1>1, <3>1
    <3>5. Offset(t, i) <= Offset(t, i + k) BY <2>2
    <3>6. Offset(t, i) <= Offset(t, i + (k + 1))
      <4> HIDE DEF S
      <4>1. QED BY <3>2, <3>3, <3>4, <3>5
    <3>7. QED BY <3>1, <3>6
  <2> HIDE DEF S
  <2>3. 0 .. LastEP(t) - i \subseteq S BY <1>1, <2>1, <2>2, UpTo
  <2>4. j - i \in 0 .. LastEP(t) - i /\ i + (j - i) = j BY <1>1
  <2>5. QED BY <2>3, <2>4 DEF S
<1>3. Offset(t, n) <= Offset(t, LastEP(t)) BY <1>1, <1>2
<1>4. Offset(t, LastEP(t)) <= Duration[t] BY <1>1 DEF FinalDelay
<1>5. QED BY <1>1, <1>2, <1>3, <1>4

-----------------------------------------------------------------------------
(* The invariant of the control blocks *)

\* The tables in the list, and those that can have a follower
Started(q) == {t \in Table : q.cb[t].state # "STOPPED"}
Chained(t) == \E u \in Table : <<t, u>> \in Chains

\* A table that is stopped is as at startup; one that is started has its next expiry point
\* ahead, and the first of a chain at its offset from where it started.
CellOK(cur, q, t) ==
  /\ q.cb[t].state = "STOPPED" => q.cb[t] = FreshCB(t)
  /\ q.cb[t].epId \in 0 .. LastEP(t) /\ q.cb[t].nextEP = q.cb[t].epId
  /\ q.cb[t].delay = GetEpDelay(t, q.cb[t].epId)
  /\ q.cb[t].state = "NEXT" =>
       /\ q.cb[t].epId = 0 /\ q.cb[t].prevTbl \in Table
       /\ q.cb[q.cb[t].prevTbl].nextTbl = t
  /\ q.cb[t].state = "RUNNING" => Ahead(cur, q, t) <= MaxAllowedValue + 1
  /\ q.cb[t].state # "STOPPED" /\ Chained(t) =>
       GetDistance(q.cb[t].startAbsTick, q.cb[t].nextEpAbsTick) = Offset(t, q.cb[t].epId)

\* The follower of a table starts at its end.
FollowerOK(cur, q, f, t) ==
  q.cb[f].nextTbl = t =>
    /\ q.cb[f].state = "RUNNING" /\ <<f, t>> \in Chains
    /\ q.cb[t].state = "NEXT" /\ q.cb[t].prevTbl = f
    /\ Ahead(cur, q, t) = Ahead(cur, q, f) + Duration[f] - Offset(f, q.cb[f].epId) + Offset(t, 0)

TablesOK(cur, q) ==
  /\ q \in Lists
  /\ Threads(cur, q, Started(q), Started(q))
  /\ \A t \in Table : CellOK(cur, q, t)
  /\ \A f, t \in Table : FollowerOK(cur, q, f, t)

LEMMA ChainsAre ==
  ASSUME NEW f \in Table, NEW t \in Table, <<f, t>> \in Chains
  PROVE  /\ f \notin Repeating /\ f # t
         /\ Offset(f, 0) \in Nat /\ Offset(t, 0) \in 0 .. MaxAllowedValue
         /\ Offset(f, 0) <= MaxAllowedValue /\ MaxAllowedValue \in Nat
         /\ FinalDelay(f) + Offset(t, 0) \in 1 .. MaxAllowedValue
         /\ Duration[f] - Offset(f, 0) + Offset(t, 0) < MaxAllowedValue
         /\ Duration[f] \in 0 .. 2 * MaxAllowedValue - 1
<1>1. /\ 0 \in 0 .. LastEP(f) /\ 0 \in 0 .. LastEP(t) /\ Duration[f] \in Nat
      /\ Offset(f, 0) \in Nat /\ Offset(t, 0) \in Nat
  BY OffsetsAre
<1>2. /\ f \notin Repeating /\ f # t
      /\ Offset(f, 0) <= MaxAllowedValue /\ Offset(t, 0) <= MaxAllowedValue
      /\ FinalDelay(f) + Offset(t, 0) \in 1 .. MaxAllowedValue
      /\ Duration[f] - Offset(f, 0) + Offset(t, 0) < MaxAllowedValue
  BY TableConstants
<1>3. QED BY <1>1, <1>2, TicksAre

\* No table is so far ahead that the counter takes it for passed before it is due.
LEMMA StartedAhead ==
  ASSUME NEW cur \in Ticks, NEW q, TablesOK(cur, q), NEW t \in Started(q)
  PROVE  Ahead(cur, q, t) \in 0 .. Round - 2
<1>1. t \in Table /\ q \in Lists /\ q.cb[t].state \in {"NEXT", "RUNNING"}
  BY DEF Started, TablesOK, Lists, CB
<1>2. /\ Ahead(cur, q, t) \in 0 .. Round - 1 /\ Round = 2 * MaxAllowedValue + 2
      /\ MaxAllowedValue \in Nat /\ MaxAllowedValue >= 1
  BY <1>1, AheadIs, TicksAre DEF Round
<1>3. CASE q.cb[t].state = "RUNNING" BY <1>1, <1>3, <1>2 DEF TablesOK, CellOK
<1>4. CASE q.cb[t].state = "NEXT"
  <2> DEFINE f == q.cb[t].prevTbl
             ep == q.cb[f].epId
  <2>1. f \in Table /\ q.cb[f].nextTbl = t BY <1>1, <1>4 DEF TablesOK, CellOK
  <2> HIDE DEF f
  <2>2. /\ q.cb[f].state = "RUNNING" /\ <<f, t>> \in Chains
        /\ Ahead(cur, q, t) = Ahead(cur, q, f) + Duration[f] - Offset(f, ep) + Offset(t, 0)
    BY <1>1, <2>1 DEF TablesOK, FollowerOK
  <2>3. Ahead(cur, q, f) <= MaxAllowedValue + 1 /\ ep \in 0 .. LastEP(f)
    BY <1>1, <2>1, <2>2 DEF TablesOK, CellOK
  <2>4. Ahead(cur, q, f) \in 0 .. Round - 1 BY <1>1, <2>1, AheadIs
  <2>5. /\ Offset(f, 0) \in Nat /\ Offset(t, 0) \in Nat /\ Duration[f] \in Nat
        /\ Duration[f] - Offset(f, 0) + Offset(t, 0) < MaxAllowedValue
    BY <1>1, <2>1, <2>2, ChainsAre
  <2>6. Offset(f, ep) \in Nat /\ LastEP(f) \in Nat BY <2>1, <2>3, OffsetsAre
  <2> HIDE DEF ep
  <2>7. Offset(f, 0) <= Offset(f, ep) BY <2>1, <2>3, <2>6, OffsetsRise
  <2>8. QED BY <1>2, <2>2, <2>3, <2>4, <2>5, <2>6, <2>7
<1>5. QED BY <1>1, <1>3, <1>4

\* What only the links and the data of other tables change stays right.
LEMMA CellStays ==
  ASSUME NEW cur, NEW q, NEW d, NEW u \in Table, CellOK(cur, q, u), SameData(d.cb[u], q.cb[u]),
         q.cb[u].state = "STOPPED" => d.cb[u] = q.cb[u],
         q.cb[u].state = "NEXT" => d.cb[q.cb[u].prevTbl].nextTbl = u
  PROVE  CellOK(cur, d, u)
BY SameAhead DEF SameData, CellOK

\* So does a follower.
LEMMA FollowerStays ==
  ASSUME NEW cur, NEW q, NEW d, NEW f \in Table, NEW t \in Table, FollowerOK(cur, q, f, t),
         SameData(d.cb[f], q.cb[f]), SameData(d.cb[t], q.cb[t])
  PROVE  FollowerOK(cur, d, f, t)
<1>1. Ahead(cur, d, f) = Ahead(cur, q, f) /\ Ahead(cur, d, t) = Ahead(cur, q, t) BY SameAhead
<1>2. QED BY <1>1 DEF FollowerOK, SameData

\* The tables that are started are in the list, the others are as at startup.
LEMMA StoppedAre ==
  ASSUME NEW cur, NEW q, TablesOK(cur, q), NEW t \in Table, q.cb[t].state = "STOPPED"
  PROVE  /\ t \in Table \ Started(q) /\ q.cb[t] = FreshCB(t)
         /\ q.cb[t].nextNode = NULL /\ q.cb[t].preNode = NULL
         /\ q.cb[t].nextTbl = NULL /\ q.cb[t].prevTbl = NULL
         /\ q.cb[t].epId = 0 /\ q.cb[t].nextEP = 0 /\ q.cb[t].delay = GetEpDelay(t, 0)
BY DEF TablesOK, CellOK, Started, FreshCB

-----------------------------------------------------------------------------
(* The steps of the list *)

\* t runs from its first expiry point on; no other table changes.
StartedAt(d, q, t) ==
  /\ \A u \in Table \ {t} : SameData(d.cb[u], q.cb[u])
  /\ d.cb[t].state = "RUNNING" /\ d.cb[t].nextEP = 0 /\ d.cb[t].nextTbl = NULL

\* Os_SchedTblInnerStart
LEMMA StartIs ==
  ASSUME ClockOK, TableSumsFit, NEW q, TablesOK(CounterCurVal, q),
         NEW t \in Table, q.cb[t].state = "STOPPED", NEW start \in Ticks,
         TicksTo(CalcAbsTicks(start, Offset(t, 0))) \in 1 .. MaxAllowedValue + 1
  PROVE  /\ TablesOK(CounterCurVal, StartAt(q, t, start)) /\ StartedAt(StartAt(q, t, start), q, t)
         /\ Ahead(CounterCurVal, StartAt(q, t, start), t) = TicksTo(CalcAbsTicks(start, Offset(t, 0)))
<1> DEFINE tick == CalcAbsTicks(start, Offset(t, 0))
           c    == [q.cb[t] EXCEPT !.startAbsTick = Noted(t, start),
                                   !.nextEpAbsTick = tick,
                                   !.epId = 0,
                                   !.state = "RUNNING"]
           p    == [q EXCEPT !.cb[t] = c]
           d    == StartAt(q, t, start)
           L    == Started(q)
           cur  == CounterCurVal
<1>1. /\ q \in Lists /\ Threads(cur, q, L, L) /\ cur \in Ticks
      /\ \A u \in Table : CellOK(cur, q, u)
      /\ \A f, u \in Table : FollowerOK(cur, q, f, u)
  BY DEF TablesOK, ClockOK
<1>2. /\ t \in Table \ L /\ q.cb[t] = FreshCB(t)
      /\ q.cb[t].nextNode = NULL /\ q.cb[t].preNode = NULL
      /\ q.cb[t].nextTbl = NULL /\ q.cb[t].prevTbl = NULL
      /\ q.cb[t].epId = 0 /\ q.cb[t].nextEP = 0 /\ q.cb[t].delay = GetEpDelay(t, 0)
  BY StoppedAre
<1>3. /\ LastEP(t) \in Nat /\ Offset(t, 0) \in 0 .. MaxAllowedValue
  <2>1. LastEP(t) \in Nat BY OffsetsAre
  <2>2. Offset(t, 0) \in Nat /\ Offset(t, 0) <= MaxAllowedValue
    <3>1. 0 \in 0 .. LastEP(t) BY <2>1
    <3>2. Offset(t, 0) \in Nat BY <3>1, OffsetsAre
    <3>3. Offset(t, 0) <= MaxAllowedValue BY TableConstants
    <3>4. QED BY <3>2, <3>3
  <2>3. QED BY <2>1, <2>2, TicksAre
<1>4. tick \in Ticks /\ GetDistance(start, tick) = Offset(t, 0) BY <1>3, TableSumIs
<1>5. Noted(t, start) \in Ticks BY TicksAre DEF Noted, Round
<1> HIDE DEF tick
<1>6. /\ p \in Lists /\ p.head = q.head /\ \A u \in Table \ {t} : p.cb[u] = q.cb[u]
      /\ p.cb[t].state = "RUNNING" /\ p.cb[t].epId = 0 /\ p.cb[t].nextEP = 0
      /\ p.cb[t].delay = GetEpDelay(t, 0)
      /\ p.cb[t].startAbsTick = Noted(t, start) /\ p.cb[t].nextEpAbsTick = tick
      /\ p.cb[t].nextTbl = NULL /\ p.cb[t].prevTbl = NULL
      /\ p.cb[t].nextNode = NULL /\ p.cb[t].preNode = NULL
  <2>1. q.cb[t] \in CB BY <1>1 DEF Lists
  <2>2. /\ c \in CB /\ c.state = "RUNNING" /\ c.epId = 0
        /\ c.nextEP = q.cb[t].nextEP /\ c.delay = q.cb[t].delay
        /\ c.startAbsTick = Noted(t, start) /\ c.nextEpAbsTick = tick
        /\ c.nextTbl = q.cb[t].nextTbl /\ c.prevTbl = q.cb[t].prevTbl
        /\ c.nextNode = q.cb[t].nextNode /\ c.preNode = q.cb[t].preNode
    BY <1>4, <1>5, <2>1 DEF CB
  <2> HIDE DEF c
  <2>3. p \in Lists /\ p.head = q.head /\ p.cb[t] = c /\ \A u \in Table \ {t} : p.cb[u] = q.cb[u]
    BY <1>1, <2>2 DEF Lists
  <2> HIDE DEF p
  <2>4. QED BY <1>2, <2>2, <2>3
<1>7. d = InsertSchedTblNode(p, t) BY DEF StartAt, tick
<1> HIDE DEF c, p, d, L
<1>8. Threads(cur, p, L, L) BY <1>2, <1>6, <1>1, SameThreads DEF L, Started, Ahead
<1>9. Ahead(cur, p, t) = TicksTo(tick) /\ TicksTo(tick) \in 1 .. MaxAllowedValue + 1
  BY <1>6 DEF Ahead, TicksTo, tick
<1>10. \A u \in L \cup {t} : Ahead(cur, p, u) <= Round - 2
  <2>1. ASSUME NEW u \in L
        PROVE  Ahead(cur, p, u) <= Round - 2
    BY <1>1, <2>1, StartedAhead, <1>2, <1>6, TicksAre DEF L, Started, Ahead
  <2>2. Ahead(cur, p, t) <= Round - 2 BY <1>9, TicksAre DEF Round
  <2>3. QED BY <2>1, <2>2
<1>11. Relinked(d, p, L \cup {t}) /\ Threads(cur, d, L \cup {t}, L \cup {t})
  BY <1>2, <1>6, <1>7, <1>8, <1>10, InsertsTableInOrder
<1>12. \A u \in Table \ {t} : SameData(d.cb[u], q.cb[u]) BY <1>6, <1>11 DEF Relinked
<1>13. SameData(d.cb[t], p.cb[t]) BY <1>11 DEF Relinked
<1>14. L \cup {t} = Started(d) BY <1>12, <1>6, <1>13 DEF SameData, L, Started
<1>15. ASSUME NEW u \in Table
       PROVE  CellOK(cur, d, u)
  <2>1. CASE u = t
    <3>1. Ahead(cur, d, t) = Ahead(cur, p, t) BY <1>13, SameAhead
    <3>2. Chained(t) => Noted(t, start) = start BY TableConstants DEF Chained, Noted
    <3>3. QED BY <1>3, <1>4, <1>6, <1>9, <1>13, <2>1, <3>1, <3>2 DEF CellOK, SameData
  <2>2. CASE u # t
    <3>1. CellOK(cur, q, u) /\ SameData(d.cb[u], q.cb[u]) BY <1>1, <1>12, <2>2
    <3>2. q.cb[u].state = "STOPPED" => d.cb[u] = q.cb[u]
      BY <2>2, <1>6, <1>11 DEF L, Started, Relinked
    <3>3. q.cb[u].state = "NEXT" => d.cb[q.cb[u].prevTbl].nextTbl = u
      <4>1. SUFFICES ASSUME q.cb[u].state = "NEXT"
                     PROVE  d.cb[q.cb[u].prevTbl].nextTbl = u
        OBVIOUS
      <4>2. q.cb[u].prevTbl \in Table /\ q.cb[q.cb[u].prevTbl].nextTbl = u BY <3>1, <4>1 DEF CellOK
      <4>3. q.cb[u].prevTbl # t BY <1>2, <4>2, TableConstants
      <4>4. QED BY <1>12, <4>2, <4>3 DEF SameData
    <3>4. QED BY <3>1, <3>2, <3>3, CellStays
  <2>3. QED BY <2>1, <2>2
<1>16. ASSUME NEW f \in Table, NEW u \in Table
       PROVE  FollowerOK(cur, d, f, u)
  <2>1. CASE f = t
    <3>1. d.cb[f].nextTbl = NULL /\ u # NULL BY <1>6, <1>13, <2>1, TableConstants DEF SameData
    <3>2. QED BY <3>1 DEF FollowerOK
  <2>2. CASE f # t /\ u = t BY <1>1, <2>2, <1>12 DEF FollowerOK, SameData
  <2>3. CASE f # t /\ u # t BY <1>1, <1>12, <2>3, FollowerStays
  <2>4. QED BY <2>1, <2>2, <2>3
<1>17. TablesOK(cur, d) BY <1>11, <1>14, <1>15, <1>16 DEF TablesOK, Relinked
<1>18. StartedAt(d, q, t) /\ Ahead(cur, d, t) = TicksTo(tick)
  BY <1>6, <1>9, <1>12, <1>13, SameAhead DEF StartedAt, SameData
<1>19. QED BY <1>17, <1>18 DEF d, tick

\* t waits for its expiry point ep; no other table changes.
AdvancedTo(d, q, t, ep) ==
  /\ \A u \in Table \ {t} : SameData(d.cb[u], q.cb[u])
  /\ d.cb[t].state = "RUNNING" /\ d.cb[t].nextEP = ep
  /\ d.cb[t].nextTbl = q.cb[t].nextTbl /\ d.cb[t].prevTbl = q.cb[t].prevTbl

Advance(q, t, ep) ==
  [q EXCEPT !.cb[t] = [@ EXCEPT !.epId = ep,
                                !.nextEP = ep,
                                !.nextEpAbsTick = CalcAbsTicks(q.cb[t].nextEpAbsTick, q.cb[t].delay),
                                !.delay = GetEpDelay(t, ep)]]

\* Os_WorkSchedTblToNextEp and Os_WorkSchedTblRepeat both add the delay to the tick.
LEMMA AdvanceIs ==
  ASSUME ClockOK, TableSumsFit, NEW q, TablesOK(CounterCurVal, q),
         NEW t \in Table, q.head = t, q.cb[t].state = "RUNNING", Ahead(CounterCurVal, q, t) = 0,
         NEW ep \in 0 .. LastEP(t), q.cb[t].delay \in 1 .. MaxAllowedValue,
         Chained(t) => Offset(t, ep) = Offset(t, q.cb[t].epId) + q.cb[t].delay
  PROVE  /\ TablesOK(CounterCurVal, Reinsert(Advance(q, t, ep), t))
         /\ AdvancedTo(Reinsert(Advance(q, t, ep), t), q, t, ep)
         /\ Ahead(CounterCurVal, Reinsert(Advance(q, t, ep), t), t) = q.cb[t].delay
<1> DEFINE old   == q.cb[t].nextEpAbsTick
           delay == q.cb[t].delay
           tick  == CalcAbsTicks(old, delay)
           c     == [q.cb[t] EXCEPT !.epId = ep, !.nextEP = ep, !.nextEpAbsTick = tick,
                                    !.delay = GetEpDelay(t, ep)]
           p     == Advance(q, t, ep)
           d     == Reinsert(p, t)
           L     == Started(q)
           cur   == CounterCurVal
<1>1. /\ q \in Lists /\ Threads(cur, q, L, L) /\ cur \in Ticks
      /\ \A u \in Table : CellOK(cur, q, u)
      /\ \A f, u \in Table : FollowerOK(cur, q, f, u)
  BY DEF TablesOK, ClockOK
<1>2. /\ t \in L /\ q.cb[t] \in CB /\ old \in Ticks /\ q.cb[t].startAbsTick \in Ticks
      /\ q.cb[t].epId \in 0 .. LastEP(t)
  BY <1>1 DEF Lists, CB, Started, CellOK
<1>3. /\ LastEP(t) \in Nat /\ GetEpDelay(t, ep) \in Nat /\ ep \in Nat BY OffsetsAre
<1>4. tick \in Ticks /\ GetDistance(old, tick) = delay
  <2>1. delay \in 0 .. MaxAllowedValue BY TicksAre
  <2>2. QED BY <1>2, <2>1, TableSumIs
<1>5. GetDistance(cur, tick) = delay
  <2>1. GetDistance(cur, old) = 0 BY DEF Ahead
  <2>2. delay \in 0 .. Round - 1 /\ Round \in Nat BY TicksAre DEF Round
  <2> HIDE DEF old, tick, cur, delay
  <2>3. GetDistance(cur, old) + GetDistance(old, tick) = delay BY <1>4, <2>1, <2>2
  <2>4. QED BY <1>1, <1>2, <1>4, <2>2, <2>3, DistanceOver
<1>6. Chained(t) => GetDistance(q.cb[t].startAbsTick, tick) = Offset(t, ep)
  <2>1. SUFFICES ASSUME Chained(t)
                 PROVE  GetDistance(q.cb[t].startAbsTick, tick) = Offset(t, ep)
    OBVIOUS
  <2>2. PICK u \in Table : <<t, u>> \in Chains BY <2>1 DEF Chained
  <2>3. /\ Offset(t, ep) <= Duration[t] /\ Duration[t] < Round
    BY <1>3, OffsetsRise, <2>2, ChainsAre, TicksAre DEF Round
  <2>4. GetDistance(q.cb[t].startAbsTick, old) = Offset(t, q.cb[t].epId) BY <1>1, <2>1 DEF CellOK
  <2>5. Offset(t, ep) = Offset(t, q.cb[t].epId) + delay /\ Duration[t] \in Nat /\ Offset(t, ep) \in Nat
    BY <2>1, OffsetsAre
  <2> DEFINE start == q.cb[t].startAbsTick
  <2>6. GetDistance(start, old) + GetDistance(old, tick) = Offset(t, ep) BY <1>4, <2>4, <2>5
  <2> HIDE DEF old, tick, start, delay
  <2>7. GetDistance(start, tick) = Offset(t, ep)
    BY <1>2, <1>4, <2>3, <2>5, <2>6, DistanceOver DEF start
  <2>8. QED BY <2>7 DEF start
<1>7. p = [q EXCEPT !.cb[t] = c] BY DEF Advance
<1> HIDE DEF tick, old
<1>8. /\ c \in CB /\ c.state = "RUNNING" /\ c.epId = ep /\ c.nextEP = ep
      /\ c.delay = GetEpDelay(t, ep) /\ c.startAbsTick = q.cb[t].startAbsTick
      /\ c.nextEpAbsTick = tick /\ c.nextTbl = q.cb[t].nextTbl /\ c.prevTbl = q.cb[t].prevTbl
      /\ c.nextNode = q.cb[t].nextNode /\ c.preNode = q.cb[t].preNode
  BY <1>2, <1>3, <1>4 DEF CB
<1> HIDE DEF c, p
<1>9. p \in Lists /\ p.head = q.head /\ p.cb[t] = c /\ \A u \in Table \ {t} : p.cb[u] = q.cb[u]
  BY <1>1, <1>7, <1>8 DEF Lists
<1> HIDE DEF d, L
<1>10. Threads(cur, p, L, L \ {t})
  <2>1. Threads(cur, q, L, L \ {t}) BY <1>1 DEF Threads, OrderedOn
  <2>2. L \subseteq Table BY DEF L, Started
  <2>3. /\ \A u \in L : p.cb[u].nextNode = q.cb[u].nextNode /\ p.cb[u].preNode = q.cb[u].preNode
        /\ \A u \in L \ {t} : Ahead(cur, p, u) = Ahead(cur, q, u)
    BY <1>8, <1>9, <2>2 DEF Ahead
  <2>4. QED BY <1>9, <2>1, <2>3, SameThreads
<1>11. Ahead(cur, p, t) = delay BY <1>5, <1>8, <1>9 DEF Ahead
<1>12. \A u \in L : Ahead(cur, p, u) <= Round - 2
  BY <1>1, StartedAhead, <1>9, TicksAre, <1>11 DEF L, Started, Ahead, Round
<1>13. Relinked(d, p, L) /\ Threads(cur, d, L, L) BY <1>2, <1>9, <1>10, <1>12, ReinsertIs DEF d
<1>14. \A u \in Table \ {t} : SameData(d.cb[u], q.cb[u]) BY <1>9, <1>13 DEF Relinked
<1>15. SameData(d.cb[t], c) BY <1>9, <1>13 DEF Relinked
<1>16. L = Started(d) BY <1>14, <1>8, <1>15 DEF SameData, L, Started
<1>17. Ahead(cur, d, t) = delay BY <1>9, <1>11, <1>15, SameAhead
<1>18. d.cb[t].nextTbl = q.cb[t].nextTbl BY <1>8, <1>15 DEF SameData
<1>19. ASSUME NEW u \in Table
       PROVE  CellOK(cur, d, u)
  <2>1. CASE u = t
    <3>1. delay <= MaxAllowedValue + 1 BY TicksAre
    <3>2. QED BY <1>3, <1>6, <1>8, <1>15, <1>17, <2>1, <3>1 DEF CellOK, SameData
  <2>2. CASE u # t
    <3>1. CellOK(cur, q, u) /\ SameData(d.cb[u], q.cb[u]) BY <1>1, <1>14, <2>2
    <3>2. q.cb[u].state = "STOPPED" => d.cb[u] = q.cb[u]
      BY <1>9, <1>13, <2>2 DEF L, Started, Relinked
    <3>3. q.cb[u].state = "NEXT" => d.cb[q.cb[u].prevTbl].nextTbl = u
      BY <3>1, <1>14, <1>18 DEF CellOK, SameData
    <3>4. QED BY <3>1, <3>2, <3>3, CellStays
  <2>3. QED BY <2>1, <2>2
<1>20. ASSUME NEW f \in Table, NEW u \in Table
       PROVE  FollowerOK(cur, d, f, u)
  <2>1. FollowerOK(cur, q, f, u) BY <1>1
  <2>2. CASE u = t BY <2>1, <2>2, <1>14, <1>18 DEF FollowerOK, SameData
  <2>3. CASE f = t /\ u # t
    <3>1. SUFFICES ASSUME q.cb[t].nextTbl = u
                   PROVE  FollowerOK(cur, d, t, u)
      BY <1>18, <2>3 DEF FollowerOK
    <3>2. /\ <<t, u>> \in Chains /\ q.cb[u].state = "NEXT" /\ q.cb[u].prevTbl = t
          /\ Ahead(cur, q, u) = Ahead(cur, q, t) + Duration[t] - Offset(t, q.cb[t].epId) + Offset(u, 0)
      BY <2>1, <2>3, <3>1 DEF FollowerOK
    <3>3. Offset(t, ep) = Offset(t, q.cb[t].epId) + delay BY <3>2 DEF Chained
    <3>4. Ahead(cur, d, u) = Ahead(cur, q, u) BY <1>14, <2>3, SameAhead
    <3>5. /\ Offset(t, q.cb[t].epId) \in Nat /\ Duration[t] \in Nat /\ Offset(u, 0) \in Nat
      BY <1>2, <3>2, OffsetsAre, ChainsAre
    <3>6. Ahead(cur, d, u) = Ahead(cur, d, t) + Duration[t] - Offset(t, ep) + Offset(u, 0)
      BY <1>17, <3>2, <3>3, <3>4, <3>5
    <3>7. d.cb[t].epId = ep /\ d.cb[t].state = "RUNNING"
          /\ d.cb[u].state = "NEXT" /\ d.cb[u].prevTbl = t
      BY <1>8, <1>14, <1>15, <2>3, <3>2 DEF SameData
    <3>8. QED BY <3>2, <3>6, <3>7 DEF FollowerOK
  <2>4. CASE f # t /\ u # t BY <1>14, <2>1, <2>4, FollowerStays
  <2>5. QED BY <2>2, <2>3, <2>4
<1>21. TablesOK(cur, d) BY <1>13, <1>16, <1>19, <1>20 DEF TablesOK, Relinked
<1>22. AdvancedTo(d, q, t, ep) BY <1>8, <1>14, <1>15 DEF AdvancedTo, SameData
<1>23. QED BY <1>17, <1>21, <1>22 DEF d, p

\* The delay between two expiry points
LEMMA EpDelayIs ==
  ASSUME NEW t \in Table, NEW ep \in 0 .. LastEP(t) - 1
  PROVE  /\ GetEpDelay(t, ep) \in 1 .. MaxAllowedValue
         /\ GetEpDelay(t, ep) = Offset(t, ep + 1) - Offset(t, ep)
         /\ Offset(t, ep + 1) \in Nat /\ Offset(t, ep) \in Nat
<1>1. GetEpDelay(t, ep) \in 1 .. MaxAllowedValue BY TableConstants
<1>2. LastEP(t) \in Nat /\ \A n \in 0 .. LastEP(t) : Offset(t, n) \in Nat BY OffsetsAre
<1>3. ep \in 0 .. LastEP(t) /\ ep + 1 \in 0 .. LastEP(t) /\ ~ (ep >= LastEP(t)) BY <1>2
<1>4. QED BY <1>1, <1>2, <1>3 DEF GetEpDelay

LEMMA ToNextEpIs ==
  ASSUME ClockOK, TableSumsFit, NEW q, TablesOK(CounterCurVal, q),
         NEW t \in Table, q.head = t, q.cb[t].state = "RUNNING", Ahead(CounterCurVal, q, t) = 0,
         ~ (q.cb[t].epId >= LastEP(t))
  PROVE  /\ TablesOK(CounterCurVal, ToNextEp(q, t))
         /\ AdvancedTo(ToNextEp(q, t), q, t, q.cb[t].epId + 1)
         /\ Ahead(CounterCurVal, ToNextEp(q, t), t) = Offset(t, q.cb[t].epId + 1) - Offset(t, q.cb[t].epId)
         /\ Ahead(CounterCurVal, ToNextEp(q, t), t) # 0
<1> DEFINE e == q.cb[t].epId
<1>1. e \in 0 .. LastEP(t) /\ q.cb[t].delay = GetEpDelay(t, e) /\ LastEP(t) \in Nat
  BY OffsetsAre DEF TablesOK, CellOK
<1>2. e \in 0 .. LastEP(t) - 1 /\ e + 1 \in 0 .. LastEP(t) BY <1>1
<1>3. /\ q.cb[t].delay \in 1 .. MaxAllowedValue
      /\ q.cb[t].delay = Offset(t, e + 1) - Offset(t, e)
      /\ Offset(t, e + 1) \in Nat /\ Offset(t, e) \in Nat
  BY <1>1, <1>2, EpDelayIs
<1>4. ToNextEp(q, t) = Reinsert(Advance(q, t, e + 1), t) BY DEF ToNextEp, Advance
<1> HIDE DEF e
<1>5. Offset(t, e + 1) = Offset(t, e) + q.cb[t].delay BY <1>3, TicksAre
<1>6. /\ TablesOK(CounterCurVal, ToNextEp(q, t)) /\ AdvancedTo(ToNextEp(q, t), q, t, e + 1)
      /\ Ahead(CounterCurVal, ToNextEp(q, t), t) = q.cb[t].delay
  BY <1>2, <1>3, <1>4, <1>5, AdvanceIs DEF e
<1>7. QED BY <1>3, <1>6, TicksAre DEF e

LEMMA NextRoundIs ==
  ASSUME ClockOK, TableSumsFit, NEW q, TablesOK(CounterCurVal, q),
         NEW t \in Repeating, t \in Table,
         q.head = t, q.cb[t].state = "RUNNING", Ahead(CounterCurVal, q, t) = 0,
         q.cb[t].epId >= LastEP(t)
  PROVE  /\ TablesOK(CounterCurVal, NextRound(q, t))
         /\ AdvancedTo(NextRound(q, t), q, t, 0)
         /\ Ahead(CounterCurVal, NextRound(q, t), t) = FinalDelay(t) + Offset(t, 0)
<1>1. /\ q.cb[t].epId \in 0 .. LastEP(t) /\ q.cb[t].delay = GetEpDelay(t, q.cb[t].epId)
      /\ LastEP(t) \in Nat /\ q \in Lists
  BY OffsetsAre DEF TablesOK, CellOK
<1>2. q.cb[t].epId = LastEP(t) /\ 0 \in 0 .. LastEP(t) BY <1>1
<1>3. q.cb[t].delay \in 1 .. MaxAllowedValue /\ q.cb[t].delay = FinalDelay(t) + Offset(t, 0)
  BY TableConstants, <1>1, <1>2 DEF GetEpDelay
<1>4. ~Chained(t) BY TableConstants DEF Chained
<1>5. NextRound(q, t) = Reinsert(Advance(q, t, 0), t)
  <2> DEFINE tick == CalcAbsTicks(q.cb[t].nextEpAbsTick, q.cb[t].delay)
             delay == GetEpDelay(t, 0)
  <2>1. q.cb[t] \in CB BY <1>1 DEF Lists
  <2>2. [q.cb[t] EXCEPT !.nextEP = 0, !.epId = 0, !.nextEpAbsTick = tick, !.delay = delay]
        = [q.cb[t] EXCEPT !.epId = 0, !.nextEP = 0, !.nextEpAbsTick = tick, !.delay = delay]
    <3> HIDE DEF tick, delay
    <3>1. QED BY <2>1 DEF CB
  <2>3. QED BY <2>2 DEF NextRound, Advance
<1>6. QED BY <1>2, <1>3, <1>4, <1>5, AdvanceIs

\* All of a control block but its links and its follower.
SameRun(c, b) ==
  /\ c.state = b.state /\ c.epId = b.epId /\ c.nextEP = b.nextEP /\ c.delay = b.delay
  /\ c.startAbsTick = b.startAbsTick /\ c.nextEpAbsTick = b.nextEpAbsTick
  /\ c.prevTbl = b.prevTbl

\* A control block whose follower alone is another one.
LEMMA CellKept ==
  ASSUME NEW cur, NEW q, NEW d, NEW u \in Table, CellOK(cur, q, u), SameRun(d.cb[u], q.cb[u]),
         q.cb[u].state = "STOPPED" => d.cb[u] = q.cb[u],
         q.cb[u].state = "NEXT" => d.cb[q.cb[u].prevTbl].nextTbl = u
  PROVE  CellOK(cur, d, u)
BY DEF SameRun, Ahead, CellOK

\* The follower of a table that has come to its end.
FollowerOf(q, t, u) ==
  /\ u \in Table \ {t} /\ u \in Started(q)
  /\ q.cb[t].state = "RUNNING" /\ <<t, u>> \in Chains
  /\ q.cb[u].state = "NEXT" /\ q.cb[u].prevTbl = t
  /\ q.cb[u].nextTbl = NULL
  /\ q.cb[u].epId = 0 /\ q.cb[u].nextEP = 0

LEMMA FollowerIs ==
  ASSUME NEW cur, NEW q, TablesOK(cur, q), NEW t \in Table, q.cb[t].nextTbl # NULL
  PROVE  FollowerOf(q, t, q.cb[t].nextTbl)
<1> DEFINE u == q.cb[t].nextTbl
<1>1. u \in Table BY DEF TablesOK, Lists, CB
<1>2. /\ q.cb[t].state = "RUNNING" /\ <<t, u>> \in Chains
      /\ q.cb[u].state = "NEXT" /\ q.cb[u].prevTbl = t
  BY <1>1 DEF TablesOK, FollowerOK
<1>3. q.cb[u].epId = 0 /\ q.cb[u].nextEP = 0 BY <1>1, <1>2 DEF TablesOK, CellOK
<1>4. q.cb[u].nextTbl = NULL
  <2>1. q.cb[u].nextTbl \in Table \cup {NULL} BY <1>1 DEF TablesOK, Lists, CB
  <2>2. ASSUME NEW w \in Table, q.cb[u].nextTbl = w
        PROVE  q.cb[u].state = "RUNNING"
    <3>1. FollowerOK(cur, q, u, w) BY <1>1 DEF TablesOK
    <3> HIDE DEF u
    <3>2. QED BY <2>2, <3>1 DEF FollowerOK
  <2> HIDE DEF u
  <2>3. QED BY <1>2, <2>1, <2>2
<1>5. u # t BY <1>2
<1>6. u \in Started(q) BY <1>1, <1>2 DEF Started
<1>7. QED BY <1>1, <1>2, <1>3, <1>4, <1>5, <1>6 DEF FollowerOf

\* t is stopped, and its follower runs; no other table changes.
EndedTo(d, q, t) ==
  /\ d.cb[t] = FreshCB(t)
  /\ \A u \in Table \ {t} : u # q.cb[t].nextTbl => SameData(d.cb[u], q.cb[u])
  /\ \A u \in Table \ {t} : u = q.cb[t].nextTbl => d.cb[u].state = "RUNNING" /\ d.cb[u].nextEP = 0
                                                   /\ d.cb[u].nextTbl = NULL
                                                   /\ d.cb[u].prevTbl = t

\* The end of a table that does not repeat: its follower runs, at its distance from there.
LEMMA EndTableIs ==
  ASSUME ClockOK, TableSumsFit, NEW q, TablesOK(CounterCurVal, q),
         NEW t \in Table, t \notin Repeating,
         q.cb[t].state = "RUNNING", Ahead(CounterCurVal, q, t) = 0,
         q.cb[t].epId >= LastEP(t)
  PROVE  /\ TablesOK(CounterCurVal, EndTable(q, t))
         /\ EndedTo(EndTable(q, t), q, t)
         /\ \A u \in Table : u = q.cb[t].nextTbl =>
              /\ Ahead(CounterCurVal, EndTable(q, t), u) = FinalDelay(t) + Offset(u, 0)
              /\ Ahead(CounterCurVal, EndTable(q, t), u) # 0
<1> DEFINE next == q.cb[t].nextTbl
           p    == IF next = NULL THEN q ELSE [q EXCEPT !.cb[next].state = "RUNNING"]
           d    == EndTable(q, t)
           L    == Started(q)
           cur  == CounterCurVal
<1>1. /\ q \in Lists /\ Threads(cur, q, L, L) /\ cur \in Ticks
      /\ \A u \in Table : CellOK(cur, q, u)
      /\ \A f, u \in Table : FollowerOK(cur, q, f, u)
      /\ q.cb[t] \in CB /\ next \in Table \cup {NULL}
  BY DEF TablesOK, ClockOK, Lists, CB
<1>2. t \in L /\ L \subseteq Table BY DEF Started
<1>3. next # NULL => /\ next \in Table \ {t} /\ next \in L /\ <<t, next>> \in Chains
                     /\ q.cb[next].state = "NEXT" /\ q.cb[next].prevTbl = t
                     /\ q.cb[next].nextTbl = NULL /\ q.cb[next].epId = 0 /\ q.cb[next].nextEP = 0
  BY FollowerIs DEF FollowerOf
<1>4. d = Remove(p, t) BY DEF EndTable
<1> HIDE DEF d, next, L
<1>5. /\ p \in Lists /\ p.head = q.head
      /\ \A u \in Table : u # next => p.cb[u] = q.cb[u]
      /\ \A u \in Table : u = next =>
           /\ p.cb[u].state = "RUNNING" /\ p.cb[u].epId = q.cb[u].epId /\ p.cb[u].nextEP = q.cb[u].nextEP
           /\ p.cb[u].delay = q.cb[u].delay /\ p.cb[u].startAbsTick = q.cb[u].startAbsTick
           /\ p.cb[u].nextEpAbsTick = q.cb[u].nextEpAbsTick
           /\ p.cb[u].nextTbl = q.cb[u].nextTbl /\ p.cb[u].prevTbl = q.cb[u].prevTbl
           /\ p.cb[u].nextNode = q.cb[u].nextNode /\ p.cb[u].preNode = q.cb[u].preNode
  <2>1. CASE next = NULL BY <1>1, <2>1, TableConstants
  <2>2. CASE next # NULL
    <3>1. p = [q EXCEPT !.cb[next].state = "RUNNING"] /\ next \in Table BY <1>1, <2>2
    <3>2. q.cb[next] \in CB BY <1>1, <3>1 DEF Lists
    <3> DEFINE c == [q.cb[next] EXCEPT !.state = "RUNNING"]
    <3>3. /\ c \in CB /\ c.state = "RUNNING" /\ c.epId = q.cb[next].epId /\ c.nextEP = q.cb[next].nextEP
          /\ c.delay = q.cb[next].delay /\ c.startAbsTick = q.cb[next].startAbsTick
          /\ c.nextEpAbsTick = q.cb[next].nextEpAbsTick
          /\ c.nextTbl = q.cb[next].nextTbl /\ c.prevTbl = q.cb[next].prevTbl
          /\ c.nextNode = q.cb[next].nextNode /\ c.preNode = q.cb[next].preNode
      BY <3>2 DEF CB
    <3>4. p = [q EXCEPT !.cb[next] = c] BY <3>1
    <3> HIDE DEF c, p
    <3>5. p \in Lists /\ p.head = q.head /\ p.cb[next] = c /\ \A u \in Table \ {next} : p.cb[u] = q.cb[u]
      BY <1>1, <3>1, <3>3, <3>4 DEF Lists
    <3>6. QED BY <3>3, <3>5
  <2>3. QED BY <2>1, <2>2
<1> HIDE DEF p
<1>6. Threads(cur, p, L, L) BY <1>2, <1>5, <1>1, SameThreads DEF Ahead
<1>7. Removed(d, p, L, t) /\ Threads(cur, d, L \ {t}, L \ {t}) BY <1>2, <1>4, <1>5, <1>6, RemoveIs
<1>8. /\ d \in Lists /\ d.cb[t] = FreshCB(t)
      /\ \A u \in Table \ {t} : SameData(d.cb[u], p.cb[u])
      /\ \A u \in Table \ L : d.cb[u] = p.cb[u]
  BY <1>7 DEF Removed
<1>9. \A u \in Table \ {t} : u # next => SameData(d.cb[u], q.cb[u]) BY <1>5, <1>8
<1>10. ASSUME NEW u \in Table \ {t}, u = next
       PROVE  /\ d.cb[u].state = "RUNNING" /\ d.cb[u].epId = 0 /\ d.cb[u].nextEP = 0
              /\ d.cb[u].delay = q.cb[u].delay /\ d.cb[u].startAbsTick = q.cb[u].startAbsTick
              /\ d.cb[u].nextEpAbsTick = q.cb[u].nextEpAbsTick
              /\ d.cb[u].nextTbl = NULL /\ d.cb[u].prevTbl = t
  <2>1. /\ p.cb[u].state = "RUNNING" /\ p.cb[u].epId = q.cb[u].epId /\ p.cb[u].nextEP = q.cb[u].nextEP
        /\ p.cb[u].delay = q.cb[u].delay /\ p.cb[u].startAbsTick = q.cb[u].startAbsTick
        /\ p.cb[u].nextEpAbsTick = q.cb[u].nextEpAbsTick
        /\ p.cb[u].nextTbl = q.cb[u].nextTbl /\ p.cb[u].prevTbl = q.cb[u].prevTbl
    BY <1>5, <1>10
  <2>2. SameData(d.cb[u], p.cb[u]) BY <1>8
  <2>3. /\ q.cb[u].epId = 0 /\ q.cb[u].nextEP = 0
        /\ q.cb[u].nextTbl = NULL /\ q.cb[u].prevTbl = t
    BY <1>3, <1>10, TableConstants
  <2>4. QED BY <2>1, <2>2, <2>3 DEF SameData
<1>11. ASSUME NEW u \in Table, u = next
       PROVE  /\ Ahead(cur, d, u) = FinalDelay(t) + Offset(u, 0)
              /\ Ahead(cur, d, u) \in 1 .. MaxAllowedValue
  <2>1. /\ u \in Table \ {t} /\ <<t, u>> \in Chains BY <1>3, <1>11, TableConstants
  <2>2. Ahead(cur, d, u) = Ahead(cur, q, u) BY <1>10, <1>11, <2>1 DEF Ahead
  <2>3. Ahead(cur, q, u) = 0 + Duration[t] - Offset(t, q.cb[t].epId) + Offset(u, 0)
    BY <1>1, <1>11 DEF FollowerOK, next
  <2>4. q.cb[t].epId = LastEP(t) BY <1>1, OffsetsAre DEF CellOK
  <2>5. /\ Duration[t] \in Nat /\ Offset(t, LastEP(t)) \in Nat /\ Offset(u, 0) \in Nat BY OffsetsAre
  <2>6. FinalDelay(t) + Offset(u, 0) \in 1 .. MaxAllowedValue BY <2>1, ChainsAre
  <2>7. FinalDelay(t) = Duration[t] - Offset(t, LastEP(t)) BY DEF FinalDelay
  <2>8. QED BY <2>2, <2>3, <2>4, <2>5, <2>6, <2>7
<1>12. L \ {t} = Started(d)
  <2>1. d.cb[t].state = "STOPPED" BY <1>8 DEF FreshCB
  <2>2. \A u \in Table \ {t} : u # next => d.cb[u].state = q.cb[u].state BY <1>9 DEF SameData
  <2>3. ASSUME NEW u \in Table \ {t}, u = next
        PROVE  d.cb[u].state # "STOPPED" /\ q.cb[u].state # "STOPPED"
    BY <1>10, <2>3, <1>3, TableConstants
  <2>4. QED BY <2>1, <2>2, <2>3 DEF L, Started
<1>13. ASSUME NEW u \in Table
       PROVE  CellOK(cur, d, u)
  <2>1. CASE u = t BY OffsetsAre, <1>8, <2>1 DEF CellOK, FreshCB
  <2>2. CASE u # t /\ u = next
    <3>1. 0 \in 0 .. LastEP(u) BY OffsetsAre
    <3>2. q.cb[u].delay = GetEpDelay(u, 0) BY <1>1, <1>3, <2>2, TableConstants DEF CellOK
    <3>3. Chained(u) => GetDistance(q.cb[u].startAbsTick, q.cb[u].nextEpAbsTick) = Offset(u, 0)
      BY <1>1, <1>3, <2>2, TableConstants DEF CellOK
    <3>4. Ahead(cur, d, u) <= MaxAllowedValue + 1 BY <1>11, <2>2, TicksAre
    <3>5. /\ d.cb[u].state = "RUNNING" /\ d.cb[u].epId = 0 /\ d.cb[u].nextEP = 0
          /\ d.cb[u].delay = q.cb[u].delay /\ d.cb[u].startAbsTick = q.cb[u].startAbsTick
          /\ d.cb[u].nextEpAbsTick = q.cb[u].nextEpAbsTick
      BY <1>10, <2>2
    <3>6. QED BY <3>1, <3>2, <3>3, <3>4, <3>5 DEF CellOK
  <2>3. CASE u # t /\ u # next
    <3>1. CellOK(cur, q, u) /\ SameData(d.cb[u], q.cb[u]) BY <1>1, <1>9, <2>3
    <3>2. q.cb[u].state = "STOPPED" => d.cb[u] = q.cb[u] BY <1>5, <1>8, <2>3 DEF L, Started
    <3>3. q.cb[u].state = "NEXT" => d.cb[q.cb[u].prevTbl].nextTbl = u
      <4>1. SUFFICES ASSUME q.cb[u].state = "NEXT"
                     PROVE  d.cb[q.cb[u].prevTbl].nextTbl = u
        OBVIOUS
      <4>2. q.cb[u].prevTbl \in Table /\ q.cb[q.cb[u].prevTbl].nextTbl = u BY <3>1, <4>1 DEF CellOK
      <4>3. q.cb[u].prevTbl # t BY <2>3, <4>2 DEF next
      <4>4. q.cb[u].prevTbl # next BY <1>3, <4>2, TableConstants
      <4>5. QED BY <1>9, <4>2, <4>3, <4>4 DEF SameData
    <3>4. QED BY <3>1, <3>2, <3>3, CellStays
  <2>4. QED BY <2>1, <2>2, <2>3
<1>14. ASSUME NEW f \in Table, NEW u \in Table
       PROVE  FollowerOK(cur, d, f, u)
  <2>1. FollowerOK(cur, q, f, u) /\ u # NULL BY <1>1, TableConstants
  <2>2. CASE f = t \/ f = next BY <1>8, <1>10, <2>2, <2>1 DEF FreshCB, FollowerOK
  <2>3. CASE f # t /\ f # next /\ (u = t \/ u = next)
    BY <1>3, <2>1, <2>3, <1>9 DEF FollowerOK, SameData
  <2>4. CASE f # t /\ f # next /\ u # t /\ u # next BY <1>9, <2>1, <2>4, FollowerStays
  <2>5. QED BY <2>2, <2>3, <2>4
<1>15. TablesOK(cur, d) BY <1>7, <1>8, <1>12, <1>13, <1>14 DEF TablesOK
<1>16. EndedTo(d, q, t) BY <1>8, <1>9, <1>10 DEF EndedTo, next
<1>17. QED BY <1>11, <1>15, <1>16, TicksAre DEF d, next

LEMMA FreshFields ==
  ASSUME NEW t \in Table
  PROVE  FreshCB(t).state = "STOPPED" /\ FreshCB(t).nextTbl = NULL
BY DEF FreshCB

\* The parts of StopScheduleTable
Unchain(q, t) == IF t = NULL THEN q ELSE [q EXCEPT !.cb[t].nextTbl = NULL]
StopFollower(q, t) == IF q.cb[t].nextTbl = NULL THEN q ELSE Remove(q, q.cb[t].nextTbl)

Unchained(p, q, t) ==
  /\ p \in Lists /\ p.head = q.head
  /\ \A u \in Table : u # t => p.cb[u] = q.cb[u]
  /\ \A u \in Table : SameRun(p.cb[u], q.cb[u])
  /\ \A u \in Table : p.cb[u].nextNode = q.cb[u].nextNode /\ p.cb[u].preNode = q.cb[u].preNode
  /\ \A u \in Table : p.cb[u].nextTbl = IF u = t THEN NULL ELSE q.cb[u].nextTbl
  /\ \A u \in Table : q.cb[u].nextTbl = NULL => p.cb[u] = q.cb[u]

\* The table before forgets its follower.
LEMMA UnchainIs ==
  ASSUME NEW q \in Lists, NEW t \in Table \cup {NULL}
  PROVE  Unchained(Unchain(q, t), q, t)
<1> DEFINE p == Unchain(q, t)
<1>1. CASE t = NULL BY <1>1, TableConstants DEF Unchain, SameRun, Unchained
<1>2. CASE t # NULL
  <2> DEFINE c == [q.cb[t] EXCEPT !.nextTbl = NULL]
  <2>1. p = [q EXCEPT !.cb[t] = c] /\ t \in Table /\ q.cb[t] \in CB BY <1>2 DEF Unchain, Lists
  <2>2. /\ c \in CB /\ c.nextTbl = NULL /\ SameRun(c, q.cb[t])
        /\ c.nextNode = q.cb[t].nextNode /\ c.preNode = q.cb[t].preNode
        /\ q.cb[t].nextTbl = NULL => c = q.cb[t]
    BY <2>1 DEF CB, SameRun
  <2> HIDE DEF c, p
  <2>3. p \in Lists /\ p.head = q.head /\ p.cb[t] = c /\ \A u \in Table \ {t} : p.cb[u] = q.cb[u]
    BY <2>1, <2>2 DEF Lists
  <2>4. \A u \in Table : SameRun(q.cb[u], q.cb[u]) BY DEF SameRun
  <2>5. ASSUME NEW u \in Table
        PROVE  /\ u # t => p.cb[u] = q.cb[u]
               /\ SameRun(p.cb[u], q.cb[u])
               /\ p.cb[u].nextNode = q.cb[u].nextNode /\ p.cb[u].preNode = q.cb[u].preNode
               /\ p.cb[u].nextTbl = IF u = t THEN NULL ELSE q.cb[u].nextTbl
               /\ q.cb[u].nextTbl = NULL => p.cb[u] = q.cb[u]
    BY <2>2, <2>3, <2>4
  <2>6. QED BY <2>3, <2>5 DEF p, Unchained
<1>3. QED BY <1>1, <1>2

StopTable(q, t) == Remove(Unchain(StopFollower(q, t), q.cb[t].prevTbl), t)

\* t and its follower are stopped, and what t followed loses it.
StoppedTo(d, q, t) ==
  /\ d.cb[t] = FreshCB(t)
  /\ \A u \in Table : u = q.cb[t].nextTbl => d.cb[u] = FreshCB(u)
  /\ \A u \in Table \ {t} : u # q.cb[t].nextTbl =>
       /\ SameRun(d.cb[u], q.cb[u])
       /\ d.cb[u].nextTbl = IF u = q.cb[t].prevTbl THEN NULL ELSE q.cb[u].nextTbl

\* StopScheduleTable removes a table and its follower, and no other.
LEMMA StopTableIs ==
  ASSUME ClockOK, NEW q, TablesOK(CounterCurVal, q), NEW t \in Table, q.cb[t].state # "STOPPED",
         q.cb[t].prevTbl # NULL => q.cb[q.cb[t].prevTbl].nextTbl \in {t, NULL}
  PROVE  /\ TablesOK(CounterCurVal, StopTable(q, t)) /\ StoppedTo(StopTable(q, t), q, t)
<1> DEFINE next == q.cb[t].nextTbl
           prev == q.cb[t].prevTbl
           r    == StopFollower(q, t)
           p    == Unchain(r, prev)
           d    == StopTable(q, t)
           L    == Started(q)
           K    == L \ {next}
           cur  == CounterCurVal
<1>1. /\ q \in Lists /\ Threads(cur, q, L, L) /\ cur \in Ticks
      /\ \A u \in Table : CellOK(cur, q, u)
      /\ \A f, u \in Table : FollowerOK(cur, q, f, u)
      /\ q.cb[t] \in CB /\ next \in Table \cup {NULL} /\ prev \in Table \cup {NULL}
  BY DEF TablesOK, ClockOK, Lists, CB
<1>2. t \in L /\ L \subseteq Table /\ NULL \notin Table BY TableConstants DEF Started
<1>3. p = Unchain(r, prev) /\ d = Remove(p, t) BY DEF StopTable
<1> HIDE DEF d, r, p, L, K
<1>4. next # NULL => /\ next \in Table \ {t} /\ next \in L
                     /\ q.cb[next].state = "NEXT" /\ q.cb[next].prevTbl = t
                     /\ q.cb[next].nextTbl = NULL
  <2>1. next # NULL => FollowerOf(q, t, next) BY FollowerIs
  <2>2. QED BY <2>1 DEF FollowerOf, L
<1> HIDE DEF next
\* The follower is stopped.
<1>5. /\ r \in Lists /\ Threads(cur, r, K, K)
      /\ \A u \in Table : u = next => r.cb[u] = FreshCB(u)
      /\ \A u \in Table : u # next => SameData(r.cb[u], q.cb[u])
      /\ \A u \in Table \ L : r.cb[u] = q.cb[u]
  <2>1. CASE next = NULL BY <1>2, <2>1, <1>1 DEF StopFollower, next, r, K, SameData
  <2>2. CASE next # NULL
    <3>1. r = Remove(q, next) /\ next \in L /\ L \in SUBSET L
      BY <1>4, <2>2 DEF StopFollower, next, r
    <3>2. Removed(r, q, L, next) /\ Threads(cur, r, L \ {next}, L \ {next}) BY <1>1, <3>1, RemoveIs
    <3>3. QED BY <3>2 DEF Removed, K
  <2>3. QED BY <2>1, <2>2
<1>6. t \in K /\ K \subseteq Table BY <1>2, <1>4 DEF K
\* What t followed loses it.
<1>7. /\ p \in Lists /\ p.head = r.head
      /\ \A u \in Table : SameRun(p.cb[u], r.cb[u])
      /\ \A u \in Table : p.cb[u].nextNode = r.cb[u].nextNode /\ p.cb[u].preNode = r.cb[u].preNode
      /\ \A u \in Table : p.cb[u].nextTbl = IF u = prev THEN NULL ELSE r.cb[u].nextTbl
      /\ \A u \in Table : r.cb[u].nextTbl = NULL => p.cb[u] = r.cb[u]
  <2> HIDE DEF prev
  <2>1. Unchained(p, r, prev) BY <1>1, <1>5, UnchainIs DEF p
  <2>2. QED BY <2>1 DEF Unchained
<1> HIDE DEF prev
<1>8. Threads(cur, p, K, K) BY <1>6, <1>7, <1>5, SameThreads DEF Ahead, SameRun
\* t is stopped.
<1>9. Removed(d, p, K, t) /\ Threads(cur, d, K \ {t}, K \ {t}) BY <1>3, <1>6, <1>7, <1>8, RemoveIs
<1>10. /\ d \in Lists /\ d.cb[t] = FreshCB(t)
       /\ \A u \in Table \ {t} : SameData(d.cb[u], p.cb[u])
       /\ \A u \in Table \ K : d.cb[u] = p.cb[u]
  BY <1>9 DEF Removed
<1>11. ASSUME NEW u \in Table, u = next
       PROVE  d.cb[u] = FreshCB(u)
  BY <1>5, <1>11, <1>7, FreshFields, <1>10 DEF K
<1>12. ASSUME NEW u \in Table \ {t}, u # next
       PROVE  /\ SameRun(d.cb[u], q.cb[u])
              /\ d.cb[u].nextTbl = IF u = prev THEN NULL ELSE q.cb[u].nextTbl
  BY <1>5, <1>7, <1>10, <1>12 DEF SameData, SameRun
<1>13. ASSUME NEW u \in Table \ {t}, q.cb[u].state = "STOPPED"
       PROVE  d.cb[u] = q.cb[u]
  BY <1>13, <1>5, StoppedAre, <1>7, <1>10 DEF L, K, Started
<1>14. K \ {t} = Started(d) BY <1>10, <1>11, FreshFields, <1>12 DEF SameRun, L, K, Started
<1>15. ASSUME NEW u \in Table
       PROVE  CellOK(cur, d, u)
  <2>1. CASE u = t \/ u = next BY OffsetsAre, <1>10, <1>11, <2>1 DEF CellOK, FreshCB
  <2>2. CASE u # t /\ u # next
    <3>1. CellOK(cur, q, u) /\ SameRun(d.cb[u], q.cb[u]) BY <1>1, <1>12, <2>2
    <3>2. q.cb[u].state = "STOPPED" => d.cb[u] = q.cb[u] BY <1>13, <2>2
    <3>3. q.cb[u].state = "NEXT" => d.cb[q.cb[u].prevTbl].nextTbl = u
      <4>1. SUFFICES ASSUME q.cb[u].state = "NEXT"
                     PROVE  d.cb[q.cb[u].prevTbl].nextTbl = u
        OBVIOUS
      <4> DEFINE f == q.cb[u].prevTbl
      <4>2. f \in Table /\ q.cb[f].nextTbl = u BY <3>1, <4>1 DEF CellOK
      <4> HIDE DEF f
      <4>3. f # t BY <2>2, <4>2 DEF next
      <4>4. f # next BY <1>2, <1>4, <4>2
      <4>5. f # prev BY <1>2, <2>2, <4>2 DEF prev
      <4>6. d.cb[f].nextTbl = u BY <1>12, <4>2, <4>3, <4>4, <4>5
      <4>7. QED BY <4>6 DEF f
    <3>4. QED BY <3>1, <3>2, <3>3, CellKept
  <2>3. QED BY <2>1, <2>2
<1>16. ASSUME NEW f \in Table, NEW u \in Table
       PROVE  FollowerOK(cur, d, f, u)
  <2>1. FollowerOK(cur, q, f, u) BY <1>1
  <2>2. CASE f = t \/ f = next BY <1>10, <1>11, <2>2, FreshFields, <1>2 DEF FollowerOK
  <2>3. CASE f # t /\ f # next /\ f = prev BY <1>12, <2>3, <1>2 DEF FollowerOK
  <2>4. CASE f # t /\ f # next /\ f # prev /\ (u = t \/ u = next)
    BY <2>1, <2>4, <1>2, <1>4, <1>12 DEF FollowerOK, prev
  <2>5. CASE f # t /\ f # next /\ f # prev /\ u # t /\ u # next
    BY <1>12, <2>5, <2>1 DEF SameRun, Ahead, FollowerOK
  <2>6. QED BY <2>2, <2>3, <2>4, <2>5
<1>17. TablesOK(cur, d) BY <1>9, <1>10, <1>14, <1>15, <1>16 DEF TablesOK
<1>18. StoppedTo(d, q, t) BY <1>10, <1>11, <1>12 DEF StoppedTo, next, prev
<1>19. QED BY <1>17, <1>18 DEF d

\* Where a table that runs ends, and the first expiry point of its follower
ChainStart(q, f) == CalcAbsTicks(q.cb[f].startAbsTick, Duration[f])
ChainTick(q, f, t) == CalcAbsTicks(ChainStart(q, f), Offset(t, 0))

\* The way from where a table that runs started to its end, and on to its follower.
LEMMA EndAhead ==
  ASSUME TableSumsFit, NEW cur \in Ticks, NEW q, TablesOK(cur, q),
         NEW f \in Table, NEW t \in Table, <<f, t>> \in Chains, q.cb[f].state = "RUNNING"
  PROVE  /\ ChainStart(q, f) \in Ticks /\ ChainTick(q, f, t) \in Ticks
         /\ GetDistance(ChainStart(q, f), ChainTick(q, f, t)) = Offset(t, 0)
         /\ GetDistance(cur, ChainTick(q, f, t))
            = Ahead(cur, q, f) + Duration[f] - Offset(f, q.cb[f].epId) + Offset(t, 0)
         /\ GetDistance(cur, ChainTick(q, f, t)) \in 1 .. Round - 2
<1> DEFINE begin == q.cb[f].startAbsTick
           due   == q.cb[f].nextEpAbsTick
           start == CalcAbsTicks(begin, Duration[f])
           tick  == CalcAbsTicks(start, Offset(t, 0))
           dur   == Duration[f]
           done  == Offset(f, q.cb[f].epId)
           first == Offset(t, 0)
           ahead == Ahead(cur, q, f)
<1>1. begin \in Ticks /\ due \in Ticks /\ q.cb[f].epId \in 0 .. LastEP(f) /\ LastEP(f) \in Nat
  BY OffsetsAre DEF TablesOK, Lists, CB, CellOK
<1>2. /\ dur \in 0 .. 2 * MaxAllowedValue - 1 /\ first \in 0 .. MaxAllowedValue
      /\ dur - Offset(f, 0) + first < MaxAllowedValue /\ Offset(f, 0) \in 0 .. MaxAllowedValue
      /\ FinalDelay(f) + first \in 1 .. MaxAllowedValue
  BY ChainsAre
<1>3. done \in Nat /\ done <= Offset(f, LastEP(f)) /\ Offset(f, 0) <= done
      /\ Offset(f, LastEP(f)) \in Nat /\ FinalDelay(f) = dur - Offset(f, LastEP(f)) /\ FinalDelay(f) \in Nat
  BY <1>1, OffsetsRise, OffsetsAre DEF FinalDelay
<1>4. ahead \in 0 .. MaxAllowedValue + 1
  <2>1. ahead \in 0 .. Round - 1 /\ ahead <= MaxAllowedValue + 1 BY AheadIs DEF TablesOK, CellOK
  <2>2. QED BY <2>1, TicksAre
<1>5. GetDistance(begin, due) = done BY DEF TablesOK, CellOK, Chained
<1>6. start \in Ticks /\ GetDistance(begin, start) = dur
  <2>1. dur \in 0 .. Round - 1 BY <1>2, TicksAre DEF Round
  <2>2. begin + dur < 2 ^ TickBits \/ Round = 2 ^ TickBits
    <3>1. CASE 2 * MaxAllowedValue + 2 = 2 ^ TickBits BY <3>1 DEF Round
    <3>2. CASE 2 * MaxAllowedValue + 1 + dur < 2 ^ TickBits
      <4>1. /\ begin \in 0 .. 2 * MaxAllowedValue + 1 /\ dur \in Nat
            /\ MaxAllowedValue \in Nat /\ 2 ^ TickBits \in Nat
        <5>1. Ticks = 0 .. 2 * MaxAllowedValue + 1 /\ MaxAllowedValue \in Nat /\ 2 ^ TickBits \in Nat
          BY TicksAre DEF Round
        <5>2. dur \in Nat BY <1>2, <5>1
        <5> HIDE DEF begin, dur
        <5>3. QED BY <1>1, <5>1, <5>2
      <4> DEFINE width == 2 ^ TickBits
      <4>2. width \in Nat /\ 2 * MaxAllowedValue + 1 + dur < width BY <3>2, <4>1
      <4> HIDE DEF begin, dur, width
      <4>3. begin + dur < width BY <4>1, <4>2
      <4>4. QED BY <4>3 DEF width
    <3>3. QED BY <3>1, <3>2 DEF TableSumsFit
  <2> HIDE DEF begin, dur
  <2>3. QED BY <1>1, <2>1, <2>2, SumIs DEF dur
<1> HIDE DEF start
<1>7. tick \in Ticks /\ GetDistance(start, tick) = first BY <1>2, <1>6, TableSumIs
<1> HIDE DEF tick, begin, due, dur, done, first, ahead
<1>8. /\ MaxAllowedValue \in Nat /\ Round = 2 * MaxAllowedValue + 2 /\ Round \in Nat
  BY TicksAre DEF Round
<1>9. GetDistance(begin, tick) = dur + first BY <1>2, <1>8, <1>6, <1>7, <1>1, DistanceOver
<1>10. GetDistance(due, tick) = dur + first - done
  <2> DEFINE x == GetDistance(due, tick)
  <2>1. x \in 0 .. Round - 1 BY <1>1, <1>7, DistanceIs
  <2>2. GetDistance(begin, tick) = IF GetDistance(begin, due) + x < Round
                                   THEN GetDistance(begin, due) + x
                                   ELSE GetDistance(begin, due) + x - Round
    BY <1>1, <1>7, DistanceOver
  <2> HIDE DEF x
  <2>3. dur + first = IF done + x < Round THEN done + x ELSE done + x - Round BY <1>5, <1>9, <2>2
  <2>4. x = dur + first - done BY <1>2, <1>3, <1>8, <2>1, <2>3
  <2>5. QED BY <2>4 DEF x
<1>11. GetDistance(cur, due) = ahead BY DEF ahead, due, Ahead
<1>12. GetDistance(cur, tick) = ahead + (dur + first - done)
  BY <1>2, <1>3, <1>4, <1>8, <1>10, <1>11, <1>1, <1>7, DistanceOver
<1>13. ahead + (dur + first - done) = ahead + dur - done + first
       /\ ahead + (dur + first - done) \in 1 .. Round - 2
  BY <1>2, <1>3, <1>4, <1>8
<1>14. QED
  BY <1>6, <1>7, <1>12, <1>13 DEF start, tick, begin, dur, done, first, ahead, ChainStart, ChainTick

\* The parts of NextScheduleTable
Timed(q, f, t) ==
  [q EXCEPT !.cb[t] =
     [@ EXCEPT !.startAbsTick = Noted(t, ChainStart(q, f)),
               !.nextEpAbsTick = ChainTick(q, f, t),
               !.state = "NEXT"]]
Replaced(q, f, t) ==
  IF q.cb[f].nextTbl = NULL THEN Timed(q, f, t) ELSE Remove(Timed(q, f, t), q.cb[f].nextTbl)
Joined(p, f, t) == [p EXCEPT !.cb[f].nextTbl = t, !.cb[t].prevTbl = f]

ChainTable(q, f, t) == InsertSchedTblNode(Joined(Replaced(q, f, t), f, t), t)

IsTimed(p, q, f, t) ==
  /\ p \in Lists /\ p.head = q.head
  /\ \A u \in Table \ {t} : p.cb[u] = q.cb[u]
  /\ p.cb[t].state = "NEXT" /\ p.cb[t].epId = 0 /\ p.cb[t].nextEP = 0
  /\ p.cb[t].delay = GetEpDelay(t, 0)
  /\ p.cb[t].startAbsTick = Noted(t, ChainStart(q, f)) /\ p.cb[t].nextEpAbsTick = ChainTick(q, f, t)
  /\ p.cb[t].nextTbl = NULL /\ p.cb[t].nextNode = NULL /\ p.cb[t].preNode = NULL

\* The follower gets its expiry point.
LEMMA TimedIs ==
  ASSUME NEW cur, NEW q, TablesOK(cur, q), NEW f \in Table, NEW t \in Table,
         q.cb[t].state = "STOPPED", ChainStart(q, f) \in Ticks, ChainTick(q, f, t) \in Ticks
  PROVE  IsTimed(Timed(q, f, t), q, f, t)
<1> DEFINE start == ChainStart(q, f)
           tick  == ChainTick(q, f, t)
           noted == Noted(t, start)
           c     == [q.cb[t] EXCEPT !.startAbsTick = noted, !.nextEpAbsTick = tick, !.state = "NEXT"]
           p     == Timed(q, f, t)
<1>1. /\ q \in Lists /\ q.cb[t] \in CB /\ q.cb[t].nextNode = NULL /\ q.cb[t].preNode = NULL
      /\ q.cb[t].nextTbl = NULL /\ q.cb[t].epId = 0 /\ q.cb[t].nextEP = 0
      /\ q.cb[t].delay = GetEpDelay(t, 0)
  BY StoppedAre DEF TablesOK, Lists
<1>2. noted \in Ticks BY TicksAre DEF Noted, Round
<1>3. p = [q EXCEPT !.cb[t] = c] BY DEF Timed
<1> HIDE DEF start, tick, noted
<1>4. /\ c \in CB /\ c.state = "NEXT" /\ c.epId = 0 /\ c.nextEP = 0 /\ c.delay = GetEpDelay(t, 0)
      /\ c.startAbsTick = noted /\ c.nextEpAbsTick = tick
      /\ c.nextTbl = NULL /\ c.nextNode = NULL /\ c.preNode = NULL
  BY <1>1, <1>2 DEF CB, tick
<1> HIDE DEF c, p
<1>5. p \in Lists /\ p.head = q.head /\ p.cb[t] = c /\ \A u \in Table \ {t} : p.cb[u] = q.cb[u]
  BY <1>1, <1>3, <1>4 DEF Lists
<1>6. QED BY <1>4, <1>5 DEF IsTimed, start, tick, noted, p

\* t follows f in the place of what followed f.
IsJoined(d, p, f, t) ==
  /\ d \in Lists /\ d.head = p.head
  /\ \A u \in Table : u # f /\ u # t => d.cb[u] = p.cb[u]
  /\ SameRun(d.cb[f], p.cb[f]) /\ d.cb[f].nextTbl = t
  /\ d.cb[t].state = p.cb[t].state /\ d.cb[t].epId = p.cb[t].epId /\ d.cb[t].nextEP = p.cb[t].nextEP
  /\ d.cb[t].delay = p.cb[t].delay /\ d.cb[t].startAbsTick = p.cb[t].startAbsTick
  /\ d.cb[t].nextEpAbsTick = p.cb[t].nextEpAbsTick
  /\ d.cb[t].nextTbl = p.cb[t].nextTbl /\ d.cb[t].prevTbl = f
  /\ \A u \in Table : d.cb[u].nextNode = p.cb[u].nextNode /\ d.cb[u].preNode = p.cb[u].preNode

\* The two tables are linked to each other.
LEMMA JoinedIs ==
  ASSUME NEW p \in Lists, NEW f \in Table, NEW t \in Table, f # t
  PROVE  IsJoined(Joined(p, f, t), p, f, t)
<1> DEFINE d == Joined(p, f, t)
           c == [p.cb[f] EXCEPT !.nextTbl = t]
           b == [p.cb[t] EXCEPT !.prevTbl = f]
<1>1. /\ p.cb[f] \in CB /\ p.cb[t] \in CB
      /\ d.head = p.head /\ d = [head |-> p.head, cb |-> d.cb]
      /\ d.cb[f] = c /\ d.cb[t] = b /\ d.cb = [u \in Table |-> d.cb[u]]
      /\ \A u \in Table : u # f /\ u # t => d.cb[u] = p.cb[u]
  <2> DEFINE cb == [p.cb EXCEPT ![f] = c, ![t] = b]
  <2>1. p.cb \in [Table -> CB] /\ p = [head |-> p.head, cb |-> p.cb] BY DEF Lists
  <2>2. d = [p EXCEPT !.cb = cb] BY <2>1 DEF Joined
  <2> HIDE DEF c, b
  <2>3. /\ cb[f] = c /\ cb[t] = b /\ cb = [u \in Table |-> cb[u]]
        /\ \A u \in Table : u # f /\ u # t => cb[u] = p.cb[u]
    BY <2>1
  <2> HIDE DEF cb, d
  <2>4. d = [head |-> p.head, cb |-> cb] BY <2>1, <2>2
  <2>5. QED BY <2>1, <2>3, <2>4
<1>2. /\ c \in CB /\ SameRun(c, p.cb[f]) /\ c.nextTbl = t
      /\ c.nextNode = p.cb[f].nextNode /\ c.preNode = p.cb[f].preNode
  BY <1>1 DEF CB, SameRun
<1>3. /\ b \in CB /\ b.state = p.cb[t].state /\ b.epId = p.cb[t].epId /\ b.nextEP = p.cb[t].nextEP
      /\ b.delay = p.cb[t].delay /\ b.startAbsTick = p.cb[t].startAbsTick
      /\ b.nextEpAbsTick = p.cb[t].nextEpAbsTick
      /\ b.nextTbl = p.cb[t].nextTbl /\ b.prevTbl = f
      /\ b.nextNode = p.cb[t].nextNode /\ b.preNode = p.cb[t].preNode
  BY <1>1 DEF CB
<1> HIDE DEF c, b, d
<1>4. d \in Lists BY <1>1, <1>2, <1>3 DEF Lists
<1>5. QED BY <1>1, <1>2, <1>3, <1>4 DEF IsJoined, d

\* t waits for f to end, in the place of what f led to; no other table changes.
ChainedTo(d, q, f, t) ==
  /\ d.cb[t].state = "NEXT" /\ d.cb[t].nextEP = 0 /\ d.cb[t].nextTbl = NULL
  /\ d.cb[f].nextTbl = t /\ SameRun(d.cb[f], q.cb[f])
  /\ \A u \in Table : u = q.cb[f].nextTbl => d.cb[u] = FreshCB(u)
  /\ \A u \in Table \ {f, t} : u # q.cb[f].nextTbl => SameData(d.cb[u], q.cb[u])

IsReplaced(r, q, f, t) ==
  /\ r \in Lists
  /\ Threads(CounterCurVal, r, Started(q) \ {q.cb[f].nextTbl}, Started(q) \ {q.cb[f].nextTbl})
  /\ r.cb[t] = Timed(q, f, t).cb[t]
  /\ \A u \in Table : u = q.cb[f].nextTbl => r.cb[u] = FreshCB(u)
  /\ \A u \in Table \ {t} : u # q.cb[f].nextTbl => SameData(r.cb[u], q.cb[u])
  /\ \A u \in Table \ {t} : u \notin Started(q) => r.cb[u] = q.cb[u]

\* A follower the table had before leaves the list.
LEMMA ReplacedIs ==
  ASSUME ClockOK, TableSumsFit, NEW q, TablesOK(CounterCurVal, q),
         NEW f \in Table, NEW t \in Table, <<f, t>> \in Chains,
         q.cb[f].state = "RUNNING", q.cb[t].state = "STOPPED"
  PROVE  IsReplaced(Replaced(q, f, t), q, f, t)
<1> DEFINE old == q.cb[f].nextTbl
           p   == Timed(q, f, t)
           r   == Replaced(q, f, t)
           L   == Started(q)
           cur == CounterCurVal
<1>1. /\ q \in Lists /\ Threads(cur, q, L, L) /\ cur \in Ticks
      /\ old \in Table \cup {NULL} /\ NULL \notin Table /\ t \in Table \ L /\ L \subseteq Table
  BY TableConstants DEF TablesOK, ClockOK, Lists, CB, Started
<1>2. old # NULL => FollowerOf(q, f, old) BY FollowerIs
<1>3. IsTimed(p, q, f, t) BY <1>1, EndAhead, TimedIs
<1>4. r = IF old = NULL THEN p ELSE Remove(p, old) BY DEF Replaced
<1> HIDE DEF p, r, old, L
<1>5. /\ p \in Lists /\ p.head = q.head /\ \A u \in Table \ {t} : p.cb[u] = q.cb[u]
  BY <1>3 DEF IsTimed
<1>6. Threads(cur, p, L, L) BY <1>1, <1>5, SameThreads DEF Ahead
<1>7. CASE old = NULL
  <2>1. r = p /\ L \ {old} = L BY <1>1, <1>4, <1>7
  <2>2. \A u \in Table \ {t} : SameData(p.cb[u], q.cb[u]) BY <1>5 DEF SameData
  <2>3. QED BY <1>1, <1>5, <1>6, <1>7, <2>1, <2>2 DEF r, p, old, L, IsReplaced
<1>8. CASE old # NULL
  <2>1. r = Remove(p, old) /\ old \in L /\ old # t BY <1>1, <1>2, <1>4, <1>8 DEF FollowerOf, L
  <2>2. Removed(r, p, L, old) /\ Threads(cur, r, L \ {old}, L \ {old}) BY <1>5, <1>6, <2>1, RemoveIs
  <2>3. /\ r \in Lists /\ r.cb[old] = FreshCB(old)
        /\ \A u \in Table \ {old} : SameData(r.cb[u], p.cb[u])
        /\ \A u \in Table \ L : r.cb[u] = p.cb[u]
    BY <2>2 DEF Removed
  <2>4. /\ \A u \in Table \ {t} : u # old => SameData(r.cb[u], q.cb[u])
        /\ \A u \in Table \ {t} : u \notin L => r.cb[u] = q.cb[u]
        /\ r.cb[t] = p.cb[t]
    BY <1>1, <1>5, <2>3
  <2>5. QED BY <2>2, <2>3, <2>4 DEF r, p, old, L, IsReplaced
<1>9. QED BY <1>7, <1>8

\* NextScheduleTable lets t start where f ends.
LEMMA ChainTableIs ==
  ASSUME ClockOK, TableSumsFit, NEW q, TablesOK(CounterCurVal, q),
         NEW f \in Table, NEW t \in Table, <<f, t>> \in Chains,
         q.cb[f].state = "RUNNING", q.cb[t].state = "STOPPED"
  PROVE  /\ TablesOK(CounterCurVal, ChainTable(q, f, t)) /\ ChainedTo(ChainTable(q, f, t), q, f, t)
         /\ Ahead(CounterCurVal, ChainTable(q, f, t), t) # 0
<1> DEFINE old == q.cb[f].nextTbl
           p   == Timed(q, f, t)
           r   == Replaced(q, f, t)
           j   == Joined(r, f, t)
           d   == ChainTable(q, f, t)
           L   == Started(q)
           K   == L \ {old}
           cur == CounterCurVal
<1>1. /\ q \in Lists /\ cur \in Ticks /\ NULL \notin Table /\ f # t
      /\ \A u \in Table : CellOK(cur, q, u)
      /\ \A g, u \in Table : FollowerOK(cur, q, g, u)
  BY TableConstants DEF TablesOK, ClockOK
<1>2. t \in Table \ L /\ L \subseteq Table /\ f \in L /\ t \in Table \ K /\ K \subseteq Table
  BY DEF Started
<1>3. /\ ChainStart(q, f) \in Ticks /\ ChainTick(q, f, t) \in Ticks
      /\ GetDistance(ChainStart(q, f), ChainTick(q, f, t)) = Offset(t, 0)
      /\ GetDistance(cur, ChainTick(q, f, t))
         = Ahead(cur, q, f) + Duration[f] - Offset(f, q.cb[f].epId) + Offset(t, 0)
      /\ GetDistance(cur, ChainTick(q, f, t)) \in 1 .. Round - 2
  <2> HIDE DEF cur
  <2>1. QED BY <1>1, EndAhead DEF cur
<1>4. IsTimed(p, q, f, t) BY <1>3, TimedIs
<1>5. IsReplaced(r, q, f, t) BY ReplacedIs
<1>6. old # NULL => FollowerOf(q, f, old) BY FollowerIs
<1>7. j = Joined(r, f, t) /\ d = InsertSchedTblNode(j, t) BY DEF ChainTable
<1> HIDE DEF p, r, old, L, j, d, K
<1>8. /\ r \in Lists /\ Threads(cur, r, K, K) /\ r.cb[t] = p.cb[t]
      /\ \A u \in Table : u = old => r.cb[u] = FreshCB(u)
      /\ \A u \in Table \ {t} : u # old => SameData(r.cb[u], q.cb[u])
      /\ \A u \in Table \ {t} : u \notin L => r.cb[u] = q.cb[u]
  BY <1>5 DEF IsReplaced, old, K, L, p
<1>9. IsJoined(j, r, f, t) BY <1>1, <1>7, <1>8, JoinedIs
<1>10. old # NULL => /\ old \in L /\ old # f /\ old # t /\ q.cb[old].nextTbl = NULL
                     /\ q.cb[old].state = "NEXT" /\ q.cb[old].prevTbl = f
  BY <1>2, <1>6 DEF FollowerOf, L
<1>11. old # f /\ old # t BY <1>1, <1>10
<1>12. /\ j.cb[t].state = "NEXT" /\ j.cb[t].epId = 0 /\ j.cb[t].nextEP = 0
       /\ j.cb[t].delay = GetEpDelay(t, 0)
       /\ j.cb[t].startAbsTick = Noted(t, ChainStart(q, f)) /\ j.cb[t].nextEpAbsTick = ChainTick(q, f, t)
       /\ j.cb[t].nextTbl = NULL /\ j.cb[t].prevTbl = f
       /\ j.cb[t].nextNode = NULL /\ j.cb[t].preNode = NULL
  BY <1>4, <1>8, <1>9 DEF IsJoined, IsTimed
<1>13. j \in Lists /\ Threads(cur, j, K, K)
  BY <1>9, <1>2, <1>8, SameThreads DEF IsJoined, SameRun, Ahead
<1>14. \A u \in K \cup {t} : Ahead(cur, j, u) <= Round - 2
  <2>1. Ahead(cur, j, t) \in 1 .. Round - 2 BY <1>3, <1>12 DEF Ahead
  <2>2. ASSUME NEW u \in K
        PROVE  Ahead(cur, j, u) <= Round - 2
    <3>1. Ahead(cur, q, u) \in 0 .. Round - 2 BY <1>1, <2>2, StartedAhead DEF K, L
    <3>2. u \in Table \ {t} /\ u # old BY <1>2, <2>2 DEF K
    <3>3. j.cb[u].nextEpAbsTick = q.cb[u].nextEpAbsTick
      BY <1>8, <1>9, <3>2 DEF IsJoined, SameRun, SameData
    <3>4. QED BY <3>1, <3>3, TicksAre DEF Ahead
  <2>3. QED BY <2>1, <2>2, TicksAre
<1>15. Relinked(d, j, K \cup {t}) /\ Threads(cur, d, K \cup {t}, K \cup {t})
  BY <1>2, <1>7, <1>12, <1>13, <1>14, InsertsTableInOrder
<1>16. /\ d \in Lists /\ \A u \in Table : SameData(d.cb[u], j.cb[u])
       /\ \A u \in Table \ (K \cup {t}) : d.cb[u] = j.cb[u]
  BY <1>15 DEF Relinked
\* What has become of the tables.
<1>17. /\ d.cb[t].state = "NEXT" /\ d.cb[t].epId = 0 /\ d.cb[t].nextEP = 0
       /\ d.cb[t].delay = GetEpDelay(t, 0)
       /\ d.cb[t].startAbsTick = Noted(t, ChainStart(q, f)) /\ d.cb[t].nextEpAbsTick = ChainTick(q, f, t)
       /\ d.cb[t].nextTbl = NULL /\ d.cb[t].prevTbl = f
  BY <1>12, <1>16 DEF SameData
<1>18. d.cb[f].nextTbl = t /\ SameRun(d.cb[f], q.cb[f])
  BY <1>9, <1>16, <1>1, <1>8, <1>11 DEF IsJoined, SameData, SameRun
<1>19. ASSUME NEW u \in Table, u = old
       PROVE  d.cb[u] = FreshCB(u)
  BY <1>11, <1>19, <1>9, <1>16, <1>8 DEF K, IsJoined
<1>20. ASSUME NEW u \in Table, u # f, u # t, u # old
       PROVE  SameData(d.cb[u], q.cb[u])
  BY <1>8, <1>9, <1>16, <1>20 DEF IsJoined, SameData
<1>21. ASSUME NEW u \in Table \ {t}, q.cb[u].state = "STOPPED"
       PROVE  d.cb[u] = q.cb[u]
  BY <1>21, <1>8, <1>9, <1>16 DEF K, L, Started, IsJoined
<1>22. K \cup {t} = Started(d)
  <2>1. ASSUME NEW u \in Table
        PROVE  u \in K \cup {t} <=> d.cb[u].state # "STOPPED"
    <3>1. CASE u = t BY <1>17, <3>1
    <3>2. CASE u = f BY <1>1, <1>2, <1>11, <1>18, <3>2 DEF K, SameRun
    <3>3. CASE u = old BY <1>11, <1>19, <3>3, FreshFields DEF K
    <3>4. CASE u # f /\ u # t /\ u # old BY <1>20, <3>4 DEF K, L, Started, SameData
    <3>5. QED BY <3>1, <3>2, <3>3, <3>4
  <2>2. QED BY <1>2, <2>1 DEF Started
<1>23. Ahead(cur, d, t) = Ahead(cur, d, f) + Duration[f] - Offset(f, d.cb[f].epId) + Offset(t, 0)
  BY <1>18, <1>17, <1>3 DEF Ahead, SameRun
<1>24. ASSUME NEW u \in Table
       PROVE  CellOK(cur, d, u)
  <2>1. CASE u = t
    <3>1. 0 \in 0 .. LastEP(t) BY OffsetsAre
    <3>2. Chained(t) => Noted(t, ChainStart(q, f)) = ChainStart(q, f)
      BY TableConstants DEF Chained, Noted
    <3>3. QED BY <1>3, <1>17, <1>18, <2>1, <3>1, <3>2 DEF CellOK
  <2>2. CASE u = old BY OffsetsAre, <1>19, <2>2 DEF CellOK, FreshCB
  <2>3. CASE u = f BY <1>1, <1>18, <2>3, CellKept
  <2>4. CASE u # f /\ u # t /\ u # old
    <3>1. CellOK(cur, q, u) /\ SameData(d.cb[u], q.cb[u]) BY <1>1, <1>20, <2>4
    <3>2. q.cb[u].state = "STOPPED" => d.cb[u] = q.cb[u] BY <1>21, <2>4
    <3>3. q.cb[u].state = "NEXT" => d.cb[q.cb[u].prevTbl].nextTbl = u
      <4>1. SUFFICES ASSUME q.cb[u].state = "NEXT"
                     PROVE  d.cb[q.cb[u].prevTbl].nextTbl = u
        OBVIOUS
      <4> DEFINE g == q.cb[u].prevTbl
      <4>2. g \in Table /\ q.cb[g].nextTbl = u BY <3>1, <4>1 DEF CellOK
      <4> HIDE DEF g
      <4>3. g # f BY <2>4, <4>2 DEF old
      <4>4. g # old BY <1>1, <1>10, <4>2
      <4>5. g # t BY <1>1, <4>2, StoppedAre
      <4>6. d.cb[g].nextTbl = u BY <1>20, <4>2, <4>3, <4>4, <4>5 DEF SameData
      <4>7. QED BY <4>6 DEF g
    <3>4. QED BY <3>1, <3>2, <3>3, CellStays
  <2>5. QED BY <2>1, <2>2, <2>3, <2>4
<1>25. ASSUME NEW g \in Table, NEW u \in Table
       PROVE  FollowerOK(cur, d, g, u)
  <2>1. FollowerOK(cur, q, g, u) /\ u # NULL BY <1>1
  <2>2. CASE g = t \/ g = old BY <1>17, <1>19, <2>2, FreshFields, <2>1 DEF FollowerOK
  <2>3. CASE g = f BY <1>18, <1>17, <1>23, <2>3 DEF SameRun, FollowerOK
  <2>4. CASE g # t /\ g # old /\ g # f /\ (u = t \/ u = old)
    BY <2>1, <1>10, <2>4, <1>20 DEF FollowerOK, SameData
  <2>5. CASE g # t /\ g # old /\ g # f /\ u # t /\ u # old
    BY <1>20, <2>5, <2>1, FollowerStays DEF FollowerOK, SameData
  <2>6. QED BY <2>2, <2>3, <2>4, <2>5
<1>26. TablesOK(cur, d) BY <1>15, <1>16, <1>22, <1>24, <1>25 DEF TablesOK
<1>27. ChainedTo(d, q, f, t) BY <1>17, <1>18, <1>19, <1>20 DEF ChainedTo, old
<1>28. Ahead(cur, d, t) # 0 BY <1>3, <1>17, TicksAre DEF Ahead
<1>29. QED BY <1>26, <1>27, <1>28 DEF d

\* A tick brings every expiry point one nearer.
LEMMA TickIs ==
  ASSUME NEW cur \in Ticks, NEW q, TablesOK(cur, q), \A t \in Started(q) : Ahead(cur, q, t) # 0
  PROVE  /\ CalcAbsTicks(cur, 1) \in Ticks
         /\ TablesOK(CalcAbsTicks(cur, 1), q)
         /\ \A t \in Started(q) : Ahead(CalcAbsTicks(cur, 1), q, t) = Ahead(cur, q, t) - 1
<1> DEFINE on == CalcAbsTicks(cur, 1)
           L  == Started(q)
<1>1. /\ q \in Lists /\ Threads(cur, q, L, L) /\ L \subseteq Table
      /\ \A t \in Table : CellOK(cur, q, t)
      /\ \A f, t \in Table : FollowerOK(cur, q, f, t)
  BY DEF TablesOK, Started
<1>2. on \in Ticks BY OneOn
<1>3. \A t \in L : Ahead(on, q, t) = Ahead(cur, q, t) - 1 /\ Ahead(cur, q, t) \in 0 .. Round - 1
  BY <1>1, DistanceIs, OneOn DEF Lists, CB, Ahead
<1> HIDE DEF on, L
<1>4. Threads(on, q, L, L)
  <2>0. PICK n \in Nat : \E place : Linked(q, L, n, place) /\ OrderedOn(cur, q, L, place)
    BY <1>1 DEF Threads
  <2>1. PICK place : Linked(q, L, n, place) /\ OrderedOn(cur, q, L, place) BY <2>0
  <2>2. OrderedOn(on, q, L, place) BY <2>1, <1>3, TicksAre DEF OrderedOn
  <2>3. QED BY <2>1, <2>2 DEF Threads
<1>5. ASSUME NEW t \in Table
      PROVE  CellOK(on, q, t)
  BY <1>1, <1>3, TicksAre DEF L, Started, CellOK
<1>6. ASSUME NEW f \in Table, NEW t \in Table
      PROVE  FollowerOK(on, q, f, t)
  <2>1. SUFFICES ASSUME q.cb[f].nextTbl = t
                 PROVE  FollowerOK(on, q, f, t)
    BY DEF FollowerOK
  <2>2. /\ q.cb[f].state = "RUNNING" /\ <<f, t>> \in Chains
        /\ q.cb[t].state = "NEXT" /\ q.cb[t].prevTbl = f
        /\ Ahead(cur, q, t) = Ahead(cur, q, f) + Duration[f] - Offset(f, q.cb[f].epId) + Offset(t, 0)
    BY <1>1, <2>1 DEF FollowerOK
  <2>3. Ahead(on, q, f) = Ahead(cur, q, f) - 1 /\ Ahead(on, q, t) = Ahead(cur, q, t) - 1
        /\ Ahead(cur, q, f) \in Nat /\ Ahead(cur, q, t) \in Nat
    BY <1>3, <2>2, TicksAre DEF L, Started
  <2>4. Duration[f] \in Nat /\ Offset(f, q.cb[f].epId) \in Nat /\ Offset(t, 0) \in Nat
    BY <1>1, OffsetsAre DEF CellOK
  <2>5. Ahead(on, q, t) = Ahead(on, q, f) + Duration[f] - Offset(f, q.cb[f].epId) + Offset(t, 0)
    BY <2>2, <2>3, <2>4
  <2>6. QED BY <2>2, <2>5 DEF FollowerOK
<1>7. TablesOK(on, q) BY <1>1, <1>4, <1>5, <1>6 DEF TablesOK, L
<1>8. QED BY <1>2, <1>3, <1>7 DEF on, L

\* A tick that is not too far ahead has passed just when the counter has come to it.
LEMMA HasPassedIs ==
  ASSUME ClockOK, NEW tick \in Ticks, TicksTo(tick) <= MaxAllowedValue + 1
  PROVE  HasPassed(tick) <=> TicksTo(tick) = 0
<1> DEFINE cur == CounterCurVal
<1>1. /\ cur \in 0 .. Round - 1 /\ tick \in 0 .. Round - 1 /\ Round \in Nat
      /\ MaxAllowedValue \in Nat /\ Round = 2 * MaxAllowedValue + 2
  BY TicksAre DEF ClockOK, Round
<1>2. /\ GetDistance(cur, tick) = IF cur <= tick THEN tick - cur ELSE tick - cur + Round
      /\ GetDistance(tick, cur) = IF tick <= cur THEN cur - tick ELSE cur - tick + Round
  BY DistanceIs DEF ClockOK
<1> HIDE DEF cur
<1>3. GetDistance(cur, tick) <= MaxAllowedValue + 1 =>
        (GetDistance(tick, cur) <= MaxAllowedValue <=> GetDistance(cur, tick) = 0)
  BY <1>1, <1>2
<1>4. QED BY <1>3 DEF HasPassed, TicksTo, cur

\* No table is nearer than the head of the list, and it runs.
LEMMA HeadIs ==
  ASSUME NEW cur \in Ticks, NEW q, TablesOK(cur, q)
  PROVE  /\ q.head = NULL => Started(q) = {}
         /\ q.head # NULL => /\ q.head \in Table /\ q.cb[q.head].state = "RUNNING"
                             /\ \A t \in Started(q) : Ahead(cur, q, q.head) <= Ahead(cur, q, t)
<1> DEFINE L == Started(q)
<1>0. PICK n \in Nat : \E place : Linked(q, L, n, place) /\ OrderedOn(cur, q, L, place)
  BY DEF TablesOK, Threads
<1>1. PICK place : Linked(q, L, n, place) /\ OrderedOn(cur, q, L, place) BY <1>0
<1>2. NULL \notin Table /\ L \subseteq Table BY TableConstants DEF Started
<1>3. q.head = NULL => L = {} BY <1>1, <1>2 DEF Linked
<1>4. SUFFICES ASSUME q.head # NULL
               PROVE  /\ q.head \in Table /\ q.cb[q.head].state = "RUNNING"
                      /\ \A t \in L : Ahead(cur, q, q.head) <= Ahead(cur, q, t)
  BY <1>3
<1> DEFINE h == q.head
<1>5. h \in L /\ place[h] = 0 /\ \A u \in L : place[u] \in 0 .. n - 1 /\ (u # h => place[u] # 0)
  BY <1>1, <1>4 DEF Linked
<1>6. ASSUME NEW u \in L
      PROVE  Ahead(cur, q, h) <= Ahead(cur, q, u)
  BY <1>2, <1>5, StartedAhead, <1>1 DEF OrderedOn
<1>7. h \in Table /\ q.cb[h].state \in {"NEXT", "RUNNING"}
  BY <1>2, <1>5 DEF TablesOK, Lists, CB, Started
<1>8. q.cb[h].state # "NEXT"
  <2>1. SUFFICES ASSUME q.cb[h].state = "NEXT"
                 PROVE  FALSE
    OBVIOUS
  <2> DEFINE f == q.cb[h].prevTbl
  <2> HIDE DEF h
  <2>2. f \in Table /\ q.cb[f].nextTbl = h BY <1>7, <2>1 DEF TablesOK, CellOK
  <2> HIDE DEF f
  <2>3. /\ q.cb[f].state = "RUNNING" /\ <<f, h>> \in Chains /\ q.cb[f].epId \in 0 .. LastEP(f)
        /\ Ahead(cur, q, h) = Ahead(cur, q, f) + Duration[f] - Offset(f, q.cb[f].epId) + Offset(h, 0)
    BY <1>7, <2>2 DEF TablesOK, FollowerOK, CellOK
  <2>4. f \in L /\ Ahead(cur, q, f) \in 0 .. Round - 1 BY <2>2, <2>3, AheadIs DEF Started, TablesOK
  <2>5. Ahead(cur, q, h) <= Ahead(cur, q, f) BY <1>6, <2>4
  <2>6. Offset(f, q.cb[f].epId) \in Nat /\ Offset(f, q.cb[f].epId) <= Offset(f, LastEP(f))
        /\ Offset(f, LastEP(f)) \in Nat
    BY <2>2, <2>3, OffsetsAre, OffsetsRise
  <2>7. /\ FinalDelay(f) + Offset(h, 0) \in 1 .. MaxAllowedValue /\ Offset(h, 0) \in Nat
        /\ Duration[f] \in Nat /\ FinalDelay(f) = Duration[f] - Offset(f, LastEP(f))
    BY <1>7, <2>2, <2>3, ChainsAre, TicksAre DEF FinalDelay
  <2>8. /\ FinalDelay(f) + Offset(h, 0) >= 1 /\ Ahead(cur, q, f) \in Nat
        /\ FinalDelay(f) \in Int
    BY <2>4, <2>6, <2>7
  <2>9. QED BY <2>3, <2>5, <2>6, <2>7, <2>8
<1>9. QED BY <1>6, <1>7, <1>8

-----------------------------------------------------------------------------
(* The inductive invariant *)

\* The services under way
Calls ==
  {NoCall} \cup [service : {"StopScheduleTable"}, table : Table]
           \cup [service : {"NextScheduleTable"}, table : Table, next : Table]

\* Until all tables are initialised the counter stands still and nothing is called.
Booting ==
  uninitialised # {} =>
    /\ tickPhase = "idle" /\ CounterCurVal = 0 /\ CounterLastVal = 0 /\ call = NoCall
    /\ \A t \in uninitialised : State(t) = "STOPPED"

\* Between ticks nothing is due.
NoneDue == tickPhase = "idle" => \A t \in Started(list) : Ahead(CounterCurVal, list, t) # 0

\* What the check of a service found still holds, and the table does not end under it.
CallHolds(q) ==
  /\ call.service = "StopScheduleTable" =>
       /\ call.table \in Table /\ q.cb[call.table].state # "STOPPED"
       /\ q.cb[call.table].prevTbl # NULL =>
            q.cb[q.cb[call.table].prevTbl].nextTbl \in {call.table, NULL}
  /\ call.service = "NextScheduleTable" =>
       /\ call.table \in Table /\ call.next \in Table /\ <<call.table, call.next>> \in Chains
       /\ q.cb[call.table].state = "RUNNING" /\ q.cb[call.next].state = "STOPPED"

EndsLater(q, cur) ==
  call # NoCall /\ q.cb[call.table].state = "RUNNING" /\ call.table \notin Repeating
    /\ q.cb[call.table].epId >= LastEP(call.table) => Ahead(cur, q, call.table) # 0

TablesInv ==
  /\ ClockOK /\ TablesOK(CounterCurVal, list)
  /\ uninitialised \subseteq Table
  /\ tickPhase \in {"idle", "counted", "working"}
  /\ call \in Calls
  /\ Booting /\ NoneDue
  /\ CallHolds(list)
  /\ tickPhase = "working" => EndsLater(list, CounterCurVal)

\* A service under way is one of the two with a check of its own.
LEMMA CallsAre ==
  ASSUME NEW c \in Calls
  PROVE  /\ c.service \in {"none", "StopScheduleTable", "NextScheduleTable"}
         /\ c.service = "none" <=> c = NoCall
         /\ c # NoCall => c.table \in Table
BY DEF Calls, NoCall

-----------------------------------------------------------------------------
(* What the actions do to the list *)

\* The table t is started, its first expiry point ahead.
Starts(cur, d, q, t) ==
  /\ TablesOK(cur, d) /\ StartedAt(d, q, t)
  /\ Ahead(cur, d, t) \in 1 .. MaxAllowedValue + 1 /\ q.cb[t].state = "STOPPED"

LEMMA StartsIs ==
  ASSUME ClockOK, TableSumsFit, NEW q, TablesOK(CounterCurVal, q), NEW t \in Table,
         q.cb[t].state = "STOPPED", NEW start \in Ticks,
         TicksTo(CalcAbsTicks(start, Offset(t, 0))) \in 1 .. MaxAllowedValue + 1
  PROVE  Starts(CounterCurVal, StartAt(q, t, start), q, t)
BY StartIs DEF Starts

\* The first offset is within the range of the counter.
LEMMA FirstOffset ==
  ASSUME NEW t \in Table
  PROVE  Offset(t, 0) \in 0 .. MaxAllowedValue
<1>1. 0 \in 0 .. LastEP(t) BY OffsetsAre
<1>2. Offset(t, 0) \in Nat BY <1>1, OffsetsAre
<1>3. Offset(t, 0) <= MaxAllowedValue BY TableConstants
<1>4. QED BY <1>2, <1>3, TicksAre

LEMMA AbsIs ==
  ASSUME TablesInv, TableSumsFit, TakesNoRisk, NEW t \in Table, NEW start \in 0 .. MaxAllowedValue,
         StartScheduleTableAbs(t, start)
  PROVE  Starts(CounterCurVal, list', list, t)
BY TicksAre, StartsIs DEF Round, StartScheduleTableAbs, MayStart, State, TakesNoRisk, TablesInv

LEMMA RelIs ==
  ASSUME TablesInv, TableSumsFit, NEW t \in Table, NEW offset \in 1 .. MaxAllowedValue,
         StartScheduleTableRel(t, offset)
  PROVE  Starts(CounterCurVal, list', list, t)
<1> DEFINE cur   == CounterCurVal
           start == CalcAbsTicks(cur, offset)
           tick  == CalcAbsTicks(start, Offset(t, 0))
<1>1. /\ list.cb[t].state = "STOPPED" /\ list' = StartAt(list, t, start)
      /\ offset <= MaxAllowedValue - Offset(t, 0)
  BY DEF StartScheduleTableRel, MayStart, State
<1>2. Offset(t, 0) \in 0 .. MaxAllowedValue /\ offset \in 0 .. MaxAllowedValue
      /\ MaxAllowedValue \in Nat /\ Round = 2 * MaxAllowedValue + 2
  BY FirstOffset, TicksAre DEF Round
<1>3. cur \in Ticks BY DEF TablesInv, ClockOK
<1> HIDE DEF cur
<1>4. start \in Ticks /\ GetDistance(cur, start) = offset BY <1>2, <1>3, TableSumIs
<1> HIDE DEF start
<1>5. tick \in Ticks /\ GetDistance(start, tick) = Offset(t, 0) BY <1>2, <1>4, TableSumIs
<1> HIDE DEF tick
<1>6. GetDistance(cur, tick) = offset + Offset(t, 0) BY <1>1, <1>2, <1>4, <1>5, <1>3, DistanceOver
<1>7. TicksTo(tick) \in 1 .. MaxAllowedValue + 1 BY <1>1, <1>2, <1>6 DEF TicksTo, cur
<1>8. QED BY <1>1, <1>4, <1>7, StartsIs DEF TablesInv, tick

LEMMA InitIs ==
  ASSUME TablesInv, TableSumsFit, NEW t \in Table, InitScheduleTable(t)
  PROVE  list' = list \/ Starts(CounterCurVal, list', list, t)
<1>1. /\ CounterCurVal = 0 /\ list.cb[t].state = "STOPPED" /\ list \in Lists
  BY DEF TablesInv, InitScheduleTable, Booting, State, TablesOK
<1>2. InitSchedTblCB(list, t) = list BY <1>1, StoppedAre DEF TablesInv, Lists, InitSchedTblCB
<1>3. CASE list' = InitSchedTblCB(list, t) BY <1>2, <1>3
<1>4. ASSUME NEW v \in TableStarts, list' = StartAt(InitSchedTblCB(list, t), t, CalcAbsTicks(CounterCurVal, v))
      PROVE  Starts(CounterCurVal, list', list, t)
  <2> DEFINE start == CalcAbsTicks(0, v)
             tick  == CalcAbsTicks(start, Offset(t, 0))
  <2>1. /\ v \in Nat /\ v + Offset(t, 0) \in 1 .. MaxAllowedValue + 1
        /\ Offset(t, 0) \in 0 .. MaxAllowedValue
    BY TableConstants, FirstOffset
  <2>2. /\ MaxAllowedValue \in Nat /\ Round = 2 * MaxAllowedValue + 2 /\ Round \in Nat
        /\ 2 ^ TickBits \in Nat /\ Round <= 2 ^ TickBits /\ Ticks = 0 .. Round - 1
    BY TicksAre DEF Round
  <2>3. start = v /\ start \in Ticks BY <2>1, <2>2, SumIs
  <2>4. CalcAbsTicks(v, Offset(t, 0)) = v + Offset(t, 0) BY <2>1, <2>2, SumIs
  <2>5. TicksTo(tick) \in 1 .. MaxAllowedValue + 1
    <3> DEFINE sum == v + Offset(t, 0)
    <3>1. 0 \in Ticks /\ sum \in Ticks /\ sum \in 1 .. MaxAllowedValue + 1 /\ sum \in Nat
      BY <2>1, <2>2
    <3>2. tick = sum BY <2>3, <2>4
    <3> HIDE DEF sum
    <3>3. 0 <= sum /\ sum - 0 = sum BY <3>1
    <3>4. GetDistance(0, sum) = sum BY <3>1, <3>3, DistanceIs
    <3>5. QED BY <1>1, <3>1, <3>2, <3>4 DEF TicksTo
  <2>6. list' = StartAt(list, t, start) BY <1>1, <1>2, <1>4
  <2> HIDE DEF start
  <2>7. QED BY <1>1, <2>3, <2>5, <2>6, StartsIs DEF TablesInv
<1>5. QED BY <1>3, <1>4 DEF InitScheduleTable

\* The table at the head, whose next expiry point has come, goes on or ends.
Processes(cur, d, q, h) ==
  /\ h \in Table /\ TablesOK(cur, d) /\ q.cb[h].state = "RUNNING" /\ Ahead(cur, q, h) = 0
  /\ \/ /\ q.cb[h].epId < LastEP(h)
        /\ AdvancedTo(d, q, h, q.cb[h].epId + 1)
        /\ Ahead(cur, d, h) = Offset(h, q.cb[h].epId + 1) - Offset(h, q.cb[h].epId)
        /\ Ahead(cur, d, h) # 0
     \/ /\ q.cb[h].epId = LastEP(h) /\ h \in Repeating
        /\ AdvancedTo(d, q, h, 0)
        /\ Ahead(cur, d, h) = FinalDelay(h) + Offset(h, 0)
     \/ /\ q.cb[h].epId = LastEP(h) /\ h \notin Repeating
        /\ EndedTo(d, q, h)
        /\ \A u \in Table : u = q.cb[h].nextTbl =>
             Ahead(cur, d, u) = FinalDelay(h) + Offset(u, 0) /\ Ahead(cur, d, u) # 0

\* The test of Os_WorkSchedTbl finds what is due, and that it runs.
LEMMA DueIs ==
  ASSUME ClockOK, TablesOK(CounterCurVal, list)
  PROVE  /\ list.head # NULL => list.head \in Table /\ State(list.head) = "RUNNING"
         /\ TableDue => Ahead(CounterCurVal, list, list.head) = 0
         /\ ~TableDue => \A t \in Started(list) : Ahead(CounterCurVal, list, t) # 0
<1> DEFINE cur == CounterCurVal
           h   == list.head
<1>1. cur \in Ticks BY DEF ClockOK
<1>2. /\ h = NULL => Started(list) = {}
      /\ h # NULL => /\ h \in Table /\ list.cb[h].state = "RUNNING"
                     /\ \A t \in Started(list) : Ahead(cur, list, h) <= Ahead(cur, list, t)
  BY <1>1, HeadIs
<1>3. ASSUME h # NULL
      PROVE  HasPassed(list.cb[h].nextEpAbsTick) <=> Ahead(cur, list, h) = 0
  BY <1>2, <1>3, HasPassedIs DEF TablesOK, Lists, CB, CellOK, Ahead, TicksTo
<1>4. ~TableDue => \A t \in Started(list) : Ahead(cur, list, t) # 0
  BY <1>2, <1>3, <1>1, StartedAhead DEF TableDue, Started
<1>5. QED BY <1>2, <1>3, <1>4 DEF TableDue, State

\* One round of the loop of Os_WorkSchedTbl.
LEMMA EpProcIs ==
  ASSUME TablesInv, TableSumsFit, EpProc
  PROVE  Processes(CounterCurVal, list', list, list.head)
<1> DEFINE h   == list.head
           cur == CounterCurVal
<1>1. /\ ClockOK /\ TablesOK(cur, list) BY DEF TablesInv
<1>2. /\ h \in Table /\ list.cb[h].state = "RUNNING" /\ Ahead(cur, list, h) = 0
  BY <1>1, DueIs DEF EpProc, TableDue, State
<1>3. list' = RunningState(list, h) BY <1>2 DEF EpProc, State
<1>4. list.cb[h].epId \in 0 .. LastEP(h) /\ LastEP(h) \in Nat
  BY <1>1, <1>2, OffsetsAre DEF TablesOK, CellOK
<1> HIDE DEF h
<1>5. CASE ~ (list.cb[h].epId >= LastEP(h))
  <2>1. list' = ToNextEp(list, h) BY <1>3, <1>5 DEF RunningState, AtLastEP
  <2>2. /\ TablesOK(cur, list')
        /\ AdvancedTo(list', list, h, list.cb[h].epId + 1)
        /\ Ahead(cur, list', h) = Offset(h, list.cb[h].epId + 1) - Offset(h, list.cb[h].epId)
        /\ Ahead(cur, list', h) # 0
    BY <1>1, <1>2, <1>5, <2>1, ToNextEpIs DEF h
  <2>3. QED BY <1>2, <1>4, <1>5, <2>2 DEF Processes, h
<1>6. CASE list.cb[h].epId >= LastEP(h) /\ h \in Repeating
  <2>1. list' = NextRound(list, h) BY <1>3, <1>6 DEF RunningState, AtLastEP
  <2>2. /\ TablesOK(cur, list') /\ AdvancedTo(list', list, h, 0)
        /\ Ahead(cur, list', h) = FinalDelay(h) + Offset(h, 0)
    BY <1>1, <1>2, <1>6, <2>1, NextRoundIs DEF h
  <2>3. QED BY <1>2, <1>4, <1>6, <2>2 DEF Processes, h
<1>7. CASE list.cb[h].epId >= LastEP(h) /\ h \notin Repeating
  <2>1. list' = EndTable(list, h) BY <1>3, <1>7 DEF RunningState, AtLastEP
  <2>2. /\ TablesOK(cur, list') /\ EndedTo(list', list, h)
        /\ \A u \in Table : u = list.cb[h].nextTbl =>
             Ahead(cur, list', u) = FinalDelay(h) + Offset(u, 0) /\ Ahead(cur, list', u) # 0
    BY <1>1, <1>2, <1>7, <2>1, EndTableIs
  <2>3. QED BY <1>2, <1>4, <1>7, <2>2 DEF Processes, h
<1>8. QED BY <1>5, <1>6, <1>7

\* The invariant holds when the kernel starts,
LEMMA TablesInitially == TableInit => TablesInv
<1> SUFFICES ASSUME TableInit
             PROVE  TablesInv
  OBVIOUS
<1> DEFINE place == [u \in {} |-> 0]
<1>1. /\ CounterCurVal = 0 /\ CounterLastVal = 0 /\ list.head = NULL
      /\ list = [head |-> NULL, cb |-> [t \in Table |-> FreshCB(t)]]
      /\ \A t \in Table : list.cb[t] = FreshCB(t)
      /\ call = NoCall /\ uninitialised = Table /\ tickPhase = "idle"
  BY DEF TableInit, InitCounter
<1>2. \A t \in Table : list.cb[t].state = "STOPPED" /\ list.cb[t].nextTbl = NULL
  BY <1>1, FreshFields
<1>3. Started(list) = {} BY <1>2 DEF Started
<1>4. list \in Lists BY FreshIs, <1>1 DEF Lists
<1>5. Linked(list, {}, 0, place) /\ OrderedOn(CounterCurVal, list, {}, place)
  BY <1>1 DEF Linked, OrderedOn
<1>6. Threads(CounterCurVal, list, {}, {})
  <2>1. 0 \in Nat OBVIOUS
  <2> HIDE DEF place
  <2>2. QED BY <1>5, <2>1 DEF Threads
<1>7. ASSUME NEW t \in Table
      PROVE  CellOK(CounterCurVal, list, t)
  BY OffsetsAre, <1>1 DEF CellOK, FreshCB
<1>8. \A f, t \in Table : FollowerOK(CounterCurVal, list, f, t)
  BY <1>2, TableConstants DEF FollowerOK
<1>9. TablesOK(CounterCurVal, list) BY <1>3, <1>4, <1>6, <1>7, <1>8 DEF TablesOK
<1>10. ClockOK BY <1>1, TicksAre DEF ClockOK, Round
<1>11. call \in Calls /\ call.service = "none" BY <1>1 DEF Calls, NoCall
<1>12. CallHolds(list) BY <1>11 DEF CallHolds
<1>13. QED BY <1>1, <1>2, <1>3, <1>9, <1>10, <1>11, <1>12 DEF TablesInv, Booting, NoneDue, State

\* and every action keeps it.
LEMMA IncrementStays ==
  ASSUME TablesInv, IncrementTableCounter
  PROVE  TablesInv'
BY TickIs DEF IncrementTableCounter, CountUp, TablesInv, ClockOK, NoneDue, CallHolds, Booting

LEMMA WorkDoneStays ==
  ASSUME TablesInv, WorkSchedTblDone
  PROVE  TablesInv'
BY DueIs DEF WorkSchedTblDone, counterVars, TablesInv, Booting, ClockOK, CallHolds, NoneDue

LEMMA EpProcStays ==
  ASSUME TablesInv, TableSumsFit, TakesNoRisk, EpProc
  PROVE  TablesInv'
<1> DEFINE h   == list.head
           cur == CounterCurVal
           end == list.cb[h].nextTbl
<1>1. /\ tickPhase \in {"counted", "working"} /\ tickPhase' = "working" /\ uninitialised = {}
      /\ CounterLastVal' = CounterLastVal /\ CounterCurVal' = CounterCurVal
      /\ call' = call /\ uninitialised' = uninitialised
  BY DEF EpProc, counterVars, TablesInv, Booting
<1>2. Processes(cur, list', list, h) BY EpProcIs
<1>3. TablesOK(cur, list) /\ CallHolds(list) /\ call \in Calls /\ ClockOK /\ cur \in Ticks
  BY DEF TablesInv, ClockOK
<1>4. /\ h \in Table /\ TablesOK(cur, list') /\ list.cb[h].state = "RUNNING" /\ Ahead(cur, list, h) = 0
      /\ list.cb[h].epId \in 0 .. LastEP(h)
  BY <1>2, <1>3 DEF Processes, TablesOK, CellOK
<1>5. EndsLater(list, cur)
  <2>1. CASE tickPhase = "working" BY <2>1 DEF TablesInv
  <2>2. CASE tickPhase = "counted"
    <3>1. ~EndsUnderCall BY <2>2 DEF EpProc, TakesNoRisk
    <3>2. SUFFICES ASSUME call # NoCall, list.cb[call.table].state = "RUNNING",
                          call.table \notin Repeating, list.cb[call.table].epId >= LastEP(call.table),
                          Ahead(cur, list, call.table) = 0
                   PROVE  FALSE
      BY DEF EndsLater
    <3>3. call.table \in Table BY <1>3, <3>2, CallsAre
    <3>4. list.cb[call.table].nextEpAbsTick \in Ticks BY <1>3, <3>3 DEF TablesOK, Lists, CB
    <3>5. HasPassed(list.cb[call.table].nextEpAbsTick)
      BY <1>3, <3>2, <3>4, HasPassedIs, TicksAre DEF Ahead, TicksTo
    <3>6. QED BY <3>1, <3>2, <3>5 DEF EndsUnderCall, State, AtLastEP
  <2>3. QED BY <1>1, <2>1, <2>2
\* What a step does to a table, of whichever kind the step is.
<1>6. ASSUME NEW u \in Table
      PROVE  \/ SameData(list'.cb[u], list.cb[u])
             \/ /\ u = h /\ list'.cb[u].state = "RUNNING"
                /\ list'.cb[u].nextTbl = list.cb[u].nextTbl /\ list'.cb[u].prevTbl = list.cb[u].prevTbl
                /\ u \in Repeating \/ Ahead(cur, list', u) # 0
             \/ /\ u = h /\ list'.cb[u] = FreshCB(u) /\ u \notin Repeating /\ list.cb[u].epId >= LastEP(u)
             \/ /\ u = end /\ u # h /\ list.cb[u].state = "NEXT" /\ list'.cb[u].state = "RUNNING"
                /\ list'.cb[u].nextTbl = NULL /\ list.cb[u].nextTbl = NULL
                /\ list'.cb[u].prevTbl = h /\ list.cb[u].prevTbl = h /\ list'.cb[h].nextTbl = NULL
                /\ Ahead(cur, list', u) # 0
  <2>1. CASE /\ list.cb[h].epId < LastEP(h)
             /\ AdvancedTo(list', list, h, list.cb[h].epId + 1) /\ Ahead(cur, list', h) # 0
    BY <2>1 DEF AdvancedTo
  <2>2. CASE list.cb[h].epId = LastEP(h) /\ h \in Repeating /\ AdvancedTo(list', list, h, 0)
    BY <2>2 DEF AdvancedTo
  <2>3. CASE /\ list.cb[h].epId = LastEP(h) /\ h \notin Repeating /\ EndedTo(list', list, h)
             /\ \A v \in Table : v = end => Ahead(cur, list', v) # 0
    <3>1. CASE u = h BY <1>4, <2>3, OffsetsAre, <3>1 DEF EndedTo
    <3>2. CASE u # h /\ u = end
      <4>1. end # NULL BY <3>2, TableConstants
      <4>2. FollowerOf(list, h, end) BY <1>3, <1>4, <4>1, FollowerIs
      <4>3. list'.cb[h].nextTbl = NULL BY <1>4, <2>3, FreshFields DEF EndedTo
      <4>4. QED BY <2>3, <3>2, <4>2, <4>3 DEF EndedTo, FollowerOf
    <3>3. CASE u # h /\ u # end BY <2>3, <3>3 DEF EndedTo
    <3>4. QED BY <3>1, <3>2, <3>3
  <2>4. QED BY <1>2, <2>1, <2>2, <2>3 DEF Processes
<1> HIDE DEF h, end, cur
<1>7. ASSUME NEW u \in Table, call # NoCall, u = call.table, list.cb[u].state # "STOPPED"
      PROVE  list'.cb[u].state # "STOPPED" /\ (list.cb[u].state = "RUNNING" => list'.cb[u].state = "RUNNING")
  BY <1>4, <1>5, <1>7, <1>6 DEF EndsLater, SameData
<1>8. CallHolds(list)'
  <2>1. CASE call.service = "StopScheduleTable"
    <3> DEFINE t == call.table
               p == list.cb[t].prevTbl
    <3>1. /\ t \in Table /\ list.cb[t].state # "STOPPED" /\ call # NoCall
          /\ p # NULL => list.cb[p].nextTbl \in {t, NULL}
      BY <1>3, <2>1, CallsAre DEF CallHolds
    <3>2. list'.cb[t].state # "STOPPED" BY <1>7, <3>1
    <3> HIDE DEF t
    <3>3. list'.cb[t].prevTbl = p BY <1>4, <1>5, <3>1, <1>6 DEF EndsLater, t, SameData
    <3>4. p # NULL => list'.cb[p].nextTbl \in {t, NULL}
      <4>1. SUFFICES ASSUME p # NULL
                     PROVE  list'.cb[p].nextTbl \in {t, NULL}
        OBVIOUS
      <4>2. p \in Table BY <1>3, <3>1, <4>1 DEF TablesOK, Lists, CB
      <4> HIDE DEF p
      <4>3. list'.cb[p].nextTbl = list.cb[p].nextTbl \/ list'.cb[p].nextTbl = NULL
        BY <1>6, <4>2, FreshFields DEF SameData
      <4>4. QED BY <3>1, <4>1, <4>3
    <3>5. QED BY <1>1, <2>1, <3>1, <3>2, <3>3, <3>4 DEF CallHolds, t
  <2>2. CASE call.service = "NextScheduleTable"
    <3> DEFINE f == call.table
               t == call.next
    <3>1. /\ f \in Table /\ t \in Table /\ <<f, t>> \in Chains /\ call # NoCall
          /\ list.cb[f].state = "RUNNING" /\ list.cb[t].state = "STOPPED"
      BY <1>3, <2>2, CallsAre DEF CallHolds
    <3>2. list'.cb[f].state = "RUNNING" BY <1>7, <3>1
    <3> HIDE DEF t
    <3>3. list'.cb[t].state = "STOPPED" BY <1>4, <1>6, <3>1 DEF SameData
    <3>4. QED BY <1>1, <2>2, <3>1, <3>2, <3>3 DEF CallHolds, t
  <2>3. CASE call.service = "none" BY <1>1, <2>3 DEF CallHolds
  <2>4. QED BY <1>3, <2>1, <2>2, <2>3, CallsAre
<1>9. EndsLater(list, CounterCurVal)'
  <2>1. SUFFICES ASSUME call # NoCall, list'.cb[call.table].state = "RUNNING",
                        call.table \notin Repeating, list'.cb[call.table].epId >= LastEP(call.table)
                 PROVE  Ahead(cur, list', call.table) # 0
    BY <1>1 DEF EndsLater, cur
  <2> DEFINE u == call.table
  <2>2. u \in Table BY <1>3, <2>1, CallsAre
  <2>3. list'.cb[u] # FreshCB(u) BY <2>1, <2>2, FreshFields
  <2>4. CASE SameData(list'.cb[u], list.cb[u])
    BY <2>4, SameAhead, <1>5, <2>1 DEF EndsLater, SameData
  <2> HIDE DEF u
  <2>5. CASE ~SameData(list'.cb[u], list.cb[u]) BY <1>6, <2>1, <2>2, <2>3, <2>5 DEF u
  <2>6. QED BY <2>4, <2>5
<1>10. ClockOK' /\ TablesOK(CounterCurVal, list)' BY <1>1, <1>3, <1>4 DEF ClockOK, cur
<1>11. QED BY <1>1, <1>3, <1>8, <1>9, <1>10 DEF TablesInv, Booting, NoneDue

LEMMA StartsStays ==
  ASSUME TablesInv, NEW t \in Table, Starts(CounterCurVal, list', list, t), call = NoCall,
         UNCHANGED <<counterVars, call, tickPhase>>, uninitialised' \in SUBSET (uninitialised \ {t})
  PROVE  TablesInv'
<1>1. /\ CounterLastVal' = CounterLastVal /\ CounterCurVal' = CounterCurVal
      /\ call' = NoCall /\ tickPhase' = tickPhase
  BY DEF counterVars
<1>2. /\ TablesOK(CounterCurVal, list') /\ StartedAt(list', list, t) /\ Ahead(CounterCurVal, list', t) # 0
  BY TicksAre DEF Starts
<1>3. \A u \in Table \ {t} : list'.cb[u].state = list.cb[u].state
                             /\ Ahead(CounterCurVal, list', u) = Ahead(CounterCurVal, list, u)
  BY <1>2, SameAhead DEF StartedAt, SameData
<1>4. ClockOK' /\ TablesOK(CounterCurVal, list)' BY <1>1, <1>2 DEF TablesInv, ClockOK
<1>5. NoneDue' BY <1>1, <1>2, <1>3 DEF NoneDue, Started, TablesInv
<1>6. Booting' BY <1>1, <1>3 DEF TablesInv, Booting, State
<1>7. call' \in Calls /\ call'.service = "none" BY <1>1 DEF Calls, NoCall
<1>8. CallHolds(list)' /\ EndsLater(list, CounterCurVal)' BY <1>1, <1>7 DEF CallHolds, EndsLater
<1>9. QED BY <1>1, <1>4, <1>5, <1>6, <1>7, <1>8 DEF TablesInv

LEMMA InitStays ==
  ASSUME TablesInv, TableSumsFit, NEW t \in Table, InitScheduleTable(t)
  PROVE  TablesInv'
<1>1. /\ t \in uninitialised /\ uninitialised' = uninitialised \ {t} /\ call = NoCall
      /\ UNCHANGED <<counterVars, call, tickPhase>>
  BY DEF InitScheduleTable, TablesInv, Booting
<1>2. CASE list' = list
  <2>1. /\ CounterLastVal' = CounterLastVal /\ CounterCurVal' = CounterCurVal
        /\ call' = call /\ tickPhase' = tickPhase
    BY <1>1 DEF counterVars
  <2>2. ClockOK' /\ TablesOK(CounterCurVal, list)' /\ NoneDue' /\ Booting'
    BY <1>1, <1>2, <2>1 DEF TablesInv, ClockOK, NoneDue, Booting, State
  <2>3. CallHolds(list)' /\ EndsLater(list, CounterCurVal)'
    BY <1>1, <1>2, <2>1 DEF TablesInv, CallHolds, EndsLater
  <2>4. QED BY <1>1, <2>1, <2>2, <2>3 DEF TablesInv
<1>3. CASE Starts(CounterCurVal, list', list, t) BY <1>1, <1>3, StartsStays
<1>4. QED BY <1>2, <1>3, InitIs

LEMMA RelStays ==
  ASSUME TablesInv, TableSumsFit, NEW t \in Table, NEW offset \in 1 .. MaxAllowedValue,
         StartScheduleTableRel(t, offset)
  PROVE  TablesInv'
BY RelIs, StartsStays DEF StartScheduleTableRel, MayStart, MayControl

LEMMA AbsStays ==
  ASSUME TablesInv, TableSumsFit, TakesNoRisk, NEW t \in Table, NEW start \in 0 .. MaxAllowedValue,
         StartScheduleTableAbs(t, start)
  PROVE  TablesInv'
BY AbsIs, StartsStays DEF StartScheduleTableAbs, MayStart, MayControl

LEMMA StopCheckStays ==
  ASSUME TablesInv, TakesNoRisk, NEW t \in Table, StopScheduleTableCheck(t)
  PROVE  TablesInv'
<1>1. /\ uninitialised = {} /\ tickPhase # "working" /\ State(t) # "STOPPED" /\ FollowsNoOther(t)
      /\ call' = [service |-> "StopScheduleTable", table |-> t]
      /\ CounterLastVal' = CounterLastVal /\ CounterCurVal' = CounterCurVal
      /\ list' = list /\ uninitialised' = uninitialised /\ tickPhase' = tickPhase
  BY DEF StopScheduleTableCheck, MayControl, TakesNoRisk, counterVars
<1>2. call' \in Calls /\ call'.service = "StopScheduleTable" /\ call'.table = t BY <1>1 DEF Calls
<1>3. CallHolds(list)' BY <1>1, <1>2 DEF CallHolds, State, FollowsNoOther
<1>4. ClockOK' /\ TablesOK(CounterCurVal, list)' /\ NoneDue' /\ Booting'
  BY <1>1 DEF TablesInv, ClockOK, NoneDue, Booting
<1>5. QED BY <1>1, <1>2, <1>3, <1>4 DEF TablesInv

LEMMA NextCheckStays ==
  ASSUME TablesInv, NEW f \in Table, NEW t \in Table, NextScheduleTableCheck(f, t)
  PROVE  TablesInv'
<1>1. /\ uninitialised = {} /\ tickPhase # "working" /\ <<f, t>> \in Chains
      /\ State(f) = "RUNNING" /\ State(t) = "STOPPED"
      /\ call' = [service |-> "NextScheduleTable", table |-> f, next |-> t]
      /\ CounterLastVal' = CounterLastVal /\ CounterCurVal' = CounterCurVal
      /\ list' = list /\ uninitialised' = uninitialised /\ tickPhase' = tickPhase
  BY DEF NextScheduleTableCheck, MayControl, counterVars
<1>2. call' \in Calls /\ call'.service = "NextScheduleTable" /\ call'.table = f /\ call'.next = t
  BY <1>1 DEF Calls
<1>3. CallHolds(list)' BY <1>1, <1>2 DEF CallHolds, State
<1>4. ClockOK' /\ TablesOK(CounterCurVal, list)' /\ NoneDue' /\ Booting'
  BY <1>1 DEF TablesInv, ClockOK, NoneDue, Booting
<1>5. QED BY <1>1, <1>2, <1>3, <1>4 DEF TablesInv

\* The table t is stopped.
Stops(cur, d, q, t) ==
  t \in Table /\ q.cb[t].state # "STOPPED" /\ TablesOK(cur, d) /\ StoppedTo(d, q, t)
  /\ (q.cb[t].prevTbl # NULL => q.cb[q.cb[t].prevTbl].nextTbl \in {t, NULL})

LEMMA StopIs ==
  ASSUME TablesInv, StopScheduleTable
  PROVE  Stops(CounterCurVal, list', list, call.table)
<1> DEFINE t == call.table
<1>1. /\ t \in Table /\ list.cb[t].state # "STOPPED"
      /\ list.cb[t].prevTbl # NULL => list.cb[list.cb[t].prevTbl].nextTbl \in {t, NULL}
  BY DEF TablesInv, CallHolds, StopScheduleTable
<1>2. list' = StopTable(list, t) BY DEF StopScheduleTable, StopTable, StopFollower, Unchain
<1> HIDE DEF t
<1>3. TablesOK(CounterCurVal, list') /\ StoppedTo(list', list, t)
  BY <1>1, <1>2, StopTableIs DEF TablesInv
<1>4. QED BY <1>1, <1>3 DEF Stops, t

LEMMA StopStays ==
  ASSUME TablesInv, StopScheduleTable
  PROVE  TablesInv'
<1> DEFINE t == call.table
<1>1. /\ uninitialised = {} /\ tickPhase # "working" /\ call' = NoCall
      /\ CounterLastVal' = CounterLastVal /\ CounterCurVal' = CounterCurVal
      /\ uninitialised' = uninitialised /\ tickPhase' = tickPhase
  BY DEF StopScheduleTable, MayControl, counterVars
<1>2. t \in Table /\ TablesOK(CounterCurVal, list') /\ StoppedTo(list', list, t) BY StopIs DEF Stops
<1> HIDE DEF t
<1>3. ClockOK' /\ TablesOK(CounterCurVal, list)' BY <1>1, <1>2 DEF TablesInv, ClockOK
<1>4. NoneDue' BY <1>1, <1>2, FreshFields DEF NoneDue, Started, StoppedTo, SameRun, Ahead, TablesInv
<1>5. call' \in Calls /\ call'.service = "none" BY <1>1 DEF Calls, NoCall
<1>6. CallHolds(list)' BY <1>5 DEF CallHolds
<1>7. QED BY <1>1, <1>3, <1>4, <1>5, <1>6 DEF TablesInv, Booting

\* The table t follows f.
ChainsTo(cur, d, q, f, t) ==
  f \in Table /\ t \in Table /\ <<f, t>> \in Chains
  /\ q.cb[f].state = "RUNNING" /\ q.cb[t].state = "STOPPED"
  /\ TablesOK(cur, d) /\ ChainedTo(d, q, f, t) /\ Ahead(cur, d, t) # 0

LEMMA NextIs ==
  ASSUME TablesInv, TableSumsFit, NextScheduleTable
  PROVE  ChainsTo(CounterCurVal, list', list, call.table, call.next)
<1> DEFINE f == call.table
           t == call.next
<1>1. /\ f \in Table /\ t \in Table /\ <<f, t>> \in Chains
      /\ list.cb[f].state = "RUNNING" /\ list.cb[t].state = "STOPPED"
  BY DEF TablesInv, CallHolds, NextScheduleTable
<1>2. list' = ChainTable(list, f, t)
  BY DEF NextScheduleTable, ChainTable, Replaced, Timed, Joined, ChainTick, ChainStart
<1> HIDE DEF f, t
<1>3. TablesOK(CounterCurVal, list') /\ ChainedTo(list', list, f, t) /\ Ahead(CounterCurVal, list', t) # 0
  BY <1>1, <1>2, ChainTableIs DEF TablesInv
<1>4. QED BY <1>1, <1>3 DEF ChainsTo, f, t

LEMMA NextStays ==
  ASSUME TablesInv, TableSumsFit, NextScheduleTable
  PROVE  TablesInv'
<1> DEFINE f == call.table
           t == call.next
<1>1. /\ uninitialised = {} /\ tickPhase # "working" /\ call' = NoCall
      /\ CounterLastVal' = CounterLastVal /\ CounterCurVal' = CounterCurVal
      /\ uninitialised' = uninitialised /\ tickPhase' = tickPhase
  BY DEF NextScheduleTable, MayControl, counterVars
<1>2. /\ f \in Table /\ t \in Table /\ list.cb[f].state = "RUNNING"
      /\ TablesOK(CounterCurVal, list') /\ ChainedTo(list', list, f, t) /\ Ahead(CounterCurVal, list', t) # 0
  BY NextIs DEF ChainsTo
<1> HIDE DEF f, t
<1>3. ClockOK' /\ TablesOK(CounterCurVal, list)' BY <1>1, <1>2 DEF TablesInv, ClockOK
<1>4. NoneDue'
  <2>1. SUFFICES ASSUME tickPhase = "idle", NEW u \in Started(list'), u # t
                 PROVE  Ahead(CounterCurVal, list', u) # 0
    BY <1>1, <1>2 DEF NoneDue
  <2>2. u \in Table /\ list'.cb[u].state # "STOPPED" BY <2>1 DEF Started
  <2>3. u # list.cb[f].nextTbl BY <1>2, <2>2, FreshFields DEF ChainedTo
  <2>4. SameRun(list'.cb[u], list.cb[u]) BY <1>2, <2>1, <2>2, <2>3 DEF ChainedTo, SameRun, SameData
  <2>5. u \in Started(list) /\ Ahead(CounterCurVal, list', u) = Ahead(CounterCurVal, list, u)
    BY <2>2, <2>4 DEF SameRun, Started, Ahead
  <2>6. QED BY <2>1, <2>5 DEF TablesInv, NoneDue
<1>5. call' \in Calls /\ call'.service = "none" BY <1>1 DEF Calls, NoCall
<1>6. CallHolds(list)' BY <1>5 DEF CallHolds
<1>7. QED BY <1>1, <1>3, <1>4, <1>5, <1>6 DEF TablesInv, Booting

LEMMA TablesInductive ==
  ASSUME TablesInv, TableSumsFit, TakesNoRisk, [TableNext]_tableVars
  PROVE  TablesInv'
<1>1. CASE UNCHANGED tableVars
  <2>1. /\ CounterLastVal' = CounterLastVal /\ CounterCurVal' = CounterCurVal /\ list' = list
        /\ call' = call /\ uninitialised' = uninitialised /\ tickPhase' = tickPhase
    BY <1>1 DEF tableVars, counterVars
  <2>2. ClockOK' /\ TablesOK(CounterCurVal, list)' /\ NoneDue' /\ Booting'
    BY <2>1 DEF TablesInv, ClockOK, NoneDue, Booting, State
  <2>3. CallHolds(list)' /\ (tickPhase' = "working" => EndsLater(list, CounterCurVal)')
    BY <2>1 DEF TablesInv, CallHolds, EndsLater
  <2>4. QED BY <2>1, <2>2, <2>3 DEF TablesInv
<1>2. CASE IncrementTableCounter BY <1>2, IncrementStays
<1>3. CASE EpProc BY <1>3, EpProcStays
<1>4. CASE WorkSchedTblDone BY <1>4, WorkDoneStays
<1>5. CASE StopScheduleTable BY <1>5, StopStays
<1>6. CASE NextScheduleTable BY <1>6, NextStays
<1>7. CASE \E t \in Table : InitScheduleTable(t) BY <1>7, InitStays
<1>8. CASE \E t \in Table : StopScheduleTableCheck(t) BY <1>8, StopCheckStays
<1>9. CASE \E t \in Table : \E offset \in 1 .. MaxAllowedValue : StartScheduleTableRel(t, offset)
  BY <1>9, RelStays
<1>10. CASE \E t \in Table : \E start \in 0 .. MaxAllowedValue : StartScheduleTableAbs(t, start)
  BY <1>10, AbsStays
<1>11. CASE \E f, t \in Table : NextScheduleTableCheck(f, t) BY <1>11, NextCheckStays
<1>12. QED BY <1>1, <1>2, <1>3, <1>4, <1>5, <1>6, <1>7, <1>8, <1>9, <1>10, <1>11 DEF TableNext

\* The places of the invariant are those WalkTables comes to.
LEMMA TablesInOrderHolds ==
  ASSUME ClockOK, TablesOK(CounterCurVal, list)
  PROVE  TablesInOrder
<1> DEFINE C == Cardinality(Table)
           L == Started(list)
           w == WalkTables(list)
<1>0. PICK n \in Nat : \E place : Linked(list, L, n, place) /\ OrderedOn(CounterCurVal, list, L, place)
  BY DEF TablesOK, Threads
<1>1. PICK place : Linked(list, L, n, place) /\ OrderedOn(CounterCurVal, list, L, place) BY <1>0
<1>2. Meets(w, L, n, place) BY <1>1, WalkOfLinked DEF TablesOK
<1>3. NULL \notin L /\ L = {t \in Table : State(t) # "STOPPED"} /\ L \subseteq Table
  BY TableConstants DEF Started, State
<1> HIDE DEF w, L
<1>4. /\ n <= C /\ C \in Nat
      /\ \A k \in 0 .. C : IF k < n THEN w[k] \in L /\ place[w[k]] = k ELSE w[k] = NULL
      /\ \A u \in L : place[u] \in 0 .. n - 1 /\ w[place[u]] = u
  BY <1>2 DEF Meets
<1>5. TablesListed = 0 .. n - 1 BY <1>3, <1>4 DEF TablesListed, w
<1>6. \A k \in TablesListed : k \in 0 .. C /\ k < n /\ k \in Nat /\ w[k] \in L /\ place[w[k]] = k
  BY <1>4, <1>5
<1>7. w[C] = NULL BY <1>4
<1>8. {w[k] : k \in TablesListed} = L BY <1>4, <1>5, <1>6
<1>9. ASSUME NEW k \in TablesListed
      PROVE  list.cb[w[k]].preNode = IF k = 0 THEN NULL ELSE w[k - 1]
  <2> DEFINE u == w[k]
             p == list.cb[u].preNode
  <2>1. u \in L /\ place[u] = k /\ k \in Nat BY <1>6
  <2>2. IF place[u] = 0 THEN p = NULL ELSE p \in L /\ place[p] = place[u] - 1
    BY <1>1, <2>1 DEF Linked
  <2> HIDE DEF u, p
  <2>3. CASE k = 0 BY <2>1, <2>2, <2>3 DEF p, u
  <2>4. CASE k # 0 BY <2>1, <2>2, <2>4, <1>4 DEF p, u
  <2>5. QED BY <2>3, <2>4
<1>10. ASSUME NEW j \in TablesListed, NEW k \in TablesListed, j < k
       PROVE  TicksTo(list.cb[w[j]].nextEpAbsTick) <= TicksTo(list.cb[w[k]].nextEpAbsTick)
  BY <1>1, <1>6, <1>10 DEF OrderedOn, Ahead, TicksTo
<1>11. QED BY <1>3, <1>7, <1>8, <1>9, <1>10 DEF TablesInOrder, w

LEMMA FollowersWaitHolds ==
  ASSUME ClockOK, TablesOK(CounterCurVal, list)
  PROVE  FollowersWait
BY DEF FollowersWait, State, TablesOK, CellOK, FollowerOK

LEMMA TablesInvariant == TablesInv => ScheduleTableInvariant
<1> SUFFICES ASSUME TablesInv
             PROVE  ScheduleTableInvariant
  OBVIOUS
<1>1. /\ ClockOK /\ TablesOK(CounterCurVal, list) /\ list \in Lists
      /\ \A t \in Table : CellOK(CounterCurVal, list, t)
  BY DEF TablesInv, TablesOK
<1>2. TableTypeOK BY <1>1, OffsetsAre, CallsAre DEF CellOK, TablesInv, TableTypeOK, ClockOK, Lists
<1>3. TablesInOrder /\ FollowersWait BY <1>1, TablesInOrderHolds, FollowersWaitHolds
<1>4. TableDue => State(list.head) = "RUNNING" BY <1>1, DueIs DEF TableDue
<1>5. QED BY <1>2, <1>3, <1>4 DEF ScheduleTableInvariant

\* The list is linked both ways, ends, holds each table that is not stopped once and in the order of
\* the next expiry points across the wrap of the counter, a table waits as NEXT just while one that
\* runs leads to it, and the loop of Os_WorkSchedTbl meets no table that waits
\* (Os_InsertSchedTblList, Os_DelSchedTblNode, StopScheduleTable, NextScheduleTable).
THEOREM TablesStayInOrder ==
  ASSUME TableSumsFit, TakesNoRisk
  PROVE  TableSpec => []ScheduleTableInvariant
<1>1. TableInit => TablesInv BY TablesInitially
<1>2. TablesInv /\ [TableNext]_tableVars => TablesInv' BY TablesInductive
<1>3. TablesInv => ScheduleTableInvariant BY TablesInvariant
<1>4. QED BY <1>1, <1>2, <1>3, PTL DEF TableSpec

-----------------------------------------------------------------------------
(* The tables of the code are those of OsScheduleTableSpec *)

\* What OsScheduleTableSpec sees of a table: the ticks until its next expiry point
TicksLeft(cur, q, t) == IF q.cb[t].state = "RUNNING" THEN Ahead(cur, q, t) ELSE -1

\* d and q look the same at u.
LooksSame(cur, d, q, u) ==
  /\ d.cb[u].state = q.cb[u].state /\ d.cb[u].nextEP = q.cb[u].nextEP
  /\ d.cb[u].nextTbl = q.cb[u].nextTbl /\ TicksLeft(cur, d, u) = TicksLeft(cur, q, u)

LEMMA SameLooks ==
  ASSUME NEW cur, NEW d, NEW q, NEW u, SameData(d.cb[u], q.cb[u])
  PROVE  LooksSame(cur, d, q, u)
BY SameAhead DEF LooksSame, SameData, TicksLeft

\* A table that is stopped, or waits, processes its first expiry point next.
LEMMA NotRunning ==
  ASSUME NEW cur, NEW q, TablesOK(cur, q), NEW t \in Table, q.cb[t].state # "RUNNING"
  PROVE  q.cb[t].nextEP = 0 /\ q.cb[t].nextTbl = NULL
<1>1. q.cb[t].state \in {"STOPPED", "NEXT"} BY DEF TablesOK, Lists, CB
<1>2. CASE q.cb[t].state = "STOPPED" BY <1>2, StoppedAre
<1>3. CASE q.cb[t].state = "NEXT"
  <2>1. q.cb[t].nextEP = 0 BY <1>3 DEF TablesOK, CellOK
  <2>2. q.cb[t].nextTbl \notin Table BY <1>3 DEF TablesOK, FollowerOK
  <2>3. QED BY <2>1, <2>2 DEF TablesOK, Lists, CB
<1>4. QED BY <1>1, <1>2, <1>3

LEMMA FreshLooks ==
  ASSUME NEW cur, NEW d, NEW t \in Table, d.cb[t] = FreshCB(t)
  PROVE  /\ d.cb[t].state = "STOPPED" /\ d.cb[t].nextEP = 0 /\ d.cb[t].nextTbl = NULL
         /\ TicksLeft(cur, d, t) = -1
BY DEF FreshCB, TicksLeft

\* Each step of the code is one of OsScheduleTableSpec.
LEMMA StartsAbstractly ==
  ASSUME TablesInv, NEW t \in Table, Starts(CounterCurVal, list', list, t),
         CounterCurVal' = CounterCurVal
  PROVE  AbstractTables!Start(t)
<1> DEFINE cur == CounterCurVal
<1>1. /\ list.cb[t].state = "STOPPED" /\ list.cb[t].nextEP = 0 /\ list.cb[t].nextTbl = NULL
      /\ list'.cb[t].state = "RUNNING" /\ list'.cb[t].nextEP = 0 /\ list'.cb[t].nextTbl = NULL
      /\ Ahead(cur, list', t) \in 1 .. MaxAllowedValue + 1
  BY NotRunning DEF Starts, StartedAt, TablesInv
<1>2. \A u \in Table \ {t} : LooksSame(cur, list', list, u) BY SameLooks DEF Starts, StartedAt
<1>3. /\ [u \in Table |-> list'.cb[u].state] = [[u \in Table |-> list.cb[u].state] EXCEPT ![t] = "RUNNING"]
      /\ [u \in Table |-> list'.cb[u].nextEP] = [u \in Table |-> list.cb[u].nextEP]
      /\ [u \in Table |-> list'.cb[u].nextTbl] = [u \in Table |-> list.cb[u].nextTbl]
      /\ [u \in Table |-> TicksLeft(cur, list', u)]
         = [[u \in Table |-> TicksLeft(cur, list, u)] EXCEPT ![t] = Ahead(cur, list', t)]
  BY <1>1, <1>2 DEF TicksLeft, LooksSame
<1>4. QED BY <1>1, <1>3 DEF AbstractTables!Start, State, TicksLeft, Ahead, TicksTo

\* What OsScheduleTableSpec sees of a table that runs as before.
LEMMA RunLooks ==
  ASSUME NEW cur, NEW d, NEW q, NEW u, SameRun(d.cb[u], q.cb[u])
  PROVE  /\ d.cb[u].state = q.cb[u].state /\ d.cb[u].nextEP = q.cb[u].nextEP
         /\ TicksLeft(cur, d, u) = TicksLeft(cur, q, u)
BY DEF SameRun, TicksLeft, Ahead

LEMMA StopsAbstractly ==
  ASSUME TablesInv, NEW t \in Table, Stops(CounterCurVal, list', list, t), CounterCurVal' = CounterCurVal
  PROVE  AbstractTables!Stop(t)
<1> DEFINE cur  == CounterCurVal
           next == list.cb[t].nextTbl
           prev == list.cb[t].prevTbl
<1>1. /\ list.cb[t].state # "STOPPED" /\ StoppedTo(list', list, t)
      /\ prev # NULL => list.cb[prev].nextTbl \in {t, NULL}
      /\ TablesOK(cur, list) /\ next \in Table \cup {NULL} /\ NULL \notin Table
  BY TableConstants DEF Stops, TablesInv, TablesOK, Lists, CB
<1>2. next # NULL => FollowerOf(list, t, next) BY <1>1, FollowerIs
<1>3. /\ list'.cb[t].state = "STOPPED" /\ list'.cb[t].nextEP = 0 /\ list'.cb[t].nextTbl = NULL
      /\ TicksLeft(cur, list', t) = -1
  BY <1>1, FreshLooks DEF StoppedTo
<1>4. ASSUME NEW u \in Table, u = next
      PROVE  /\ list'.cb[u].state = "STOPPED" /\ list'.cb[u].nextEP = 0 /\ list'.cb[u].nextTbl = NULL
             /\ TicksLeft(cur, list', u) = -1
             /\ list.cb[u].nextEP = 0 /\ list.cb[u].nextTbl = NULL /\ TicksLeft(cur, list, u) = -1
             /\ u # t
  BY <1>1, <1>4, <1>2, FreshLooks DEF StoppedTo, FollowerOf, TicksLeft
<1>5. ASSUME NEW u \in Table, u # t, u # next
      PROVE  /\ list'.cb[u].state = list.cb[u].state /\ list'.cb[u].nextEP = list.cb[u].nextEP
             /\ TicksLeft(cur, list', u) = TicksLeft(cur, list, u)
             /\ list'.cb[u].nextTbl = IF list.cb[u].nextTbl = t THEN NULL ELSE list.cb[u].nextTbl
  <2>1. /\ SameRun(list'.cb[u], list.cb[u])
        /\ list'.cb[u].nextTbl = IF u = prev THEN NULL ELSE list.cb[u].nextTbl
    BY <1>1, <1>5 DEF StoppedTo
  <2>2. list.cb[u].nextTbl = t => u = prev BY <1>1 DEF TablesOK, FollowerOK
  <2>3. u = prev => list.cb[u].nextTbl \in {t, NULL} BY <1>1
  <2>4. QED BY <2>1, <2>2, <2>3, RunLooks
<1> HIDE DEF next, prev, cur
<1> DEFINE status == [u \in Table |-> list.cb[u].state]
           follower == [u \in Table |-> list.cb[u].nextTbl]
           stopped == {t, follower[t]} \ {NULL}
<1>6. follower[t] = next /\ \A u \in Table : u \in stopped <=> u = t \/ u = next BY <1>1 DEF next
<1>7. /\ [u \in Table |-> list'.cb[u].state]
         = [u \in Table |-> IF u \in stopped THEN "STOPPED" ELSE status[u]]
      /\ [u \in Table |-> list'.cb[u].nextEP] = [[u \in Table |-> list.cb[u].nextEP] EXCEPT ![t] = 0]
      /\ [u \in Table |-> TicksLeft(cur, list', u)] = [[u \in Table |-> TicksLeft(cur, list, u)] EXCEPT ![t] = -1]
      /\ [u \in Table |-> list'.cb[u].nextTbl]
         = [u \in Table |-> IF u = t \/ follower[u] = t THEN NULL ELSE follower[u]]
  <2>1. ASSUME NEW u \in Table
        PROVE  /\ list'.cb[u].state = IF u \in stopped THEN "STOPPED" ELSE list.cb[u].state
               /\ list'.cb[u].nextEP = IF u = t THEN 0 ELSE list.cb[u].nextEP
               /\ TicksLeft(cur, list', u) = IF u = t THEN -1 ELSE TicksLeft(cur, list, u)
               /\ list'.cb[u].nextTbl
                  = IF u = t \/ list.cb[u].nextTbl = t THEN NULL ELSE list.cb[u].nextTbl
    <3> HIDE DEF stopped, status, follower
    <3>1. CASE u = t BY <1>3, <1>6, <3>1
    <3>2. CASE u # t /\ u = next BY <1>1, <1>4, <1>6, <3>2
    <3>3. CASE u # t /\ u # next BY <1>5, <1>6, <3>3
    <3>4. QED BY <3>1, <3>2, <3>3
  <2> HIDE DEF stopped
  <2>2. QED BY <2>1
<1>8. QED
  BY <1>1, <1>7 DEF AbstractTables!Stop, AbstractTables!Off, State, TicksLeft, Ahead, TicksTo, cur

LEMMA ChainsAbstractly ==
  ASSUME TablesInv, NEW f \in Table, NEW t \in Table, ChainsTo(CounterCurVal, list', list, f, t),
         CounterCurVal' = CounterCurVal
  PROVE  AbstractTables!Chain(f, t)
<1> DEFINE cur == CounterCurVal
           old == list.cb[f].nextTbl
<1>1. /\ <<f, t>> \in Chains /\ f \notin Repeating /\ f # t
      /\ list.cb[f].state = "RUNNING" /\ list.cb[t].state = "STOPPED"
      /\ ChainedTo(list', list, f, t)
      /\ TablesOK(cur, list) /\ old \in Table \cup {NULL} /\ NULL \notin Table
  BY ChainsAre, TableConstants DEF ChainsTo, TablesInv, TablesOK, Lists, CB
<1>2. old # NULL => FollowerOf(list, f, old) BY <1>1, FollowerIs
<1>3. /\ list'.cb[t].state = "NEXT" /\ list'.cb[t].nextEP = 0 /\ list'.cb[t].nextTbl = NULL
      /\ list.cb[t].nextEP = 0 /\ list.cb[t].nextTbl = NULL
      /\ TicksLeft(cur, list', t) = -1 /\ TicksLeft(cur, list, t) = -1
  <2>1. /\ list'.cb[t].state = "NEXT" /\ list'.cb[t].nextEP = 0 /\ list'.cb[t].nextTbl = NULL
    BY <1>1 DEF ChainedTo
  <2> HIDE DEF cur, old
  <2>2. list.cb[t].nextEP = 0 /\ list.cb[t].nextTbl = NULL BY <1>1, NotRunning
  <2>3. TicksLeft(cur, list', t) = -1 /\ TicksLeft(cur, list, t) = -1 BY <1>1, <2>1 DEF TicksLeft
  <2>4. QED BY <2>1, <2>2, <2>3
<1>4. /\ list'.cb[f].state = "RUNNING" /\ list'.cb[f].nextEP = list.cb[f].nextEP
      /\ list'.cb[f].nextTbl = t /\ TicksLeft(cur, list', f) = TicksLeft(cur, list, f)
  <2>1. SameRun(list'.cb[f], list.cb[f]) /\ list'.cb[f].nextTbl = t BY <1>1 DEF ChainedTo
  <2> HIDE DEF cur, old
  <2>2. /\ list'.cb[f].state = list.cb[f].state /\ list'.cb[f].nextEP = list.cb[f].nextEP
        /\ TicksLeft(cur, list', f) = TicksLeft(cur, list, f)
    BY <2>1, RunLooks
  <2>3. QED BY <1>1, <2>1, <2>2
<1>5. ASSUME NEW u \in Table, u = old
      PROVE  /\ list'.cb[u].state = "STOPPED" /\ list'.cb[u].nextEP = 0 /\ list'.cb[u].nextTbl = NULL
             /\ TicksLeft(cur, list', u) = -1
             /\ list.cb[u].nextEP = 0 /\ list.cb[u].nextTbl = NULL /\ TicksLeft(cur, list, u) = -1
             /\ u # f /\ u # t
  BY <1>1, <1>5, <1>2, FreshLooks DEF ChainedTo, FollowerOf, TicksLeft
<1>6. ASSUME NEW u \in Table, u # f, u # t, u # old
      PROVE  LooksSame(cur, list', list, u)
  BY <1>1, <1>6, SameLooks DEF ChainedTo
<1> HIDE DEF cur
<1>7. /\ [u \in Table |-> list'.cb[u].state]
         = [u \in Table |-> IF u = t THEN "NEXT" ELSE IF u = old THEN "STOPPED" ELSE list.cb[u].state]
      /\ [u \in Table |-> list'.cb[u].nextEP] = [u \in Table |-> list.cb[u].nextEP]
      /\ [u \in Table |-> TicksLeft(cur, list', u)] = [u \in Table |-> TicksLeft(cur, list, u)]
      /\ [u \in Table |-> list'.cb[u].nextTbl] = [[u \in Table |-> list.cb[u].nextTbl] EXCEPT ![f] = t]
  <2> HIDE DEF old
  <2>1. ASSUME NEW u \in Table
        PROVE  /\ list'.cb[u].state = IF u = t THEN "NEXT" ELSE IF u = old THEN "STOPPED" ELSE list.cb[u].state
               /\ list'.cb[u].nextEP = list.cb[u].nextEP
               /\ TicksLeft(cur, list', u) = TicksLeft(cur, list, u)
               /\ list'.cb[u].nextTbl = IF u = f THEN t ELSE list.cb[u].nextTbl
    BY <1>1, <1>3, <1>4, <1>5, <1>6 DEF LooksSame
  <2>2. QED BY <2>1
<1>8. QED BY <1>1, <1>7 DEF AbstractTables!Chain, State, TicksLeft, Ahead, TicksTo, cur

LEMMA TicksAbstractly ==
  ASSUME TablesInv, IncrementTableCounter
  PROVE  AbstractTables!Tick
<1> DEFINE cur == CounterCurVal
           on  == CalcAbsTicks(cur, 1)
<1>1. /\ cur \in Ticks /\ TablesOK(cur, list) /\ CounterCurVal' = on /\ list' = list
      /\ \A t \in Started(list) : Ahead(cur, list, t) # 0
  BY DEF TablesInv, ClockOK, NoneDue, IncrementTableCounter, CountUp
<1>2. \A t \in Started(list) : Ahead(on, list, t) = Ahead(cur, list, t) - 1 BY <1>1, TickIs
<1> HIDE DEF on, cur
<1>3. ASSUME NEW t \in Table
      PROVE  /\ TicksLeft(cur, list, t) # 0
             /\ TicksLeft(on, list, t) = IF TicksLeft(cur, list, t) = -1 THEN -1 ELSE TicksLeft(cur, list, t) - 1
  BY <1>1, StartedAhead, <1>2, TicksAre DEF Started, TicksLeft
<1> DEFINE left == [t \in Table |-> TicksLeft(cur, list, t)]
<1>4. /\ \A t \in Table : left[t] # 0
      /\ [t \in Table |-> TicksLeft(on, list, t)] = [t \in Table |-> IF left[t] = -1 THEN -1 ELSE left[t] - 1]
  BY <1>3
<1>5. QED
  BY <1>1, <1>4 DEF AbstractTables!Tick, AbstractTables!Off, State, TicksLeft, Ahead, TicksTo, cur, on

\* What OsScheduleTableSpec sees of a table that goes on
GoesOnTo(cur, d, q, h, e, k) ==
  /\ [u \in Table |-> d.cb[u].state] = [u \in Table |-> q.cb[u].state]
  /\ [u \in Table |-> d.cb[u].nextEP] = [[u \in Table |-> q.cb[u].nextEP] EXCEPT ![h] = e]
  /\ [u \in Table |-> TicksLeft(cur, d, u)] = [[u \in Table |-> TicksLeft(cur, q, u)] EXCEPT ![h] = k]
  /\ [u \in Table |-> d.cb[u].nextTbl] = [u \in Table |-> q.cb[u].nextTbl]

LEMMA AdvanceLooks ==
  ASSUME NEW cur, NEW h \in Table, NEW e, NEW k, list.cb[h].state = "RUNNING",
         AdvancedTo(list', list, h, e), Ahead(cur, list', h) = k
  PROVE  GoesOnTo(cur, list', list, h, e, k)
<1>1. /\ list'.cb[h].state = "RUNNING" /\ list'.cb[h].nextEP = e
      /\ list'.cb[h].nextTbl = list.cb[h].nextTbl
      /\ TicksLeft(cur, list', h) = k
  BY DEF AdvancedTo, TicksLeft
<1>2. \A u \in Table \ {h} : LooksSame(cur, list', list, u) BY SameLooks DEF AdvancedTo
<1>3. \A u \in Table \ {h} : TicksLeft(cur, list', u) = TicksLeft(cur, list, u)
                             /\ list'.cb[u].state = list.cb[u].state
                             /\ list'.cb[u].nextEP = list.cb[u].nextEP
                             /\ list'.cb[u].nextTbl = list.cb[u].nextTbl
  BY <1>2 DEF LooksSame
<1>4. QED BY <1>1, <1>3 DEF GoesOnTo

\* What OsScheduleTableSpec sees of the end of a table
EndsTo(cur, d, q, h) ==
  LET next == q.cb[h].nextTbl
  IN  /\ [u \in Table |-> d.cb[u].state]
         = [u \in Table |-> IF u = h THEN "STOPPED" ELSE IF u = next THEN "RUNNING" ELSE q.cb[u].state]
      /\ [u \in Table |-> d.cb[u].nextEP] = [[u \in Table |-> q.cb[u].nextEP] EXCEPT ![h] = 0]
      /\ [u \in Table |-> TicksLeft(cur, d, u)]
         = [u \in Table |-> IF u = h THEN -1
                            ELSE IF u = next THEN FinalDelay(h) + Offset(u, 0) ELSE TicksLeft(cur, q, u)]
      /\ [u \in Table |-> d.cb[u].nextTbl] = [[u \in Table |-> q.cb[u].nextTbl] EXCEPT ![h] = NULL]

LEMMA EndLooks ==
  ASSUME NEW cur, TablesOK(cur, list), NEW h \in Table, list.cb[h].state = "RUNNING",
         EndedTo(list', list, h),
         \A u \in Table : u = list.cb[h].nextTbl => Ahead(cur, list', u) = FinalDelay(h) + Offset(u, 0)
  PROVE  EndsTo(cur, list', list, h)
<1> DEFINE next == list.cb[h].nextTbl
<1>1. /\ list'.cb[h].state = "STOPPED" /\ list'.cb[h].nextEP = 0 /\ list'.cb[h].nextTbl = NULL
      /\ TicksLeft(cur, list', h) = -1
  BY FreshLooks DEF EndedTo
<1>2. NULL \notin Table BY TableConstants
<1>3. ASSUME NEW u \in Table, u = next
      PROVE  /\ u # h
             /\ list'.cb[u].state = "RUNNING" /\ list'.cb[u].nextEP = 0 /\ list'.cb[u].nextTbl = NULL
             /\ list.cb[u].nextEP = 0 /\ list.cb[u].nextTbl = NULL
             /\ TicksLeft(cur, list', u) = FinalDelay(h) + Offset(u, 0)
  <2>1. next # NULL BY <1>2, <1>3
  <2>2. FollowerOf(list, h, u) BY <1>3, <2>1, FollowerIs
  <2>3. u # h /\ list.cb[u].nextEP = 0 /\ list.cb[u].nextTbl = NULL BY <2>2 DEF FollowerOf
  <2>4. list'.cb[u].state = "RUNNING" /\ list'.cb[u].nextEP = 0 /\ list'.cb[u].nextTbl = NULL
    BY <1>3, <2>3 DEF EndedTo
  <2>5. TicksLeft(cur, list', u) = FinalDelay(h) + Offset(u, 0) BY <1>3, <2>4 DEF TicksLeft
  <2>6. QED BY <2>3, <2>4, <2>5
<1>4. ASSUME NEW u \in Table, u # h, u # next
      PROVE  LooksSame(cur, list', list, u)
  BY <1>4, SameLooks DEF EndedTo
<1>5. ASSUME NEW u \in Table
      PROVE  /\ list'.cb[u].state = IF u = h THEN "STOPPED"
                                    ELSE IF u = next THEN "RUNNING" ELSE list.cb[u].state
             /\ list'.cb[u].nextEP = IF u = h THEN 0 ELSE list.cb[u].nextEP
             /\ TicksLeft(cur, list', u) = IF u = h THEN -1
                                      ELSE IF u = next THEN FinalDelay(h) + Offset(u, 0)
                                      ELSE TicksLeft(cur, list, u)
             /\ list'.cb[u].nextTbl = IF u = h THEN NULL ELSE list.cb[u].nextTbl
  <2> HIDE DEF next
  <2>1. CASE u = h BY <1>1, <2>1
  <2>2. CASE u = next BY <1>3, <2>2
  <2>3. CASE u # h /\ u # next BY <1>4, <2>3 DEF LooksSame
  <2>4. QED BY <2>1, <2>2, <2>3
<1>6. QED BY <1>5 DEF EndsTo

LEMMA ProcessesAbstractly ==
  ASSUME TablesInv, NEW h, Processes(CounterCurVal, list', list, h), CounterCurVal' = CounterCurVal
  PROVE  /\ h \in Table
         /\ AbstractTables!Expire(h) \/ AbstractTables!Repeat(h) \/ AbstractTables!End(h)
<1> DEFINE cur == CounterCurVal
           e   == list.cb[h].epId
<1>1. /\ h \in Table /\ list.cb[h].state = "RUNNING" /\ Ahead(cur, list, h) = 0
      /\ TablesOK(cur, list)
  BY DEF Processes, TablesInv
<1>2. list.cb[h].nextEP = e /\ TicksLeft(cur, list, h) = 0 BY <1>1 DEF TablesOK, CellOK, TicksLeft
<1>3. CASE /\ e < LastEP(h) /\ AdvancedTo(list', list, h, e + 1)
           /\ Ahead(cur, list', h) = Offset(h, e + 1) - Offset(h, e)
  <2> HIDE DEF cur, e
  <2>1. GoesOnTo(cur, list', list, h, e + 1, Offset(h, e + 1) - Offset(h, e))
    BY <1>1, <1>3, AdvanceLooks
  <2>2. AbstractTables!Expire(h)
    BY <1>1, <1>2, <1>3, <2>1 DEF AbstractTables!Expire, AbstractTables!Offset, AbstractTables!LastEP,
       Offset, LastEP, State, TicksLeft, Ahead, TicksTo, cur, GoesOnTo
  <2>3. QED BY <1>1, <2>2
<1>4. CASE /\ e = LastEP(h) /\ h \in Repeating /\ AdvancedTo(list', list, h, 0)
           /\ Ahead(cur, list', h) = FinalDelay(h) + Offset(h, 0)
  <2> HIDE DEF cur, e
  <2>1. GoesOnTo(cur, list', list, h, 0, FinalDelay(h) + Offset(h, 0)) BY <1>1, <1>4, AdvanceLooks
  <2>2. AbstractTables!Repeat(h)
    BY <1>1, <1>2, <1>4, <2>1 DEF AbstractTables!Repeat, AbstractTables!Offset, AbstractTables!LastEP,
       AbstractTables!FinalDelay, Offset, LastEP, FinalDelay, State, TicksLeft, Ahead, TicksTo, cur, GoesOnTo
  <2>3. QED BY <1>1, <2>2
<1>5. CASE /\ e = LastEP(h) /\ h \notin Repeating /\ EndedTo(list', list, h)
           /\ \A u \in Table : u = list.cb[h].nextTbl =>
                Ahead(cur, list', u) = FinalDelay(h) + Offset(u, 0)
  <2> HIDE DEF cur, e
  <2>1. EndsTo(cur, list', list, h) BY <1>1, <1>5, EndLooks
  <2>2. AbstractTables!End(h)
    BY <1>1, <1>2, <1>5, <2>1 DEF AbstractTables!End, AbstractTables!Off, AbstractTables!Offset,
       AbstractTables!LastEP, AbstractTables!FinalDelay, Offset, LastEP, FinalDelay, State, TicksLeft,
       Ahead, TicksTo, cur, EndsTo
  <2>3. QED BY <1>1, <2>2
<1>6. QED BY <1>3, <1>4, <1>5 DEF Processes

LEMMA TablesInitiallyAbstract == TableInit => AbstractTables!TablesStopped
BY FreshLooks DEF TableInit, AbstractTables!TablesStopped, AbstractTables!Off, State

\* What neither counts nor changes the list, OsScheduleTableSpec does not see.
LEMMA SameListLooks ==
  ASSUME list' = list, CounterCurVal' = CounterCurVal
  PROVE  UNCHANGED AbstractTables!tableVars
BY DEF AbstractTables!tableVars, State, TicksTo

LEMMA TableStepsAreAbstract ==
  ASSUME TablesInv, TableSumsFit, TakesNoRisk, [TableNext]_tableVars
  PROVE  [AbstractTables!TablesNext]_(AbstractTables!tableVars)
<1>1. CASE UNCHANGED tableVars BY <1>1, SameListLooks DEF tableVars, counterVars
<1>2. CASE IncrementTableCounter BY <1>2, TicksAbstractly DEF AbstractTables!TablesNext
<1>3. CASE EpProc
  <2>1. Processes(CounterCurVal, list', list, list.head) /\ CounterCurVal' = CounterCurVal
    BY <1>3, EpProcIs DEF EpProc, counterVars
  <2>2. PICK h \in Table : Processes(CounterCurVal, list', list, h) BY <2>1 DEF Processes
  <2>3. AbstractTables!Expire(h) \/ AbstractTables!Repeat(h) \/ AbstractTables!End(h)
    BY <2>1, <2>2, ProcessesAbstractly
  <2>4. QED BY <2>3 DEF AbstractTables!TablesNext
<1>4. CASE WorkSchedTblDone BY <1>4, SameListLooks DEF WorkSchedTblDone, counterVars
<1>5. CASE StopScheduleTable
  <2>1. Stops(CounterCurVal, list', list, call.table) /\ CounterCurVal' = CounterCurVal
    BY <1>5, StopIs DEF StopScheduleTable, counterVars
  <2>2. PICK t \in Table : Stops(CounterCurVal, list', list, t) BY <2>1 DEF Stops
  <2>3. AbstractTables!Stop(t) BY <2>1, <2>2, StopsAbstractly
  <2>4. QED BY <2>3 DEF AbstractTables!TablesNext
<1>6. CASE NextScheduleTable
  <2>1. /\ call.table \in Table /\ call.next \in Table
        /\ ChainsTo(CounterCurVal, list', list, call.table, call.next) /\ CounterCurVal' = CounterCurVal
    BY <1>6, NextIs DEF NextScheduleTable, counterVars, TablesInv, CallHolds
  <2>2. PICK f \in Table, t \in Table : ChainsTo(CounterCurVal, list', list, f, t) BY <2>1
  <2>3. AbstractTables!Chain(f, t) BY <2>1, <2>2, ChainsAbstractly
  <2>4. QED BY <2>3 DEF AbstractTables!TablesNext
<1>7. ASSUME NEW t \in Table, Starts(CounterCurVal, list', list, t), CounterCurVal' = CounterCurVal
      PROVE  AbstractTables!TablesNext
  BY <1>7, StartsAbstractly DEF AbstractTables!TablesNext
<1>8. ASSUME NEW t \in Table, InitScheduleTable(t)
      PROVE  [AbstractTables!TablesNext]_(AbstractTables!tableVars)
  BY <1>8, InitIs, <1>7, SameListLooks DEF InitScheduleTable, counterVars
<1>9. CASE \E t \in Table : StopScheduleTableCheck(t)
  BY <1>9, SameListLooks DEF StopScheduleTableCheck, counterVars
<1>10. CASE \E t \in Table : \E offset \in 1 .. MaxAllowedValue : StartScheduleTableRel(t, offset)
  <2>1. PICK t \in Table, offset \in 1 .. MaxAllowedValue : StartScheduleTableRel(t, offset)
    BY <1>10
  <2>2. Starts(CounterCurVal, list', list, t) /\ CounterCurVal' = CounterCurVal
    BY <2>1, RelIs DEF StartScheduleTableRel, counterVars
  <2>3. QED BY <1>7, <2>2
<1>11. CASE \E t \in Table : \E start \in 0 .. MaxAllowedValue : StartScheduleTableAbs(t, start)
  <2>1. PICK t \in Table, start \in 0 .. MaxAllowedValue : StartScheduleTableAbs(t, start) BY <1>11
  <2>2. Starts(CounterCurVal, list', list, t) /\ CounterCurVal' = CounterCurVal
    BY <2>1, AbsIs DEF StartScheduleTableAbs, counterVars
  <2>3. QED BY <1>7, <2>2
<1>12. CASE \E f, t \in Table : NextScheduleTableCheck(f, t)
  BY <1>12, SameListLooks DEF NextScheduleTableCheck, counterVars
<1>13. QED BY <1>1, <1>2, <1>3, <1>4, <1>5, <1>6, <1>8, <1>9, <1>10, <1>11, <1>12 DEF TableNext

\* Every expiry point is processed in order and at its offset, a table that repeats begins again
\* after its duration, a follower at the end of the table before it, and a table that is stopped
\* disturbs no other: the schedule tables of the code implement OsScheduleTableSpec.
THEOREM TablesRunOnTime ==
  ASSUME TableSumsFit, TakesNoRisk
  PROVE  TableSpec => ImplementsTables
<1>1. TableInit => TablesInv BY TablesInitially
<1>2. TablesInv /\ [TableNext]_tableVars => TablesInv' BY TablesInductive
<1>3. TableInit => AbstractTables!TablesStopped BY TablesInitiallyAbstract
<1>4. TablesInv /\ [TableNext]_tableVars => [AbstractTables!TablesNext]_(AbstractTables!tableVars)
  BY TableStepsAreAbstract
<1>5. QED BY <1>1, <1>2, <1>3, <1>4, PTL DEF TableSpec, ImplementsTables, AbstractTables!Tables
=============================================================================
