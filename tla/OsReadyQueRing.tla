--------------------------- MODULE OsReadyQueRing ---------------------------
(***************************************************************************)
(* The arrays of the ready queue (Os_ReadyQue.c, CFG_CC = OS_ECC2): a ring  *)
(* of places with a head and a tail mark for each priority, and a bit map   *)
(* of the priorities in words of 16.  A word is the set of its bits.        *)
(*                                                                          *)
(* Head and tail are equal in an empty ring and in a full one; the bit map  *)
(* tells them apart.  No operation looks whether a ring is full.            *)
(***************************************************************************)
EXTENDS OsReadyQue, FiniteSetsExt

CONSTANTS
  QueueSize,   \* QueueMg->QueueSize
  QueueLimit,  \* the entries the scheduler has in each ring at most
  Used         \* the priorities tasks and resources have

OS_NUM_PRIORITYBITS_PERWORD == 16

ASSUME RingConstants ==
  /\ QueueSize \in [Prio -> Nat \ {0}]
  /\ \A p \in Prio : QueueLimit[p] \in 1 .. QueueSize[p]
  /\ Used \subseteq Prio

VARIABLES
  Queue,      \* QueueMg->Queue
  QueueHead,  \* QueueMg->Mark[p].QueueHead
  QueueTail,  \* QueueMg->Mark[p].QueueTail
  Map         \* QueueMg->Map

ringVars == <<Queue, QueueHead, QueueTail, Map>>

Place(p) == 0 .. QueueSize[p] - 1
WordOf(p) == p \div OS_NUM_PRIORITYBITS_PERWORD
BitOf(p) == p % OS_NUM_PRIORITYBITS_PERWORD
Words == {WordOf(p) : p \in Prio}

Marked(p) == BitOf(p) \in Map[WordOf(p)]
OS_MAP_BIT_MASK(p) == [Map EXCEPT ![WordOf(p)] = @ \cup {BitOf(p)}]
OS_MAP_BIT_DISMASK(p) == [Map EXCEPT ![WordOf(p)] = @ \ {BitOf(p)}]

After(p, i) == IF i + 1 = QueueSize[p] THEN 0 ELSE i + 1
Before(p, i) == IF i = 0 THEN QueueSize[p] - 1 ELSE i - 1

RingInit ==
  /\ Queue = [p \in Prio |-> [i \in Place(p) |-> OS_TASK_INVALID]]
  /\ QueueHead = [p \in Prio |-> 0]
  /\ QueueTail = [p \in Prio |-> 0]
  /\ Map = [w \in Words |-> {}]

-----------------------------------------------------------------------------
(* Reading *)

\* One step of Os_GetHighPrioBit: the upper half of the bits, if any is set.
UpperHalf(word, n) ==
  IF \E b \in word : b >= n THEN {b - n : b \in {x \in word : x >= n}} ELSE word

OffsetOf(word, n) == IF \E b \in word : b >= n THEN n ELSE 0

\* Mutant: the table is asked with the bits above the nibble gone.
HighPrioBitUnshifted(word) ==
  LET byte == UpperHalf(word, 8)
  IN  OffsetOf(word, 8) + (IF byte = {} THEN 0 ELSE Max({b % 4 : b \in byte}))

\* Two halvings and a table of 16 entries for the last four bits.
GetHighPrioBit(word) ==
  LET byte   == UpperHalf(word, 8)
      nibble == UpperHalf(byte, 4)
  IN  OffsetOf(word, 8) + OffsetOf(byte, 4) + (IF nibble = {} THEN 0 ELSE Max(nibble))

\* Os_GetHighPrio: from the last word down to one that is not 0.
RingHighPrio ==
  LET w == Max({v \in Words : Map[v] # {}})
  IN  w * OS_NUM_PRIORITYBITS_PERWORD + GetHighPrioBit(Map[w])

RingFirst(p) == Queue[p][QueueHead[p]]

-----------------------------------------------------------------------------
(* Writing *)

Entries(p) ==
  IF ~Marked(p) THEN 0
  ELSE IF QueueHead[p] < QueueTail[p] THEN QueueTail[p] - QueueHead[p]
  ELSE QueueTail[p] + QueueSize[p] - QueueHead[p]

\* Os_ReadyQueueInsert at OS_LEVEL_TASK
InsertAtTail(t, p) ==
  /\ Queue' = [Queue EXCEPT ![p][QueueTail[p]] = t]
  /\ QueueTail' = [QueueTail EXCEPT ![p] = After(p, @)]
  /\ Map' = OS_MAP_BIT_MASK(p)
  /\ UNCHANGED QueueHead

\* Os_ReadyQueueInsert at the two resource levels
InsertAtHead(t, p) ==
  /\ QueueHead' = [QueueHead EXCEPT ![p] = Before(p, @)]
  /\ Queue' = [Queue EXCEPT ![p][QueueHead'[p]] = t]
  /\ Map' = OS_MAP_BIT_MASK(p)
  /\ UNCHANGED QueueTail

ReadyQueueInsert(t, p) ==
  /\ Entries(p) < QueueLimit[p]
  /\ InsertAtTail(t, p) \/ InsertAtHead(t, p)

\* Mutant: the test for an empty ring comes before the head moves.
RemoveTestsFirst(p) ==
  /\ Entries(p) > 0
  /\ Queue' = [Queue EXCEPT ![p][QueueHead[p]] = OS_TASK_INVALID]
  /\ QueueHead' = [QueueHead EXCEPT ![p] = After(p, @)]
  /\ Map' = IF QueueHead[p] = QueueTail[p] THEN OS_MAP_BIT_DISMASK(p) ELSE Map
  /\ UNCHANGED QueueTail

\* Os_ReadyQueueRemove
ReadyQueueRemove(p) ==
  /\ Entries(p) > 0
  /\ Queue' = [Queue EXCEPT ![p][QueueHead[p]] = OS_TASK_INVALID]
  /\ QueueHead' = [QueueHead EXCEPT ![p] = After(p, @)]
  /\ Map' = IF QueueHead'[p] = QueueTail[p] THEN OS_MAP_BIT_DISMASK(p) ELSE Map
  /\ UNCHANGED QueueTail

RingNext == \E p \in Used : ReadyQueueRemove(p) \/ \E t \in Task : ReadyQueueInsert(t, p)

RingSpec == RingInit /\ [][RingNext]_ringVars

-----------------------------------------------------------------------------
(* Properties *)

\* The tasks of a priority, from head to tail
Contents(p) ==
  [k \in 1 .. Entries(p) |-> Queue[p][(QueueHead[p] + k - 1) % QueueSize[p]]]

ContentsOfAll == [p \in Prio |-> Contents(p)]

(* The marks are places of their ring after every wrap, the places hold     *)
(* tasks or OS_TASK_INVALID, and no bit is set beyond a word of the map.    *)
RingTypeOK ==
  /\ DOMAIN Queue = Prio
  /\ QueueHead \in [Prio -> Nat] /\ QueueTail \in [Prio -> Nat]
  /\ \A p \in Prio : /\ QueueHead[p] \in Place(p) /\ QueueTail[p] \in Place(p)
                     /\ Queue[p] \in [Place(p) -> Task \cup {OS_TASK_INVALID}]
  /\ Map \in [Words -> SUBSET (0 .. OS_NUM_PRIORITYBITS_PERWORD - 1)]

(* A bit is set for a priority of the queue only, and the marks of a ring   *)
(* without its bit meet: the next entry makes it a ring of one.             *)
MapAgrees ==
  /\ \A w \in Words : \A b \in Map[w] : w * OS_NUM_PRIORITYBITS_PERWORD + b \in Prio
  /\ \A p \in Prio : ~Marked(p) => QueueHead[p] = QueueTail[p]

(* What Os_UpdateHighPrioTask reads from bit map and rings is the first task*)
(* of the highest priority, across words, full and wrapped rings.           *)
TopAgrees ==
  (\E w \in Words : Map[w] # {}) =>
    /\ RingHighPrio = GetHighPrio(ContentsOfAll)
    /\ RingFirst(RingHighPrio) = GetFirst(ContentsOfAll, RingHighPrio)

(* The places that hold no entry are OS_TASK_INVALID: Os_ApplReadyQueueRemove*)
(* tells a full ring from an empty one by the place before the tail.        *)
FreePlacesAreInvalid ==
  \A p \in Prio : \A i \in Place(p) :
    Queue[p][i] # OS_TASK_INVALID <=>
      \E k \in 1 .. Entries(p) : i = (QueueHead[p] + k - 1) % QueueSize[p]

(* The marks, the places and the bit map say the same of every ring.        *)
RingInvariant == RingTypeOK /\ MapAgrees /\ TopAgrees /\ FreePlacesAreInvalid

(* The rings implement the bounded FIFOs of OsReadyQueSpec.                 *)
Abstract == INSTANCE OsReadyQueSpec WITH queue <- ContentsOfAll

ImplementsFifo == Abstract!Fifo

=============================================================================
