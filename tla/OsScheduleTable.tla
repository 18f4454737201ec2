-------------------------- MODULE OsScheduleTable --------------------------
(***************************************************************************)
(* The schedule tables of a counter (Os_ScheduleTable.c), without           *)
(* synchronisation (scalability classes 1 and 3).                           *)
(*                                                                          *)
(* The tables that are started form a doubly linked list from               *)
(* CounterStListHead in the order of their next expiry points.  A tick      *)
(* increments the counter in one critical section and processes all that is *)
(* due in another.  StopScheduleTable and NextScheduleTable look at the     *)
(* state of the table before their critical section: each is two steps,     *)
(* with ticks in between.  One service is under way at a time: the          *)
(* application does not control its tables from two places at once.         *)
(***************************************************************************)
EXTENDS OsCounter, FiniteSets, FiniteSetsExt, Sequences

CONSTANTS
  Table,           \* the schedule tables of the counter
  NULL,            \* NULL_PTR and OS_SCHEDTABLE_INVALID
  EPOffset,        \* of each table the offsets of its expiry points
  Duration,        \* SchedTblDuration
  Repeating,       \* the tables with SchedTblRepeating
  Chains,          \* the pairs NextScheduleTable is called with
  TableStarts,     \* where the tables start that start by themselves
  Risks            \* what the application takes no care to avoid, see below

Offset(t, n) == EPOffset[t][n + 1]
LastEP(t) == Len(EPOffset[t]) - 1

\* SchedTblFinalDelay
FinalDelay(t) == Duration[t] - Offset(t, LastEP(t))

\* Os_GetEpDelay
GetEpDelay(t, ep) ==
  IF ep >= LastEP(t)
  THEN FinalDelay(t) + Offset(t, 0)
  ELSE Offset(t, ep + 1) - Offset(t, ep)

\* The services take the first offset off the range of the counter, unsigned: it is
\* no larger.  A table that follows another starts behind its last expiry point, and not so far
\* ahead that the counter takes it for passed.
ASSUME TableConstants ==
  /\ IsFiniteSet(Table) /\ NULL \notin Table
  /\ EPOffset \in [Table -> Seq(Nat) \ {<<>>}]
  /\ Duration \in [Table -> Nat]
  /\ TableStarts \subseteq Nat
  /\ \A t \in Table :
       /\ Offset(t, 0) <= MaxAllowedValue
       /\ \A n \in 0 .. LastEP(t) - 1 : GetEpDelay(t, n) \in 1 .. MaxAllowedValue
       /\ FinalDelay(t) \in Nat
       /\ t \in Repeating => GetEpDelay(t, LastEP(t)) \in 1 .. MaxAllowedValue
       /\ \A v \in TableStarts : v + Offset(t, 0) \in 1 .. MaxAllowedValue + 1
  /\ Chains \subseteq (Table \ Repeating) \X Table
  /\ \A f, t \in Table : <<f, t>> \in Chains =>
       /\ t # f
       /\ FinalDelay(f) + Offset(t, 0) \in 1 .. MaxAllowedValue
       /\ Duration[f] - Offset(f, 0) + Offset(t, 0) < MaxAllowedValue
  /\ Risks \subseteq {"start behind", "table ends under call", "follower of another"}

VARIABLES
  list,     \* [head |-> CounterStListHead, cb |-> the control blocks]
  call,     \* the service whose check is done, and its tables
  uninitialised,  \* the tables Os_InitScheduleTable has not come to
  tickPhase       \* where Os_IncrementCounterInternal is: between ticks, between its
                  \* critical sections, in Os_WorkSchedTbl

tableVars == <<counterVars, list, call, uninitialised, tickPhase>>

NoCall == [service |-> "none"]
State(t) == list.cb[t].state

-----------------------------------------------------------------------------
(* The list: operators from a list to the list a C function leaves behind   *)

\* Os_InitSchedTblCB
FreshCB(t) ==
  [state |-> "STOPPED", epId |-> 0, nextEP |-> 0, delay |-> GetEpDelay(t, 0),
   startAbsTick |-> 0, nextEpAbsTick |-> 0, nextTbl |-> NULL, prevTbl |-> NULL,
   nextNode |-> NULL, preNode |-> NULL]

InitSchedTblCB(q, t) == [q EXCEPT !.cb[t] = FreshCB(t)]

\* The n-th table from the head, NULL behind the last one
WalkTables(q) ==
  LET w[n \in 0 .. Cardinality(Table)] ==
        IF n = 0 THEN q.head
        ELSE IF w[n - 1] = NULL THEN NULL
        ELSE q.cb[w[n - 1]].nextNode
  IN  w

\* Os_InsertSchedTblList: behind the tables that are due no later
InsertSchedTblList(q, t) ==
  LET w == WalkTables(q)
      later(u) == GetDistance(CounterLastVal, q.cb[u].nextEpAbsTick)
                  > GetDistance(CounterLastVal, q.cb[t].nextEpAbsTick)
      k   == Min({n \in DOMAIN w : w[n] = NULL \/ later(w[n])})
      cur == w[k]
      pre == IF k = 0 THEN NULL ELSE w[k - 1]
  IN  [head |-> IF k = 0 THEN t ELSE q.head,
       cb   |-> [u \in Table |->
                   CASE u = t   -> [q.cb[u] EXCEPT !.nextNode = cur, !.preNode = pre]
                     [] u = pre -> [q.cb[u] EXCEPT !.nextNode = t]
                     [] u = cur -> [q.cb[u] EXCEPT !.preNode = t]
                     [] OTHER   -> q.cb[u]]]

\* Os_InsertSchedTblNode
InsertSchedTblNode(q, t) ==
  IF q.cb[t].nextNode # NULL \/ q.cb[t].preNode # NULL THEN q
  ELSE IF q.head = NULL THEN [q EXCEPT !.head = t]
  ELSE InsertSchedTblList(q, t)

\* Mutant: the table behind keeps its link to the one that left.
DelSchedTblNodeOneWay(q, t) ==
  LET pre == q.cb[t].preNode
  IN  IF q.head = NULL THEN q
      ELSE IF pre = NULL
      THEN [q EXCEPT !.head = q.cb[t].nextNode, !.cb[t].nextNode = NULL]
      ELSE [q EXCEPT !.cb[pre].nextNode = q.cb[t].nextNode, !.cb[t].preNode = NULL]

\* Os_DelSchedTblNode
DelSchedTblNode(q, t) ==
  LET pre  == q.cb[t].preNode
      next == q.cb[t].nextNode
  IN  IF q.head = NULL THEN q
      ELSE [head |-> IF pre = NULL THEN next ELSE q.head,
            cb   |-> [u \in Table |->
                        CASE u = t    -> [q.cb[u] EXCEPT !.preNode = NULL,
                                                         !.nextNode = IF pre = NULL THEN NULL ELSE next]
                          [] u = pre  -> [q.cb[u] EXCEPT !.nextNode = next]
                          [] u = next -> [q.cb[u] EXCEPT !.preNode = pre]
                          [] OTHER    -> q.cb[u]]]

Reinsert(q, t) == InsertSchedTblNode(DelSchedTblNode(q, t), t)
Remove(q, t) == InitSchedTblCB(DelSchedTblNode(q, t), t)

\* Only the successors of a table that does not repeat depend on where it started.
Noted(t, start) == IF t \in Repeating THEN 0 ELSE start

\* Os_SchedTblInnerStart and the insertion that follows it
StartAt(q, t, start) ==
  InsertSchedTblNode(
    [q EXCEPT !.cb[t] = [@ EXCEPT !.startAbsTick = Noted(t, start),
                                  !.nextEpAbsTick = CalcAbsTicks(start, Offset(t, 0)),
                                  !.epId = 0,
                                  !.state = "RUNNING"]], t)

-----------------------------------------------------------------------------
(* Startup *)

TableInit ==
  /\ InitCounter
  /\ list = [head |-> NULL, cb |-> [t \in Table |-> FreshCB(t)]]
  /\ call = NoCall
  /\ uninitialised = Table
  /\ tickPhase = "idle"

\* One round of the loop of Os_InitScheduleTable: the counter stands at 0, so that an
\* absolute and a relative start are the same.
InitScheduleTable(t) ==
  /\ t \in uninitialised
  /\ uninitialised' = uninitialised \ {t}
  /\ \/ list' = InitSchedTblCB(list, t)
     \/ \E v \in TableStarts : list' = StartAt(InitSchedTblCB(list, t), t, CalcAbsTicks(CounterCurVal, v))
  /\ UNCHANGED <<counterVars, call, tickPhase>>

-----------------------------------------------------------------------------
(* Ticks *)

IncrementTableCounter ==
  /\ uninitialised = {} /\ tickPhase = "idle"
  /\ CountUp
  /\ tickPhase' = "counted"
  /\ UNCHANGED <<list, call, uninitialised>>

\* Mutant: the round starts from the counter's value before the tick.
NextRoundEarly(q, t) ==
  Reinsert([q EXCEPT !.cb[t] =
              [@ EXCEPT !.nextEP = 0,
                        !.epId = 0,
                        !.nextEpAbsTick = CalcAbsTicks(CounterLastVal, q.cb[t].delay),
                        !.delay = GetEpDelay(t, 0)]], t)

\* Os_WorkSchedTblRepeat
NextRound(q, t) ==
  Reinsert([q EXCEPT !.cb[t] =
              [@ EXCEPT !.nextEP = 0,
                        !.epId = 0,
                        !.nextEpAbsTick = CalcAbsTicks(q.cb[t].nextEpAbsTick, q.cb[t].delay),
                        !.delay = GetEpDelay(t, 0)]], t)

\* Os_WorkSchedTblToNextEp and the reinsertion that follows it
ToNextEp(q, t) ==
  LET ep == q.cb[t].epId + 1
  IN  Reinsert([q EXCEPT !.cb[t] =
                  [@ EXCEPT !.epId = ep,
                            !.nextEP = ep,
                            !.nextEpAbsTick = CalcAbsTicks(q.cb[t].nextEpAbsTick, q.cb[t].delay),
                            !.delay = GetEpDelay(t, ep)]], t)

\* The end of a table that does not repeat: its follower runs
EndTable(q, t) ==
  LET next == q.cb[t].nextTbl
  IN  Remove(IF next = NULL THEN q ELSE [q EXCEPT !.cb[next].state = "RUNNING"], t)

AtLastEP(t) == list.cb[t].epId >= LastEP(t)

\* Os_WorkSchedTblRunningState
RunningState(q, t) ==
  IF ~AtLastEP(t) THEN ToNextEp(q, t)
  ELSE IF t \in Repeating THEN NextRound(q, t)
  ELSE EndTable(q, t)

\* The first table of the list is due.
TableDue ==
  /\ list.head # NULL
  /\ HasPassed(list.cb[list.head].nextEpAbsTick)

\* With a risk taken, a table ends between the check of a service and its work.
EndsUnderCall ==
  /\ call # NoCall
  /\ State(call.table) = "RUNNING" /\ call.table \notin Repeating
  /\ AtLastEP(call.table) /\ HasPassed(list.cb[call.table].nextEpAbsTick)

\* One round of the loop of Os_WorkSchedTbl.  A table that is due but not running is
\* left where it is: the loop does not end.
EpProc ==
  /\ tickPhase \in {"counted", "working"}
  /\ TableDue
  /\ tickPhase = "counted" /\ EndsUnderCall => "table ends under call" \in Risks
  /\ list' = IF State(list.head) = "RUNNING" THEN RunningState(list, list.head) ELSE list
  /\ tickPhase' = "working"
  /\ UNCHANGED <<counterVars, call, uninitialised>>

\* The end of Os_WorkSchedTbl
WorkSchedTblDone ==
  /\ tickPhase \in {"counted", "working"}
  /\ ~TableDue
  /\ tickPhase' = "idle"
  /\ UNCHANGED <<counterVars, list, call, uninitialised>>

-----------------------------------------------------------------------------
(* Services, outside the critical sections of the tick *)

MayControl ==
  /\ uninitialised = {}
  /\ tickPhase # "working"

\* The check and the work of a start are one step: no tick starts a table that is
\* stopped and follows no other.
MayStart(t) ==
  /\ MayControl /\ call = NoCall
  /\ State(t) = "STOPPED"

StartScheduleTableRel(t, offset) ==
  /\ MayStart(t)
  /\ offset <= MaxAllowedValue - Offset(t, 0)
  /\ list' = StartAt(list, t, CalcAbsTicks(CounterCurVal, offset))
  /\ UNCHANGED <<counterVars, call, uninitialised, tickPhase>>

\* The value is taken for a tick of the counter as it is, although every value stands
\* for two: with a risk taken, the tick may have passed, and the table is due at once.
StartScheduleTableAbs(t, start) ==
  /\ MayStart(t)
  /\ \/ TicksTo(CalcAbsTicks(start, Offset(t, 0))) \in 1 .. MaxAllowedValue + 1
     \/ "start behind" \in Risks
  /\ list' = StartAt(list, t, start)
  /\ UNCHANGED <<counterVars, call, uninitialised, tickPhase>>

\* prevTbl outlives the start of the follower.  With a risk taken, a table is stopped
\* that followed another one which has a new follower by now, and that one loses it.
FollowsNoOther(t) ==
  LET prev == list.cb[t].prevTbl
  IN  prev # NULL => list.cb[prev].nextTbl \in {t, NULL}

StopScheduleTableCheck(t) ==
  /\ MayControl /\ call = NoCall
  /\ State(t) # "STOPPED"
  /\ FollowsNoOther(t) \/ "follower of another" \in Risks
  /\ call' = [service |-> "StopScheduleTable", table |-> t]
  /\ UNCHANGED <<counterVars, list, uninitialised, tickPhase>>

StopScheduleTable ==
  /\ MayControl
  /\ call.service = "StopScheduleTable"
  /\ LET t == call.table
         next == list.cb[t].nextTbl
         prev == list.cb[t].prevTbl
         nextStopped == IF next = NULL THEN list ELSE Remove(list, next)
         unchained == IF prev = NULL THEN nextStopped ELSE [nextStopped EXCEPT !.cb[prev].nextTbl = NULL]
     IN  list' = Remove(unchained, t)
  /\ call' = NoCall
  /\ UNCHANGED <<counterVars, uninitialised, tickPhase>>

\* Os_NextSTCheckStatus
NextScheduleTableCheck(f, t) ==
  /\ MayControl /\ call = NoCall
  /\ <<f, t>> \in Chains
  /\ State(f) = "RUNNING"
  /\ State(t) = "STOPPED"
  /\ call' = [service |-> "NextScheduleTable", table |-> f, next |-> t]
  /\ UNCHANGED <<counterVars, list, uninitialised, tickPhase>>

NextScheduleTable ==
  /\ MayControl
  /\ call.service = "NextScheduleTable"
  /\ LET f == call.table
         t == call.next
         old == list.cb[f].nextTbl
         start == CalcAbsTicks(list.cb[f].startAbsTick, Duration[f])
         timed == [list EXCEPT !.cb[t] =
                     [@ EXCEPT !.startAbsTick = Noted(t, start),
                               !.nextEpAbsTick = CalcAbsTicks(start, Offset(t, 0)),
                               !.state = "NEXT"]]
         replaced == IF old = NULL THEN timed ELSE Remove(timed, old)
     IN  list' = InsertSchedTblNode([replaced EXCEPT !.cb[f].nextTbl = t, !.cb[t].prevTbl = f], t)
  /\ call' = NoCall
  /\ UNCHANGED <<counterVars, uninitialised, tickPhase>>

TableNext ==
  \/ IncrementTableCounter
  \/ EpProc
  \/ WorkSchedTblDone
  \/ StopScheduleTable
  \/ NextScheduleTable
  \/ \E t \in Table :
       \/ InitScheduleTable(t)
       \/ StopScheduleTableCheck(t)
       \/ \E offset \in 1 .. MaxAllowedValue : StartScheduleTableRel(t, offset)
       \/ \E start \in 0 .. MaxAllowedValue : StartScheduleTableAbs(t, start)
  \/ \E f, t \in Table : NextScheduleTableCheck(f, t)

TableSpec == TableInit /\ [][TableNext]_tableVars

-----------------------------------------------------------------------------
(* Conditions on a configuration and its use, which the kernel does not     *)
(* check                                                                    *)

\* A sum is taken in Os_TickType before it is compared with twice the range, that of a
\* start and the whole duration too: it fits, or the range is the whole type.
TableSumsFit ==
  \/ /\ 3 * MaxAllowedValue + 1 < 2 ^ TickBits
     /\ \A f, t \in Table : <<f, t>> \in Chains => 2 * MaxAllowedValue + 1 + Duration[f] < 2 ^ TickBits
  \/ 2 * MaxAllowedValue + 2 = 2 ^ TickBits

TakesNoRisk == Risks = {}

-----------------------------------------------------------------------------
(* Properties, where TableSumsFit and TakesNoRisk *)

CB == [state : {"STOPPED", "NEXT", "RUNNING"}, epId : Nat, nextEP : Nat, delay : Nat,
       startAbsTick : Ticks, nextEpAbsTick : Ticks,
       nextTbl : Table \cup {NULL}, prevTbl : Table \cup {NULL},
       nextNode : Table \cup {NULL}, preNode : Table \cup {NULL}]

TableTypeOK ==
  /\ CounterCurVal \in Ticks /\ CounterLastVal \in Ticks
  /\ list \in [head : Table \cup {NULL}, cb : [Table -> CB]]
  /\ \A t \in Table : list.cb[t].epId <= LastEP(t)
  /\ uninitialised \subseteq Table
  /\ tickPhase \in {"idle", "counted", "working"}
  /\ call # NoCall => call.table \in Table

\* The places of the list that hold a table
TablesListed == {n \in 0 .. Cardinality(Table) - 1 : WalkTables(list)[n] # NULL}

TablesInOrder ==
  LET w == WalkTables(list)
      remaining(t) == TicksTo(list.cb[t].nextEpAbsTick)
  IN  /\ w[Cardinality(Table)] = NULL
      /\ {w[n] : n \in TablesListed} = {t \in Table : State(t) # "STOPPED"}
      /\ \A n \in TablesListed : list.cb[w[n]].preNode = IF n = 0 THEN NULL ELSE w[n - 1]
      /\ \A m, n \in TablesListed : m < n => remaining(w[m]) <= remaining(w[n])

FollowersWait ==
  \A t \in Table : State(t) = "NEXT" <=> \E f \in Table : list.cb[f].nextTbl = t

(* The list is linked both ways, ends, holds every table that is not        *)
(* stopped once, and is in the order of the next expiry points across the   *)
(* wrap of the counter; a table waits as NEXT exactly while one that runs   *)
(* before it leads to it; and the loop of Os_WorkSchedTbl meets only tables *)
(* that run, or it would not end, with interrupts disabled.                 *)
ScheduleTableInvariant ==
  /\ TableTypeOK
  /\ TablesInOrder
  /\ FollowersWait
  /\ TableDue => State(list.head) = "RUNNING"

(* Every expiry point is processed in order and at its offset, whatever     *)
(* else is started, stopped, chained or due in between, a follower starts   *)
(* where its predecessor ends, and stopping a table disturbs no other: the  *)
(* list implements the tables of OsScheduleTableSpec.                       *)
AbstractTables == INSTANCE OsScheduleTableSpec WITH
  NoTable  <- NULL,
  status   <- [t \in Table |-> State(t)],
  ep       <- [t \in Table |-> list.cb[t].nextEP],
  left     <- [t \in Table |-> IF State(t) = "RUNNING" THEN TicksTo(list.cb[t].nextEpAbsTick) ELSE -1],
  follower <- [t \in Table |-> list.cb[t].nextTbl]

ImplementsTables == AbstractTables!Tables

=============================================================================
