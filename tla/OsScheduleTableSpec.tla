------------------------ MODULE OsScheduleTableSpec ------------------------
(***************************************************************************)
(* What the schedule tables of one counter promise: the expiry points of a  *)
(* table that was started are processed in order, each at its offset, again *)
(* after its duration when it repeats; a table chained to another starts    *)
(* where that one ends; stopping a table disturbs no other; the counter     *)
(* does not go on before the expiry points that are due are processed.      *)
(* OsScheduleTable, the sorted list of the code, implements it.             *)
(***************************************************************************)
EXTENDS Integers, Sequences

CONSTANTS
  Table,
  EPOffset,         \* of each table the offsets of its expiry points
  Duration,
  Repeating,        \* the tables that repeat
  MaxAllowedValue,  \* the counter runs from 0 to MaxAllowedValue
  NoTable           \* none of the tables

Off == -1

VARIABLES
  status,    \* STOPPED, NEXT or RUNNING
  ep,        \* the expiry point a table processes next, from 0
  left,      \* the ticks until then, Off unless the table is running
  follower   \* the table that starts at the end of another

tableVars == <<status, ep, left, follower>>

TablesStopped ==
  /\ status = [t \in Table |-> "STOPPED"]
  /\ ep = [t \in Table |-> 0]
  /\ left = [t \in Table |-> Off]
  /\ follower = [t \in Table |-> NoTable]

\* The counter comes to the same value again after MaxAllowedValue + 1 ticks.
Start(t) ==
  /\ status[t] = "STOPPED"
  /\ status' = [status EXCEPT ![t] = "RUNNING"]
  /\ \E n \in 1 .. MaxAllowedValue + 1 : left' = [left EXCEPT ![t] = n]
  /\ UNCHANGED <<ep, follower>>

\* The follower of a table that is stopped is stopped with it, and so is a follower
\* that another one takes the place of.
Chain(f, t) ==
  /\ status[f] = "RUNNING" /\ f \notin Repeating
  /\ status[t] = "STOPPED"
  /\ status' = [u \in Table |-> IF u = t THEN "NEXT"
                                ELSE IF u = follower[f] THEN "STOPPED" ELSE status[u]]
  /\ follower' = [follower EXCEPT ![f] = t]
  /\ UNCHANGED <<ep, left>>

Stop(t) ==
  LET stopped == {t, follower[t]} \ {NoTable}
  IN  /\ status[t] # "STOPPED"
      /\ status' = [u \in Table |-> IF u \in stopped THEN "STOPPED" ELSE status[u]]
      /\ ep' = [ep EXCEPT ![t] = 0]
      /\ left' = [left EXCEPT ![t] = Off]
      /\ follower' = [u \in Table |-> IF u = t \/ follower[u] = t THEN NoTable ELSE follower[u]]

Tick ==
  /\ \A t \in Table : left[t] # 0
  /\ left' = [t \in Table |-> IF left[t] = Off THEN Off ELSE left[t] - 1]
  /\ UNCHANGED <<status, ep, follower>>

Offset(t, n) == EPOffset[t][n + 1]
LastEP(t) == Len(EPOffset[t]) - 1
FinalDelay(t) == Duration[t] - Offset(t, LastEP(t))

Expire(t) ==
  /\ left[t] = 0
  /\ ep[t] < LastEP(t)
  /\ ep' = [ep EXCEPT ![t] = @ + 1]
  /\ left' = [left EXCEPT ![t] = Offset(t, ep[t] + 1) - Offset(t, ep[t])]
  /\ UNCHANGED <<status, follower>>

Repeat(t) ==
  /\ left[t] = 0
  /\ ep[t] = LastEP(t) /\ t \in Repeating
  /\ ep' = [ep EXCEPT ![t] = 0]
  /\ left' = [left EXCEPT ![t] = FinalDelay(t) + Offset(t, 0)]
  /\ UNCHANGED <<status, follower>>

End(t) ==
  LET next == follower[t]
  IN  /\ left[t] = 0
      /\ ep[t] = LastEP(t) /\ t \notin Repeating
      /\ ep' = [ep EXCEPT ![t] = 0]
      /\ status' = [u \in Table |-> IF u = t THEN "STOPPED"
                                    ELSE IF u = next THEN "RUNNING" ELSE status[u]]
      /\ left' = [u \in Table |-> IF u = t THEN Off
                                  ELSE IF u = next THEN FinalDelay(t) + Offset(u, 0) ELSE left[u]]
      /\ follower' = [follower EXCEPT ![t] = NoTable]

TablesNext ==
  \/ Tick
  \/ \E t \in Table : Start(t) \/ Stop(t) \/ Expire(t) \/ Repeat(t) \/ End(t)
  \/ \E f, t \in Table : Chain(f, t)

Tables == TablesStopped /\ [][TablesNext]_tableVars

=============================================================================
