------------------------------ MODULE OsAlarm ------------------------------
(***************************************************************************)
(* The alarms of a counter (Os_Alarm.c).                                    *)
(*                                                                          *)
(* The alarms that are set form a list from CounterAlmQue along AlarmNext   *)
(* in the order they expire; an alarm that is not set points to itself.     *)
(*                                                                          *)
(* A tick increments the counter in one critical section and works off the  *)
(* list in another, which it leaves while a callback runs; interrupts, and  *)
(* tasks the callback activates, can set and cancel alarms in these gaps.   *)
(* The tick of a counter is not interrupted by its own next tick.           *)
(***************************************************************************)
EXTENDS OsCounter, FiniteSets, FiniteSetsExt

CONSTANTS
  Alarm,            \* the alarms of the counter
  INVALID_ALARM,
  MinCycle,         \* Os_CounterCfg[c].CounterMinCycle
  AutostartTimes,   \* AlarmStartTime of the alarms that start by themselves
  Cycles,           \* the cycles the application uses
  SetsReached,      \* whether SetAbsAlarm is called with the value just reached
  TouchesExpiring   \* whether an alarm is set or cancelled while its callback runs

ASSUME AlarmConstants ==
  /\ IsFiniteSet(Alarm) /\ INVALID_ALARM \notin Alarm
  /\ Alarm \cap {"idle", "counted", "working"} = {}
  /\ MinCycle \in 1 .. MaxAllowedValue
  /\ AutostartTimes \subseteq 0 .. MaxAllowedValue
  /\ Cycles \subseteq {0} \cup MinCycle .. MaxAllowedValue
  /\ SetsReached \in BOOLEAN /\ TouchesExpiring \in BOOLEAN

VARIABLES
  CounterAlmQue,  \* the first alarm of the list
  AlarmStart, AlarmCycle, AlarmNext,
  booting,        \* the alarms Os_InitAlarm has not come to
  phase           \* where Os_IncrementCounterInternal is: between ticks, between
                  \* its critical sections, in Os_WorkAlarm, or in a callback

acbVars == <<CounterAlmQue, AlarmStart, AlarmCycle, AlarmNext>>
alarmVars == <<counterVars, acbVars, booting, phase>>

InUse(a) == AlarmNext[a] # a

-----------------------------------------------------------------------------
(* The list *)

\* The n-th alarm from the head, INVALID_ALARM behind the last one
Walk ==
  LET w[n \in 0 .. Cardinality(Alarm)] ==
        IF n = 0 THEN CounterAlmQue
        ELSE IF w[n - 1] = INVALID_ALARM THEN INVALID_ALARM
        ELSE AlarmNext[w[n - 1]]
  IN  w

\* Mutant: the wrap of the counter is not looked at.
PassesUnwrapped(start, tick, curTick) ==
  start >= curTick /\ start <= tick

\* The test of Os_InsertAlarm: an alarm that expires before tick, from curTick on
Passes(start, tick, curTick) ==
  IF curTick < tick
  THEN start >= curTick /\ start <= tick
  ELSE start >= curTick \/ start <= tick

\* Os_InsertAlarm: behind the alarms that expire before it
InsertAlarm(a, tick, curTick) ==
  LET w == Walk
      k == Min({n \in DOMAIN w :
                  w[n] = INVALID_ALARM \/ ~Passes(AlarmStart'[w[n]], tick, curTick)})
  IN  /\ AlarmStart' = [AlarmStart EXCEPT ![a] = tick]
      /\ IF k = 0
         THEN /\ CounterAlmQue' = a
              /\ AlarmNext' = [AlarmNext EXCEPT ![a] = w[0]]
         ELSE /\ CounterAlmQue' = CounterAlmQue
              /\ AlarmNext' = [AlarmNext EXCEPT ![a] = w[k], ![w[k - 1]] = a]

\* Os_DeleteAlarm
DeleteAlarm(a) ==
  IF CounterAlmQue = a
  THEN /\ CounterAlmQue' = AlarmNext[a]
       /\ AlarmNext' = [AlarmNext EXCEPT ![a] = a]
  ELSE /\ CounterAlmQue' = CounterAlmQue
       /\ AlarmNext' = [b \in Alarm |-> IF b = a THEN a
                                        ELSE IF AlarmNext[b] = a THEN AlarmNext[a]
                                        ELSE AlarmNext[b]]

-----------------------------------------------------------------------------
(* Startup *)

AlarmInit ==
  /\ InitCounter
  /\ CounterAlmQue = INVALID_ALARM
  /\ AlarmStart = [a \in Alarm |-> 0]
  /\ AlarmCycle = [a \in Alarm |-> 0]
  /\ AlarmNext = [a \in Alarm |-> a]
  /\ booting = Alarm
  /\ phase = "idle"

\* One round of the loop of Os_InitAlarm.  The order is that of the alarm
\* identifiers, which the configuration gives out.
InitAlarm(a) ==
  /\ a \in booting
  /\ booting' = booting \ {a}
  /\ \/ UNCHANGED acbVars
     \/ \E start \in AutostartTimes, cycle \in Cycles :
          /\ InsertAlarm(a, start, CounterCurVal)
          /\ AlarmCycle' = [AlarmCycle EXCEPT ![a] = cycle]
  /\ UNCHANGED <<counterVars, phase>>

-----------------------------------------------------------------------------
(* Ticks *)

\* The first critical section of Os_IncrementCounterInternal
IncrementCounter ==
  /\ booting = {} /\ phase = "idle"
  /\ CountUp
  /\ phase' = "counted"
  /\ UNCHANGED <<acbVars, booting>>

\* The first alarm of the list has expired.
Due ==
  /\ CounterAlmQue # INVALID_ALARM
  /\ HasPassed(AlarmStart[CounterAlmQue])

\* Os_ProcessAlarm up to the callback
ProcessAlarm ==
  /\ phase \in {"counted", "working"}
  /\ Due
  /\ CounterAlmQue' = AlarmNext[CounterAlmQue]
  /\ AlarmNext' = [AlarmNext EXCEPT ![CounterAlmQue] = CounterAlmQue]
  /\ phase' = CounterAlmQue
  /\ UNCHANGED <<counterVars, AlarmStart, AlarmCycle, booting>>

\* Mutant: a cyclic alarm starts again from the counter's value.
CallbackReturnsLate ==
  /\ phase \in Alarm
  /\ phase' = "working"
  /\ IF AlarmCycle[phase] > 0
     THEN InsertAlarm(phase, CalcAbsTicks(CounterLastVal, AlarmCycle[phase]), CounterLastVal)
     ELSE UNCHANGED <<CounterAlmQue, AlarmStart, AlarmNext>>
  /\ UNCHANGED <<counterVars, AlarmCycle, booting>>

\* Os_ProcessAlarm from the callback on
CallbackReturns ==
  /\ phase \in Alarm
  /\ phase' = "working"
  /\ IF AlarmCycle[phase] > 0
     THEN InsertAlarm(phase, CalcAbsTicks(AlarmStart[phase], AlarmCycle[phase]), CounterLastVal)
     ELSE UNCHANGED <<CounterAlmQue, AlarmStart, AlarmNext>>
  /\ UNCHANGED <<counterVars, AlarmCycle, booting>>

\* The end of Os_WorkAlarm
WorkDone ==
  /\ phase \in {"counted", "working"}
  /\ ~Due
  /\ phase' = "idle"
  /\ UNCHANGED <<counterVars, acbVars, booting>>

-----------------------------------------------------------------------------
(* Services, outside the critical sections of the tick *)

MayCall(a) ==
  /\ booting = {}
  /\ phase # "working"
  /\ phase = a => TouchesExpiring

SetRelAlarm(a, increment, cycle) ==
  /\ MayCall(a)
  /\ ~InUse(a)
  /\ InsertAlarm(a, CalcAbsTicks(CounterCurVal, increment), CounterCurVal)
  /\ AlarmCycle' = [AlarmCycle EXCEPT ![a] = cycle]
  /\ UNCHANGED <<counterVars, booting, phase>>

\* Os_GetCounterValue
CounterValue == CounterCurVal % (MaxAllowedValue + 1)

\* Which of the two values that stand for start comes next
AbsStart(start) ==
  IF TicksTo(start) <= MaxAllowedValue
  THEN start
  ELSE start + MaxAllowedValue + 1

\* For the value just reached the code expires the alarm at the next one, or, behind
\* the others in the list, later: not at the value it was set to.
SetAbsAlarm(a, start, cycle) ==
  /\ MayCall(a)
  /\ start = CounterValue => SetsReached
  /\ ~InUse(a)
  /\ InsertAlarm(a, AbsStart(start), CounterCurVal)
  /\ AlarmCycle' = [AlarmCycle EXCEPT ![a] = cycle]
  /\ UNCHANGED <<counterVars, booting, phase>>

CancelAlarm(a) ==
  /\ MayCall(a)
  /\ InUse(a)
  /\ DeleteAlarm(a)
  /\ UNCHANGED <<counterVars, AlarmStart, AlarmCycle, booting, phase>>

AlarmNextStep ==
  \/ IncrementCounter
  \/ ProcessAlarm
  \/ CallbackReturns
  \/ WorkDone
  \/ \E a \in Alarm :
       \/ InitAlarm(a)
       \/ CancelAlarm(a)
       \/ \E increment \in 1 .. MaxAllowedValue, cycle \in Cycles : SetRelAlarm(a, increment, cycle)
       \/ \E start \in 0 .. MaxAllowedValue, cycle \in Cycles : SetAbsAlarm(a, start, cycle)

AlarmSpec == AlarmInit /\ [][AlarmNextStep]_alarmVars

-----------------------------------------------------------------------------
(* Conditions on a configuration and its use, which the kernel does not     *)
(* check                                                                    *)

\* The sum of a value and an offset is taken in Os_TickType before it is compared with twice the
\* range: it fits, or the range is the whole type.
SumsFit == 3 * MaxAllowedValue + 1 < 2 ^ TickBits \/ 2 * MaxAllowedValue + 2 = 2 ^ TickBits

\* No alarm is set to the value the counter has, nor touched while its callback runs.
SetsAhead == 0 \notin AutostartTimes /\ ~SetsReached /\ ~TouchesExpiring

-----------------------------------------------------------------------------
(* Properties, where SumsFit and SetsAhead *)

AlarmTypeOK ==
  /\ CounterCurVal \in Ticks /\ CounterLastVal \in Ticks
  /\ CounterAlmQue \in Alarm \cup {INVALID_ALARM}
  /\ AlarmStart \in [Alarm -> Ticks]
  /\ AlarmCycle \in [Alarm -> Cycles \cup {0}]
  /\ AlarmNext \in [Alarm -> Alarm \cup {INVALID_ALARM}]
  /\ booting \subseteq Alarm
  /\ phase \in {"idle", "counted", "working"} \cup Alarm

\* The places of the list that hold an alarm
Listed == {n \in 0 .. Cardinality(Alarm) - 1 : Walk[n] # INVALID_ALARM}

Remaining(a) == TicksTo(AlarmStart[a])

ListInOrder ==
  /\ Walk[Cardinality(Alarm)] = INVALID_ALARM
  /\ {Walk[n] : n \in Listed} = {a \in Alarm : InUse(a)}
  /\ \A n \in Listed : Remaining(Walk[n]) <= MaxAllowedValue + 1
  /\ \A m, n \in Listed : m < n => Remaining(Walk[m]) <= Remaining(Walk[n])

\* Before a tick nothing is due that it would pass over; after it the two values of the counter are
\* one tick apart, and the alarm whose callback runs is out of the list and expired just now.
TicksAgree ==
  /\ booting # {} => phase = "idle" /\ CounterCurVal = 0 /\ \A a \in booting : ~InUse(a)
  /\ phase = "idle" => \A a \in Alarm : InUse(a) => Remaining(a) # 0
  /\ phase # "idle" => CounterCurVal = CalcAbsTicks(CounterLastVal, 1)
  /\ phase \in Alarm => ~InUse(phase) /\ Remaining(phase) = 0

(* The ticks wrap within twice the range of the counter; the list ends,     *)
(* holds each alarm in use once, and is in the order of expiry across the   *)
(* wrap; none lies further ahead than the counter can tell from behind, and *)
(* none is due when the counter goes on.                                    *)
AlarmInvariant ==
  /\ AlarmTypeOK
  /\ ListInOrder
  /\ TicksAgree

(* Every alarm expires after exactly the ticks asked for and again every    *)
(* cycle, whatever else is set, cancelled or due in between, and none is    *)
(* passed over: the list implements the alarms of OsAlarmSpec.              *)
Abstract == INSTANCE OsAlarmSpec WITH
  NoAlarm <- INVALID_ALARM,
  left    <- [a \in Alarm |-> IF InUse(a) THEN Remaining(a) ELSE -1],
  period  <- AlarmCycle,
  ringing <- IF phase \in Alarm THEN phase ELSE INVALID_ALARM

ExpiresOnTime == Abstract!Alarms

=============================================================================
