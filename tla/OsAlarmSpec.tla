---------------------------- MODULE OsAlarmSpec ----------------------------
(***************************************************************************)
(* What the alarms of one counter promise: an alarm that is set expires     *)
(* after exactly the ticks asked for, a cyclic one again every period, and  *)
(* the counter does not go on before the expired alarms are served.         *)
(* OsAlarm, the sorted list of the code, implements it.                     *)
(***************************************************************************)
EXTENDS Integers

CONSTANTS
  Alarm,
  MaxAllowedValue,  \* the counter runs from 0 to MaxAllowedValue
  NoAlarm           \* none of the alarms

Off == -1

VARIABLES
  left,    \* the ticks until an alarm expires, Off when it is not set
  period,  \* its cycle, 0 for a single alarm
  ringing  \* the alarm whose callback runs

alarmVars == <<left, period, ringing>>

AlarmsOff ==
  /\ left = [a \in Alarm |-> Off]
  /\ period = [a \in Alarm |-> 0]
  /\ ringing = NoAlarm

\* The counter comes to the same value again after MaxAllowedValue + 1 ticks.
Set(a) ==
  /\ left[a] = Off
  /\ \E n \in 1 .. MaxAllowedValue + 1 : left' = [left EXCEPT ![a] = n]
  /\ \E c \in 0 .. MaxAllowedValue : period' = [period EXCEPT ![a] = c]
  /\ UNCHANGED ringing

Cancel(a) ==
  /\ left[a] # Off
  /\ left' = [left EXCEPT ![a] = Off]
  /\ UNCHANGED <<period, ringing>>

Tick ==
  /\ ringing = NoAlarm
  /\ \A a \in Alarm : left[a] # 0
  /\ left' = [a \in Alarm |-> IF left[a] = Off THEN Off ELSE left[a] - 1]
  /\ UNCHANGED <<period, ringing>>

Expire(a) ==
  /\ ringing = NoAlarm
  /\ left[a] = 0
  /\ left' = [left EXCEPT ![a] = Off]
  /\ ringing' = a
  /\ UNCHANGED period

Served ==
  /\ ringing # NoAlarm
  /\ left' = [left EXCEPT ![ringing] = IF period[ringing] > 0 THEN period[ringing] ELSE @]
  /\ ringing' = NoAlarm
  /\ UNCHANGED period

AlarmsNext ==
  \/ Tick
  \/ Served
  \/ \E a \in Alarm : Set(a) \/ Cancel(a) \/ Expire(a)

Alarms == AlarmsOff /\ [][AlarmsNext]_alarmVars

=============================================================================
