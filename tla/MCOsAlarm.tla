----------------------------- MODULE MCOsAlarm -----------------------------
(***************************************************************************)
(* Three interchangeable alarms on a counter from 0 to 2, which runs from 0 *)
(* to 5.                                                                    *)
(***************************************************************************)
EXTENDS OsAlarm, TLC

AlarmSymmetry == Permutations(Alarm)

\* What the theorems about OsAlarm assume holds of this instance.
ASSUME MCConfiguration == SumsFit /\ SetsAhead

=============================================================================
