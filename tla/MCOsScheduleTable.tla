------------------------- MODULE MCOsScheduleTable -------------------------
(***************************************************************************)
(* A counter from 0 to 4, which runs from 0 to 9: a table with two expiry   *)
(* points and no final delay and one with a single point lead to each other *)
(* and to a table that repeats.                                             *)
(***************************************************************************)
EXTENDS OsScheduleTable, TLC

CONSTANTS two, single, cyclic

MC_EPOffset == two :> <<0, 2>> @@ single :> <<1>> @@ cyclic :> <<1, 2>>
MC_Duration == two :> 2 @@ single :> 2 @@ cyclic :> 3
MC_Chains == {<<two, single>>, <<single, two>>, <<two, cyclic>>}

\* What the theorems about OsScheduleTable assume holds of this instance.
ASSUME MCConfiguration == TableSumsFit /\ TakesNoRisk

=============================================================================
