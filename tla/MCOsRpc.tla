------------------------------- MODULE MCOsRpc -------------------------------
(* Two cores that call each other, one with an interrupt above the inter-core interrupt, too; a *)
(* third core that asynchronous calls go to. *)
EXTENDS OsRpc, TLC

CONSTANTS task0, task1, isr0

MCCores == 0 .. 2
MCCallers == {task0, task1, isr0}
MCCoreOf == [c \in MCCallers |-> IF c = task1 THEN 1 ELSE 0]
MCLevel == [c \in MCCallers |-> IF c = isr0 THEN 2 ELSE 1]
MCMasking == {isr0}
MCServices == [c \in MCCallers |-> IF c = task1 THEN {<<0, "sync">>} ELSE {<<1, "sync">>, <<2, "async">>}]
MCMaxCalls == [c \in MCCallers |-> IF c = task0 THEN 2 ELSE 1]
MCStopping == {1}

\* What the theorems about OsRpc assume holds of this instance.
ASSUME MCConfiguration == OneKindPerCore /\ RoomForCallers
=============================================================================
