---------------------------- MODULE MCOsReadyQue ----------------------------
(***************************************************************************)
(* Rings for TLC: 18 priorities, in two words of the bit map, of which some *)
(* have rings of one to four places.                                        *)
(***************************************************************************)
EXTENDS OsApplReadyQueue, TLC

MC_QueueSize == [p \in Prio |-> IF p \in {5, 17} THEN 3 ELSE 1]
MC_BigRing == [p \in Prio |-> IF p = 2 THEN 4 ELSE 1]
MC_OnePlaceFree == [p \in Prio |-> IF p = 2 THEN 3 ELSE 1]

=============================================================================
