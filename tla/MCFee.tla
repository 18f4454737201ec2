-------------------------------- MODULE MCFee --------------------------------
(***************************************************************************)
(* A block and an immediate block in clusters with room for one record more *)
(* than a swap takes along.                                                 *)
(***************************************************************************)
EXTENDS Fee

CONSTANTS v1, v2

Sizes == <<2, 1>>
MCBlockSize == [b \in 0 .. 1 |-> Sizes[b + 1]]
Immediate == {1}
AllV1 == {[b \in 0 .. 1 |-> v1]}
MCWritten == [b \in 0 .. 1 |-> IF b = 0 THEN {v1, v2} ELSE {v2}]

(* The proofs rest on Spared: this run meets it. *)
ASSUME RunIsSpared == Spared

=============================================================================
