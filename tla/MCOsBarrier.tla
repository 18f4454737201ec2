----------------------------- MODULE MCOsBarrier -----------------------------
(* Three cores meet at a first barrier, two of them then at a second one. *)
EXTENDS OsBarrier, TLC

MCCores == 0 .. 2
MCBarriers == {"first", "second"}
MCMembers == ("first" :> {0, 1, 2}) @@ ("second" :> {0, 1})
MCProgram == [c \in MCCores |-> IF c = 2 THEN <<"first">> ELSE <<"first", "second">>]
=============================================================================
