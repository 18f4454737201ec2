----------------------------- MODULE OsBarrierSpec -----------------------------
(***************************************************************************)
(* What barriers promise to the cores that meet at them: a core leaves only *)
(* after all members have come, and may be there for the next round while   *)
(* others have not left the last one.                                       *)
(***************************************************************************)
CONSTANTS
    Cores,
    Barriers,
    Members    \* the cores that meet at a barrier

VARIABLES
    waiting,   \* waiting[b]: the cores that have come and wait for others
    open       \* open[b]: the cores all others have come to, that have not left yet

vars == <<waiting, open>>

Init ==
    /\ waiting = [b \in Barriers |-> {}]
    /\ open = [b \in Barriers |-> {}]

Come(c, b) ==
    /\ c \in Members[b] \ (waiting[b] \cup open[b])
    /\ waiting[b] \cup {c} # Members[b]
    /\ waiting' = [waiting EXCEPT ![b] = @ \cup {c}]
    /\ UNCHANGED open

\* With the last member the barrier opens for all of them.
ComeLast(c, b) ==
    /\ c \in Members[b] \ (waiting[b] \cup open[b])
    /\ waiting[b] \cup {c} = Members[b]
    /\ waiting' = [waiting EXCEPT ![b] = {}]
    /\ open' = [open EXCEPT ![b] = Members[b]]

Leave(c, b) ==
    /\ c \in open[b]
    /\ open' = [open EXCEPT ![b] = @ \ {c}]
    /\ UNCHANGED waiting

Next == \E c \in Cores, b \in Barriers : Come(c, b) \/ ComeLast(c, b) \/ Leave(c, b)

Spec == Init /\ [][Next]_vars
=============================================================================
