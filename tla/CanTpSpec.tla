------------------------------- MODULE CanTpSpec -------------------------------
(***************************************************************************)
(* What the transport layer promises to the layers above it.  A node has   *)
(* one message on the way at a time and learns once what became of it: that *)
(* all of it went out, or that it failed.  The other node is given messages *)
(* that went out, whole, in their order and none twice; any may be missing. *)
(***************************************************************************)
EXTENDS Naturals

CONSTANT Nodes

VARIABLES
    accepted,   \* accepted[n]: the number of messages of n that were accepted
    pending,    \* pending[n]: the last one is not confirmed yet
    result,     \* result[n]: what the last confirmation said
    carried,    \* carried[n]: the last message of n that went out to its last frame
    delivered   \* delivered[n]: the last message of n that its peer was given

vars == <<accepted, pending, result, carried, delivered>>

Init ==
    /\ accepted = [n \in Nodes |-> 0]
    /\ pending = [n \in Nodes |-> FALSE]
    /\ result = [n \in Nodes |-> "E_OK"]
    /\ carried = [n \in Nodes |-> 0]
    /\ delivered = [n \in Nodes |-> 0]

Transmit(n) ==
    /\ ~ pending[n]
    /\ pending' = [pending EXCEPT ![n] = TRUE]
    /\ accepted' = [accepted EXCEPT ![n] = @ + 1]
    /\ UNCHANGED <<result, carried, delivered>>

\* A message that failed may be carried afterwards: its last frame is not taken back.
Carry(n) ==
    /\ carried' \in {[carried EXCEPT ![n] = m] : m \in carried[n] + 1 .. accepted[n]}
    /\ UNCHANGED <<accepted, pending, result, delivered>>

Confirm(n, r) ==
    /\ pending[n]
    /\ r = "E_OK" => carried[n] = accepted[n]
    /\ pending' = [pending EXCEPT ![n] = FALSE]
    /\ result' = [result EXCEPT ![n] = r]
    /\ UNCHANGED <<accepted, carried, delivered>>

Deliver(n) ==
    /\ delivered' \in {[delivered EXCEPT ![n] = m] : m \in delivered[n] + 1 .. carried[n]}
    /\ UNCHANGED <<accepted, pending, result, carried>>

Next ==
    \E n \in Nodes :
        \/ Transmit(n) \/ Carry(n) \/ Deliver(n)
        \/ \E r \in {"E_OK", "E_NOT_OK"} : Confirm(n, r)

Spec == Init /\ [][Next]_vars
=============================================================================
