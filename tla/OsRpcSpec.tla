------------------------------ MODULE OsRpcSpec ------------------------------
(***************************************************************************)
(* What a remote service call promises: a call that another core accepts   *)
(* is performed at most once; a synchronous caller goes on with the result *)
(* of its own call, an asynchronous one when its call is accepted.  Only a *)
(* core that shuts down may leave a call undone, and a synchronous caller  *)
(* is told that the core is gone.                                          *)
(***************************************************************************)
EXTENDS Naturals

CONSTANTS
    Callers,      \* tasks and interrupts that call services of other cores
    Cores,        \* the cores
    E_OK, E_OS_CORE, None   \* status values, and none

VARIABLES
    phase,        \* phase[c]: "idle", or how far the call of c has come
    call,         \* call[c]: number, target core and kind of the last call of c
    got,          \* got[c]: what the last call of c returned, None during the call
    open,         \* the accepted calls that have not been performed
    running       \* the cores that have not begun to shut down

vars == <<phase, call, got, open, running>>

Kinds == {"sync", "async"}

Init == /\ phase = [c \in Callers |-> "idle"]
        /\ \E own \in [Callers -> Cores] :
               call = [c \in Callers |-> [caller |-> c, number |-> 0, target |-> own[c], kind |-> "sync"]]
        /\ got = [c \in Callers |-> None]
        /\ open = {}
        /\ running = Cores

Call(c) == /\ phase[c] = "idle"
           /\ phase' = [phase EXCEPT ![c] = "calling"]
           /\ \E t \in Cores, k \in Kinds :
                  call' = [call EXCEPT ![c] = [caller |-> c, number |-> @.number + 1,
                                               target |-> t, kind |-> k]]
           /\ got' = [got EXCEPT ![c] = None]
           /\ UNCHANGED <<open, running>>

Accept(c) == /\ phase[c] = "calling"
             /\ phase' = [phase EXCEPT ![c] = "accepted"]
             /\ open' = IF call[c].target \in running THEN open \cup {call[c]} ELSE open
             /\ UNCHANGED <<call, got, running>>

Perform(r) == LET c == r.caller IN
              /\ r \in open
              /\ open' = open \ {r}
              /\ phase' = IF r = call[c] /\ phase[c] = "accepted" /\ r.kind = "sync"
                          THEN [phase EXCEPT ![c] = "performed"] ELSE phase
              /\ UNCHANGED <<call, got, running>>

\* A core that has begun to shut down may still perform a call.
PerformLate(c) == /\ phase[c] = "accepted"
                  /\ call[c].kind = "sync"
                  /\ call[c].target \notin running
                  /\ phase' = [phase EXCEPT ![c] = "performed"]
                  /\ UNCHANGED <<call, got, open, running>>

\* A synchronous call returns the result of the service: the call itself stands for it.
Return(c) == /\ IF call[c].kind = "sync"
                THEN phase[c] = "performed" /\ got' = [got EXCEPT ![c] = call[c]]
                ELSE phase[c] = "accepted" /\ got' = [got EXCEPT ![c] = E_OK]
             /\ phase' = [phase EXCEPT ![c] = "idle"]
             /\ UNCHANGED <<call, open, running>>

Fail(c) == /\ phase[c] # "idle"
           /\ call[c].target \notin running
           /\ phase' = [phase EXCEPT ![c] = "idle"]
           /\ got' = [got EXCEPT ![c] = E_OS_CORE]
           /\ UNCHANGED <<call, open, running>>

\* What the core had accepted may be lost.
Stop(t) == /\ running' = running \ {t}
           /\ open' = {r \in open : r.target # t}
           /\ UNCHANGED <<phase, call, got>>

Next == \/ \E c \in Callers : Call(c) \/ Accept(c) \/ PerformLate(c) \/ Return(c) \/ Fail(c)
        \/ \E r \in open : Perform(r)
        \/ \E t \in Cores : Stop(t)

Spec == Init /\ [][Next]_vars
=============================================================================
