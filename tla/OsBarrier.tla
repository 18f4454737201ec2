------------------------------- MODULE OsBarrier -------------------------------
(***************************************************************************)
(* Barriers between cores (Os_Barrier.c): every member has a ticket of 8    *)
(* bits and a status, counts its ticket up and polls the tickets of the     *)
(* others, one read at a time.  Before it waits it looks for a member that  *)
(* waits at another of its barriers (BARRIER_DETECT_DEADLOCK_ENABLE).       *)
(*                                                                          *)
(* One task of each core calls the barriers of the core, in turns; it calls *)
(* again when it is refused with E_OS_DEADLOCK.                             *)
(***************************************************************************)
EXTENDS Naturals, Sequences, FiniteSets

CONSTANTS
    Cores,
    Barriers,
    Members,     \* Participant: the cores that meet at a barrier
    Program,     \* Program[c]: the barriers core c calls, over and over
    TicketRange  \* number of values of Os_BarrierTicketType

ASSUME BarrierConstants ==
    /\ Members \in [Barriers -> SUBSET Cores]
    /\ \A c \in Cores : Program[c] \in Seq({b \in Barriers : c \in Members[b]}) /\ Program[c] # <<>>
    /\ TicketRange \in {2 * n : n \in 2 .. 128}

VARIABLES
    ticket,   \* ticket[b][c], BarrierCB->ticket of the member c of b
    status,   \* status[b][c], BarrierCB->status
    core      \* where a core is in BarrierSynchronize, its place in the program, and its locals

vars == <<ticket, status, core>>

Init ==
    /\ ticket = [b \in Barriers |-> [c \in Members[b] |-> 0]]
    /\ status = [b \in Barriers |-> [c \in Members[b] |-> "BARRIER_RELEASED"]]
    /\ core = [c \in Cores |-> [pc |-> "run", place |-> 1, left |-> {}, currentTicket |-> 0, waitingStatus |-> TRUE]]

\* The barrier core c calls, or calls next.
At(c) == Program[c][core[c].place]

OwnBarriers(c) == {b \in Barriers : c \in Members[b]}

\* Mutant: tickets are compared as numbers.
TicketCompareUnwrapped(a, b) == a >= b

BarrierTicketCompare(a, b) == (a + TicketRange - b) % TicketRange < TicketRange \div 2
-----------------------------------------------------------------------------
(* Os_BarrierDetectDeadLock *)

\* The members that may wait for the caller elsewhere: each status is read in a step of its own.
Suspects(c) ==
    {s \in (OwnBarriers(c) \ {At(c)}) \X (Cores \ {c}) :
        /\ s[2] \in Members[s[1]]
        /\ At(c) \in OwnBarriers(s[2]) \ {s[1]}}

Call(c) ==
    /\ core[c].pc = "run"
    /\ core' = [core EXCEPT ![c].pc = "detect", ![c].left = Suspects(c)]
    /\ UNCHANGED <<ticket, status>>

Detect(c) ==
    /\ core[c].pc = "detect"
    /\ \E s \in core[c].left :
         /\ status[s[1]][s[2]] # "BARRIER_WATING"
         /\ core' = [core EXCEPT ![c].left = @ \ {s}]
    /\ UNCHANGED <<ticket, status>>

\* E_OS_DEADLOCK
Refuse(c) ==
    /\ core[c].pc = "detect"
    /\ \E s \in core[c].left : status[s[1]][s[2]] = "BARRIER_WATING"
    /\ core' = [core EXCEPT ![c].pc = "run", ![c].left = {}]
    /\ UNCHANGED <<ticket, status>>
-----------------------------------------------------------------------------
(* Os_BarrierSynchronizeInternal *)

Wait(c) ==
    /\ core[c].pc = "detect"
    /\ core[c].left = {}
    /\ status' = [status EXCEPT ![At(c)][c] = "BARRIER_WATING"]
    /\ core' = [core EXCEPT ![c].pc = "count"]
    /\ UNCHANGED ticket

\* The first pass of the loop begins with its own, current, ticket.
Count(c) ==
    LET b == At(c)
        next == (ticket[b][c] + 1) % TicketRange IN
    /\ core[c].pc = "count"
    /\ ticket' = [ticket EXCEPT ![b][c] = next]
    /\ core' = [core EXCEPT ![c] = [@ EXCEPT !.pc = "poll", !.currentTicket = next,
                                             !.left = Members[b], !.waitingStatus = TRUE]]
    /\ UNCHANGED status

\* Mutant: a pass leaves the loop when the last ticket it reads has come.
PollLastOnly(c) ==
    /\ core[c].pc = "poll"
    /\ \E d \in core[c].left :
         core' = [core EXCEPT ![c] = [core[c] EXCEPT !.left = @ \ {d},
             !.waitingStatus = BarrierTicketCompare(ticket[At(c)][d], core[c].currentTicket)]]
    /\ UNCHANGED <<ticket, status>>

Poll(c) ==
    /\ core[c].pc = "poll"
    /\ \E d \in core[c].left :
         core' = [core EXCEPT ![c] = [core[c] EXCEPT !.left = @ \ {d},
             !.waitingStatus = BarrierTicketCompare(ticket[At(c)][d], core[c].currentTicket) /\ @]]
    /\ UNCHANGED <<ticket, status>>

PollAgain(c) ==
    /\ core[c].pc = "poll"
    /\ core[c].left = {}
    /\ ~ core[c].waitingStatus
    /\ core' = [core EXCEPT ![c].left = Members[At(c)], ![c].waitingStatus = TRUE]
    /\ UNCHANGED <<ticket, status>>

\* Mutant: the status stays when the call returns.
ReleaseNobody(c) ==
    /\ core[c].pc = "poll"
    /\ core[c].left = {}
    /\ core[c].waitingStatus
    /\ core' = [core EXCEPT ![c].pc = "run", ![c].place = (@ % Len(Program[c])) + 1]
    /\ UNCHANGED <<ticket, status>>

Release(c) ==
    /\ core[c].pc = "poll"
    /\ core[c].left = {}
    /\ core[c].waitingStatus
    /\ status' = [status EXCEPT ![At(c)][c] = "BARRIER_RELEASED"]
    /\ core' = [core EXCEPT ![c].pc = "run", ![c].place = (@ % Len(Program[c])) + 1]
    /\ UNCHANGED ticket
-----------------------------------------------------------------------------
Core(c) == Call(c) \/ Detect(c) \/ Refuse(c) \/ Wait(c) \/ Count(c) \/ Poll(c) \/ PollAgain(c) \/ Release(c)

Next == \E c \in Cores : Core(c)

\* A core executes its program.
Fairness == \A c \in Cores : WF_vars(Core(c))

Spec == Init /\ [][Next]_vars /\ Fairness
-----------------------------------------------------------------------------
TypeOK ==
    /\ DOMAIN ticket = Barriers /\ DOMAIN status = Barriers
    /\ \A b \in Barriers : /\ ticket[b] \in [Members[b] -> 0 .. TicketRange - 1]
                           /\ status[b] \in [Members[b] -> {"BARRIER_WATING", "BARRIER_RELEASED"}]
    /\ DOMAIN core = Cores
    /\ \A c \in Cores : core[c] \in
         [pc : {"run", "detect", "count", "poll"},
          place : 1 .. Len(Program[c]),
          left : SUBSET IF core[c].pc = "detect" THEN Suspects(c) ELSE Members[At(c)],
          currentTicket : 0 .. TicketRange - 1,
          waitingStatus : BOOLEAN]

Waits(c, b) == core[c].pc = "poll" /\ At(c) = b
Complete(c, b) == \A d \in Members[b] : BarrierTicketCompare(ticket[b][d], core[c].currentTicket)

\* How many rounds of b core c has counted more than core d, over the wrap.
Lead(b, c, d) == (ticket[b][c] + TicketRange - ticket[b][d]) % TicketRange

\* The tickets of the members of a barrier are at most one round apart, over the wrap, so that
\* the comparison of a late poll still tells a member that came from one that did not.
TicketsStayClose ==
    \A b \in Barriers : \A c, d \in Members[b] : Lead(b, c, d) \in {0, 1, TicketRange - 1}

\* A core a round ahead of another one is in the loop, and what it has read of the other one,
\* if anything in this pass, keeps it there.
LeadersWait ==
    \A b \in Barriers : \A c \in Members[b] :
        /\ Waits(c, b) => core[c].currentTicket = ticket[b][c]
        /\ \A d \in Members[b] : Lead(b, c, d) = 1 =>
             Waits(c, b) /\ (d \in core[c].left \/ ~ core[c].waitingStatus)

BarrierInvariant == TypeOK /\ TicketsStayClose /\ LeadersWait

\* A barrier opens for its members when the last one comes, and for nobody before.
Meeting == INSTANCE OsBarrierSpec WITH
    waiting <- [b \in Barriers |-> {c \in Members[b] : Waits(c, b) /\ ~ Complete(c, b)}],
    open <- [b \in Barriers |-> {c \in Members[b] : Waits(c, b) /\ Complete(c, b)}]

ImplementsBarrier == Meeting!Spec

\* Every core gets past its barriers again and again, when the cores meet at them in the same
\* order and call again what is refused.
EveryCorePasses == \A c \in Cores : []<><<Release(c)>>_vars
=============================================================================
