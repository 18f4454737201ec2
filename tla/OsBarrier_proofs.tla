--------------------------- MODULE OsBarrier_proofs ---------------------------
(***************************************************************************)
(* The theorems about OsBarrier, for any cores, barriers, programs and any  *)
(* even range of the tickets from 4 on: BarrierInvariant is inductive, and  *)
(* every step of a core is a step of the abstract barrier or none.          *)
(***************************************************************************)
EXTENDS OsBarrier, TLAPS

Tickets == 0 .. TicketRange - 1

\* A remainder below twice the modulus is what is left after at most one subtraction.
LEMMA ModOnce ==
  ASSUME NEW n \in Nat \ {0}, NEW x \in 0 .. 2 * n - 1
  PROVE  x % n = IF x < n THEN x ELSE x - n
<1>1. CASE x < n
  BY <1>1
<1>2. CASE x >= n
  <2>1. (x - n) % n = x - n
    BY <1>2
  <2>2. x % n = (x - n) % n
    BY <1>2
  <2>3. QED
    BY <1>2, <2>1, <2>2
<1>3. QED
  BY <1>1, <1>2

\* The range is at least 4, so that its half tells a lead of 1 from one of -1.
LEMMA RangeFacts ==
  /\ TicketRange \in Nat
  /\ TicketRange >= 4
  /\ TicketRange \div 2 \in Nat
  /\ TicketRange \div 2 >= 2
  /\ TicketRange \div 2 < TicketRange - 1
<1>1. PICK n \in 2 .. 128 : TicketRange = 2 * n
  BY BarrierConstants
<1>2. (2 * n) \div 2 = n
  OBVIOUS
<1>3. QED
  BY <1>1, <1>2


\* The comparison of two tickets of one round or of neighbouring ones.
LEMMA LeadFacts ==
  ASSUME NEW a \in Tickets, NEW b \in Tickets
  PROVE  LET lead == (a + TicketRange - b) % TicketRange
         IN  /\ lead = IF a >= b THEN a - b ELSE a + TicketRange - b
             /\ lead \in {0, 1} => BarrierTicketCompare(a, b)
             /\ lead = TicketRange - 1 => ~ BarrierTicketCompare(a, b)
<1> DEFINE x == a + TicketRange - b
<1>1. x \in 0 .. 2 * TicketRange - 1 /\ TicketRange \in Nat \ {0}
  BY RangeFacts DEF Tickets
<1> HIDE DEF x
<1>2. x % TicketRange = IF x < TicketRange THEN x ELSE x - TicketRange
  BY <1>1, ModOnce
<1>3. x % TicketRange = IF a >= b THEN a - b ELSE a + TicketRange - b
  BY <1>2, RangeFacts DEF Tickets, x
<1>4. QED
  BY <1>3, RangeFacts DEF Tickets, BarrierTicketCompare, x

\* A lead of 0 or 1 says what the one ticket is, given the other.
LEMMA LeadMeans ==
  ASSUME NEW a \in Tickets, NEW b \in Tickets
  PROVE  /\ (a + TicketRange - b) % TicketRange = 0 => a = b
         /\ (a + TicketRange - b) % TicketRange = 1 => a = IF b + 1 = TicketRange THEN 0 ELSE b + 1
<1>1. (a + TicketRange - b) % TicketRange = IF a >= b THEN a - b ELSE a + TicketRange - b
  BY LeadFacts
<1>2. a \in Nat /\ b \in Nat /\ a < TicketRange /\ b < TicketRange /\ TicketRange \in Nat
  BY RangeFacts DEF Tickets
<1> HIDE DEF Tickets
<1>3. QED
  BY <1>1, <1>2

\* The ticket drawn next, over the wrap.
LEMMA NextTicket ==
  ASSUME NEW a \in Tickets
  PROVE  (a + 1) % TicketRange = IF a + 1 = TicketRange THEN 0 ELSE a + 1
<1> DEFINE x == a + 1
<1>1. x \in 0 .. 2 * TicketRange - 1 /\ TicketRange \in Nat \ {0}
  BY RangeFacts DEF Tickets
<1> HIDE DEF x
<1>2. x % TicketRange = IF x < TicketRange THEN x ELSE x - TicketRange
  BY <1>1, ModOnce
<1>3. QED
  BY <1>2, RangeFacts DEF Tickets, x

\* One ticket more for the first of two members that is not ahead, and for the second that is.
LEMMA LeadAfterCount ==
  ASSUME NEW a \in Tickets, NEW b \in Tickets
  PROVE  LET n == (a + 1) % TicketRange
             lead == (a + TicketRange - b) % TicketRange
             lag == (b + TicketRange - a) % TicketRange
         IN  /\ n \in Tickets
             /\ (n + TicketRange - n) % TicketRange = 0
             /\ lead = 0 => /\ (n + TicketRange - b) % TicketRange = 1
                            /\ (b + TicketRange - n) % TicketRange = TicketRange - 1
             /\ lead = TicketRange - 1 => /\ (n + TicketRange - b) % TicketRange = 0
                                          /\ (b + TicketRange - n) % TicketRange = 0
             /\ lead = 0 <=> lag = 0
             /\ lead = 1 <=> lag = TicketRange - 1
             /\ lead = TicketRange - 1 <=> lag = 1
<1> DEFINE n == (a + 1) % TicketRange
<1>1. n = (IF a + 1 = TicketRange THEN 0 ELSE a + 1) /\ n \in Tickets
  BY NextTicket, RangeFacts DEF Tickets
<1>2. \A x, y \in Tickets : (x + TicketRange - y) % TicketRange = IF x >= y THEN x - y ELSE x + TicketRange - y
  BY LeadFacts
<1> HIDE DEF n
<1>3. /\ (n + TicketRange - b) % TicketRange = IF n >= b THEN n - b ELSE n + TicketRange - b
      /\ (b + TicketRange - n) % TicketRange = IF b >= n THEN b - n ELSE b + TicketRange - n
      /\ (a + TicketRange - b) % TicketRange = IF a >= b THEN a - b ELSE a + TicketRange - b
      /\ (b + TicketRange - a) % TicketRange = IF b >= a THEN b - a ELSE b + TicketRange - a
      /\ (n + TicketRange - n) % TicketRange = n - n
  BY <1>1, <1>2
<1>4. QED
  BY <1>1, <1>3, RangeFacts DEF Tickets, n

\* No program is empty.
LEMMA ProgramFacts ==
  ASSUME NEW c \in Cores
  PROVE  Len(Program[c]) \in Nat \ {0}
<1> DEFINE X == {b \in Barriers : c \in Members[b]}
<1>1. Program[c] \in Seq(X) /\ Program[c] # <<>>
  BY BarrierConstants
<1> HIDE DEF X
<1>2. QED
  BY <1>1

\* A core is a member of the barrier it calls, at any place of its program.
LEMMA PlaceFacts ==
  ASSUME NEW c \in Cores, NEW i \in 1 .. Len(Program[c])
  PROVE  Program[c][i] \in Barriers /\ c \in Members[Program[c][i]]
<1> DEFINE X == {b \in Barriers : c \in Members[b]}
<1>1. Program[c] \in Seq(X)
  BY BarrierConstants
<1>2. Program[c][i] \in X
  <2> HIDE DEF X
  <2>1. QED
    BY <1>1
<1>3. QED
  BY <1>2
-----------------------------------------------------------------------------
(* TypeOK, core by core *)

SuspectsAt(c, b) ==
  {s \in (OwnBarriers(c) \ {b}) \X (Cores \ {c}) :
      s[2] \in Members[s[1]] /\ b \in OwnBarriers(s[2]) \ {s[1]}}

CoreOK(c, r) ==
  r \in [pc : {"run", "detect", "count", "poll"},
         place : 1 .. Len(Program[c]),
         left : SUBSET IF r.pc = "detect" THEN SuspectsAt(c, Program[c][r.place])
                                          ELSE Members[Program[c][r.place]],
         currentTicket : Tickets,
         waitingStatus : BOOLEAN]

BarrierOK(b) ==
  /\ ticket[b] \in [Members[b] -> Tickets]
  /\ status[b] \in [Members[b] -> {"BARRIER_WATING", "BARRIER_RELEASED"}]

Shape == DOMAIN ticket = Barriers /\ DOMAIN status = Barriers /\ DOMAIN core = Cores

LEMMA TypeOKIs ==
  TypeOK <=> /\ Shape
             /\ \A b \in Barriers : BarrierOK(b)
             /\ \A c \in Cores : CoreOK(c, core[c])
BY DEF TypeOK, Shape, BarrierOK, CoreOK, Tickets, Suspects, SuspectsAt, At

LEMMA AtFacts ==
  ASSUME TypeOK
  PROVE  /\ \A c \in Cores : /\ At(c) \in Barriers
                             /\ c \in Members[At(c)]
                             /\ core[c].pc \in {"run", "detect", "count", "poll"}
                             /\ core[c].currentTicket \in Tickets
                             /\ core[c].waitingStatus \in BOOLEAN
                             /\ core[c].pc # "detect" => core[c].left \subseteq Members[At(c)]
         /\ \A b \in Barriers : /\ Members[b] \subseteq Cores
                                /\ \A c \in Members[b] : ticket[b][c] \in Tickets
<1>1. \A c \in Cores : core[c].place \in 1 .. Len(Program[c])
  BY DEF TypeOK
<1>2. \A b \in Barriers : Members[b] \subseteq Cores
  BY BarrierConstants
<1>3. \A b \in Barriers : \A c \in Members[b] : ticket[b][c] \in Tickets
  BY TypeOKIs DEF BarrierOK
<1>4. QED
  BY <1>1, <1>2, <1>3, PlaceFacts, TypeOKIs DEF At, CoreOK

\* Every step changes the record of one core only, to one of its type.
LEMMA TypesKeptBy ==
  ASSUME TypeOK, NEW c \in Cores, NEW r, CoreOK(c, r), core' = [core EXCEPT ![c] = r],
         DOMAIN ticket' = Barriers, DOMAIN status' = Barriers, \A b \in Barriers : BarrierOK(b)'
  PROVE  TypeOK'
<1>1. Shape' /\ \A d \in Cores : core'[d] = IF d = c THEN r ELSE core[d]
  BY TypeOKIs DEF Shape
<1>2. \A d \in Cores : CoreOK(d, core[d])
  BY TypeOKIs
<1>3. \A d \in Cores : CoreOK(d, core'[d])
  BY <1>1, <1>2
<1>4. (\A d \in Cores : CoreOK(d, core[d]))'
  BY <1>3 DEF CoreOK, SuspectsAt, OwnBarriers, Tickets
<1>5. QED
  BY <1>1, <1>4 DEF TypeOK, Shape, BarrierOK, CoreOK, Tickets, Suspects, SuspectsAt, At

LEMMA TypesKept == TypeOK /\ [Next]_vars => TypeOK'
<1> SUFFICES ASSUME TypeOK, [Next]_vars PROVE TypeOK'
  OBVIOUS
<1>1. CASE UNCHANGED vars
  BY <1>1 DEF vars, TypeOK, Suspects, At, OwnBarriers
<1>2. ASSUME NEW c \in Cores, Core(c)
      PROVE  TypeOK'
  <2>1. CoreOK(c, core[c]) /\ At(c) \in Barriers /\ c \in Members[At(c)] /\ Shape /\ \A b \in Barriers : BarrierOK(b)
    BY AtFacts, TypeOKIs
  <2>2. ASSUME UNCHANGED <<ticket, status>>
        PROVE  DOMAIN ticket' = Barriers /\ DOMAIN status' = Barriers /\ \A b \in Barriers : BarrierOK(b)'
    BY <2>1, <2>2 DEF Shape, BarrierOK
  <2>3. CASE Call(c)
    <3>1. CoreOK(c, [core[c] EXCEPT !.pc = "detect", !.left = Suspects(c)])
      BY <2>1 DEF CoreOK, Suspects, SuspectsAt, At
    <3>2. core' = [core EXCEPT ![c] = [core[c] EXCEPT !.pc = "detect", !.left = Suspects(c)]]
      BY <2>3, <2>1 DEF Call, CoreOK
    <3>3. QED
      BY <2>3, <2>2, <3>1, <3>2, TypesKeptBy DEF Call
  <2>4. CASE Detect(c)
    <3>1. PICK s \in core[c].left : core' = [core EXCEPT ![c].left = @ \ {s}]
      BY <2>4 DEF Detect
    <3>2. CoreOK(c, [core[c] EXCEPT !.left = @ \ {s}])
      BY <2>1 DEF CoreOK
    <3>3. QED
      BY <2>4, <2>2, <3>1, <3>2, TypesKeptBy DEF Detect
  <2>5. CASE Refuse(c)
    <3>1. CoreOK(c, [core[c] EXCEPT !.pc = "run", !.left = {}])
      BY <2>1 DEF CoreOK
    <3>2. core' = [core EXCEPT ![c] = [core[c] EXCEPT !.pc = "run", !.left = {}]]
      BY <2>5, <2>1 DEF Refuse, CoreOK
    <3>3. QED
      BY <2>5, <2>2, <3>1, <3>2, TypesKeptBy DEF Refuse
  <2>6. CASE Wait(c)
    <3>1. CoreOK(c, [core[c] EXCEPT !.pc = "count"])
      BY <2>1, <2>6 DEF CoreOK, Wait
    <3>2. DOMAIN ticket' = Barriers /\ DOMAIN status' = Barriers /\ \A b \in Barriers : BarrierOK(b)'
      BY <2>1, <2>6 DEF Wait, Shape, BarrierOK
    <3>3. QED
      BY <2>6, <3>1, <3>2, TypesKeptBy DEF Wait
  <2>7. CASE Count(c)
    <3> DEFINE next == (ticket[At(c)][c] + 1) % TicketRange
               r == [core[c] EXCEPT !.pc = "poll", !.currentTicket = next, !.left = Members[At(c)], !.waitingStatus = TRUE]
    <3>1. next \in Tickets
      BY <2>1, LeadAfterCount DEF BarrierOK
    <3> HIDE DEF next
    <3>2. CoreOK(c, r)
      BY <2>1, <3>1 DEF CoreOK, At
    <3>3. core' = [core EXCEPT ![c] = r] /\ ticket' = [ticket EXCEPT ![At(c)][c] = next] /\ UNCHANGED status
      BY <2>7 DEF Count, next
    <3>4. DOMAIN ticket' = Barriers /\ DOMAIN status' = Barriers /\ \A b \in Barriers : BarrierOK(b)'
      BY <2>1, <3>1, <3>3 DEF Shape, BarrierOK
    <3>5. QED
      BY <3>2, <3>3, <3>4, TypesKeptBy
  <2>8. CASE Poll(c)
    <3>1. PICK d \in core[c].left : core' = [core EXCEPT ![c] = [core[c] EXCEPT !.left = @ \ {d},
             !.waitingStatus = BarrierTicketCompare(ticket[At(c)][d], core[c].currentTicket) /\ @]]
      BY <2>8 DEF Poll
    <3> DEFINE r == [core[c] EXCEPT !.left = @ \ {d},
             !.waitingStatus = BarrierTicketCompare(ticket[At(c)][d], core[c].currentTicket) /\ @]
    <3>2. CoreOK(c, r)
      BY <2>1, <2>8 DEF CoreOK, BarrierTicketCompare, Poll
    <3>3. core' = [core EXCEPT ![c] = r]
      BY <3>1
    <3> HIDE DEF r
    <3>4. QED
      BY <2>8, <2>2, <3>3, <3>2, TypesKeptBy DEF Poll
  <2>9. CASE PollAgain(c)
    <3>1. CoreOK(c, [core[c] EXCEPT !.left = Members[At(c)], !.waitingStatus = TRUE])
      BY <2>1, <2>9 DEF CoreOK, At, PollAgain
    <3>2. core' = [core EXCEPT ![c] = [core[c] EXCEPT !.left = Members[At(c)], !.waitingStatus = TRUE]]
      BY <2>9, <2>1 DEF PollAgain, CoreOK
    <3>3. QED
      BY <2>9, <2>2, <3>1, <3>2, TypesKeptBy DEF PollAgain
  <2>10. CASE Release(c)
    <3> DEFINE place == (core[c].place % Len(Program[c])) + 1
    <3>1. place \in 1 .. Len(Program[c])
      BY <2>1, ProgramFacts DEF CoreOK
    <3> HIDE DEF place
    <3>2. CoreOK(c, [core[c] EXCEPT !.pc = "run", !.place = place])
      BY <2>1, <2>10, <3>1 DEF CoreOK, Release
    <3>3. core' = [core EXCEPT ![c] = [core[c] EXCEPT !.pc = "run", !.place = place]]
      BY <2>10, <2>1 DEF Release, CoreOK, place
    <3>4. DOMAIN ticket' = Barriers /\ DOMAIN status' = Barriers /\ \A b \in Barriers : BarrierOK(b)'
      BY <2>1, <2>10 DEF Release, Shape, BarrierOK
    <3>5. QED
      BY <3>2, <3>3, <3>4, TypesKeptBy
  <2>11. QED
    BY <1>2, <2>3, <2>4, <2>5, <2>6, <2>7, <2>8, <2>9, <2>10 DEF Core
<1>3. QED
  BY <1>1, <1>2 DEF Next
-----------------------------------------------------------------------------
(* BarrierInvariant is inductive. *)

LEMMA InitEstablishes == Init => BarrierInvariant
<1> SUFFICES ASSUME Init PROVE BarrierInvariant
  OBVIOUS
<1>1. TypeOK
  <2>1. \A c \in Cores : CoreOK(c, core[c])
    BY ProgramFacts, RangeFacts DEF Init, CoreOK, Tickets
  <2>2. Shape /\ \A b \in Barriers : BarrierOK(b)
    BY RangeFacts DEF Init, Shape, BarrierOK, Tickets
  <2>3. QED
    BY <2>1, <2>2, TypeOKIs
<1>2. \A b \in Barriers : \A c, d \in Members[b] : Lead(b, c, d) = 0
  BY LeadFacts, RangeFacts DEF Init, Lead, Tickets
<1>3. \A c \in Cores, b \in Barriers : ~ Waits(c, b)
  BY DEF Init, Waits
<1>4. \A b \in Barriers : Members[b] \subseteq Cores
  BY BarrierConstants
<1>5. TicketsStayClose
  BY <1>2 DEF TicketsStayClose
<1>6. LeadersWait
  BY <1>2, <1>3, <1>4 DEF LeadersWait
<1>7. QED
  BY <1>1, <1>5, <1>6 DEF BarrierInvariant

\* Who does not lead can draw the next ticket: the others are level with it or one round ahead.
LEMMA LeadsAfterCount ==
  ASSUME BarrierInvariant, NEW c \in Cores, Count(c), NEW b \in Barriers, b = At(c)
  PROVE  /\ \A d \in Members[b] : Lead(b, c, d) \in {0, TicketRange - 1}
         /\ \A d \in Members[b] \ {c} :
              /\ Lead(b, c, d) = 0 => Lead(b, c, d)' = 1 /\ Lead(b, d, c)' = TicketRange - 1
              /\ Lead(b, c, d) # 0 => Lead(b, c, d)' = 0 /\ Lead(b, d, c)' = 0
         /\ Lead(b, c, c)' = 0
         /\ \A d, e \in Members[b] \ {c} : Lead(b, d, e)' = Lead(b, d, e)
         /\ \A o \in Barriers \ {b} : \A d, e \in Members[o] : Lead(o, d, e)' = Lead(o, d, e)
<1> DEFINE next == (ticket[b][c] + 1) % TicketRange
<1>1. c \in Members[b] /\ ~ Waits(c, b) /\ Members[b] \subseteq Cores
  BY AtFacts DEF BarrierInvariant, Count, Waits
<1>2. \A d \in Members[b] : ticket[b][d] \in Tickets
  BY <1>1, AtFacts DEF BarrierInvariant
<1>3. ticket' = [ticket EXCEPT ![b][c] = next]
  BY DEF Count
<1>4. Shape /\ \A o \in Barriers : BarrierOK(o)
  BY TypeOKIs DEF BarrierInvariant
<1>5. \A d \in Members[b] : Lead(b, c, d) \in {0, TicketRange - 1}
  BY <1>1 DEF BarrierInvariant, TicketsStayClose, LeadersWait
<1> HIDE DEF next
<1>6. /\ ticket'[b][c] = next
      /\ \A d \in Members[b] \ {c} : ticket'[b][d] = ticket[b][d]
      /\ \A o \in Barriers \ {b} : ticket'[o] = ticket[o]
  BY <1>1, <1>3, <1>4 DEF Shape, BarrierOK
<1>7. \A d \in Members[b] \ {c} :
        /\ Lead(b, c, d) = 0 => Lead(b, c, d)' = 1 /\ Lead(b, d, c)' = TicketRange - 1
        /\ Lead(b, c, d) # 0 => Lead(b, c, d)' = 0 /\ Lead(b, d, c)' = 0
  <2> TAKE d \in Members[b] \ {c}
  <2>1. LET n == (ticket[b][c] + 1) % TicketRange
            lead == (ticket[b][c] + TicketRange - ticket[b][d]) % TicketRange
        IN  /\ lead = 0 => /\ (n + TicketRange - ticket[b][d]) % TicketRange = 1
                           /\ (ticket[b][d] + TicketRange - n) % TicketRange = TicketRange - 1
            /\ lead = TicketRange - 1 => /\ (n + TicketRange - ticket[b][d]) % TicketRange = 0
                                         /\ (ticket[b][d] + TicketRange - n) % TicketRange = 0
    BY <1>1, <1>2, LeadAfterCount
  <2>2. QED
    BY <2>1, <1>5, <1>6 DEF Lead, next
<1>8. Lead(b, c, c)' = 0
  <2>1. LET n == (ticket[b][c] + 1) % TicketRange
        IN  (n + TicketRange - n) % TicketRange = 0
    BY <1>1, <1>2, LeadAfterCount
  <2>2. QED
    BY <2>1, <1>6 DEF Lead, next
<1>9. /\ \A d, e \in Members[b] \ {c} : Lead(b, d, e)' = Lead(b, d, e)
      /\ \A o \in Barriers \ {b} : \A d, e \in Members[o] : Lead(o, d, e)' = Lead(o, d, e)
  BY <1>6 DEF Lead
<1>10. QED
  BY <1>5, <1>7, <1>8, <1>9

\* A step of another kind than Count draws no ticket; what it does to the core that takes it.
LEMMA OtherSteps ==
  ASSUME BarrierInvariant, NEW c \in Cores, Core(c), ~ Count(c)
  PROVE  /\ ticket' = ticket
         /\ \A d \in Cores \ {c} : core'[d] = core[d]
         /\ \/ core'[c].pc # "poll" /\ (core[c].pc = "poll" => Release(c))
            \/ /\ core[c].pc = "poll" /\ core'[c].pc = "poll"
               /\ core'[c].place = core[c].place
               /\ core'[c].currentTicket = core[c].currentTicket
               /\ Poll(c) \/ PollAgain(c)
<1>1. Shape /\ CoreOK(c, core[c])
  BY TypeOKIs DEF BarrierInvariant
<1>2. CASE Call(c) \/ Detect(c) \/ Refuse(c) \/ Wait(c)
  BY <1>1, <1>2 DEF Call, Detect, Refuse, Wait, Shape, CoreOK
<1>3. CASE Poll(c)
  BY <1>1, <1>3 DEF Poll, Shape, CoreOK
<1>4. CASE PollAgain(c)
  BY <1>1, <1>4 DEF PollAgain, Shape, CoreOK
<1>5. CASE Release(c)
  BY <1>1, <1>5 DEF Release, Shape, CoreOK
<1>6. QED
  BY <1>2, <1>3, <1>4, <1>5 DEF Core

\* Whom a core waits for in the loop of a barrier does not depend on the others' records.
LEMMA CountStep ==
  ASSUME BarrierInvariant, NEW c \in Cores, Count(c), NEW b \in Barriers, b = At(c)
  PROVE  /\ \A d \in Cores \ {c} : core'[d] = core[d]
         /\ core'[c].pc = "poll" /\ core'[c].place = core[c].place
         /\ core'[c].left = Members[b]
         /\ core'[c].currentTicket = ticket'[b][c]
         /\ core[c].pc = "count"
         /\ c \in Members[b]
<1>1. Shape /\ CoreOK(c, core[c]) /\ BarrierOK(b) /\ c \in Members[b]
  BY TypeOKIs, AtFacts DEF BarrierInvariant
<1>2. QED
  BY <1>1 DEF Count, Shape, CoreOK, BarrierOK

LEMMA CloseKept ==
  ASSUME BarrierInvariant, [Next]_vars
  PROVE  TicketsStayClose'
<1>1. CASE ticket' = ticket
  BY <1>1 DEF BarrierInvariant, TicketsStayClose, Lead
<1>2. ASSUME NEW c \in Cores, Count(c)
      PROVE  TicketsStayClose'
  <2>1. PICK b \in Barriers : b = At(c)
    BY AtFacts DEF BarrierInvariant
  <2>2. \A d, e \in Members[b] : Lead(b, d, e)' \in {0, 1, TicketRange - 1}
    <3> TAKE d, e \in Members[b]
    <3>1. CASE d = c /\ e = c
      BY <1>2, <2>1, <3>1, LeadsAfterCount
    <3>2. CASE d = c /\ e # c
      BY <1>2, <2>1, <3>2, LeadsAfterCount
    <3>3. CASE d # c /\ e = c
      BY <1>2, <2>1, <3>3, LeadsAfterCount
    <3>4. CASE d # c /\ e # c
      <4>1. Lead(b, d, e)' = Lead(b, d, e)
        BY <1>2, <2>1, <3>4, LeadsAfterCount
      <4>2. QED
        BY <4>1 DEF BarrierInvariant, TicketsStayClose
    <3>5. QED
      BY <3>1, <3>2, <3>3, <3>4
  <2>3. \A o \in Barriers \ {b} : \A d, e \in Members[o] : Lead(o, d, e)' \in {0, 1, TicketRange - 1}
    <3>1. \A o \in Barriers \ {b} : \A d, e \in Members[o] : Lead(o, d, e)' = Lead(o, d, e)
      BY <1>2, <2>1, LeadsAfterCount
    <3>2. QED
      BY <3>1 DEF BarrierInvariant, TicketsStayClose
  <2>4. \A o \in Barriers : \A d, e \in Members[o] : Lead(o, d, e)' \in {0, 1, TicketRange - 1}
    BY <2>2, <2>3
  <2>5. QED
    BY <2>4 DEF TicketsStayClose
<1>3. QED
  BY <1>1, <1>2, OtherSteps DEF Next, vars

\* A core gets ahead only when it draws a ticket, and leaves the loop only when it is not ahead.
LEMMA LeadersKept ==
  ASSUME BarrierInvariant, [Next]_vars
  PROVE  LeadersWait'
<1>1. CASE UNCHANGED vars
  BY <1>1 DEF vars, BarrierInvariant, LeadersWait, Lead, Waits, At
<1>2. ASSUME NEW c \in Cores, Core(c), ~ Count(c)
      PROVE  LeadersWait'
  <2>1. \A o, d, e : Lead(o, d, e)' = Lead(o, d, e)
    BY <1>2, OtherSteps DEF Lead
  <2>2. ASSUME NEW o \in Barriers, NEW d \in Members[o], d # c
        PROVE  /\ Waits(d, o)' = Waits(d, o) /\ core'[d] = core[d]
    BY <1>2, <2>2, OtherSteps, AtFacts DEF BarrierInvariant, Waits, At
  <2>3. ASSUME NEW o \in Barriers, c \in Members[o]
        PROVE  /\ Waits(c, o)' => core'[c].currentTicket = ticket'[o][c]
               /\ \A d \in Members[o] : Lead(o, c, d)' = 1 =>
                    Waits(c, o)' /\ (d \in core'[c].left \/ ~ core'[c].waitingStatus)
    <3>0. /\ Waits(c, o) => core[c].currentTicket = ticket[o][c]
          /\ \A d \in Members[o] : Lead(o, c, d) = 1 =>
               Waits(c, o) /\ (d \in core[c].left \/ ~ core[c].waitingStatus)
      BY <2>3 DEF BarrierInvariant, LeadersWait
    <3>1. CASE core'[c].pc # "poll" /\ (core[c].pc = "poll" => Release(c))
      <4>1. \A d \in Members[o] : Lead(o, c, d) # 1
        <5> SUFFICES ASSUME NEW d \in Members[o], Lead(o, c, d) = 1 PROVE FALSE
          OBVIOUS
        <5>1. core[c].pc = "poll" /\ (d \in core[c].left \/ ~ core[c].waitingStatus)
          BY <3>0 DEF Waits
        <5>2. QED
          BY <3>1, <5>1 DEF Release
      <4>2. QED
        BY <3>1, <4>1, <2>1 DEF Waits
    <3>2. CASE /\ core[c].pc = "poll" /\ core'[c].pc = "poll"
               /\ core'[c].place = core[c].place
               /\ core'[c].currentTicket = core[c].currentTicket
               /\ Poll(c) \/ PollAgain(c)
      <4>1. Waits(c, o)' = Waits(c, o)
        BY <3>2 DEF Waits, At
      <4>2. ticket' = ticket
        BY <1>2, OtherSteps
      <4>3. ASSUME NEW d \in Members[o], Lead(o, c, d) = 1
            PROVE  d \in core'[c].left \/ ~ core'[c].waitingStatus
        <5>1. Waits(c, o) /\ o = At(c) /\ core[c].currentTicket = ticket[o][c]
              /\ (d \in core[c].left \/ ~ core[c].waitingStatus)
          BY <3>0, <4>3 DEF Waits
        <5>2. Shape /\ CoreOK(c, core[c])
          BY TypeOKIs DEF BarrierInvariant
        <5>3. CASE PollAgain(c)
          BY <5>1, <5>2, <5>3 DEF PollAgain, Shape, CoreOK
        <5>4. CASE Poll(c)
          <6>1. Lead(o, d, c) = TicketRange - 1
            BY <2>3, <4>3, LeadAfterCount, AtFacts DEF Lead, BarrierInvariant
          <6>2. ~ BarrierTicketCompare(ticket[o][d], core[c].currentTicket)
            BY <2>3, <6>1, <5>1, LeadFacts, AtFacts DEF BarrierInvariant, Lead
          <6>3. PICK e \in core[c].left :
                  /\ core'[c].left = core[c].left \ {e}
                  /\ core'[c].waitingStatus = (BarrierTicketCompare(ticket[At(c)][e], core[c].currentTicket) /\ core[c].waitingStatus)
            BY <5>2, <5>4 DEF Poll, Shape, CoreOK
          <6>4. CASE e = d
            BY <5>1, <6>2, <6>3, <6>4
          <6>5. CASE e # d
            BY <5>1, <6>3, <6>5
          <6>6. QED
            BY <6>4, <6>5
        <5>5. QED
          BY <3>2, <5>3, <5>4
      <4>4. QED
        BY <3>0, <3>2, <4>1, <4>2, <4>3, <2>1
    <3>3. QED
      BY <1>2, <3>1, <3>2, OtherSteps
  <2>4. \A o \in Barriers, d \in Cores \ {c} : d \in Members[o] =>
          /\ Waits(d, o)' => core'[d].currentTicket = ticket'[o][d]
          /\ \A e \in Members[o] : Lead(o, d, e)' = 1 =>
               Waits(d, o)' /\ (e \in core'[d].left \/ ~ core'[d].waitingStatus)
    BY <1>2, <2>1, <2>2, OtherSteps DEF BarrierInvariant, LeadersWait
  <2>5. \A o \in Barriers : \A d \in Members[o] :
          /\ Waits(d, o)' => core'[d].currentTicket = ticket'[o][d]
          /\ \A e \in Members[o] : Lead(o, d, e)' = 1 =>
               Waits(d, o)' /\ (e \in core'[d].left \/ ~ core'[d].waitingStatus)
    BY <2>3, <2>4, AtFacts DEF BarrierInvariant
  <2>6. QED
    BY <2>5 DEF LeadersWait
<1>3. ASSUME NEW c \in Cores, Count(c)
      PROVE  LeadersWait'
  <2>1. PICK b \in Barriers : b = At(c)
    BY AtFacts DEF BarrierInvariant
  <2>2. \A o \in Barriers : \A d \in Members[o] : d # c =>
          Waits(d, o)' = Waits(d, o) /\ core'[d] = core[d]
    BY <1>3, <2>1, CountStep, AtFacts DEF BarrierInvariant, Waits, At
  <2>3. /\ core'[c].currentTicket = ticket'[b][c] /\ core'[c].left = Members[b]
        /\ Waits(c, b)' /\ \A o \in Barriers \ {b} : ~ Waits(c, o)' /\ ~ Waits(c, o)
    BY <1>3, <2>1, CountStep DEF Waits, At
  <2>4. \A o \in Barriers : \A d \in Members[o] : o # b \/ d # c => ticket'[o][d] = ticket[o][d]
    BY TypeOKIs, <1>3, <2>1 DEF BarrierInvariant, Count, Shape, BarrierOK
  <2>5. \A o \in Barriers : \A d, e \in Members[o] : Lead(o, d, e)' = 1 =>
          \/ o = b /\ d = c
          \/ Lead(o, d, e) = 1 /\ (o = b => d # c)
    <3>1. 1 # TicketRange - 1 /\ TicketRange \in Nat
      BY RangeFacts
    <3>2. \A o \in Barriers \ {b} : \A d, e \in Members[o] : Lead(o, d, e)' = Lead(o, d, e)
      BY <1>3, <2>1, LeadsAfterCount
    <3>3. \A d, e \in Members[b] \ {c} : Lead(b, d, e)' = Lead(b, d, e)
      BY <1>3, <2>1, LeadsAfterCount
    <3>4. \A d \in Members[b] \ {c} : Lead(b, d, c)' # 1
      BY <3>1, <1>3, <2>1, LeadsAfterCount
    <3>5. QED
      BY <3>2, <3>3, <3>4
  <2>6. \A o \in Barriers : \A d \in Members[o] :
          /\ Waits(d, o)' => core'[d].currentTicket = ticket'[o][d]
          /\ \A e \in Members[o] : Lead(o, d, e)' = 1 =>
               Waits(d, o)' /\ (e \in core'[d].left \/ ~ core'[d].waitingStatus)
    <3> TAKE o \in Barriers
    <3> TAKE d \in Members[o]
    <3>0. /\ Waits(d, o) => core[d].currentTicket = ticket[o][d]
          /\ \A e \in Members[o] : Lead(o, d, e) = 1 =>
               Waits(d, o) /\ (e \in core[d].left \/ ~ core[d].waitingStatus)
      BY DEF BarrierInvariant, LeadersWait
    <3>1. CASE d = c /\ o = b
      BY <3>1, <2>3
    <3>2. CASE d = c /\ o # b
      BY <3>2, <2>3, <2>5, <3>0
    <3>3. CASE d # c
      BY <3>3, <2>2, <2>4, <2>5, <3>0
    <3>4. QED
      BY <3>1, <3>2, <3>3
  <2>7. QED
    BY <2>6 DEF LeadersWait
<1>4. QED
  BY <1>1, <1>2, <1>3 DEF Next

LEMMA NextKeepsInvariant == BarrierInvariant /\ [Next]_vars => BarrierInvariant'
BY TypesKept, CloseKept, LeadersKept DEF BarrierInvariant

(* Tickets and statuses keep their types, the tickets of the members of a   *)
(* barrier are at most one round apart over every wrap of the counters, and *)
(* no core that is a round ahead has what it needs to leave the loop        *)
(* (Os_BarrierSynchronizeInternal, Os_BarrierTicketCompare).                *)
THEOREM InvariantHolds == Spec => []BarrierInvariant
<1>1. QED
  BY InitEstablishes, NextKeepsInvariant, PTL DEF Spec
-----------------------------------------------------------------------------
(* The refinement of OsBarrierSpec *)

Waiting(b) == {c \in Members[b] : \E d \in Members[b] : Lead(b, c, d) = 1}
Open(b) == {c \in Members[b] : Waits(c, b) /\ \A d \in Members[b] : Lead(b, c, d) # 1}

\* Who is in the loop has come; it is complete for the core when the core is ahead of nobody.
LEMMA WaitingIs ==
  BarrierInvariant =>
    /\ [b \in Barriers |-> {c \in Members[b] : Waits(c, b) /\ ~ Complete(c, b)}]
         = [b \in Barriers |-> Waiting(b)]
    /\ [b \in Barriers |-> {c \in Members[b] : Waits(c, b) /\ Complete(c, b)}]
         = [b \in Barriers |-> Open(b)]
<1> SUFFICES ASSUME BarrierInvariant
             PROVE  /\ [b \in Barriers |-> {c \in Members[b] : Waits(c, b) /\ ~ Complete(c, b)}]
                         = [b \in Barriers |-> Waiting(b)]
                    /\ [b \in Barriers |-> {c \in Members[b] : Waits(c, b) /\ Complete(c, b)}]
                         = [b \in Barriers |-> Open(b)]
  OBVIOUS
<1>1. ASSUME NEW b \in Barriers, NEW c \in Members[b]
      PROVE  /\ \A d \in Members[b] : Lead(b, c, d) = 1 => Waits(c, b)
             /\ Waits(c, b) => (Complete(c, b) <=> \A d \in Members[b] : Lead(b, c, d) # 1)
  <2>1. /\ Waits(c, b) => core[c].currentTicket = ticket[b][c]
        /\ \A d \in Members[b] : Lead(b, c, d) = 1 => Waits(c, b)
    BY DEF BarrierInvariant, LeadersWait
  <2>2. ASSUME NEW d \in Members[b]
        PROVE  BarrierTicketCompare(ticket[b][d], ticket[b][c]) <=> Lead(b, c, d) # 1
    <3>1. ticket[b][c] \in Tickets /\ ticket[b][d] \in Tickets
      BY AtFacts DEF BarrierInvariant
    <3>2. Lead(b, d, c) \in {0, 1, TicketRange - 1} /\ (Lead(b, d, c) = TicketRange - 1 <=> Lead(b, c, d) = 1)
      BY <3>1, LeadAfterCount DEF BarrierInvariant, TicketsStayClose, Lead
    <3>3. /\ Lead(b, d, c) \in {0, 1} => BarrierTicketCompare(ticket[b][d], ticket[b][c])
          /\ Lead(b, d, c) = TicketRange - 1 => ~ BarrierTicketCompare(ticket[b][d], ticket[b][c])
      BY <3>1, LeadFacts DEF Lead
    <3>4. 1 # TicketRange - 1 /\ 0 # TicketRange - 1
      BY RangeFacts
    <3>5. QED
      BY <3>2, <3>3, <3>4
  <2>3. QED
    BY <2>1, <2>2 DEF Complete
<1>2. \A b \in Barriers : /\ {c \in Members[b] : Waits(c, b) /\ ~ Complete(c, b)} = Waiting(b)
                          /\ {c \in Members[b] : Waits(c, b) /\ Complete(c, b)} = Open(b)
  BY <1>1 DEF Waiting, Open
<1>3. QED
  BY <1>2

\* The abstract barrier's variables change at one barrier.
LEMMA AtOneBarrier ==
  ASSUME NEW b \in Barriers, \A o \in Barriers \ {b} : Waiting(o)' = Waiting(o) /\ Open(o)' = Open(o)
  PROVE  /\ \A S : Waiting(b)' = S =>
              [o \in Barriers |-> Waiting(o)]' = [[o \in Barriers |-> Waiting(o)] EXCEPT ![b] = S]
         /\ \A S : Open(b)' = S =>
              [o \in Barriers |-> Open(o)]' = [[o \in Barriers |-> Open(o)] EXCEPT ![b] = S]
OBVIOUS

LEMMA WhoWaits ==
  ASSUME BarrierInvariant, NEW b \in Barriers
  PROVE  /\ Waiting(b) \subseteq {c \in Members[b] : Waits(c, b)}
         /\ Open(b) = {c \in Members[b] : Waits(c, b)} \ Waiting(b)
BY DEF BarrierInvariant, LeadersWait, Waiting, Open

(* A ticket drawn makes the core come to its barrier, as the last one if it *)
(* draws level with all the others.                                         *)
LEMMA CountComes ==
  ASSUME BarrierInvariant, BarrierInvariant', NEW c \in Cores, Count(c), NEW b \in Barriers, b = At(c)
  PROVE  /\ c \in Members[b] \ (Waiting(b) \cup Open(b))
         /\ \A o \in Barriers \ {b} : Waiting(o)' = Waiting(o) /\ Open(o)' = Open(o)
         /\ \/ /\ Waiting(b) \cup {c} # Members[b]
               /\ Waiting(b)' = Waiting(b) \cup {c}
               /\ Open(b)' = Open(b)
            \/ /\ Waiting(b) \cup {c} = Members[b]
               /\ Waiting(b)' = {}
               /\ Open(b)' = Members[b]
<1>1. /\ c \in Members[b] /\ ~ Waits(c, b) /\ Waits(c, b)'
      /\ \A o \in Barriers : \A d \in Members[o] : o # b \/ d # c => Waits(d, o)' = Waits(d, o)
  BY CountStep, AtFacts DEF Waits, At, BarrierInvariant
<1>2. /\ Waiting(b) \subseteq {d \in Members[b] : Waits(d, b)}
      /\ Open(b) = {d \in Members[b] : Waits(d, b)} \ Waiting(b)
      /\ \A d \in Members[b] : Lead(b, c, d) \in {0, TicketRange - 1}
  BY WhoWaits, LeadsAfterCount
<1>3. \A o \in Barriers \ {b} : Waiting(o)' = Waiting(o) /\ Open(o)' = Open(o)
  BY <1>1, LeadsAfterCount DEF Waiting, Open
<1>4. 1 # TicketRange - 1 /\ 0 # TicketRange - 1 /\ TicketRange \in Nat
  BY RangeFacts
<1>5. \A d \in Members[b] \ {c} :
        /\ Lead(b, c, d) = 0 <=> Lead(b, d, c) = 0
        /\ Lead(b, c, d) = TicketRange - 1 <=> Lead(b, d, c) = 1
        /\ Lead(b, c, d)' = IF Lead(b, c, d) = 0 THEN 1 ELSE 0
        /\ Lead(b, d, c)' # 1
        /\ \A e \in Members[b] \ {c} : Lead(b, d, e)' = Lead(b, d, e)
  <2> TAKE d \in Members[b] \ {c}
  <2>1. ticket[b][c] \in Tickets /\ ticket[b][d] \in Tickets
    BY <1>1, AtFacts DEF BarrierInvariant
  <2>2. /\ Lead(b, c, d) = 0 <=> Lead(b, d, c) = 0
        /\ Lead(b, c, d) = TicketRange - 1 <=> Lead(b, d, c) = 1
    BY <2>1, LeadAfterCount DEF Lead
  <2>3. QED
    BY <2>2, <1>1, <1>4, LeadsAfterCount
<1>6. Lead(b, c, c)' # 1 /\ Lead(b, c, c) # 1 /\ \A d \in Members[b] : Lead(b, c, d) # 1
  BY <1>1, <1>2, <1>4, LeadsAfterCount
\* The leaders among two others are the same before and after.
<1>7. \A d, e \in Members[b] \ {c} : Lead(b, d, e) \in {0, 1, TicketRange - 1}
  BY DEF BarrierInvariant, TicketsStayClose
<1>8. CASE \E d \in Members[b] \ {c} : Lead(b, c, d) = 0
  <2>1. PICK d \in Members[b] \ {c} : Lead(b, c, d) = 0
    BY <1>8
  <2>2. \A e \in Members[b] \ {c} : Lead(b, e, c) = 1 => Lead(b, e, d) = 1
    <3> TAKE e \in Members[b] \ {c}
    <3>1. /\ ticket[b][c] \in Tickets /\ ticket[b][d] \in Tickets /\ ticket[b][e] \in Tickets
      BY <1>1, AtFacts DEF BarrierInvariant
    <3>2. ticket[b][d] = ticket[b][c]
      BY <3>1, <2>1, LeadMeans DEF Lead
    <3>3. QED
      BY <3>2 DEF Lead
  <2>3. d \notin Waiting(b)
    <3> SUFFICES ASSUME NEW e \in Members[b], Lead(b, d, e) = 1 PROVE FALSE
      BY DEF Waiting
    <3>1. /\ ticket[b][c] \in Tickets /\ ticket[b][d] \in Tickets
      BY <1>1, AtFacts DEF BarrierInvariant
    <3>2. ticket[b][d] = ticket[b][c]
      BY <3>1, <2>1, LeadMeans DEF Lead
    <3>3. QED
      BY <3>2, <1>6 DEF Lead
  <2>4. \A e \in Members[b] \ {c} : e \in Waiting(b)' <=> e \in Waiting(b)
    BY <1>1, <1>5, <2>1, <2>2 DEF Waiting
  <2>5. c \in Waiting(b)' /\ c \notin Waiting(b)
    BY <1>1, <1>5, <1>6, <2>1 DEF Waiting
  <2>6. \A e \in Members[b] \ {c} : e \in Open(b)' <=> e \in Open(b)
    BY <1>1, <2>4 DEF Open, Waiting
  <2>7. c \notin Open(b)' /\ c \notin Open(b)
    BY <1>1, <2>5 DEF Open, Waiting
  <2>8. Waiting(b) \subseteq Members[b] /\ Open(b) \subseteq Members[b]
        /\ Waiting(b)' \subseteq Members[b] /\ Open(b)' \subseteq Members[b]
    BY DEF Waiting, Open
  <2>9. QED
    BY <1>1, <1>2, <1>3, <2>3, <2>4, <2>5, <2>6, <2>7, <2>8
<1>9. CASE \A d \in Members[b] \ {c} : Lead(b, c, d) # 0
  <2>1. \A d \in Members[b] \ {c} : Lead(b, d, c) = 1 /\ Lead(b, c, d)' = 0
    BY <1>2, <1>5, <1>9
  <2>2. Members[b] \ {c} \subseteq Waiting(b)
    BY <1>1, <2>1 DEF Waiting
  <2>3. \A d, e \in Members[b] \ {c} : Lead(b, d, e) # 1
    <3> TAKE d, e \in Members[b] \ {c}
    <3>1. /\ ticket[b][c] \in Tickets /\ ticket[b][d] \in Tickets /\ ticket[b][e] \in Tickets
      BY <1>1, AtFacts DEF BarrierInvariant
    <3>2. ticket[b][d] = ticket[b][e]
      BY <3>1, <2>1, LeadMeans DEF Lead
    <3>3. Lead(b, d, e) = 0
      BY <3>1, <3>2, LeadFacts, RangeFacts DEF Lead, Tickets
    <3>4. QED
      BY <3>3
  <2>4. \A d, e \in Members[b] : Lead(b, d, e)' # 1
    BY <1>5, <1>6, <2>1, <2>3
  <2>5. Waiting(b)' = {}
    BY <2>4 DEF Waiting
  <2>6. \A d \in Members[b] : Waits(d, b)'
    BY <1>1, <1>2, <2>2
  <2>7. Open(b)' = Members[b]
    BY <2>4, <2>6 DEF Open
  <2>8. Waiting(b) \subseteq Members[b]
    BY DEF Waiting
  <2>9. QED
    BY <1>1, <1>2, <1>3, <2>2, <2>5, <2>7, <2>8
<1>10. QED
  BY <1>8, <1>9

\* What a core does besides drawing tickets is leaving a barrier that is open for it, or nothing.
LEMMA OtherStepsLeave ==
  ASSUME BarrierInvariant, NEW c \in Cores, Core(c), ~ Count(c), NEW b \in Barriers, b = At(c)
  PROVE  /\ \A o \in Barriers \ {b} : Waiting(o)' = Waiting(o) /\ Open(o)' = Open(o)
         /\ Waiting(b)' = Waiting(b)
         /\ Open(b)' = Open(b) \/ (c \in Open(b) /\ Open(b)' = Open(b) \ {c})
<1>1. \A o, d, e : Lead(o, d, e)' = Lead(o, d, e)
  BY OtherSteps DEF Lead
<1>2. \A o \in Barriers : Waiting(o)' = Waiting(o)
  BY <1>1 DEF Waiting
<1>3. \A o \in Barriers : \A d \in Members[o] : d # c => Waits(d, o)' = Waits(d, o)
  BY OtherSteps, AtFacts DEF BarrierInvariant, Waits, At
<1>4. CASE core'[c].pc = "poll" /\ core[c].pc = "poll" /\ core'[c].place = core[c].place
  <2>1. \A o \in Barriers : Waits(c, o)' = Waits(c, o)
    BY <1>4 DEF Waits, At
  <2>2. \A o \in Barriers : Open(o)' = Open(o)
    BY <1>1, <1>3, <2>1 DEF Open
  <2>3. QED
    BY <1>2, <2>2
<1>5. CASE core'[c].pc # "poll" /\ (core[c].pc = "poll" => Release(c))
  <2>1. \A o \in Barriers : ~ Waits(c, o)' /\ (Waits(c, o) => o = b)
    BY <1>5 DEF Waits
  <2>2. \A o \in Barriers : Open(o)' = Open(o) \ {c}
    BY <1>1, <1>3, <2>1 DEF Open
  <2>3. \A o \in Barriers \ {b} : c \notin Open(o)
    BY <2>1 DEF Open
  <2>4. QED
    BY <1>2, <2>2, <2>3
<1>6. QED
  BY <1>4, <1>5, OtherSteps

LEMMA StepRefines ==
  BarrierInvariant /\ BarrierInvariant' /\ [Next]_vars => [Meeting!Next]_(Meeting!vars)
<1>1. (BarrierInvariant =>
        /\ [b \in Barriers |-> {c \in Members[b] : Waits(c, b) /\ ~ Complete(c, b)}]
             = [b \in Barriers |-> Waiting(b)]
        /\ [b \in Barriers |-> {c \in Members[b] : Waits(c, b) /\ Complete(c, b)}]
             = [b \in Barriers |-> Open(b)])'
  BY WaitingIs, PTL
<1> SUFFICES ASSUME BarrierInvariant, BarrierInvariant', [Next]_vars
             PROVE  [Meeting!Next]_(Meeting!vars)
  OBVIOUS
<1>2. CASE UNCHANGED vars
  BY <1>2 DEF vars, Meeting!vars, Waits, Complete, At
<1>3. ASSUME NEW c \in Cores, Core(c)
      PROVE  [Meeting!Next]_(Meeting!vars)
  <2>1. PICK b \in Barriers : b = At(c)
    BY AtFacts DEF BarrierInvariant
  <2>2. CASE Count(c)
    <3>1. CASE Waiting(b) \cup {c} # Members[b]
      <4>1. /\ c \in Members[b] \ (Waiting(b) \cup Open(b))
            /\ [o \in Barriers |-> Waiting(o)]' = [[o \in Barriers |-> Waiting(o)] EXCEPT ![b] = @ \cup {c}]
            /\ [o \in Barriers |-> Open(o)]' = [o \in Barriers |-> Open(o)]
        BY <2>1, <2>2, <3>1, CountComes
      <4>2. Meeting!Come(c, b)
        BY <4>1, <3>1, <1>1, WaitingIs DEF Meeting!Come
      <4>3. QED
        BY <4>2 DEF Meeting!Next
    <3>2. CASE Waiting(b) \cup {c} = Members[b]
      <4>1. /\ c \in Members[b] \ (Waiting(b) \cup Open(b))
            /\ [o \in Barriers |-> Waiting(o)]' = [[o \in Barriers |-> Waiting(o)] EXCEPT ![b] = {}]
            /\ [o \in Barriers |-> Open(o)]' = [[o \in Barriers |-> Open(o)] EXCEPT ![b] = Members[b]]
        BY <2>1, <2>2, <3>2, CountComes
      <4>2. Meeting!ComeLast(c, b)
        BY <4>1, <3>2, <1>1, WaitingIs DEF Meeting!ComeLast
      <4>3. QED
        BY <4>2 DEF Meeting!Next
    <3>3. QED
      BY <3>1, <3>2
  <2>3. CASE ~ Count(c) /\ Open(b)' = Open(b)
    <3>1. /\ [o \in Barriers |-> Waiting(o)]' = [o \in Barriers |-> Waiting(o)]
          /\ [o \in Barriers |-> Open(o)]' = [o \in Barriers |-> Open(o)]
      BY <1>3, <2>1, <2>3, OtherStepsLeave
    <3>2. QED
      BY <3>1, <1>1, WaitingIs DEF Meeting!vars
  <2>4. CASE ~ Count(c) /\ c \in Open(b) /\ Open(b)' = Open(b) \ {c}
    <3>1. /\ [o \in Barriers |-> Waiting(o)]' = [o \in Barriers |-> Waiting(o)]
          /\ [o \in Barriers |-> Open(o)]' = [[o \in Barriers |-> Open(o)] EXCEPT ![b] = @ \ {c}]
      BY <1>3, <2>1, <2>4, OtherStepsLeave
    <3>2. Meeting!Leave(c, b)
      BY <3>1, <2>4, <1>1, WaitingIs DEF Meeting!Leave
    <3>3. QED
      BY <3>2 DEF Meeting!Next
  <2>5. QED
    BY <1>3, <2>1, <2>2, <2>3, <2>4, OtherStepsLeave
<1>4. QED
  BY <1>2, <1>3 DEF Next

LEMMA InitRefines == Init => Meeting!Init
<1> SUFFICES ASSUME Init PROVE Meeting!Init
  OBVIOUS
<1>1. \A c \in Cores, b \in Barriers : ~ Waits(c, b)
  BY DEF Init, Waits
<1>2. \A b \in Barriers : Members[b] \subseteq Cores
  BY BarrierConstants
<1>3. QED
  BY <1>1, <1>2 DEF Meeting!Init

(* A core leaves a barrier only after all members have come to it, in each  *)
(* round, although the cores read the wrapping tickets of the others one by *)
(* one while these draw new ones and come back for the next round.          *)
THEOREM BarrierImplemented == Spec => ImplementsBarrier
<1>1. BarrierInvariant /\ BarrierInvariant' /\ [Next]_vars => [Meeting!Next]_(Meeting!vars)
  BY StepRefines
<1>2. QED
  BY <1>1, InitRefines, InvariantHolds, PTL DEF Spec, ImplementsBarrier, Meeting!Spec
=============================================================================
