---------------------------- MODULE CanTp_proofs ----------------------------
(***************************************************************************)
(* Theorems about the CAN transport layer, for any messages, block size,    *)
(* timeouts and number of wait frames, whatever is missed, refused,         *)
(* cancelled or timed out: on both nodes the counts, the timers, the        *)
(* occupant of the N-PDU and the frame CanIf has agree; and when no first   *)
(* frame is missed, the upper layers see a transfer of whole messages, in   *)
(* order and none twice, each of them confirmed once.                       *)
(***************************************************************************)
EXTENDS CanTp, SequenceTheorems, TLAPS

-----------------------------------------------------------------------------
(* The records *)

LEMMA Fields ==
  ASSUME NEW s \in NodeType
  PROVE  /\ s = [rx |-> s.rx, tx |-> s.tx, dir |-> s.dir, up |-> s.up, out |-> s.out]
         /\ s.rx \in RxType /\ s.tx \in TxType /\ s.dir \in {"IDLE", "TX", "RX"}
         /\ s.up \in UpType /\ s.out \in {NoFrame} \cup [sent : BOOLEAN, frame : Frames]
BY DEF NodeType

LEMMA Constants ==
  /\ {N_As, N_Bs, N_Cs, N_Ar, N_Br, N_Cr, FcSTmin, UINT8_VALUES} \subseteq Nat \ {0}
  /\ {Bs, RxWftMax, CANTP_MAX_SEQUENC_NUMBER} \subseteq Nat
BY CanTpConstants

\* What NodeOK says of the connection that sends, and of the one that receives
TxOK(tx, up) ==
  /\ up.accepted <= Len(up.plan)
  /\ tx.remain <= tx.total
  /\ tx.state \in {"TRANSMIT_FF", "WAIT_FFCONF", "WAIT_RECEIVE_FC", "WAIT_CF_STMIN", "TRANSMIT_CF"} =>
       tx.remain > 0
  /\ tx.state # "IDLE" <=> up.pending = 1
  /\ tx.state # "IDLE" => tx.timer > 0

RxOK(rx) ==
  /\ rx.notify <=> rx.state \in {"RECEIVE_SF", "RECEIVE_CF"}
  /\ rx.state # "IDLE" /\ ~ rx.notify => rx.remain > 0
  /\ rx.state \in {"TRANSMIT_FC", "WAIT_FCCONF"} /\ rx.fs = "WT" => rx.wft < RxWftMax
  /\ rx.state # "IDLE" => rx.timer > 0 \/ rx.notify

LEMMA NodeOKIs ==
  ASSUME NEW s
  PROVE  NodeOK(s) <=> TxOK(s.tx, s.up) /\ RxOK(s.rx) /\ OccupantOwnsFrame(s)
BY DEF NodeOK, CountsAgree, TimersRun, TxOK, RxOK

Good(s) == s \in NodeType /\ TxOK(s.tx, s.up) /\ RxOK(s.rx) /\ OccupantOwnsFrame(s)

LEMMA IdleRecords ==
  /\ IdleRx \in RxType /\ RxOK(IdleRx)
  /\ IdleTx \in TxType
BY Constants DEF IdleRx, IdleTx, RxType, TxType, RxStates, TxStates, FlowStates, RxOK

\* A connection ends, with the N-PDU not in its hands.
LEMMA TxEndOK ==
  ASSUME NEW s \in NodeType, s.up.pending = 1, s.up.accepted <= Len(s.up.plan), RxOK(s.rx),
         OccupantOwnsFrame(s), s.dir # "TX", NEW result \in Results
  PROVE  /\ Good(TxEnd(s, result))
         /\ TxEnd(s, result).rx = s.rx
<1> DEFINE z == TxEnd(s, result)
           u == s.up
           up == [u EXCEPT !.pending = @ - 1, !.result = result]
<1>1. u \in UpType /\ u.pending = 1
  BY Fields
<1>2. z = [s EXCEPT !.tx = IdleTx, !.up = up]
  BY DEF TxEnd, NodeType, UpType
<1> HIDE DEF z, u
<1>3. up \in UpType /\ up.accepted = u.accepted /\ up.plan = u.plan /\ up.pending = 0
  <2>1. \A v \in UpType : v.pending = 1 =>
          [v EXCEPT !.pending = @ - 1, !.result = result] = [v EXCEPT !.pending = 0, !.result = result]
    BY DEF UpType
  <2>2. \A v \in UpType : [v EXCEPT !.pending = 0, !.result = result] \in UpType
    BY DEF UpType
  <2>3. up = [u EXCEPT !.pending = 0, !.result = result]
    BY <1>1, <2>1
  <2>4. QED
    BY <1>1, <2>2, <2>3 DEF UpType
<1> HIDE DEF up
<1>4. /\ z \in NodeType /\ z.rx = s.rx /\ z.tx = IdleTx /\ z.dir = s.dir /\ z.up = up /\ z.out = s.out
  BY <1>2, <1>3, IdleRecords DEF NodeType
<1>5. TxOK(z.tx, z.up)
  BY <1>3, <1>4 DEF TxOK, IdleTx, u
<1>6. OccupantOwnsFrame(z)
  BY <1>4 DEF OccupantOwnsFrame
<1>7. QED
  BY <1>4, <1>5, <1>6 DEF Good, z

\* A node whose connection to send may have run out of time
Sending(s) ==
  /\ s \in NodeType /\ s.up.pending = 1 /\ s.up.accepted <= Len(s.up.plan)
  /\ s.tx.remain <= s.tx.total
  /\ RxOK(s.rx) /\ OccupantOwnsFrame(s)

LEMMA ReleasedOK ==
  ASSUME NEW s \in NodeType
  PROVE  LET z == [s EXCEPT !.dir = "IDLE"]
         IN  /\ z \in NodeType /\ OccupantOwnsFrame(z) /\ z.dir = "IDLE"
             /\ z.rx = s.rx /\ z.tx = s.tx /\ z.up = s.up /\ z.out = s.out
<1> DEFINE z == [s EXCEPT !.dir = "IDLE"]
<1>1. /\ z \in NodeType /\ z.dir = "IDLE"
      /\ z.rx = s.rx /\ z.tx = s.tx /\ z.up = s.up /\ z.out = s.out
  BY DEF NodeType
<1>2. OccupantOwnsFrame(z)
  BY <1>1 DEF OccupantOwnsFrame
<1>3. QED
  BY <1>1, <1>2

\* A connection ends and gives the N-PDU back.
LEMMA TxGivesBack ==
  ASSUME NEW s, Sending(s), NEW result \in Results
  PROVE  /\ Good(TxEnd([s EXCEPT !.dir = "IDLE"], result))
         /\ TxEnd([s EXCEPT !.dir = "IDLE"], result).rx = s.rx
<1> DEFINE z == [s EXCEPT !.dir = "IDLE"]
<1>1. s \in NodeType
  BY DEF Sending
<1>2. /\ z \in NodeType /\ OccupantOwnsFrame(z) /\ z.dir = "IDLE"
      /\ z.rx = s.rx /\ z.tx = s.tx /\ z.up = s.up
  BY <1>1, ReleasedOK
<1> HIDE DEF z
<1>3. z.dir # "TX" /\ z.up.pending = 1 /\ z.up.accepted <= Len(z.up.plan) /\ RxOK(z.rx)
  BY <1>2 DEF Sending
<1>4. Good(TxEnd(z, result)) /\ TxEnd(z, result).rx = z.rx
  BY <1>2, <1>3, TxEndOK
<1>5. QED
  BY <1>2, <1>4 DEF z

\* The frame carries the piece that OccupantOwnsFrame says, and the connection waits for it.
LEMMA ConstructedFrame ==
  ASSUME NEW s, Sending(s), s.tx.state \in Transmitting, s.tx.state # "TRANSMIT_SF" => s.tx.remain > 0
  PROVE  LET c == TxConstructPCI(s)
         IN  /\ c.tx \in TxType /\ c.frame \in Frames /\ TxOK(c.tx, s.up)
             /\ c.frame.kind \in {"SF", "FF", "CF"} /\ c.tx.state = ConfirmationOf[c.frame.kind]
             /\ c.frame.piece = <<s.up.accepted, c.tx.total - c.tx.remain>>
<1> DEFINE c == TxConstructPCI(s)
           x == s.tx
           piece == <<s.up.accepted, x.total - x.remain>>
           sn == IF x.sn > CANTP_MAX_SEQUENC_NUMBER THEN 0 ELSE x.sn
<1>1. s.up \in UpType /\ x \in TxType /\ s.up.pending = 1 /\ s.up.accepted <= Len(s.up.plan)
      /\ x.remain <= x.total
  BY Fields DEF Sending
<1>2. /\ x.total \in Nat /\ x.remain \in Nat /\ x.sn \in Nat /\ s.up.accepted \in Nat /\ N_As \in Nat \ {0}
      /\ CANTP_MAX_SEQUENC_NUMBER \in Nat
  BY <1>1, Constants DEF TxType, UpType
<1>3. piece \in Pieces /\ sn \in Nat /\ <<piece[1], piece[2] + 1>> \in Pieces
  BY <1>1, <1>2 DEF Pieces
<1>4. CASE x.state = "TRANSMIT_SF"
  <2>1. /\ c.tx = [x EXCEPT !.state = "WAIT_SFCONF", !.timer = N_As]
        /\ c.frame = [kind |-> "SF", piece |-> piece]
    BY <1>4 DEF TxConstructPCI
  <2> HIDE DEF c, x, piece
  <2>2. /\ c.tx \in TxType /\ c.tx.total = x.total /\ c.tx.remain = x.remain
        /\ c.tx.state = "WAIT_SFCONF" /\ c.tx.timer = N_As
    BY <1>1, <1>2, <2>1 DEF TxType, TxStates, WaitingForConfirmation
  <2>3. c.frame \in Frames /\ c.frame.kind = "SF" /\ c.frame.piece = piece
    BY <1>3, <2>1 DEF Frames
  <2>4. TxOK(c.tx, s.up)
    BY <1>1, <1>2, <2>2 DEF TxOK
  <2>5. QED
    BY <2>2, <2>3, <2>4 DEF ConfirmationOf, piece, c
<1>5. CASE x.state = "TRANSMIT_FF"
  <2>1. /\ c.tx = [x EXCEPT !.state = "WAIT_FFCONF", !.timer = N_As]
        /\ c.frame = [kind |-> "FF", piece |-> piece, total |-> x.total]
    BY <1>5 DEF TxConstructPCI
  <2>0. x.remain > 0 /\ x.total \in Nat \ {0}
    BY <1>1, <1>2, <1>5
  <2> HIDE DEF c, x, piece
  <2>2. /\ c.tx \in TxType /\ c.tx.total = x.total /\ c.tx.remain = x.remain
        /\ c.tx.state = "WAIT_FFCONF" /\ c.tx.timer = N_As
    BY <1>1, <1>2, <2>1 DEF TxType, TxStates, WaitingForConfirmation
  <2>3. c.frame \in Frames /\ c.frame.kind = "FF" /\ c.frame.piece = piece
    BY <1>3, <2>0, <2>1 DEF Frames
  <2>4. TxOK(c.tx, s.up)
    BY <1>1, <1>2, <2>0, <2>2 DEF TxOK
  <2>5. QED
    BY <2>2, <2>3, <2>4 DEF ConfirmationOf, piece, c
<1>6. CASE x.state = "TRANSMIT_CF"
  <2>1. /\ c.tx = [x EXCEPT !.state = "WAIT_CFCONF", !.timer = N_As, !.sn = sn, !.remain = @ - 1]
        /\ c.frame = [kind |-> "CF", piece |-> <<piece[1], piece[2] + 1>>, sn |-> sn, last |-> x.remain = 1]
    BY <1>6 DEF TxConstructPCI
  <2>0. x.remain > 0 /\ x.remain - 1 \in Nat
    BY <1>2, <1>6
  <2>a. piece[1] = s.up.accepted /\ piece[2] + 1 = x.total - (x.remain - 1)
    BY <1>2
  <2> HIDE DEF c, x, piece, sn
  <2>b. c.tx = [x EXCEPT !.state = "WAIT_CFCONF", !.timer = N_As, !.sn = sn, !.remain = x.remain - 1]
    BY <1>1, <2>1 DEF TxType
  <2>2. /\ c.tx \in TxType /\ c.tx.total = x.total /\ c.tx.remain = x.remain - 1
        /\ c.tx.state = "WAIT_CFCONF" /\ c.tx.timer = N_As
    BY <1>1, <1>2, <1>3, <2>0, <2>b DEF TxType, TxStates, WaitingForConfirmation
  <2>3. /\ c.frame \in Frames /\ c.frame.kind = "CF"
        /\ c.frame.piece = <<s.up.accepted, x.total - (x.remain - 1)>>
    BY <1>3, <2>1, <2>a DEF Frames
  <2>4. TxOK(c.tx, s.up)
    BY <1>1, <1>2, <2>0, <2>2 DEF TxOK
  <2>5. QED
    BY <2>2, <2>3, <2>4 DEF ConfirmationOf, c
<1>7. QED
  BY <1>4, <1>5, <1>6 DEF Transmitting

LEMMA GetTxBufferOK ==
  ASSUME NEW s, Sending(s), s.tx.state \in Transmitting, s.tx.state # "TRANSMIT_SF" => s.tx.remain > 0,
         NEW z \in GetTxBuffer(s)
  PROVE  Good(z) /\ z.rx = s.rx
<1>1. s \in NodeType /\ "E_NOT_OK" \in Results
  BY DEF Sending, Results
<1>2. s.dir # "TX"
  BY <1>1 DEF Sending, OccupantOwnsFrame, ConfirmationOf, Transmitting
<1>3. CASE z = TxEnd(s, "E_NOT_OK")
  BY <1>1, <1>2, <1>3, TxEndOK DEF Sending
<1>4. CASE s.dir = "IDLE" /\ z \in TxTransmit(s)
  <2> DEFINE c == TxConstructPCI(s)
             t == [s EXCEPT !.tx = c.tx, !.dir = "TX"]
  <2>1. CASE z = TxEnd([s EXCEPT !.dir = "IDLE"], "E_NOT_OK")
    BY <1>1, <2>1, TxGivesBack
  <2>2. CASE z \in CanIf_Transmit(t, c.frame)
    <3>1. /\ c.tx \in TxType /\ c.frame \in Frames /\ TxOK(c.tx, s.up)
          /\ c.frame.kind \in {"SF", "FF", "CF"} /\ c.tx.state = ConfirmationOf[c.frame.kind]
          /\ c.frame.piece = <<s.up.accepted, c.tx.total - c.tx.remain>>
      BY ConstructedFrame
    <3> HIDE DEF c
    <3>2. z = [t EXCEPT !.out = [sent |-> FALSE, frame |-> c.frame]]
      BY <2>2 DEF CanIf_Transmit
    <3>3. /\ t \in NodeType /\ t.rx = s.rx /\ t.tx = c.tx /\ t.dir = "TX" /\ t.up = s.up
      BY <1>1, <3>1 DEF NodeType
    <3> HIDE DEF t
    <3>4. [sent |-> FALSE, frame |-> c.frame] \in [sent : BOOLEAN, frame : Frames]
      BY <3>1
    <3>5. /\ z \in NodeType /\ z.rx = s.rx /\ z.tx = c.tx /\ z.dir = "TX" /\ z.up = s.up
          /\ z.out = [sent |-> FALSE, frame |-> c.frame]
      BY <3>2, <3>3, <3>4 DEF NodeType
    <3>6. z.out.frame = c.frame /\ z.out # NoFrame
      BY <3>1, <3>5 DEF NoFrame
    <3>7. OccupantOwnsFrame(z)
      BY <3>1, <3>5, <3>6 DEF OccupantOwnsFrame
    <3>8. QED
      BY <3>1, <3>5, <3>7 DEF Good, Sending
  <2>3. QED
    BY <1>4, <2>1, <2>2 DEF TxTransmit
<1>5. QED
  BY <1>3, <1>4 DEF GetTxBuffer

LEMMA GoodSends ==
  ASSUME NEW s, Good(s), s.tx.state # "IDLE"
  PROVE  Sending(s)
<1>1. s.up \in UpType /\ s.tx \in TxType
  BY Fields DEF Good
<1>2. QED
  BY <1>1 DEF Good, Sending, TxOK, UpType

LEMMA HandleTxChannelsOK ==
  ASSUME NEW s, Good(s), NEW z \in HandleTxChannels(s)
  PROVE  Good(z) /\ z.rx = s.rx
<1> DEFINE x == s.tx
           stmin == IF x.stmin > 0 THEN x.stmin - 1 ELSE 0
           to == IF x.state = "WAIT_CF_STMIN" /\ stmin = 0 THEN "TRANSMIT_CF" ELSE x.state
           tx == [x EXCEPT !.timer = x.timer - 1, !.stmin = stmin, !.state = to]
           t == [s EXCEPT !.tx = tx]
<1>1. CASE x.state = "IDLE"
  BY <1>1 DEF HandleTxChannels
<1>2. CASE x.state # "IDLE"
  <2>1. s \in NodeType /\ x \in TxType /\ Sending(s) /\ TxOK(x, s.up) /\ RxOK(s.rx)
    BY <1>2, GoodSends, Fields DEF Good
  <2>2. x.timer \in Nat \ {0} /\ x.stmin \in Nat /\ stmin \in Nat
    BY <1>2, <2>1 DEF TxOK, TxType
  <2>3. to \in TxStates
    BY <2>1 DEF TxType, TxStates, Transmitting
  <2> HIDE DEF stmin, to
  <2>5. \/ t.tx.timer = 0 /\ z \in HandleTxTimeoutProcess(t)
        \/ t.tx.timer # 0 /\ z \in {t} \cup (IF t.tx.state \in Transmitting THEN GetTxBuffer(t) ELSE {})
    BY <1>2 DEF HandleTxChannels, stmin, to
  <2> HIDE DEF x
  <2> HIDE DEF tx
  <2>7. /\ tx \in TxType /\ tx.state = to /\ tx.timer = x.timer - 1
        /\ tx.total = x.total /\ tx.remain = x.remain
    <3>1. x.timer - 1 \in Nat
      BY <2>2
    <3>2. QED
      BY <2>1, <2>2, <2>3, <3>1 DEF TxType, tx
  <2>8. /\ t \in NodeType /\ t.rx = s.rx /\ t.tx = tx /\ t.dir = s.dir /\ t.up = s.up /\ t.out = s.out
    BY <2>1, <2>7 DEF NodeType
  <2> HIDE DEF t
  <2>9. to # x.state => x.state = "WAIT_CF_STMIN" /\ to = "TRANSMIT_CF"
    BY DEF to
  <2>10. s.dir = "TX" => x.state \in WaitingForConfirmation
    BY <2>1 DEF Sending, OccupantOwnsFrame, ConfirmationOf, WaitingForConfirmation, x
  <2>11. OccupantOwnsFrame(t)
    <3>1. s.dir = "TX" => to = x.state
      BY <2>9, <2>10 DEF WaitingForConfirmation
    <3>2. QED
      BY <2>1, <2>7, <2>8, <3>1 DEF Sending, OccupantOwnsFrame, x
  <2>12. Sending(t)
    BY <2>1, <2>7, <2>8, <2>11 DEF Sending, x
  <2>13. t.tx.state \in {"TRANSMIT_FF", "WAIT_FFCONF", "WAIT_RECEIVE_FC", "WAIT_CF_STMIN", "TRANSMIT_CF"} =>
           t.tx.remain > 0
    BY <2>1, <2>7, <2>8, <2>9 DEF TxOK
  <2>14. CASE t.tx.timer = 0 /\ z \in HandleTxTimeoutProcess(t)
    <3> DEFINE y == [t EXCEPT !.tx.state = IF @ = "WAIT_CF_STMIN" THEN "TRANSMIT_CF" ELSE @]
               go == IF to = "WAIT_CF_STMIN" THEN "TRANSMIT_CF" ELSE to
    <3>1. CASE z \in TxTimeout(t)
      BY <2>8, <2>12, <3>1, TxGivesBack DEF TxTimeout, Results
    <3>2. CASE to \in Transmitting \cup {"WAIT_CF_STMIN"} /\ z \in GetTxBuffer(y) \cup TxTimeout(y)
      <4>1. go \in Transmitting /\ go \in TxStates
        BY <3>2 DEF Transmitting, TxStates
      <4>2. y = [t EXCEPT !.tx = [tx EXCEPT !.state = go]]
        BY <2>7, <2>8 DEF NodeType, TxType
      <4> HIDE DEF y, go
      <4>3. /\ [tx EXCEPT !.state = go] \in TxType /\ [tx EXCEPT !.state = go].state = go
            /\ [tx EXCEPT !.state = go].total = tx.total /\ [tx EXCEPT !.state = go].remain = tx.remain
        BY <2>7, <4>1 DEF TxType
      <4>4. /\ y \in NodeType /\ y.rx = t.rx /\ y.tx = [tx EXCEPT !.state = go] /\ y.dir = t.dir
            /\ y.up = t.up /\ y.out = t.out
        BY <2>8, <4>2, <4>3 DEF NodeType
      <4>5. t.dir # "TX"
        BY <2>7, <2>8, <2>12, <3>2 DEF Sending, OccupantOwnsFrame, ConfirmationOf, Transmitting
      <4>6. Sending(y)
        BY <2>8, <2>12, <4>3, <4>4, <4>5 DEF Sending, OccupantOwnsFrame
      <4>7. y.tx.state \in Transmitting /\ (y.tx.state # "TRANSMIT_SF" => y.tx.remain > 0)
        BY <2>7, <2>8, <2>13, <4>1, <4>3, <4>4 DEF go, Transmitting
      <4>8. CASE z \in GetTxBuffer(y)
        BY <2>8, <4>4, <4>6, <4>7, <4>8, GetTxBufferOK
      <4>9. CASE z \in TxTimeout(y)
        BY <2>8, <4>4, <4>6, <4>9, TxGivesBack DEF TxTimeout, Results
      <4>10. QED
        BY <3>2, <4>8, <4>9
    <3>3. QED
      BY <2>7, <2>8, <2>14, <3>1, <3>2 DEF HandleTxTimeoutProcess
  <2>15. CASE t.tx.timer # 0 /\ z \in {t} \cup (IF t.tx.state \in Transmitting THEN GetTxBuffer(t) ELSE {})
    <3>1. TxOK(t.tx, t.up)
      <4>1. t.tx.timer > 0
        BY <2>2, <2>7, <2>8, <2>15
      <4>2. t.tx.state # "IDLE"
        BY <1>2, <2>7, <2>8, <2>9 DEF x
      <4>3. QED
        BY <2>12, <2>13, <4>1, <4>2 DEF Sending, TxOK
    <3>2. Good(t)
      BY <2>12, <3>1 DEF Good, Sending
    <3>3. CASE t.tx.state \in Transmitting /\ z \in GetTxBuffer(t)
      <4>1. t.tx.state # "TRANSMIT_SF" => t.tx.remain > 0
        BY <2>13, <3>3 DEF Transmitting
      <4>2. QED
        BY <2>8, <2>12, <3>3, <4>1, GetTxBufferOK
    <3>4. QED
      BY <2>8, <2>15, <3>2, <3>3
  <2>16. QED
    BY <2>5, <2>14, <2>15
<1>3. QED
  BY <1>1, <1>2

\* The connection that sends moves on while the N-PDU is not in its hands.
LEMMA TxChange ==
  ASSUME NEW s \in NodeType, NEW x \in TxType, TxOK(x, s.up), RxOK(s.rx), OccupantOwnsFrame(s), s.dir # "TX"
  PROVE  LET z == [s EXCEPT !.tx = x] IN Good(z) /\ z.rx = s.rx
<1> DEFINE z == [s EXCEPT !.tx = x]
<1>1. /\ z \in NodeType /\ z.rx = s.rx /\ z.tx = x /\ z.dir = s.dir /\ z.up = s.up /\ z.out = s.out
  BY DEF NodeType
<1> HIDE DEF z
<1>2. OccupantOwnsFrame(z)
  BY <1>1 DEF OccupantOwnsFrame
<1>3. QED
  BY <1>1, <1>2 DEF Good, z

LEMMA FrameFields ==
  ASSUME NEW f \in Frames
  PROVE  /\ f.kind \in {"SF", "FF", "CF", "FC"}
         /\ f.kind \in {"SF", "FF", "CF"} => f.piece \in Pieces
         /\ f.kind = "FF" => f.total \in Nat \ {0}
         /\ f.kind = "CF" => f.sn \in Nat /\ f.last \in BOOLEAN
         /\ f.kind = "FC" => f.fs \in FlowStates /\ f.bs \in Nat
BY DEF Frames

LEMMA RxSubDealWithFCOK ==
  ASSUME NEW s, Good(s), NEW f \in Frames, f.kind = "FC", NEW z \in RxSubDealWithFC(s, f)
  PROVE  Good(z) /\ z.rx = s.rx
<1> DEFINE x == s.tx
<1>1. CASE x.state # "WAIT_RECEIVE_FC"
  BY <1>1 DEF RxSubDealWithFC
<1>2. CASE x.state = "WAIT_RECEIVE_FC"
  <2>1. /\ s \in NodeType /\ x \in TxType /\ TxOK(x, s.up) /\ RxOK(s.rx) /\ OccupantOwnsFrame(s)
        /\ Sending(s) /\ s.dir # "TX" /\ x.state # "IDLE"
    BY <1>2, GoodSends, Fields DEF Good, OccupantOwnsFrame, ConfirmationOf
  <2>2. f.bs \in Nat /\ N_Cs \in Nat \ {0} /\ N_Bs \in Nat \ {0}
    BY FrameFields, Constants
  <2>3. CASE f.fs = "CFS"
    <3> DEFINE sn == IF x.first THEN x.sn ELSE 1
               bs == IF x.first THEN x.bs ELSE f.bs
               y == [x EXCEPT !.state = "TRANSMIT_CF", !.timer = N_Cs, !.first = TRUE, !.sn = sn, !.bs = bs]
    <3>1. z = [s EXCEPT !.tx = y]
      BY <1>2, <2>3 DEF RxSubDealWithFC
    <3>2. sn \in Nat /\ bs \in Nat
      BY <2>1, <2>2 DEF TxType
    <3> HIDE DEF sn, bs, x
    <3>3. /\ y \in TxType /\ y.state = "TRANSMIT_CF" /\ y.timer = N_Cs
          /\ y.remain = x.remain /\ y.total = x.total
      BY <2>1, <2>2, <3>2 DEF TxType, TxStates, Transmitting
    <3> HIDE DEF y
    <3>4. TxOK(y, s.up)
      BY <1>2, <2>1, <2>2, <3>3 DEF TxOK
    <3>5. QED
      BY <2>1, <3>1, <3>3, <3>4, TxChange
  <2>4. CASE f.fs = "WT"
    <3> DEFINE y == [x EXCEPT !.timer = N_Bs]
    <3>1. z = [s EXCEPT !.tx = y]
      BY <1>2, <2>4, <2>1 DEF RxSubDealWithFC, NodeType
    <3> HIDE DEF x
    <3>3. /\ y \in TxType /\ y.state = x.state /\ y.timer = N_Bs
          /\ y.remain = x.remain /\ y.total = x.total
      BY <2>1, <2>2 DEF TxType
    <3> HIDE DEF y
    <3>4. TxOK(y, s.up)
      BY <1>2, <2>1, <2>2, <3>3 DEF TxOK
    <3>5. QED
      BY <2>1, <3>1, <3>3, <3>4, TxChange
  <2>5. CASE f.fs # "CFS" /\ f.fs # "WT"
    BY <1>2, <2>1, <2>5, TxGivesBack DEF RxSubDealWithFC, Results
  <2>6. QED
    BY <2>3, <2>4, <2>5
<1>3. QED
  BY <1>1, <1>2

LEMMA TxConfirmationTxOK ==
  ASSUME NEW s, Good(s), s.dir = "IDLE"
  PROVE  Good(TxConfirmationTx(s))
<1> DEFINE x == s.tx
           z == TxConfirmationTx(s)
<1>1. /\ s \in NodeType /\ x \in TxType /\ TxOK(x, s.up) /\ RxOK(s.rx) /\ OccupantOwnsFrame(s)
      /\ s.up.accepted <= Len(s.up.plan)
  BY Fields DEF Good, TxOK
<1>2. N_Cs \in Nat \ {0} /\ N_Bs \in Nat \ {0} /\ FcSTmin \in Nat \ {0}
  BY Constants
<1>3. CASE x.state = "WAIT_SFCONF" \/ (x.state = "WAIT_CFCONF" /\ x.remain = 0)
  <2>1. z = TxEnd(s, "E_OK")
    BY <1>3 DEF TxConfirmationTx
  <2>2. Sending(s)
    BY <1>3, GoodSends
  <2>3. QED
    BY <1>1, <2>1, <2>2, TxEndOK DEF Sending, Results
<1>4. CASE x.state = "WAIT_FFCONF"
  <2> DEFINE y == [x EXCEPT !.state = "WAIT_RECEIVE_FC", !.timer = N_Bs]
  <2>1. z = [s EXCEPT !.tx.state = "WAIT_RECEIVE_FC", !.tx.timer = N_Bs]
    BY <1>4 DEF TxConfirmationTx
  <2>2. z = [s EXCEPT !.tx = y]
    BY <1>1, <2>1 DEF NodeType
  <2> HIDE DEF x, z
  <2>3. /\ y \in TxType /\ y.state = "WAIT_RECEIVE_FC" /\ y.timer = N_Bs
        /\ y.remain = x.remain /\ y.total = x.total
    BY <1>1, <1>2 DEF TxType, TxStates
  <2> HIDE DEF y
  <2>4. TxOK(y, s.up)
    BY <1>1, <1>2, <1>4, <2>3 DEF TxOK
  <2>5. Good(z)
    BY <1>1, <2>2, <2>3, <2>4, TxChange
  <2>6. QED
    BY <2>5 DEF z
<1>5. CASE x.state = "WAIT_CFCONF" /\ x.remain # 0
  <2> DEFINE full == x.bs # 0 /\ x.handled + 1 = x.bs
             handled == IF full THEN 0 ELSE x.handled + 1
             state == IF full THEN "WAIT_RECEIVE_FC" ELSE "WAIT_CF_STMIN"
             timer == IF full THEN N_Bs ELSE N_Cs
             stmin == IF full THEN 0 ELSE FcSTmin
             y == [x EXCEPT !.sn = x.sn + 1, !.handled = handled, !.state = state, !.timer = timer,
                            !.stmin = stmin]
  <2>1. z = [s EXCEPT !.tx = y]
    BY <1>5 DEF TxConfirmationTx
  <2>2. /\ x.sn + 1 \in Nat /\ handled \in Nat /\ timer \in Nat \ {0} /\ stmin \in Nat /\ x.remain > 0
        /\ state \in {"WAIT_RECEIVE_FC", "WAIT_CF_STMIN"} /\ state \in TxStates
    BY <1>1, <1>2, <1>5 DEF TxType, TxStates
  <2> HIDE DEF x, z, handled, state, timer, stmin
  <2>3. /\ y \in TxType /\ y.state = state /\ y.timer = timer /\ y.remain = x.remain /\ y.total = x.total
    BY <1>1, <2>2 DEF TxType
  <2> HIDE DEF y
  <2>4. TxOK(y, s.up)
    BY <1>1, <1>5, <2>2, <2>3 DEF TxOK
  <2>5. Good(z)
    BY <1>1, <2>1, <2>3, <2>4, TxChange
  <2>6. QED
    BY <2>5 DEF z
<1>6. CASE x.state \notin {"WAIT_SFCONF", "WAIT_FFCONF", "WAIT_CFCONF"}
  BY <1>6 DEF TxConfirmationTx
<1>7. QED
  BY <1>3, <1>4, <1>5, <1>6

-----------------------------------------------------------------------------
(* Receiving *)

\* A node in which all but the connection that receives is in order
OthersOK(s) == s \in NodeType /\ TxOK(s.tx, s.up) /\ OccupantOwnsFrame(s)

LEMMA GoodIs ==
  ASSUME NEW s
  PROVE  Good(s) <=> OthersOK(s) /\ RxOK(s.rx)
BY DEF Good, OthersOK

LEMMA RxChange ==
  ASSUME NEW s, OthersOK(s), NEW x \in RxType
  PROVE  LET z == [s EXCEPT !.rx = x]
         IN  OthersOK(z) /\ z.rx = x /\ z.tx = s.tx /\ z.dir = s.dir /\ z.up = s.up /\ z.out = s.out
<1> DEFINE z == [s EXCEPT !.rx = x]
<1>1. /\ z \in NodeType /\ z.rx = x /\ z.tx = s.tx /\ z.dir = s.dir /\ z.up = s.up /\ z.out = s.out
  BY DEF NodeType, OthersOK
<1> HIDE DEF z
<1>2. OthersOK(z)
  BY <1>1 DEF OccupantOwnsFrame, OthersOK
<1>3. QED
  BY <1>1, <1>2 DEF z

\* What the upper layer has received changes, and nothing of what it sends.
LEMMA ReceivedChange ==
  ASSUME NEW s, OthersOK(s), NEW up \in UpType,
         up.plan = s.up.plan, up.accepted = s.up.accepted, up.pending = s.up.pending
  PROVE  LET z == [s EXCEPT !.up = up]
         IN  OthersOK(z) /\ z.rx = s.rx /\ z.tx = s.tx /\ z.dir = s.dir /\ z.up = up /\ z.out = s.out
<1> DEFINE z == [s EXCEPT !.up = up]
<1>1. /\ z \in NodeType /\ z.rx = s.rx /\ z.tx = s.tx /\ z.dir = s.dir /\ z.up = up /\ z.out = s.out
  BY DEF NodeType, OthersOK
<1> HIDE DEF z
<1>2. OthersOK(z)
  BY <1>1 DEF OccupantOwnsFrame, OthersOK, TxOK
<1>3. QED
  BY <1>1, <1>2 DEF z

LEMMA RxFailOK ==
  ASSUME NEW s, OthersOK(s)
  PROVE  Good(RxFail(s)) /\ RxFail(s).rx = IdleRx /\ RxFail(s).tx = s.tx /\ RxFail(s).dir = s.dir
<1> DEFINE u == s.up
           up == [u EXCEPT !.receiving = FALSE, !.pieces = <<>>]
           y == [s EXCEPT !.rx = IdleRx]
           z == RxFail(s)
<1>1. s \in NodeType /\ u \in UpType
  BY Fields DEF OthersOK
<1>2. z = [y EXCEPT !.up = up]
  BY <1>1 DEF RxFail, NodeType, UpType
<1>3. OthersOK(y) /\ y.rx = IdleRx /\ y.up = u /\ y.tx = s.tx /\ y.dir = s.dir
  BY RxChange, IdleRecords
<1> HIDE DEF y, u, z
<1>4. up \in UpType /\ up.plan = u.plan /\ up.accepted = u.accepted /\ up.pending = u.pending
  <2>1. <<>> \in Seq(Pieces)
    OBVIOUS
  <2>2. QED
    BY <1>1, <2>1 DEF UpType
<1> HIDE DEF up
<1>5. OthersOK(z) /\ z.rx = IdleRx /\ z.tx = s.tx /\ z.dir = s.dir
  BY <1>2, <1>3, <1>4, ReceivedChange
<1>6. QED
  BY <1>5, GoodIs, IdleRecords DEF z

LEMMA RxDoneOK ==
  ASSUME NEW s, OthersOK(s)
  PROVE  Good(RxDone(s))
<1> DEFINE u == s.up
           up == [u EXCEPT !.receiving = FALSE, !.pieces = <<>>, !.delivered = u.pieces]
           y == [s EXCEPT !.rx = IdleRx]
           z == RxDone(s)
<1>1. s \in NodeType /\ u \in UpType
  BY Fields DEF OthersOK
<1>2. z = [y EXCEPT !.up = up]
  BY <1>1 DEF RxDone, NodeType, UpType
<1>3. OthersOK(y) /\ y.rx = IdleRx /\ y.up = u
  BY RxChange, IdleRecords
<1> HIDE DEF y, u, z
<1>4. up \in UpType /\ up.plan = u.plan /\ up.accepted = u.accepted /\ up.pending = u.pending
  <2>1. <<>> \in Seq(Pieces) /\ u.pieces \in Seq(Pieces)
    BY <1>1 DEF UpType
  <2>2. QED
    BY <1>1, <2>1 DEF UpType
<1> HIDE DEF up
<1>5. OthersOK(z) /\ z.rx = IdleRx
  BY <1>2, <1>3, <1>4, ReceivedChange
<1>6. QED
  BY <1>5, GoodIs, IdleRecords DEF z

LEMMA CopyRxDataOK ==
  ASSUME NEW s, OthersOK(s), NEW f, f.piece \in Pieces
  PROVE  LET z == CopyRxData(s, f) IN OthersOK(z) /\ z.rx = s.rx
<1> DEFINE u == s.up
           up == [u EXCEPT !.receiving = TRUE, !.pieces = Append(u.pieces, f.piece)]
           z == CopyRxData(s, f)
<1>1. s \in NodeType /\ u \in UpType
  BY Fields DEF OthersOK
<1>2. z = [s EXCEPT !.up = up]
  BY <1>1 DEF CopyRxData, NodeType, UpType
<1> HIDE DEF z
<1>3. up \in UpType /\ up.plan = u.plan /\ up.accepted = u.accepted /\ up.pending = u.pending
  <2> HIDE DEF u
  <2>1. Append(u.pieces, f.piece) \in Seq(Pieces)
    BY <1>1 DEF UpType
  <2>2. QED
    BY <1>1, <2>1 DEF UpType
<1> HIDE DEF up
<1>4. QED
  BY <1>2, <1>3, ReceivedChange DEF z

LEMMA SendFCOK ==
  ASSUME NEW s, Good(s), s.rx.state = "TRANSMIT_FC", NEW z \in SendFC(s)
  PROVE  Good(z)
<1> DEFINE x == s.rx
           y == [x EXCEPT !.state = "WAIT_FCCONF"]
           f == [kind |-> "FC", fs |-> x.fs, bs |-> x.bs]
           t == [s EXCEPT !.rx = y]
           d == [t EXCEPT !.dir = "RX"]
<1>1. OthersOK(s) /\ s \in NodeType /\ x \in RxType /\ RxOK(x)
  BY GoodIs, Fields DEF Good
<1>2. CASE s.dir # "IDLE"
  BY <1>2 DEF SendFC
<1>3. CASE z = RxFail(s)
  BY <1>1, <1>3, RxFailOK
<1>4. CASE z \in CanIf_Transmit([s EXCEPT !.dir = "RX", !.rx.state = "WAIT_FCCONF"], f)
  <2>1. [s EXCEPT !.dir = "RX", !.rx.state = "WAIT_FCCONF"] = d
    BY <1>1 DEF NodeType
  <2> HIDE DEF x
  <2>2. f \in Frames /\ f.kind = "FC"
    BY <1>1 DEF Frames, RxType
  <2>3. /\ y \in RxType /\ y.state = "WAIT_FCCONF" /\ y.fs = x.fs /\ y.remain = x.remain /\ y.wft = x.wft
        /\ y.timer = x.timer /\ y.notify = x.notify
    BY <1>1 DEF RxType, RxStates
  <2>4. RxOK(y)
    BY <1>1, <2>3, s.rx.state = "TRANSMIT_FC" DEF RxOK, x
  <2> HIDE DEF y
  <2>5. t \in NodeType /\ t.rx = y /\ t.tx = s.tx /\ t.up = s.up
    BY <1>1, <2>3, RxChange DEF OthersOK
  <2> HIDE DEF t
  <2>6. d \in NodeType /\ d.rx = y /\ d.tx = s.tx /\ d.up = s.up /\ d.dir = "RX"
    BY <2>5 DEF NodeType
  <2> HIDE DEF f
  <2>7. z = [d EXCEPT !.out = [sent |-> FALSE, frame |-> f]]
    BY <1>4, <2>1 DEF CanIf_Transmit
  <2> HIDE DEF d
  <2>8. [sent |-> FALSE, frame |-> f] \in [sent : BOOLEAN, frame : Frames]
    BY <2>2
  <2>9. /\ z \in NodeType /\ z.rx = y /\ z.tx = s.tx /\ z.up = s.up /\ z.dir = "RX"
        /\ z.out = [sent |-> FALSE, frame |-> f]
    BY <2>6, <2>7, <2>8 DEF NodeType
  <2>10. z.out.frame = f /\ z.out # NoFrame
    BY <2>2, <2>9 DEF NoFrame
  <2>11. OccupantOwnsFrame(z)
    BY <2>2, <2>9, <2>10 DEF OccupantOwnsFrame
  <2>12. QED
    BY <1>1, <2>4, <2>9, <2>11 DEF Good, OthersOK
<1>5. QED
  BY <1>2, <1>3, <1>4 DEF SendFC

LEMMA TransmitFCOK ==
  ASSUME NEW s, OthersOK(s), s.rx.remain > 0, ~ s.rx.notify, NEW fs \in FlowStates, fs = "WT" => s.rx.wft < RxWftMax,
         NEW z \in TransmitFC(s, fs)
  PROVE  Good(z)
<1> DEFINE x == s.rx
           y == [x EXCEPT !.state = "TRANSMIT_FC", !.fs = fs, !.timer = N_Ar]
           t == [s EXCEPT !.rx = y]
<1>1. s \in NodeType /\ x \in RxType /\ N_Ar \in Nat \ {0}
  BY Fields, Constants DEF OthersOK
<1>2. z \in SendFC(t)
  BY <1>1 DEF TransmitFC, NodeType
<1> HIDE DEF x
<1>3. /\ y \in RxType /\ y.state = "TRANSMIT_FC" /\ y.fs = fs /\ y.remain = x.remain /\ y.wft = x.wft
      /\ y.timer = N_Ar /\ y.notify = x.notify
  BY <1>1 DEF RxType, RxStates
<1>4. RxOK(y)
  BY <1>1, <1>3 DEF RxOK, x
<1> HIDE DEF y
<1>5. OthersOK(t) /\ t.rx = y
  BY <1>3, RxChange
<1> HIDE DEF t
<1>6. QED
  BY <1>2, <1>3, <1>4, <1>5, SendFCOK, GoodIs

LEMMA GrantBlockOK ==
  ASSUME NEW s, OthersOK(s), s.rx.remain > 0, ~ s.rx.notify, NEW z \in GrantBlock(s)
  PROVE  Good(z)
<1> DEFINE x == s.rx
           y == [x EXCEPT !.state = "WAIT_BUFFER_CF", !.fs = "none", !.timer = N_Br]
<1>1. s \in NodeType /\ x \in RxType /\ N_Br \in Nat \ {0}
  BY Fields, Constants DEF OthersOK
<1>2. CASE z \in TransmitFC(s, "CFS")
  BY <1>2, TransmitFCOK DEF FlowStates
<1>3. CASE z = [s EXCEPT !.rx.state = "WAIT_BUFFER_CF", !.rx.fs = "none", !.rx.timer = N_Br]
  <2>1. z = [s EXCEPT !.rx = y]
    BY <1>1, <1>3 DEF NodeType
  <2> HIDE DEF x
  <2>2. /\ y \in RxType /\ y.state = "WAIT_BUFFER_CF" /\ y.fs = "none" /\ y.remain = x.remain
        /\ y.timer = N_Br /\ y.notify = x.notify
    BY <1>1 DEF RxType, RxStates, FlowStates
  <2>3. RxOK(y)
    BY <1>1, <2>2 DEF RxOK, x
  <2> HIDE DEF y
  <2>4. OthersOK(z) /\ z.rx = y
    BY <2>1, <2>2, RxChange
  <2>5. QED
    BY <2>3, <2>4, GoodIs
<1>4. QED
  BY <1>2, <1>3 DEF GrantBlock

LEMMA HandleRxChannelsOK ==
  ASSUME NEW s, Good(s), NEW z \in HandleRxChannels(s)
  PROVE  Good(z)
<1> DEFINE x == s.rx
           y == [x EXCEPT !.timer = x.timer - 1]
           t == [s EXCEPT !.rx = y]
<1>1. OthersOK(s) /\ s \in NodeType /\ x \in RxType /\ RxOK(x)
  BY GoodIs, Fields DEF Good
<1>2. CASE x.state = "IDLE"
  <2>1. z = s
    BY <1>1, <1>2 DEF HandleRxChannels, RxOK
  <2>2. QED
    BY <2>1
<1>3. CASE x.state # "IDLE" /\ x.notify
  BY <1>1, <1>3, RxDoneOK DEF HandleRxChannels
<1>4. CASE x.state # "IDLE" /\ ~ x.notify
  <2>1. z \in HandleRxTimerProcess(s)
    BY <1>1, <1>4 DEF HandleRxChannels, RxType
  <2>2. [s EXCEPT !.rx.timer = @ - 1] = t
    BY <1>1 DEF NodeType, RxType
  <2>3. \/ x.state = "WAIT_BUFFER_CF" /\ t.rx.timer = 0
           /\ z \in TransmitFC(t, "CFS") \cup (IF t.rx.wft < RxWftMax THEN TransmitFC(t, "WT") ELSE {RxFail(t)})
        \/ x.state # "WAIT_BUFFER_CF" /\ t.rx.timer = 0 /\ z = RxFail(t)
        \/ t.rx.timer # 0
           /\ z \in {t} \cup (IF t.rx.state = "WAIT_BUFFER_CF" THEN TransmitFC(t, "CFS") ELSE {})
    <3> HIDE DEF t
    <3>1. QED
      BY <2>1, <2>2 DEF HandleRxTimerProcess
  <2>4. x.timer \in Nat \ {0} /\ x.timer - 1 \in Nat /\ x.remain > 0 /\ ~ x.notify
    BY <1>1, <1>4 DEF RxOK, RxType
  <2> HIDE DEF x
  <2>5. /\ y \in RxType /\ y.state = x.state /\ y.fs = x.fs /\ y.remain = x.remain /\ y.wft = x.wft
        /\ y.timer = x.timer - 1 /\ y.notify = x.notify
    BY <1>1, <2>4 DEF RxType
  <2> HIDE DEF y
  <2>6. OthersOK(t) /\ t.rx = y /\ t.rx.remain > 0 /\ ~ t.rx.notify
    BY <1>1, <2>4, <2>5, RxChange
  <2> HIDE DEF t
  <2>7. CASE z \in TransmitFC(t, "CFS")
    BY <2>6, <2>7, TransmitFCOK DEF FlowStates
  <2>8. CASE z = RxFail(t)
    BY <2>6, <2>8, RxFailOK
  <2>9. CASE t.rx.wft < RxWftMax /\ z \in TransmitFC(t, "WT")
    BY <2>6, <2>9, TransmitFCOK DEF FlowStates
  <2>10. CASE t.rx.timer # 0 /\ z = t
    <3>1. RxOK(y)
      <4>1. y.timer > 0
        BY <2>4, <2>5, <2>6, <2>10
      <4>2. QED
        BY <1>1, <1>4, <2>4, <2>5, <4>1 DEF RxOK
    <3>2. QED
      BY <2>6, <2>10, <3>1, GoodIs
  <2>11. QED
    BY <2>3, <2>7, <2>8, <2>9, <2>10
<1>5. QED
  BY <1>2, <1>3, <1>4

LEMMA NotifyUpperOK ==
  ASSUME NEW s, OthersOK(s), NEW state \in {"RECEIVE_SF", "RECEIVE_CF"}
  PROVE  Good(NotifyUpper(s, state))
<1> DEFINE y == [IdleRx EXCEPT !.state = state, !.notify = TRUE]
<1>1. y \in RxType /\ y.notify = TRUE /\ y.state = state
  <2>1. \A x \in RxType : [x EXCEPT !.state = state, !.notify = TRUE] \in RxType
    BY DEF RxType, RxStates
  <2>2. y \in RxType
    BY <2>1, IdleRecords
  <2>3. y.notify = TRUE /\ y.state = state
    BY DEF IdleRx
  <2>4. QED
    BY <2>2, <2>3
<1>2. NotifyUpper(s, state) = [s EXCEPT !.rx = y]
  BY DEF NotifyUpper
<1> HIDE DEF y
<1>3. RxOK(y)
  BY <1>1 DEF RxOK
<1> DEFINE z == [s EXCEPT !.rx = y]
<1>4. OthersOK(z) /\ z.rx = y
  BY <1>1, RxChange
<1> HIDE DEF z
<1>5. Good(z)
  BY <1>3, <1>4, GoodIs
<1>6. QED
  BY <1>2, <1>5 DEF z

LEMMA RxSubDealWithSFOK ==
  ASSUME NEW s, Good(s), NEW f \in Frames, f.kind = "SF", NEW z \in RxSubDealWithSF(s, f)
  PROVE  Good(z)
<1> DEFINE t == IF s.rx.state = "IDLE" THEN s ELSE RxFail(s)
<1>1. Good(t)
  BY RxFailOK, GoodIs
<1>2. z = NotifyUpper(CopyRxData(t, f), "RECEIVE_SF") \/ z = t
  BY DEF RxSubDealWithSF
<1> HIDE DEF t
<1>3. OthersOK(CopyRxData(t, f))
  BY <1>1, GoodIs, CopyRxDataOK, FrameFields
<1>4. Good(NotifyUpper(CopyRxData(t, f), "RECEIVE_SF"))
  BY <1>3, NotifyUpperOK
<1>5. QED
  BY <1>1, <1>2, <1>4

LEMMA RxSubDealWithFFOK ==
  ASSUME NEW s, Good(s), NEW f \in Frames, f.kind = "FF", NEW z \in RxSubDealWithFF(s, f)
  PROVE  Good(z)
<1> DEFINE dir == IF s.rx.state \in {"TRANSMIT_FC", "WAIT_FCCONF"} THEN "IDLE" ELSE s.dir
           d == [s EXCEPT !.dir = dir]
           t == IF s.rx.state = "IDLE" THEN s ELSE RxFail(d)
           y == [IdleRx EXCEPT !.state = "RECEIVE_FF", !.remain = f.total, !.sn = 1, !.bs = CurrentBs(f.total)]
           begun == [t EXCEPT !.rx = y]
<1>1. OthersOK(d)
  <2>1. OthersOK(s) /\ s \in NodeType
    BY GoodIs DEF Good
  <2>2. CASE dir = "IDLE"
    BY <2>1, <2>2, ReleasedOK DEF OthersOK
  <2>3. CASE dir = s.dir
    <3>1. d = s
      BY <2>1, <2>3 DEF NodeType
    <3>2. QED
      BY <2>1, <3>1
  <2>4. QED
    BY <2>2, <2>3
<1>2. z \in GrantBlock(CopyRxData(begun, f)) \cup TransmitFC(begun, "OVFL") \cup {t}
  BY DEF RxSubDealWithFF
<1> HIDE DEF d
<1>3. Good(t)
  BY <1>1, RxFailOK
<1> HIDE DEF t
<1>4. f.total \in Nat \ {0} /\ CurrentBs(f.total) \in Nat /\ f.piece \in Pieces
  BY FrameFields, Constants DEF CurrentBs
<1>5. y \in RxType /\ y.remain = f.total /\ y.notify = FALSE
  <2> DEFINE total == f.total
             bs == CurrentBs(total)
  <2> HIDE DEF total, bs
  <2>1. \A x \in RxType : [x EXCEPT !.state = "RECEIVE_FF", !.remain = total, !.sn = 1, !.bs = bs] \in RxType
    BY <1>4 DEF RxType, RxStates, total, bs
  <2>2. y \in RxType
    BY <2>1, IdleRecords DEF total, bs
  <2>3. y.remain = f.total /\ y.notify = FALSE
    BY DEF IdleRx
  <2>4. QED
    BY <2>2, <2>3
<1> HIDE DEF y
<1>6. OthersOK(begun) /\ begun.rx.remain > 0 /\ ~ begun.rx.notify
  BY <1>3, <1>4, <1>5, GoodIs, RxChange
<1> HIDE DEF begun
<1>7. OthersOK(CopyRxData(begun, f)) /\ CopyRxData(begun, f).rx.remain > 0
      /\ ~ CopyRxData(begun, f).rx.notify
  BY <1>4, <1>6, CopyRxDataOK
<1>8. QED
  BY <1>2, <1>3, <1>6, <1>7, GrantBlockOK, TransmitFCOK DEF FlowStates

LEMMA RxSubDealWithCFOK ==
  ASSUME NEW s, Good(s), NEW f \in Frames, f.kind = "CF", NEW z \in RxSubDealWithCF(s, f)
  PROVE  Good(z)
<1> DEFINE x == s.rx
           copied == CopyRxData(s, f)
           sn == IF x.sn < CANTP_MAX_SEQUENC_NUMBER THEN x.sn + 1 ELSE 0
           y == [x EXCEPT !.remain = x.remain - 1, !.handled = x.handled + 1, !.sn = sn]
           t == [copied EXCEPT !.rx = y]
<1>1. OthersOK(s) /\ s \in NodeType /\ x \in RxType /\ RxOK(x)
  BY GoodIs, Fields DEF Good
<1>2. OthersOK(copied) /\ copied.rx = x
  BY <1>1, CopyRxDataOK, FrameFields
<1>3. \/ z = s \/ z = RxFail(s)
      \/ /\ x.state = "WAIT_RECEIVE_CF"
         /\ \/ z = NotifyUpper(copied, "RECEIVE_CF")
            \/ x.remain # 1 /\ z \in GrantBlock([t EXCEPT !.rx.handled = 0])
            \/ x.remain # 1 /\ z = [t EXCEPT !.rx.timer = N_Cr]
  BY DEF RxSubDealWithCF, LastCF
<1> HIDE DEF copied
<1>4. CASE z = s \/ z = RxFail(s)
  BY <1>1, <1>4, RxFailOK
<1>5. CASE z = NotifyUpper(copied, "RECEIVE_CF")
  BY <1>2, <1>5, NotifyUpperOK
<1>6. ASSUME x.state = "WAIT_RECEIVE_CF", x.remain # 1,
             z \in GrantBlock([t EXCEPT !.rx.handled = 0]) \/ z = [t EXCEPT !.rx.timer = N_Cr]
      PROVE  Good(z)
  <2> DEFINE block == [y EXCEPT !.handled = 0]
             next == [y EXCEPT !.timer = N_Cr]
  <2>0. ~ x.notify
    BY <1>1, <1>6 DEF RxOK
  <2>1. sn \in Nat /\ x.remain - 1 \in Nat \ {0} /\ x.handled + 1 \in Nat /\ N_Cr \in Nat \ {0}
    BY <1>1, <1>6, <2>0, Constants DEF RxOK, RxType
  <2> HIDE DEF x, sn
  <2>2. y \in RxType /\ y.state = x.state /\ y.remain = x.remain - 1
    BY <1>1, <2>1 DEF RxType
  <2>r. y.remain > 0
    <3>1. \A i : i \in Nat \ {0} => i > 0
      OBVIOUS
    <3>2. QED
      BY <2>1, <2>2, <3>1
  <2>n. ~ y.notify
    BY <1>1, <2>0 DEF RxType
  <2>3. t \in NodeType /\ t.rx = y
    BY <1>2, <2>2, RxChange DEF OthersOK
  <2>4. [t EXCEPT !.rx.handled = 0] = [copied EXCEPT !.rx = block]
    BY <1>2, <2>2 DEF NodeType, OthersOK
  <2>5. [t EXCEPT !.rx.timer = N_Cr] = [copied EXCEPT !.rx = next]
    BY <1>2, <2>2 DEF NodeType, OthersOK
  <2> HIDE DEF t
  <2>6. CASE z \in GrantBlock([copied EXCEPT !.rx = block])
    <3> HIDE DEF y
    <3>1. block \in RxType /\ block.remain = y.remain
      BY <2>2 DEF RxType
    <3>n. ~ block.notify
      BY <2>2, <2>n DEF RxType
    <3> HIDE DEF block
    <3> DEFINE w == [copied EXCEPT !.rx = block]
    <3>2. OthersOK(w) /\ w.rx = block
      BY <1>2, <3>1, RxChange
    <3> HIDE DEF w
    <3>3. w.rx.remain > 0
      BY <2>r, <3>1, <3>2
    <3>a. ~ w.rx.notify
      BY <3>2, <3>n
    <3>4. z \in GrantBlock(w)
      BY <2>6 DEF w
    <3>5. QED
      BY <3>2, <3>3, <3>a, <3>4, GrantBlockOK
  <2>7. CASE z = [copied EXCEPT !.rx = next]
    <3> HIDE DEF y
    <3>1. next \in RxType /\ next.remain = y.remain /\ next.state = y.state /\ next.timer = N_Cr
      BY <2>1, <2>2 DEF RxType
    <3>n. ~ next.notify
      BY <2>2, <2>n DEF RxType
    <3> HIDE DEF next
    <3>2. RxOK(next)
      <4>1. next.state = "WAIT_RECEIVE_CF" /\ next.remain > 0 /\ next.timer > 0
        BY <1>6, <2>1, <2>2, <2>r, <3>1 DEF x
      <4>2. QED
        BY <3>n, <4>1 DEF RxOK
    <3>3. QED
      BY <1>2, <2>7, <3>1, <3>2, RxChange, GoodIs
  <2>8. QED
    BY <1>6, <2>4, <2>5, <2>6, <2>7
<1>7. QED
  BY <1>3, <1>4, <1>5, <1>6

LEMMA TxFCConfirmationOK ==
  ASSUME NEW s, Good(s)
  PROVE  Good(TxFCConfirmation(s))
<1> DEFINE x == s.rx
           z == TxFCConfirmation(s)
<1>1. OthersOK(s) /\ s \in NodeType /\ x \in RxType /\ RxOK(x)
  BY GoodIs, Fields DEF Good
<1>2. N_Cr \in Nat \ {0} /\ N_Br \in Nat \ {0} /\ RxWftMax \in Nat
  BY Constants
<1>3. CASE x.state = "WAIT_FCCONF" /\ x.fs = "CFS"
  <2> DEFINE y == [x EXCEPT !.state = "WAIT_RECEIVE_CF", !.fs = "none", !.timer = N_Cr, !.wft = 0]
  <2>1. z = [s EXCEPT !.rx = y]
    BY <1>3 DEF TxFCConfirmation
  <2>2. ~ x.notify
    BY <1>1, <1>3 DEF RxOK
  <2>3. x.remain > 0
    BY <1>1, <1>3, <2>2 DEF RxOK
  <2>a. 0 \in 0 .. RxWftMax
    BY <1>2
  <2> HIDE DEF x
  <2>4. y \in RxType /\ y.state = "WAIT_RECEIVE_CF" /\ y.timer = N_Cr /\ y.remain = x.remain
    BY <1>1, <1>2, <2>a DEF RxType, RxStates, FlowStates
  <2>5. y.notify = x.notify
    BY <1>1 DEF RxType
  <2> HIDE DEF y, z
  <2>6. RxOK(y)
    BY <1>2, <2>2, <2>3, <2>4, <2>5 DEF RxOK
  <2>7. OthersOK(z) /\ z.rx = y
    BY <1>1, <2>1, <2>4, RxChange
  <2>8. QED
    BY <2>6, <2>7, GoodIs DEF z
<1>4. CASE x.state = "WAIT_FCCONF" /\ x.fs = "OVFL"
  <2>1. z = [s EXCEPT !.rx = IdleRx]
    BY <1>4 DEF TxFCConfirmation
  <2> HIDE DEF z
  <2>2. OthersOK(z) /\ z.rx = IdleRx
    BY <1>1, <2>1, RxChange, IdleRecords
  <2>3. QED
    BY <2>2, GoodIs, IdleRecords DEF z
<1>5. CASE x.state = "WAIT_FCCONF" /\ x.fs = "WT"
  <2> DEFINE y == [x EXCEPT !.state = "WAIT_BUFFER_CF", !.fs = "none", !.timer = N_Br, !.wft = x.wft + 1]
  <2>1. z = [s EXCEPT !.rx = y]
    BY <1>5 DEF TxFCConfirmation
  <2>2. ~ x.notify
    BY <1>1, <1>5 DEF RxOK
  <2>3. x.remain > 0
    BY <1>1, <1>5, <2>2 DEF RxOK
  <2>a. x.wft + 1 \in 0 .. RxWftMax
    BY <1>1, <1>2, <1>5 DEF RxOK, RxType
  <2> HIDE DEF x
  <2>4. y \in RxType /\ y.state = "WAIT_BUFFER_CF" /\ y.timer = N_Br /\ y.remain = x.remain
    BY <1>1, <1>2, <2>a DEF RxType, RxStates, FlowStates
  <2>5. y.notify = x.notify
    BY <1>1 DEF RxType
  <2> HIDE DEF y, z
  <2>6. RxOK(y)
    BY <1>2, <2>2, <2>3, <2>4, <2>5 DEF RxOK
  <2>7. OthersOK(z) /\ z.rx = y
    BY <1>1, <2>1, <2>4, RxChange
  <2>8. QED
    BY <2>6, <2>7, GoodIs DEF z
<1>6. CASE ~ (x.state = "WAIT_FCCONF" /\ x.fs \in {"CFS", "OVFL", "WT"})
  BY <1>6 DEF TxFCConfirmation
<1>7. QED
  BY <1>3, <1>4, <1>5, <1>6

-----------------------------------------------------------------------------
(* The functions of the module *)

LEMMA RxIndicationOK ==
  ASSUME NEW s, Good(s), NEW f \in Frames, NEW z \in RxIndication(s, f)
  PROVE  Good(z)
<1>1. f.kind \in {"SF", "FF", "CF", "FC"}
  BY FrameFields
<1>2. CASE f.kind = "SF"
  BY <1>2, RxSubDealWithSFOK DEF RxIndication
<1>3. CASE f.kind = "FF"
  BY <1>3, RxSubDealWithFFOK DEF RxIndication
<1>4. CASE f.kind = "CF"
  BY <1>4, RxSubDealWithCFOK DEF RxIndication
<1>5. CASE f.kind = "FC"
  BY <1>5, RxSubDealWithFCOK DEF RxIndication
<1>6. QED
  BY <1>1, <1>2, <1>3, <1>4, <1>5

LEMMA TxConfirmationOK ==
  ASSUME NEW s, Good(s), s.out # NoFrame, NEW result \in Results
  PROVE  Good(TxConfirmation([s EXCEPT !.out = NoFrame], result))
<1> DEFINE y == [s EXCEPT !.out = NoFrame]
           t == [y EXCEPT !.dir = "IDLE"]
           z == TxConfirmation(y, result)
<1>1. s \in NodeType /\ TxOK(s.tx, s.up) /\ RxOK(s.rx) /\ OccupantOwnsFrame(s)
  BY DEF Good
<1>2. /\ y \in NodeType /\ y.rx = s.rx /\ y.tx = s.tx /\ y.dir = s.dir /\ y.up = s.up
  BY <1>1 DEF NodeType
<1> HIDE DEF y
<1>3. /\ t \in NodeType /\ OccupantOwnsFrame(t) /\ t.dir = "IDLE"
      /\ t.rx = s.rx /\ t.tx = s.tx /\ t.up = s.up
  BY <1>2, ReleasedOK
<1>4. \/ y.dir = "TX" /\ result = "E_OK" /\ z = TxConfirmationTx(t)
      \/ y.dir = "TX" /\ result # "E_OK" /\ z = TxEnd(t, result)
      \/ y.dir = "RX" /\ result = "E_OK" /\ z = TxFCConfirmation(t)
      \/ y.dir = "RX" /\ result # "E_OK" /\ z = RxFail(t)
      \/ y.dir = "IDLE" /\ z = y
  <2>1. y.dir \in {"IDLE", "TX", "RX"}
    BY <1>2 DEF NodeType
  <2> HIDE DEF t
  <2>2. QED
    BY <2>1 DEF TxConfirmation, t
<1> HIDE DEF t, z
<1>5. Good(t)
  BY <1>1, <1>3 DEF Good
<1>6. ASSUME y.dir = "TX", z = TxEnd(t, result)
      PROVE  Good(z)
  <2>1. t.tx.state # "IDLE"
    BY <1>1, <1>2, <1>3, <1>6 DEF OccupantOwnsFrame, ConfirmationOf
  <2>2. Sending(t)
    BY <1>5, <2>1, GoodSends
  <2>3. t.up.pending = 1 /\ t.up.accepted <= Len(t.up.plan) /\ RxOK(t.rx) /\ t.dir # "TX"
    BY <1>3, <2>2 DEF Sending
  <2>4. Good(TxEnd(t, result))
    BY <1>3, <2>3, TxEndOK
  <2>5. QED
    BY <1>6, <2>4
<1>7. ASSUME y.dir = "IDLE", z = y
      PROVE  Good(z)
  <2>1. OccupantOwnsFrame(y)
    BY <1>7 DEF OccupantOwnsFrame
  <2>2. TxOK(y.tx, y.up) /\ RxOK(y.rx)
    BY <1>1, <1>2
  <2>3. Good(y)
    BY <1>2, <2>1, <2>2 DEF Good
  <2>4. QED
    BY <1>7, <2>3
<1>8. Good(z)
  <2>1. Good(TxConfirmationTx(t)) /\ Good(TxFCConfirmation(t)) /\ Good(RxFail(t))
    BY <1>3, <1>5, TxConfirmationTxOK, TxFCConfirmationOK, RxFailOK, GoodIs
  <2>2. QED
    BY <1>4, <1>6, <1>7, <2>1
<1>9. QED
  BY <1>8 DEF z, y

-----------------------------------------------------------------------------
(* The steps of the nodes *)

LEMMA GoodNodes ==
  CanTpInvariant <=> /\ node \in [Nodes -> NodeType]
                     /\ carried \in [Nodes -> Nat]
                     /\ turn \in Nodes \X {"rx", "tx"}
                     /\ \A n \in Nodes : Good(node[n])
BY NodeOKIs DEF CanTpInvariant, TypeOK, Good

LEMMA OneNode ==
  ASSUME CanTpInvariant, NEW n \in Nodes, NEW z, Good(z), node' = [node EXCEPT ![n] = z],
         carried' \in [Nodes -> Nat], turn' \in Nodes \X {"rx", "tx"}
  PROVE  CanTpInvariant'
<1>1. node' \in [Nodes -> NodeType]
  BY GoodNodes DEF Good
<1>2. \A m \in Nodes : Good(node'[m])
  BY GoodNodes
<1>3. QED
  BY <1>1, <1>2, NodeOKIs DEF CanTpInvariant, TypeOK, Good

LEMMA PeerIs ==
  ASSUME NEW n \in Nodes
  PROVE  Peer(n) \in Nodes /\ Peer(n) # n
<1>1. PICK a \in Nodes, b \in Nodes : a # b /\ Nodes = {a, b}
  BY CanTpConstants
<1>2. \E p \in Nodes : p # n
  BY <1>1
<1>3. QED
  BY <1>2 DEF Peer

LEMMA InitOK == Init => CanTpInvariant
<1> SUFFICES ASSUME Init
             PROVE  CanTpInvariant
  OBVIOUS
<1>1. PICK plan \in Plans :
        node = [n \in Nodes |->
                  [rx |-> IdleRx, tx |-> IdleTx, dir |-> "IDLE", out |-> NoFrame,
                   up |-> [plan |-> plan[n], accepted |-> 0, pending |-> 0, result |-> "E_OK",
                           receiving |-> FALSE, pieces |-> <<>>, delivered |-> <<>>]]]
  BY DEF Init
<1>2. ASSUME NEW n \in Nodes
      PROVE  Good(node[n])
  <2> DEFINE s == node[n]
             up == [plan |-> plan[n], accepted |-> 0, pending |-> 0, result |-> "E_OK",
                    receiving |-> FALSE, pieces |-> <<>>, delivered |-> <<>>]
  <2>1. s = [rx |-> IdleRx, tx |-> IdleTx, dir |-> "IDLE", out |-> NoFrame, up |-> up]
    BY <1>1
  <2>2. plan[n] \in Seq(Nat)
    BY CanTpConstants
  <2>3. up \in UpType /\ up.accepted = 0 /\ up.pending = 0 /\ up.plan = plan[n]
    <3>1. <<>> \in Seq(Pieces)
      OBVIOUS
    <3>2. QED
      BY <2>2, <3>1 DEF UpType, Results
  <2> HIDE DEF up, s
  <2>4. /\ s \in NodeType /\ s.rx = IdleRx /\ s.tx = IdleTx /\ s.up = up /\ s.dir = "IDLE"
    BY <2>1, <2>3, IdleRecords DEF NodeType
  <2>5. TxOK(s.tx, s.up)
    BY <2>2, <2>3, <2>4 DEF TxOK, IdleTx
  <2>6. OccupantOwnsFrame(s)
    BY <2>4 DEF OccupantOwnsFrame
  <2>7. Good(s)
    BY <2>4, <2>5, <2>6, IdleRecords DEF Good
  <2>8. QED
    BY <2>7 DEF s
<1>3. node \in [Nodes -> NodeType]
  <2>1. \A n \in Nodes : node[n] \in NodeType
    BY <1>2 DEF Good
  <2>2. QED
    BY <1>1, <2>1
<1>4. carried \in [Nodes -> Nat] /\ turn \in Nodes \X {"rx", "tx"}
  BY DEF Init
<1>5. QED
  BY <1>2, <1>3, <1>4, GoodNodes

LEMMA TransmitStep ==
  ASSUME CanTpInvariant, NEW n \in Nodes, Transmit(n)
  PROVE  CanTpInvariant'
<1> DEFINE s == node[n]
           u == s.up
           total == u.plan[u.accepted + 1]
           up == [u EXCEPT !.accepted = u.accepted + 1, !.pending = u.pending + 1]
           x == [IdleTx EXCEPT !.state = IF total = 0 THEN "TRANSMIT_SF" ELSE "TRANSMIT_FF",
                               !.timer = N_Cs, !.total = total, !.remain = total]
           z == [s EXCEPT !.up = up, !.tx = x]
<1>1. /\ Good(s) /\ s \in NodeType /\ u \in UpType /\ TxOK(s.tx, u) /\ RxOK(s.rx) /\ OccupantOwnsFrame(s)
      /\ s.tx.state = "IDLE" /\ u.accepted < Len(u.plan)
  BY GoodNodes, Fields DEF Good, Transmit
<1>2. u.plan \in Seq(Nat) /\ u.accepted \in Nat /\ u.pending \in {0, 1}
  BY <1>1 DEF UpType
<1>3. u.accepted + 1 \in 1 .. Len(u.plan) /\ total \in Nat
  <2> HIDE DEF u
  <2>1. u.accepted + 1 \in 1 .. Len(u.plan)
    BY <1>1, <1>2
  <2>2. QED
    BY <1>2, <2>1
<1>4. u.pending = 0
  BY <1>1, <1>2 DEF TxOK
<1>5. s.dir # "TX"
  BY <1>1 DEF OccupantOwnsFrame, ConfirmationOf
<1>6. node' = [node EXCEPT ![n] = z]
  BY <1>1 DEF Transmit, NodeType, UpType
<1> HIDE DEF total
<1>7. /\ x \in TxType /\ x.state \in {"TRANSMIT_SF", "TRANSMIT_FF"} /\ (total = 0 => x.state = "TRANSMIT_SF")
      /\ x.timer = N_Cs /\ x.total = total /\ x.remain = total
  <2> DEFINE state == IF total = 0 THEN "TRANSMIT_SF" ELSE "TRANSMIT_FF"
  <2>1. state \in TxStates /\ state \in {"TRANSMIT_SF", "TRANSMIT_FF"} /\ (total = 0 => state = "TRANSMIT_SF")
    BY DEF TxStates, Transmitting
  <2>2. N_Cs \in Nat
    BY Constants
  <2> HIDE DEF state
  <2>3. \A t \in TxType :
          LET y == [t EXCEPT !.state = state, !.timer = N_Cs, !.total = total, !.remain = total]
          IN  y \in TxType /\ y.state = state /\ y.timer = N_Cs /\ y.total = total /\ y.remain = total
    BY <1>3, <2>1, <2>2 DEF TxType
  <2>4. x = [IdleTx EXCEPT !.state = state, !.timer = N_Cs, !.total = total, !.remain = total]
    BY DEF state
  <2> HIDE DEF x
  <2>5. QED
    BY <2>1, <2>3, <2>4, IdleRecords
<1> HIDE DEF u, x
<1>8. up \in UpType /\ up.accepted = u.accepted + 1 /\ up.plan = u.plan /\ up.pending = 1
  <2>1. up = [u EXCEPT !.accepted = u.accepted + 1, !.pending = 1]
    BY <1>4
  <2>2. u.accepted + 1 \in Nat
    BY <1>2
  <2>3. QED
    BY <1>1, <2>1, <2>2 DEF UpType
<1> HIDE DEF up, s
<1>9. z \in NodeType /\ z.tx = x /\ z.up = up /\ z.rx = s.rx /\ z.dir = s.dir /\ z.out = s.out
  BY <1>1, <1>7, <1>8 DEF NodeType
<1> HIDE DEF z
<1>10. TxOK(x, up)
  <2>1. up.accepted <= Len(up.plan)
    BY <1>2, <1>3, <1>8
  <2>2. x.remain <= x.total /\ (x.state # "TRANSMIT_SF" => x.remain > 0) /\ x.state # "IDLE"
    BY <1>3, <1>7
  <2>3. x.timer > 0
    BY <1>7, Constants
  <2>4. QED
    BY <1>7, <1>8, <2>1, <2>2, <2>3 DEF TxOK
<1>11. OccupantOwnsFrame(z)
  BY <1>1, <1>5, <1>9 DEF OccupantOwnsFrame
<1>12. Good(z)
  BY <1>1, <1>9, <1>10, <1>11 DEF Good
<1>13. QED
  BY <1>6, <1>12, OneNode, GoodNodes DEF Transmit

LEMMA CancelTransmitStep ==
  ASSUME CanTpInvariant, NEW n \in Nodes, CancelTransmit(n)
  PROVE  CanTpInvariant'
<1> DEFINE s == node[n]
           d == [s EXCEPT !.dir = IF @ = "TX" THEN "IDLE" ELSE @]
           z == TxEnd(d, "E_NOT_OK")
<1>1. Good(s) /\ s \in NodeType /\ s.tx.state # "IDLE" /\ Sending(s)
  BY GoodNodes, GoodSends DEF Good, CancelTransmit
<1>2. node' = [node EXCEPT ![n] = z] /\ UNCHANGED <<carried, turn>>
  BY DEF CancelTransmit
<1> HIDE DEF s
<1>3. Good(z)
  <2>1. CASE s.dir = "TX"
    <3>1. d = [s EXCEPT !.dir = "IDLE"]
      BY <1>1, <2>1 DEF NodeType
    <3>2. QED
      BY <1>1, <3>1, TxGivesBack DEF Results
  <2>2. CASE s.dir # "TX"
    <3>1. d = s
      BY <1>1, <2>2 DEF NodeType
    <3>2. QED
      BY <1>1, <2>2, <3>1, TxEndOK DEF Results, Sending
  <2>3. QED
    BY <2>1, <2>2
<1> HIDE DEF z
<1>4. QED
  BY <1>2, <1>3, OneNode, GoodNodes

LEMMA CancelReceiveStep ==
  ASSUME CanTpInvariant, NEW n \in Nodes, CancelReceive(n)
  PROVE  CanTpInvariant'
<1>1. Good(RxFail(node[n]))
  BY GoodNodes, GoodIs, RxFailOK
<1>2. QED
  BY <1>1, OneNode, GoodNodes DEF CancelReceive

LEMMA MainFunctionStep ==
  ASSUME CanTpInvariant, NEW n \in Nodes, MainFunction(n)
  PROVE  CanTpInvariant'
<1>1. CASE MainFunctionRx(n)
  <2>1. PICK z \in HandleRxChannels(node[n]) : node' = [node EXCEPT ![n] = z]
    BY <1>1 DEF MainFunctionRx
  <2>2. Good(z)
    BY GoodNodes, HandleRxChannelsOK
  <2>3. carried' \in [Nodes -> Nat] /\ turn' \in Nodes \X {"rx", "tx"}
    BY <1>1, GoodNodes DEF MainFunctionRx
  <2>4. QED
    BY <2>1, <2>2, <2>3, OneNode
<1>2. CASE MainFunctionTx(n)
  <2>1. PICK z \in HandleTxChannels(node[n]) : node' = [node EXCEPT ![n] = z]
    BY <1>2 DEF MainFunctionTx
  <2>2. Good(z)
    BY GoodNodes, HandleTxChannelsOK
  <2>3. carried' \in [Nodes -> Nat] /\ turn' \in Nodes \X {"rx", "tx"}
    BY <1>2, GoodNodes, PeerIs DEF MainFunctionTx
  <2>4. QED
    BY <2>1, <2>2, <2>3, OneNode
<1>3. QED
  BY <1>1, <1>2 DEF MainFunction

LEMMA SendStep ==
  ASSUME CanTpInvariant, NEW n \in Nodes, Send(n)
  PROVE  CanTpInvariant'
<1> DEFINE s == node[n]
           p == Peer(n)
           f == s.out.frame
           out == [s.out EXCEPT !.sent = TRUE]
           z == [s EXCEPT !.out = out]
<1>1. PICK r \in RxIndication(node[p], f) \cup (IF f.kind \in Missed THEN {node[p]} ELSE {}) :
        node' = [node EXCEPT ![n].out.sent = TRUE, ![p] = r]
  BY DEF Send
<1>2. /\ Good(s) /\ s \in NodeType /\ p \in Nodes /\ p # n /\ Good(node[p]) /\ node \in [Nodes -> NodeType]
      /\ s.out # NoFrame /\ s.out \in [sent : BOOLEAN, frame : Frames] /\ f \in Frames
  BY GoodNodes, PeerIs, Fields DEF Good, Send
<1>3. Good(r)
  BY <1>1, <1>2, RxIndicationOK
<1>4. out \in [sent : BOOLEAN, frame : Frames] /\ out.frame = f /\ out # NoFrame
  <2>1. out \in [sent : BOOLEAN, frame : Frames] /\ out.frame = f
    BY <1>2
  <2>2. f.kind # "none"
    BY <1>2, FrameFields
  <2>3. QED
    BY <2>1, <2>2 DEF NoFrame
<1>5. /\ z \in NodeType /\ z.rx = s.rx /\ z.tx = s.tx /\ z.dir = s.dir /\ z.up = s.up /\ z.out = out
  <2> HIDE DEF out, s
  <2>1. QED
    BY <1>2, <1>4 DEF NodeType
<1>6. OccupantOwnsFrame(z)
  <2>1. OccupantOwnsFrame(s)
    BY <1>2 DEF Good
  <2> HIDE DEF z, out
  <2>2. QED
    BY <1>4, <1>5, <2>1 DEF OccupantOwnsFrame
<1>7. Good(z)
  <2> HIDE DEF z
  <2>1. QED
    BY <1>2, <1>5, <1>6 DEF Good
<1>8. node' = [node EXCEPT ![n] = z, ![p] = r]
  BY <1>1, <1>2 DEF NodeType
<1> HIDE DEF z, s, f
<1>9. node' \in [Nodes -> NodeType] /\ \A m \in Nodes : Good(node'[m])
  BY <1>2, <1>3, <1>7, <1>8, GoodNodes DEF Good
<1>10. carried' \in [Nodes -> Nat]
  <2>1. carried \in [Nodes -> Nat] /\ carried' = CarriedWith(n)
    BY GoodNodes DEF Send
  <2>2. f.kind \in {"SF", "CF"} => f.piece[1] \in Nat
    BY <1>2, FrameFields DEF Pieces
  <2>3. QED
    BY <2>1, <2>2 DEF CarriedWith, f, s
<1>11. turn' \in Nodes \X {"rx", "tx"}
  BY GoodNodes DEF Send
<1>12. QED
  BY <1>9, <1>10, <1>11, NodeOKIs DEF CanTpInvariant, TypeOK, Good

LEMMA ConfirmStep ==
  ASSUME CanTpInvariant, NEW n \in Nodes, Confirm(n) \/ ConfirmNegative(n)
  PROVE  CanTpInvariant'
<1> DEFINE s == node[n]
<1>1. Good(s)
  BY GoodNodes
<1>2. s.out # NoFrame
  BY DEF Confirm, ConfirmNegative, NoFrame
<1>3. PICK result \in Results : node' = [node EXCEPT ![n] = TxConfirmation([s EXCEPT !.out = NoFrame], result)]
  BY DEF Confirm, ConfirmNegative, Results
<1>4. UNCHANGED <<carried, turn>>
  BY DEF Confirm, ConfirmNegative
<1> HIDE DEF s
<1>5. Good(TxConfirmation([s EXCEPT !.out = NoFrame], result))
  BY <1>1, <1>2, TxConfirmationOK
<1>6. QED
  BY <1>3, <1>4, <1>5, OneNode, GoodNodes

-----------------------------------------------------------------------------
(* The theorem *)

\* On both nodes the counts, the timers, the occupant of the N-PDU and the frame that CanIf has
\* agree: a confirmation reaches the connection whose frame it confirms, in the state that waits for
\* it (CanTp_TxConfirmation), what waits has a timer that runs, no count falls below zero, and no
\* more wait frames are asked for than are allowed.
THEOREM CanTpStaysConsistent == Spec => []CanTpInvariant
<1>1. CanTpInvariant /\ [Next]_vars => CanTpInvariant'
  <2> SUFFICES ASSUME CanTpInvariant, [Next]_vars
               PROVE  CanTpInvariant'
    OBVIOUS
  <2>1. ASSUME NEW n \in Nodes,
               \/ Transmit(n) \/ CancelTransmit(n) \/ CancelReceive(n)
               \/ MainFunction(n) \/ Send(n) \/ Confirm(n) \/ ConfirmNegative(n)
        PROVE  CanTpInvariant'
    BY <2>1, TransmitStep, CancelTransmitStep, CancelReceiveStep, MainFunctionStep, SendStep, ConfirmStep
  <2>2. CASE UNCHANGED vars
    BY <2>2 DEF vars, CanTpInvariant, TypeOK, NodeOK, CountsAgree, TimersRun, OccupantOwnsFrame
  <2>3. QED
    BY <2>1, <2>2 DEF Next
<1>2. QED
  BY <1>1, InitOK, PTL DEF Spec

-----------------------------------------------------------------------------
(* The invariant of the refinement *)

\* The message that a sequence of pieces begins with, 0 for none
Message(pieces) == IF pieces = <<>> THEN 0 ELSE pieces[1][1]

\* The message frame that CanIf has not sent yet
Unsent(s) == s.out # NoFrame /\ ~ s.out.sent /\ s.out.frame.kind # "FC"

\* The first frame of the last message is out.
Opened(s) ==
  \/ s.tx.state \in {"WAIT_RECEIVE_FC", "WAIT_CF_STMIN", "TRANSMIT_CF", "WAIT_CFCONF"}
  \/ s.tx.state = "WAIT_FFCONF" /\ s.dir = "TX" /\ s.out.sent

\* What a frame says of its message
FrameOK(s, f) ==
  /\ f.kind \in {"SF", "FF", "CF"} /\ f.piece[1] \in 1 .. s.up.accepted
  /\ f.kind = "SF" => s.up.plan[f.piece[1]] = 0
  /\ f.kind \in {"SF", "FF"} => f.piece[2] = 0
  /\ f.kind = "FF" => f.total = s.up.plan[f.piece[1]]
  /\ f.kind = "CF" => f.piece[2] <= s.up.plan[f.piece[1]] /\ (f.last <=> f.piece[2] = s.up.plan[f.piece[1]])

\* s sends, and done is the last message of s whose last frame is out: what s has yet to send is of a
\* later one.
SenderOK(s, done) ==
  /\ done <= s.up.accepted
  /\ s.tx.state # "IDLE" => s.up.accepted > 0 /\ s.tx.total = s.up.plan[s.up.accepted]
  /\ s.tx.state \in {"TRANSMIT_SF", "TRANSMIT_FF", "WAIT_FFCONF"} => s.tx.remain = s.tx.total
  /\ s.tx.state \in {"TRANSMIT_SF", "WAIT_SFCONF"} => s.tx.total = 0 /\ s.tx.remain = 0
  /\ s.tx.state = "TRANSMIT_SF" => done < s.up.accepted
  /\ s.tx.state # "IDLE" /\ s.tx.remain > 0 => done < s.up.accepted
  /\ s.dir = "TX" /\ s.out.sent /\ s.tx.remain = 0 => done = s.up.accepted
  /\ Unsent(s) =>
       LET f == s.out.frame IN
       /\ FrameOK(s, f) /\ done < f.piece[1]
       /\ s.tx.state \in {"TRANSMIT_SF", "TRANSMIT_FF"} => f.piece[1] < s.up.accepted
       /\ s.tx.state \notin {"IDLE", "TRANSMIT_SF", "TRANSMIT_FF"} =>
            f.piece = <<s.up.accepted, s.tx.total - s.tx.remain>> /\ s.tx.state = ConfirmationOf[f.kind]

\* The pieces of a reception are of one message and rise from its first.
Rising(pieces) ==
  /\ pieces[1][2] = 0
  /\ \A i \in 1 .. Len(pieces) : pieces[i][1] = pieces[1][1]
  /\ \A i, j \in 1 .. Len(pieces) : i <= j => pieces[j][2] - pieces[i][2] >= j - i

\* Nothing, or a message with all its pieces
Whole(plan, pieces) ==
  \/ pieces = <<>>
  \/ pieces = [i \in 1 .. plan[pieces[1][1]] + 1 |-> <<pieces[1][1], i - 1>>]

\* A reception has pieces, but for one that is refused because there is no room for it.
FlowOK(r) ==
  /\ r.up.pieces = <<>> <=> r.rx.state = "IDLE" \/ r.rx.fs = "OVFL"
  /\ r.rx.fs = "OVFL" => r.rx.state \in {"TRANSMIT_FC", "WAIT_FCCONF"}

\* r receives from s pieces of a message that was not given to the upper layer yet, expects as many
\* more as the message has, and has them all only when the message is out.
ReceiverOK(s, r, done) ==
  LET pieces == r.up.pieces
      m == Message(pieces) IN
  /\ FlowOK(r)
  /\ Whole(s.up.plan, r.up.delivered) /\ Message(r.up.delivered) <= done
  /\ pieces # <<>> =>
       /\ m \in 1 .. s.up.accepted /\ m > Message(r.up.delivered)
       /\ Rising(pieces) /\ pieces[Len(pieces)][2] <= s.up.plan[m]
       /\ ~ r.rx.notify => r.rx.remain = s.up.plan[m] + 1 - Len(pieces)
       /\ r.rx.notify => Len(pieces) = s.up.plan[m] + 1 /\ m <= done

\* What s has yet to send comes after what r has.
InOrder(s, r) ==
  LET pieces == r.up.pieces
      m == Message(pieces)
      f == s.out.frame IN
  pieces # <<>> =>
    /\ s.tx.state \in {"TRANSMIT_SF", "TRANSMIT_FF"} => m < s.up.accepted
    /\ Opened(s) => m = s.up.accepted /\ pieces[Len(pieces)][2] <= s.tx.total - s.tx.remain
    /\ Unsent(s) =>
         IF f.kind = "CF" THEN m = f.piece[1] /\ pieces[Len(pieces)][2] < f.piece[2] ELSE m < f.piece[1]

\* What relates a sender to its receiver
PairOK(s, r, done) == SenderOK(s, done) /\ ReceiverOK(s, r, done) /\ InOrder(s, r)

\* The inductive invariant of the refinement
IInv == CanTpInvariant /\ \A n \in Nodes : PairOK(node[n], node[Peer(n)], carried[n])

LEMMA PieceIs ==
  ASSUME NEW pieces \in Seq(Pieces), NEW i \in 1 .. Len(pieces)
  PROVE  pieces[i] \in Pieces /\ pieces[i] = <<pieces[i][1], pieces[i][2]>> /\ pieces[i][1] \in Nat /\ pieces[i][2] \in Nat
BY DEF Pieces

LEMMA EndsOf ==
  ASSUME NEW pieces \in Seq(Pieces), pieces # <<>>
  PROVE  /\ Len(pieces) \in Nat \ {0} /\ 1 \in 1 .. Len(pieces) /\ Len(pieces) \in 1 .. Len(pieces)
         /\ pieces[Len(pieces)][2] \in Nat /\ Message(pieces) = pieces[1][1] /\ Message(pieces) \in Nat
<1>1. Len(pieces) \in Nat \ {0} /\ 1 \in 1 .. Len(pieces) /\ Len(pieces) \in 1 .. Len(pieces)
  OBVIOUS
<1>2. QED
  BY <1>1, PieceIs DEF Message

-----------------------------------------------------------------------------
(* The connection that sends *)

\* What the peer is to receive from s
SendsTo(s, r, done) == SenderOK(s, done) /\ InOrder(s, r)

SameMessage(s, t) == t.up.plan = s.up.plan /\ t.up.accepted = s.up.accepted

\* No frame of a message comes to CanIf, and the N-PDU stays or is given back.
KeepsOut(s, t) ==
  \/ t.out = s.out /\ (t.dir = "TX" => s.dir = "TX")
  \/ t.dir # "TX" /\ ~ Unsent(t)

\* What is received, and what the upper layer has of it
KeepsRx(s, t) == t.rx = s.rx /\ t.up.pieces = s.up.pieces /\ t.up.delivered = s.up.delivered

KeepsTold(s, t) == t.up.pending = s.up.pending /\ t.up.result = s.up.result

\* The frames that s has yet to send are as they were, or there is none.
LEMMA UnsentKept ==
  ASSUME NEW s, NEW t, KeepsOut(s, t), Unsent(t)
  PROVE  Unsent(s) /\ t.out = s.out
BY DEF KeepsOut, Unsent

\* A connection ends.
LEMMA EndKeeps ==
  ASSUME NEW s, NEW t, NEW r, NEW done, SendsTo(s, r, done), SameMessage(s, t), KeepsOut(s, t),
         t.tx = IdleTx, t.dir # "TX"
  PROVE  SendsTo(t, r, done)
<1>1. t.tx.state = "IDLE"
  BY DEF IdleTx
<1>2. Unsent(t) => Unsent(s) /\ t.out.frame = s.out.frame
  BY UnsentKept
<1>3. SenderOK(t, done)
  BY <1>1, <1>2 DEF SendsTo, SenderOK, SameMessage, FrameOK
<1>4. InOrder(t, r)
  BY <1>1, <1>2 DEF SendsTo, InOrder, Opened
<1>5. QED
  BY <1>3, <1>4 DEF SendsTo

Between == {"WAIT_RECEIVE_FC", "WAIT_CF_STMIN", "TRANSMIT_CF"}

\* A connection goes on between two frames, or only its timer does.
LEMMA MoveKeeps ==
  ASSUME NEW s, NEW t, NEW r, NEW done, SendsTo(s, r, done), SameMessage(s, t), KeepsOut(s, t),
         t.tx.total = s.tx.total, t.tx.remain = s.tx.remain,
         \/ t.tx.state = s.tx.state
         \/ t.tx.state \in Between /\ Opened(s) /\ (s.tx.state \in Between \/ ~ Unsent(t)) /\ t.dir # "TX"
  PROVE  SendsTo(t, r, done)
<1>1. Unsent(t) => Unsent(s) /\ t.out.frame = s.out.frame
  BY UnsentKept
<1>2. CASE t.tx.state = s.tx.state
  <2>1. Opened(t) => Opened(s)
    BY <1>2 DEF Opened, KeepsOut, Unsent, NoFrame
  <2>2. t.dir = "TX" /\ t.out.sent => s.dir = "TX" /\ s.out.sent
    BY DEF KeepsOut
  <2>3. SenderOK(t, done)
    BY <1>1, <1>2, <2>2 DEF SendsTo, SenderOK, SameMessage, FrameOK
  <2>4. InOrder(t, r)
    BY <1>1, <1>2, <2>1 DEF SendsTo, InOrder, SameMessage
  <2>5. QED
    BY <2>3, <2>4 DEF SendsTo
<1>3. CASE t.tx.state \in Between /\ Opened(s) /\ (s.tx.state \in Between \/ ~ Unsent(t)) /\ t.dir # "TX"
  <2>1. ~ Unsent(t)
    <3>1. s.tx.state \in Between => ~ Unsent(s)
      <4>1. ASSUME s.tx.state \in Between, Unsent(s)
            PROVE  FALSE
        <5>1. s.tx.state = ConfirmationOf[s.out.frame.kind] /\ s.out.frame.kind \in {"SF", "FF", "CF"}
          BY <4>1 DEF SendsTo, SenderOK, FrameOK, Between
        <5>2. QED
          BY <4>1, <5>1 DEF ConfirmationOf, Between
      <4>2. QED
        BY <4>1
    <3>2. QED
      BY <1>1, <1>3, <3>1
  <2>2. s.tx.state # "IDLE"
    BY <1>3 DEF Opened
  <2>3. SenderOK(t, done)
    BY <1>3, <2>1, <2>2 DEF SendsTo, SenderOK, SameMessage, Between
  <2>4. InOrder(t, r)
    BY <1>3, <2>1 DEF SendsTo, InOrder, SameMessage, Between
  <2>5. QED
    BY <2>3, <2>4 DEF SendsTo
<1>4. QED
  BY <1>2, <1>3

\* A frame of the message is made and CanIf takes it.
LEMMA ConstructKeeps ==
  ASSUME NEW s, Sending(s), s.tx.state \in Transmitting, s.tx.state # "TRANSMIT_SF" => s.tx.remain > 0,
         NEW r, r.up.pieces \in Seq(Pieces), NEW done, SendsTo(s, r, done), s.out = NoFrame,
         NEW t, SameMessage(s, t), t.dir = "TX", t.tx = TxConstructPCI(s).tx,
         t.out = [sent |-> FALSE, frame |-> TxConstructPCI(s).frame]
  PROVE  SendsTo(t, r, done)
<1> DEFINE c == TxConstructPCI(s)
           x == s.tx
           a == s.up.accepted
           piece == <<a, x.total - x.remain>>
<1>1. x \in TxType /\ s.up \in UpType
  BY Fields DEF Sending
<1>2. x.total \in Nat /\ x.remain \in Nat /\ a \in Nat /\ x.remain <= x.total
  BY <1>1 DEF TxType, UpType, Sending
<1>3. /\ SenderOK(s, done) /\ InOrder(s, r) /\ ~ Unsent(s)
      /\ t.up.plan = s.up.plan /\ t.up.accepted = a
  BY DEF SendsTo, Unsent, SameMessage
<1>4. /\ done <= a /\ a > 0 /\ x.total = s.up.plan[a]
      /\ x.state \in {"TRANSMIT_SF", "TRANSMIT_FF"} => x.remain = x.total
      /\ x.state = "TRANSMIT_SF" => x.total = 0 /\ done < a
      /\ x.remain > 0 => done < a
  BY <1>3 DEF SenderOK, Transmitting
<1>5. done < a
  BY <1>4
<1>6. ~ t.out.sent /\ t.out.frame = c.frame /\ t.tx = c.tx
  BY DEF c
<1>7. CASE x.state = "TRANSMIT_SF"
  <2>1. /\ c.tx = [x EXCEPT !.state = "WAIT_SFCONF", !.timer = N_As]
        /\ c.frame = [kind |-> "SF", piece |-> piece]
    BY <1>7 DEF TxConstructPCI
  <2> HIDE DEF c, x
  <2>2. c.tx.total = x.total /\ c.tx.remain = x.remain /\ c.tx.state = "WAIT_SFCONF"
    BY <1>1, <2>1 DEF TxType
  <2>3. c.frame.kind = "SF" /\ c.frame.piece = <<a, 0>>
    BY <1>2, <1>4, <1>7, <2>1
  <2>4. SenderOK(t, done)
    <3>1. FrameOK(t, c.frame)
      BY <1>2, <1>3, <1>4, <1>7, <2>3 DEF FrameOK
    <3>2. c.frame.piece[1] = a /\ c.frame.piece = <<a, c.tx.total - c.tx.remain>>
      BY <1>2, <1>4, <1>7, <2>2, <2>3
    <3>3. QED
      BY <1>2, <1>3, <1>4, <1>5, <1>6, <1>7, <2>2, <2>3, <3>1, <3>2 DEF SenderOK, ConfirmationOf, Unsent
  <2>5. InOrder(t, r)
    <3>1. ~ Opened(t)
      BY <1>6, <2>2 DEF Opened
    <3>2. r.up.pieces # <<>> => Message(r.up.pieces) < a
      BY <1>3, <1>7 DEF InOrder, x
    <3>3. QED
      BY <1>6, <2>2, <2>3, <3>1, <3>2 DEF InOrder
  <2>6. QED
    BY <2>4, <2>5 DEF SendsTo
<1>8. CASE x.state = "TRANSMIT_FF"
  <2>1. /\ c.tx = [x EXCEPT !.state = "WAIT_FFCONF", !.timer = N_As]
        /\ c.frame = [kind |-> "FF", piece |-> piece, total |-> x.total]
    BY <1>8 DEF TxConstructPCI
  <2>0. x.remain > 0
    BY <1>8
  <2> HIDE DEF c, x
  <2>2. c.tx.total = x.total /\ c.tx.remain = x.remain /\ c.tx.state = "WAIT_FFCONF"
    BY <1>1, <2>1 DEF TxType
  <2>3. c.frame.kind = "FF" /\ c.frame.piece = <<a, 0>> /\ c.frame.total = x.total
    BY <1>2, <1>4, <1>8, <2>1
  <2>4. SenderOK(t, done)
    <3>1. FrameOK(t, c.frame)
      BY <1>2, <1>3, <1>4, <1>8, <2>3 DEF FrameOK
    <3>2. c.frame.piece[1] = a /\ c.frame.piece = <<a, c.tx.total - c.tx.remain>>
      BY <1>2, <1>4, <1>8, <2>2, <2>3
    <3>3. QED
      BY <1>2, <1>3, <1>4, <1>5, <1>6, <1>8, <2>2, <2>3, <3>1, <3>2 DEF SenderOK, ConfirmationOf, Unsent
  <2>5. InOrder(t, r)
    <3>1. ~ Opened(t)
      BY <1>6, <2>2 DEF Opened
    <3>2. r.up.pieces # <<>> => Message(r.up.pieces) < a
      BY <1>3, <1>8 DEF InOrder, x
    <3>3. QED
      BY <1>6, <2>2, <2>3, <3>1, <3>2 DEF InOrder
  <2>6. QED
    BY <2>4, <2>5 DEF SendsTo
<1>9. CASE x.state = "TRANSMIT_CF"
  <2> DEFINE sn == IF x.sn > CANTP_MAX_SEQUENC_NUMBER THEN 0 ELSE x.sn
  <2>1. /\ c.tx = [x EXCEPT !.state = "WAIT_CFCONF", !.timer = N_As, !.sn = sn, !.remain = @ - 1]
        /\ c.frame = [kind |-> "CF", piece |-> <<piece[1], piece[2] + 1>>, sn |-> sn, last |-> x.remain = 1]
    BY <1>9 DEF TxConstructPCI
  <2>0. x.remain > 0
    BY <1>9
  <2>a. piece[1] = a /\ piece[2] + 1 = x.total - (x.remain - 1)
    BY <1>2
  <2>b. Opened(s)
    BY <1>9 DEF Opened
  <2> HIDE DEF c, x, piece, sn
  <2>2. c.tx.total = x.total /\ c.tx.remain = x.remain - 1 /\ c.tx.state = "WAIT_CFCONF"
    BY <1>1, <2>1 DEF TxType
  <2>3. c.frame.kind = "CF" /\ c.frame.piece = <<a, x.total - (x.remain - 1)>>
    BY <2>1, <2>a
  <2>c. c.frame.last <=> x.remain = 1
    <3>1. ASSUME NEW k, NEW p, NEW n, NEW b
          PROVE  [kind |-> k, piece |-> p, sn |-> n, last |-> b].last = b
      OBVIOUS
    <3>2. [kind |-> "CF", piece |-> <<piece[1], piece[2] + 1>>, sn |-> sn, last |-> x.remain = 1].last = (x.remain = 1)
      BY <3>1
    <3>3. QED
      BY <2>1, <3>2
  <2>4. SenderOK(t, done)
    <3>1. FrameOK(t, c.frame)
      BY <1>2, <1>3, <1>4, <2>0, <2>3, <2>c DEF FrameOK
    <3>2. c.frame.piece[1] = a /\ c.frame.piece = <<a, c.tx.total - c.tx.remain>>
      BY <2>2, <2>3
    <3>3. QED
      BY <1>2, <1>3, <1>4, <1>5, <1>6, <2>2, <2>3, <3>1, <3>2 DEF SenderOK, ConfirmationOf, Unsent
  <2>5. InOrder(t, r)
    <3>1. r.up.pieces # <<>> => /\ Message(r.up.pieces) = a
                                /\ r.up.pieces[Len(r.up.pieces)][2] <= x.total - x.remain
      BY <1>3, <2>b DEF InOrder, x
    <3> DEFINE pieces == r.up.pieces
               place == pieces[Len(pieces)][2]
               f == c.frame
    <3>2. ASSUME pieces # <<>>
          PROVE  place <= c.tx.total - c.tx.remain /\ place < f.piece[2] /\ f.piece[1] = a /\ f.kind = "CF"
      <4>1. place \in Nat
        BY <3>2, EndsOf
      <4>2. Message(pieces) = a /\ place <= x.total - x.remain
        BY <3>1, <3>2
      <4> HIDE DEF place, pieces
      <4>3. QED
        BY <1>2, <2>2, <2>3, <4>1, <4>2
    <3>3. QED
      BY <1>3, <1>6, <2>2, <3>1, <3>2 DEF InOrder
  <2>6. QED
    BY <2>4, <2>5 DEF SendsTo
<1>10. QED
  BY <1>7, <1>8, <1>9 DEF Transmitting

Fails(s, t) == s.up.pending = 1 /\ t.up.pending = 0 /\ t.up.result = "E_NOT_OK"

\* A step of the connection that sends, as it is told to the upper layer
Sends(s, t) == KeepsRx(s, t) /\ SameMessage(s, t) /\ (KeepsTold(s, t) \/ Fails(s, t))

LEMMA TxEndIs ==
  ASSUME NEW s \in NodeType, s.up.pending = 1, NEW result \in Results
  PROVE  LET z == TxEnd(s, result)
         IN  /\ KeepsRx(s, z) /\ SameMessage(s, z) /\ z.tx = IdleTx /\ z.dir = s.dir /\ z.out = s.out
             /\ z.up.pending = 0 /\ z.up.result = result
<1> DEFINE z == TxEnd(s, result)
           u == s.up
           up == [u EXCEPT !.pending = @ - 1, !.result = result]
<1>1. u \in UpType /\ u.pending = 1
  BY Fields
<1>2. z = [s EXCEPT !.tx = IdleTx, !.up = up]
  BY DEF TxEnd, NodeType, UpType
<1> HIDE DEF z, u
<1>3. /\ up.accepted = u.accepted /\ up.plan = u.plan /\ up.pieces = u.pieces /\ up.delivered = u.delivered
      /\ up.pending = 0 /\ up.result = result
  BY <1>1 DEF UpType
<1> HIDE DEF up
<1>4. z.rx = s.rx /\ z.tx = IdleTx /\ z.dir = s.dir /\ z.up = up /\ z.out = s.out
  BY <1>2 DEF NodeType
<1>5. QED
  BY <1>3, <1>4 DEF z, u, KeepsRx, SameMessage

\* A connection fails, and may give the N-PDU back.
LEMMA FailedEnd ==
  ASSUME NEW s, Sending(s), NEW r, NEW done, SendsTo(s, r, done), NEW z,
         \/ z = TxEnd([s EXCEPT !.dir = "IDLE"], "E_NOT_OK")
         \/ z = TxEnd(s, "E_NOT_OK") /\ s.dir # "TX"
  PROVE  Sends(s, z) /\ SendsTo(z, r, done)
<1>1. s \in NodeType /\ s.up.pending = 1
  BY DEF Sending
<1>0. PICK t : /\ z = TxEnd(t, "E_NOT_OK")
               /\ t = [s EXCEPT !.dir = "IDLE"] \/ (t = s /\ s.dir # "TX")
  OBVIOUS
<1>2. t \in NodeType /\ t.rx = s.rx /\ t.tx = s.tx /\ t.up = s.up /\ t.out = s.out /\ t.dir # "TX"
  BY <1>0, <1>1, ReleasedOK
<1>3. /\ KeepsRx(t, z) /\ SameMessage(t, z) /\ z.tx = IdleTx /\ z.dir = t.dir /\ z.out = t.out
      /\ z.up.pending = 0 /\ z.up.result = "E_NOT_OK"
  BY <1>0, <1>1, <1>2, TxEndIs DEF Results
<1>4. Sends(s, z)
  BY <1>1, <1>2, <1>3 DEF Sends, KeepsRx, SameMessage, Fails
<1>5. KeepsOut(s, z) /\ SameMessage(s, z) /\ z.dir # "TX"
  BY <1>2, <1>3 DEF KeepsOut, SameMessage
<1>6. QED
  BY <1>3, <1>4, <1>5, EndKeeps

LEMMA GetTxBufferSends ==
  ASSUME NEW s, Sending(s), s.tx.state \in Transmitting, s.tx.state # "TRANSMIT_SF" => s.tx.remain > 0,
         NEW r, r.up.pieces \in Seq(Pieces), NEW done, SendsTo(s, r, done), NEW z \in GetTxBuffer(s)
  PROVE  Sends(s, z) /\ SendsTo(z, r, done)
<1>1. s \in NodeType
  BY DEF Sending
<1>2. s.dir # "TX"
  BY <1>1 DEF Sending, OccupantOwnsFrame, ConfirmationOf, Transmitting
<1>3. CASE z = TxEnd(s, "E_NOT_OK")
  BY <1>2, <1>3, FailedEnd
<1>4. CASE s.dir = "IDLE" /\ z \in TxTransmit(s)
  <2> DEFINE c == TxConstructPCI(s)
             t == [s EXCEPT !.tx = c.tx, !.dir = "TX"]
  <2>1. CASE z = TxEnd([s EXCEPT !.dir = "IDLE"], "E_NOT_OK")
    BY <2>1, FailedEnd
  <2>2. CASE z \in CanIf_Transmit(t, c.frame)
    <3>1. c.tx \in TxType /\ c.frame \in Frames
      BY ConstructedFrame
    <3> HIDE DEF c
    <3>3. /\ t \in NodeType /\ t.rx = s.rx /\ t.tx = c.tx /\ t.dir = "TX" /\ t.up = s.up /\ t.out = s.out
      BY <1>1, <3>1 DEF NodeType
    <3>2. z = [t EXCEPT !.out = [sent |-> FALSE, frame |-> c.frame]] /\ s.out = NoFrame
      BY <2>2, <3>3 DEF CanIf_Transmit
    <3> HIDE DEF t
    <3>4. [sent |-> FALSE, frame |-> c.frame] \in [sent : BOOLEAN, frame : Frames]
      BY <3>1
    <3>5. /\ z \in NodeType /\ z.rx = s.rx /\ z.tx = c.tx /\ z.dir = "TX" /\ z.up = s.up
          /\ z.out = [sent |-> FALSE, frame |-> c.frame]
      BY <3>2, <3>3, <3>4 DEF NodeType
    <3>6. SameMessage(s, z) /\ KeepsRx(s, z) /\ KeepsTold(s, z)
      BY <3>5 DEF SameMessage, KeepsRx, KeepsTold
    <3>7. SendsTo(z, r, done)
      BY <3>2, <3>5, <3>6, ConstructKeeps DEF c
    <3>8. QED
      BY <3>6, <3>7 DEF Sends
  <2>3. QED
    BY <1>4, <2>1, <2>2 DEF TxTransmit
<1>5. QED
  BY <1>3, <1>4 DEF GetTxBuffer

\* The record of a node with another connection to send
LEMMA WithTx ==
  ASSUME NEW s \in NodeType, NEW x \in TxType
  PROVE  LET z == [s EXCEPT !.tx = x]
         IN  z \in NodeType /\ z.rx = s.rx /\ z.tx = x /\ z.dir = s.dir /\ z.up = s.up /\ z.out = s.out
BY DEF NodeType

LEMMA SendsOn ==
  ASSUME NEW s, NEW t, NEW z, t.rx = s.rx, t.up = s.up, Sends(t, z)
  PROVE  Sends(s, z)
BY DEF Sends, KeepsRx, SameMessage, KeepsTold, Fails

LEMMA HandleTxChannelsSends ==
  ASSUME NEW s, Good(s), NEW r, r.up.pieces \in Seq(Pieces), NEW done, SendsTo(s, r, done),
         NEW z \in HandleTxChannels(s)
  PROVE  Sends(s, z) /\ SendsTo(z, r, done)
<1> DEFINE x == s.tx
           stmin == IF x.stmin > 0 THEN x.stmin - 1 ELSE 0
           to == IF x.state = "WAIT_CF_STMIN" /\ stmin = 0 THEN "TRANSMIT_CF" ELSE x.state
           tx == [x EXCEPT !.timer = x.timer - 1, !.stmin = stmin, !.state = to]
           t == [s EXCEPT !.tx = tx]
<1>1. CASE x.state = "IDLE"
  BY <1>1 DEF HandleTxChannels, Sends, KeepsRx, SameMessage, KeepsTold
<1>2. CASE x.state # "IDLE"
  <2>1. s \in NodeType /\ x \in TxType /\ Sending(s) /\ TxOK(x, s.up)
    BY <1>2, GoodSends, Fields DEF Good
  <2>2. x.timer \in Nat \ {0} /\ x.stmin \in Nat /\ stmin \in Nat
    BY <1>2, <2>1 DEF TxOK, TxType
  <2>3. to \in TxStates
    BY <2>1 DEF TxType, TxStates, Transmitting
  <2> HIDE DEF stmin, to
  <2>5. \/ t.tx.timer = 0 /\ z \in HandleTxTimeoutProcess(t)
        \/ t.tx.timer # 0 /\ z \in {t} \cup (IF t.tx.state \in Transmitting THEN GetTxBuffer(t) ELSE {})
    BY <1>2 DEF HandleTxChannels, stmin, to
  <2>9. to # x.state => x.state = "WAIT_CF_STMIN" /\ to = "TRANSMIT_CF"
    BY DEF to
  <2> HIDE DEF x
  <2> HIDE DEF tx
  <2>7. /\ tx \in TxType /\ tx.state = to /\ tx.timer = x.timer - 1
        /\ tx.total = x.total /\ tx.remain = x.remain
    <3>1. x.timer - 1 \in Nat
      BY <2>2
    <3>2. QED
      BY <2>1, <2>2, <2>3, <3>1 DEF TxType, tx
  <2>8. /\ t \in NodeType /\ t.rx = s.rx /\ t.tx = tx /\ t.dir = s.dir /\ t.up = s.up /\ t.out = s.out
    BY <2>1, <2>7, WithTx
  <2> HIDE DEF t
  <2>11. s.dir = "TX" => x.state \in WaitingForConfirmation
    BY <2>1 DEF Sending, OccupantOwnsFrame, ConfirmationOf, WaitingForConfirmation, x
  <2>12. Sending(t)
    <3>1. s.dir = "TX" => to = x.state
      BY <2>9, <2>11 DEF WaitingForConfirmation
    <3>2. OccupantOwnsFrame(t)
      BY <2>1, <2>7, <2>8, <3>1 DEF Sending, OccupantOwnsFrame, x
    <3>3. QED
      BY <2>1, <2>7, <2>8, <3>2 DEF Sending, x
  <2>13. t.tx.state \in {"TRANSMIT_FF", "WAIT_FFCONF", "WAIT_RECEIVE_FC", "WAIT_CF_STMIN", "TRANSMIT_CF"} =>
           t.tx.remain > 0
    BY <2>1, <2>7, <2>8, <2>9 DEF TxOK
  <2>14. SendsTo(t, r, done)
    <3>1. SameMessage(s, t) /\ KeepsOut(s, t)
      BY <2>8 DEF SameMessage, KeepsOut
    <3>2. to # x.state => x.state \in Between /\ to \in Between /\ Opened(s) /\ t.dir # "TX"
      BY <2>8, <2>9, <2>11 DEF Between, Opened, x, WaitingForConfirmation
    <3>3. QED
      BY <2>7, <2>8, <3>1, <3>2, MoveKeeps DEF x
  <2>15. Sends(s, t)
    BY <2>8 DEF Sends, KeepsRx, SameMessage, KeepsTold
  <2>16. CASE t.tx.timer = 0 /\ z \in HandleTxTimeoutProcess(t)
    <3> DEFINE y == [t EXCEPT !.tx.state = IF @ = "WAIT_CF_STMIN" THEN "TRANSMIT_CF" ELSE @]
               go == IF to = "WAIT_CF_STMIN" THEN "TRANSMIT_CF" ELSE to
               next == [tx EXCEPT !.state = go]
    <3>1. CASE z \in TxTimeout(t)
      <4>1. Sends(t, z) /\ SendsTo(z, r, done)
        BY <2>12, <2>14, <3>1, FailedEnd DEF TxTimeout
      <4>2. QED
        BY <2>8, <4>1, SendsOn
    <3>2. CASE to \in Transmitting \cup {"WAIT_CF_STMIN"} /\ z \in GetTxBuffer(y) \cup TxTimeout(y)
      <4>1. go \in Transmitting /\ go \in TxStates
        BY <3>2 DEF Transmitting, TxStates
      <4>2. y = [t EXCEPT !.tx = next]
        BY <2>7, <2>8 DEF NodeType, TxType
      <4>a. go # to => to \in Between /\ go \in Between
        BY DEF Between
      <4>b. to = "WAIT_CF_STMIN" => go = "TRANSMIT_CF"
        OBVIOUS
      <4>c. to # "WAIT_CF_STMIN" => go = to
        OBVIOUS
      <4> HIDE DEF y, go
      <4>3. next \in TxType /\ next.state = go /\ next.total = tx.total /\ next.remain = tx.remain
        BY <2>7, <4>1 DEF TxType
      <4> HIDE DEF next
      <4>4. /\ y \in NodeType /\ y.rx = t.rx /\ y.tx = next /\ y.dir = t.dir /\ y.up = t.up /\ y.out = t.out
        BY <2>8, <4>2, <4>3, WithTx
      <4>5. t.dir # "TX"
        BY <2>7, <2>8, <2>12, <3>2 DEF Sending, OccupantOwnsFrame, ConfirmationOf, Transmitting
      <4>6. Sending(y)
        BY <2>8, <2>12, <4>3, <4>4, <4>5 DEF Sending, OccupantOwnsFrame
      <4>7. y.tx.state \in Transmitting /\ (y.tx.state # "TRANSMIT_SF" => y.tx.remain > 0)
        BY <2>7, <2>8, <2>13, <4>1, <4>b, <4>c, <4>3, <4>4 DEF Transmitting
      <4>8. SendsTo(y, r, done)
        <5>1. SameMessage(t, y) /\ KeepsOut(t, y)
          BY <4>4 DEF SameMessage, KeepsOut
        <5>2. go # to => Opened(t)
          BY <2>7, <2>8, <4>a, <4>c DEF Opened
        <5>3. QED
          BY <2>7, <2>8, <2>14, <4>a, <4>3, <4>4, <4>5, <5>1, <5>2, MoveKeeps
      <4>9. CASE z \in GetTxBuffer(y)
        BY <2>8, <4>4, <4>6, <4>7, <4>8, <4>9, GetTxBufferSends, SendsOn
      <4>10. CASE z \in TxTimeout(y)
        <5>1. Sends(y, z) /\ SendsTo(z, r, done)
          BY <4>6, <4>8, <4>10, FailedEnd DEF TxTimeout
        <5>2. QED
          BY <2>8, <4>4, <5>1, SendsOn
      <4>11. QED
        BY <3>2, <4>9, <4>10
    <3>3. QED
      BY <2>7, <2>8, <2>16, <3>1, <3>2 DEF HandleTxTimeoutProcess
  <2>17. CASE t.tx.timer # 0 /\ z \in {t} \cup (IF t.tx.state \in Transmitting THEN GetTxBuffer(t) ELSE {})
    <3>1. CASE t.tx.state \in Transmitting /\ z \in GetTxBuffer(t)
      <4>1. t.tx.state # "TRANSMIT_SF" => t.tx.remain > 0
        BY <2>13, <3>1 DEF Transmitting
      <4>2. QED
        BY <2>8, <2>12, <2>14, <3>1, <4>1, GetTxBufferSends, SendsOn
    <3>2. QED
      BY <2>14, <2>15, <2>17, <3>1
  <2>18. QED
    BY <2>5, <2>16, <2>17
<1>3. QED
  BY <1>1, <1>2

\* The connection that sends stands still.
KeepsTx(s, t) == t.tx = s.tx /\ SameMessage(s, t) /\ KeepsTold(s, t) /\ KeepsOut(s, t)

LEMMA KeepsTxKeeps ==
  ASSUME NEW s, NEW t, KeepsTx(s, t), NEW r, NEW done, SendsTo(s, r, done)
  PROVE  SendsTo(t, r, done)
BY MoveKeeps DEF KeepsTx

LEMMA RxSubDealWithFCSends ==
  ASSUME NEW s, Good(s), NEW r, NEW done, SendsTo(s, r, done),
         NEW f \in Frames, f.kind = "FC", NEW z \in RxSubDealWithFC(s, f)
  PROVE  Sends(s, z) /\ SendsTo(z, r, done)
<1> DEFINE x == s.tx
<1>1. CASE x.state # "WAIT_RECEIVE_FC"
  BY <1>1 DEF RxSubDealWithFC, Sends, KeepsRx, SameMessage, KeepsTold
<1>2. CASE x.state = "WAIT_RECEIVE_FC"
  <2>1. s \in NodeType /\ x \in TxType /\ Sending(s) /\ s.dir # "TX"
    BY <1>2, GoodSends, Fields DEF Good, OccupantOwnsFrame, ConfirmationOf
  <2>2. f.bs \in Nat /\ N_Cs \in Nat \ {0} /\ N_Bs \in Nat \ {0}
    BY FrameFields, Constants
  <2>3. ASSUME NEW y \in TxType, y.total = x.total, y.remain = x.remain, y.state \in Between,
               z = [s EXCEPT !.tx = y]
        PROVE  Sends(s, z) /\ SendsTo(z, r, done)
    <3>1. z.rx = s.rx /\ z.tx = y /\ z.dir = s.dir /\ z.up = s.up /\ z.out = s.out
      BY <2>1, <2>3, WithTx
    <3>2. Opened(s) /\ s.tx.state \in Between
      BY <1>2 DEF Opened, Between
    <3>3. SameMessage(s, z) /\ KeepsOut(s, z) /\ Sends(s, z)
      BY <3>1 DEF SameMessage, KeepsOut, Sends, KeepsRx, KeepsTold
    <3>4. QED
      BY <2>1, <2>3, <3>1, <3>2, <3>3, MoveKeeps
  <2>4. CASE f.fs = "CFS"
    <3> DEFINE sn == IF x.first THEN x.sn ELSE 1
               bs == IF x.first THEN x.bs ELSE f.bs
               y == [x EXCEPT !.state = "TRANSMIT_CF", !.timer = N_Cs, !.first = TRUE, !.sn = sn, !.bs = bs]
    <3>1. z = [s EXCEPT !.tx = y]
      BY <1>2, <2>4 DEF RxSubDealWithFC
    <3>2. sn \in Nat /\ bs \in Nat
      BY <2>1, <2>2 DEF TxType
    <3> HIDE DEF sn, bs, x
    <3>3. y \in TxType /\ y.state \in Between /\ y.remain = x.remain /\ y.total = x.total
      BY <2>1, <2>2, <3>2 DEF TxType, TxStates, Transmitting, Between
    <3> HIDE DEF y
    <3>4. QED
      BY <2>3, <3>1, <3>3
  <2>5. CASE f.fs = "WT"
    <3> DEFINE y == [x EXCEPT !.timer = N_Bs]
    <3>1. z = [s EXCEPT !.tx = y]
      BY <1>2, <2>5, <2>1 DEF RxSubDealWithFC, NodeType
    <3> HIDE DEF x
    <3>3. y \in TxType /\ y.state = x.state /\ y.remain = x.remain /\ y.total = x.total
      BY <2>1, <2>2 DEF TxType
    <3> HIDE DEF y
    <3>4. y.state \in Between
      BY <1>2, <3>3 DEF Between
    <3>5. QED
      BY <2>3, <3>1, <3>3, <3>4
  <2>6. CASE f.fs # "CFS" /\ f.fs # "WT"
    BY <1>2, <2>1, <2>6, FailedEnd DEF RxSubDealWithFC
  <2>7. QED
    BY <2>4, <2>5, <2>6
<1>3. QED
  BY <1>1, <1>2

\* A confirmation tells the truth.
Told(s, t, done) ==
  \/ KeepsTold(s, t)
  \/ /\ s.up.pending = 1 /\ t.up.pending = 0 /\ t.up.result \in Results
     /\ t.up.result = "E_OK" => done = s.up.accepted

\* The frame of the connection is confirmed.
LEMMA TxConfirmationSends ==
  ASSUME NEW s, Good(s), NEW r, NEW done, SendsTo(s, r, done), s.dir = "TX", s.out # NoFrame,
         NEW t \in NodeType, t.rx = s.rx, t.tx = s.tx, t.up = s.up, t.dir = "IDLE", t.out = NoFrame,
         NEW z, \/ z = TxConfirmationTx(t) /\ s.out.sent
                \/ z = TxEnd(t, "E_NOT_OK")
  PROVE  KeepsRx(s, z) /\ SameMessage(s, z) /\ Told(s, z, done) /\ SendsTo(z, r, done)
<1> DEFINE x == s.tx
<1>1. /\ x \in TxType /\ SenderOK(s, done) /\ OccupantOwnsFrame(s) /\ s.tx.state \in WaitingForConfirmation
      /\ s.up.pending = 1
  <2>1. s.tx.state \in WaitingForConfirmation /\ s.tx.state # "IDLE"
    BY DEF Good, OccupantOwnsFrame, ConfirmationOf, WaitingForConfirmation
  <2>2. QED
    BY <2>1, Fields DEF Good, SendsTo, TxOK
<1>2. ASSUME NEW result \in Results, z = TxEnd(t, result), result = "E_OK" => done = s.up.accepted
      PROVE  KeepsRx(s, z) /\ SameMessage(s, z) /\ Told(s, z, done) /\ SendsTo(z, r, done)
  <2>1. /\ KeepsRx(t, z) /\ SameMessage(t, z) /\ z.tx = IdleTx /\ z.dir = t.dir /\ z.out = t.out
        /\ z.up.pending = 0 /\ z.up.result = result
    BY <1>1, <1>2, TxEndIs
  <2>2. KeepsRx(s, z) /\ SameMessage(s, z) /\ KeepsOut(s, z) /\ z.dir # "TX"
    BY <2>1 DEF KeepsRx, SameMessage, KeepsOut, Unsent
  <2>3. Told(s, z, done)
    BY <1>1, <1>2, <2>1 DEF Told
  <2>4. QED
    BY <2>1, <2>2, <2>3, EndKeeps
<1>3. CASE z = TxEnd(t, "E_NOT_OK")
  BY <1>2, <1>3 DEF Results
<1>4. CASE z = TxConfirmationTx(t) /\ s.out.sent
  <2>1. ASSUME NEW y \in TxType, y.total = x.total, y.remain = x.remain, y.state \in Between, Opened(s),
               z = [t EXCEPT !.tx = y]
        PROVE  KeepsRx(s, z) /\ SameMessage(s, z) /\ Told(s, z, done) /\ SendsTo(z, r, done)
    <3>1. z.rx = s.rx /\ z.tx = y /\ z.dir = "IDLE" /\ z.up = s.up /\ z.out = NoFrame
      BY <2>1, WithTx
    <3>2. SameMessage(s, z) /\ KeepsOut(s, z) /\ KeepsRx(s, z) /\ Told(s, z, done) /\ ~ Unsent(z)
      BY <3>1 DEF SameMessage, KeepsOut, KeepsRx, KeepsTold, Told, Unsent
    <3>3. QED
      BY <2>1, <3>1, <3>2, MoveKeeps
  <2>2. N_Cs \in Nat \ {0} /\ N_Bs \in Nat \ {0} /\ FcSTmin \in Nat \ {0}
    BY Constants
  <2>3. CASE x.state = "WAIT_SFCONF" \/ (x.state = "WAIT_CFCONF" /\ x.remain = 0)
    <3>1. z = TxEnd(t, "E_OK")
      BY <1>4, <2>3 DEF TxConfirmationTx
    <3>2. done = s.up.accepted
      BY <1>1, <1>4, <2>3 DEF SenderOK
    <3>3. QED
      BY <1>2, <3>1, <3>2 DEF Results
  <2>4. CASE x.state = "WAIT_FFCONF"
    <3> DEFINE y == [x EXCEPT !.state = "WAIT_RECEIVE_FC", !.timer = N_Bs]
    <3>1. z = [t EXCEPT !.tx.state = "WAIT_RECEIVE_FC", !.tx.timer = N_Bs]
      BY <1>4, <2>4 DEF TxConfirmationTx
    <3>2. z = [t EXCEPT !.tx = y]
      BY <1>1, <3>1 DEF NodeType
    <3>3. Opened(s)
      BY <1>4, <2>4 DEF Opened
    <3> HIDE DEF x
    <3>4. y \in TxType /\ y.state \in Between /\ y.remain = x.remain /\ y.total = x.total
      BY <1>1, <2>2 DEF TxType, TxStates, Between
    <3> HIDE DEF y
    <3>5. QED
      BY <2>1, <3>2, <3>3, <3>4
  <2>5. CASE x.state = "WAIT_CFCONF" /\ x.remain # 0
    <3> DEFINE full == x.bs # 0 /\ x.handled + 1 = x.bs
               handled == IF full THEN 0 ELSE x.handled + 1
               state == IF full THEN "WAIT_RECEIVE_FC" ELSE "WAIT_CF_STMIN"
               timer == IF full THEN N_Bs ELSE N_Cs
               stmin == IF full THEN 0 ELSE FcSTmin
               y == [x EXCEPT !.sn = x.sn + 1, !.handled = handled, !.state = state, !.timer = timer,
                              !.stmin = stmin]
    <3>1. z = [t EXCEPT !.tx = y]
      BY <1>4, <2>5 DEF TxConfirmationTx
    <3>2. /\ x.sn + 1 \in Nat /\ handled \in Nat /\ timer \in Nat \ {0} /\ stmin \in Nat
          /\ state \in Between /\ state \in TxStates
      BY <1>1, <2>2, <2>5 DEF TxType, TxStates, Between
    <3>3. Opened(s)
      BY <2>5 DEF Opened
    <3> HIDE DEF x, handled, state, timer, stmin
    <3>4. y \in TxType /\ y.state = state /\ y.remain = x.remain /\ y.total = x.total
      BY <1>1, <3>2 DEF TxType
    <3> HIDE DEF y
    <3>5. QED
      BY <2>1, <3>1, <3>2, <3>3, <3>4
  <2>6. QED
    BY <1>1, <2>3, <2>4, <2>5 DEF WaitingForConfirmation
<1>5. QED
  BY <1>3, <1>4

-----------------------------------------------------------------------------
(* The connection that receives *)

\* Nothing of what was received and is yet to come changes, but for the flow control.
Waits(r, t) ==
  /\ t.up.pieces = r.up.pieces /\ t.up.delivered = r.up.delivered
  /\ t.rx.remain = r.rx.remain /\ t.rx.notify = r.rx.notify

\* What was received is thrown away.
Empties(r, t) == t.up.pieces = <<>> /\ t.up.delivered = r.up.delivered

LEMMA WaitsKeeps ==
  ASSUME NEW s, NEW r, NEW t, NEW done, ReceiverOK(s, r, done), Waits(r, t), FlowOK(t)
  PROVE  ReceiverOK(s, t, done)
BY DEF ReceiverOK, Waits

LEMMA EmptiesKeeps ==
  ASSUME NEW s, NEW r, NEW t, NEW done, ReceiverOK(s, r, done), Empties(r, t), FlowOK(t)
  PROVE  ReceiverOK(s, t, done)
BY DEF ReceiverOK, Empties

LEMMA PiecesKeep ==
  ASSUME NEW s, NEW r, NEW t, t.up.pieces \in {r.up.pieces, <<>>}, InOrder(s, r)
  PROVE  InOrder(s, t)
BY DEF InOrder

FlowStated(fs, z) ==
  /\ z.rx.fs = fs
  /\ z.rx.state \in {"TRANSMIT_FC", "WAIT_FCCONF"} \/ (z.rx.state = "WAIT_BUFFER_CF" /\ fs = "none")

\* What a flow control or its failure leaves: nothing else of the connection that receives changes.
Answers(w, fs, z) ==
  /\ KeepsTx(w, z)
  /\ \/ Empties(w, z) /\ z.rx = IdleRx
     \/ Waits(w, z) /\ FlowStated(fs, z)

LEMMA KeepsTxOn ==
  ASSUME NEW s, NEW t, NEW z, KeepsTx(s, t), KeepsTx(t, z)
  PROVE  KeepsTx(s, z)
<1>1. KeepsOut(s, z)
  <2>1. KeepsOut(s, t) /\ KeepsOut(t, z)
    BY DEF KeepsTx
  <2>2. CASE z.dir # "TX" /\ ~ Unsent(z)
    BY <2>2 DEF KeepsOut
  <2>3. CASE z.out = t.out /\ (z.dir = "TX" => t.dir = "TX")
    <3>1. Unsent(z) <=> Unsent(t)
      BY <2>3 DEF Unsent
    <3>2. QED
      BY <2>1, <2>3, <3>1 DEF KeepsOut
  <2>4. QED
    BY <2>1, <2>2, <2>3 DEF KeepsOut
<1>2. QED
  BY <1>1 DEF KeepsTx, SameMessage, KeepsTold

LEMMA WithRx ==
  ASSUME NEW s \in NodeType, NEW x \in RxType
  PROVE  LET z == [s EXCEPT !.rx = x]
         IN  /\ z \in NodeType /\ z.rx = x /\ z.tx = s.tx /\ z.dir = s.dir /\ z.up = s.up /\ z.out = s.out
             /\ KeepsTx(s, z)
<1> DEFINE z == [s EXCEPT !.rx = x]
<1>1. z \in NodeType /\ z.rx = x /\ z.tx = s.tx /\ z.dir = s.dir /\ z.up = s.up /\ z.out = s.out
  BY DEF NodeType
<1> HIDE DEF z
<1>2. KeepsTx(s, z)
  BY <1>1 DEF KeepsTx, SameMessage, KeepsTold, KeepsOut
<1>3. QED
  BY <1>1, <1>2 DEF z

LEMMA RxFailIs ==
  ASSUME NEW s \in NodeType
  PROVE  LET z == RxFail(s) IN z \in NodeType /\ KeepsTx(s, z) /\ Empties(s, z) /\ z.rx = IdleRx
<1> DEFINE u == s.up
           up == [u EXCEPT !.receiving = FALSE, !.pieces = <<>>]
           z == RxFail(s)
<1>1. u \in UpType
  BY Fields
<1>2. z = [s EXCEPT !.rx = IdleRx, !.up = up]
  BY <1>1 DEF RxFail, NodeType, UpType
<1> HIDE DEF u, z
<1>3. /\ up \in UpType /\ up.plan = u.plan /\ up.accepted = u.accepted /\ up.pending = u.pending /\ up.result = u.result
      /\ up.pieces = <<>> /\ up.delivered = u.delivered
  <2>1. <<>> \in Seq(Pieces)
    OBVIOUS
  <2>2. QED
    BY <1>1, <2>1 DEF UpType
<1> HIDE DEF up
<1>4. z \in NodeType /\ z.rx = IdleRx /\ z.tx = s.tx /\ z.dir = s.dir /\ z.up = up /\ z.out = s.out
  BY <1>2, <1>3, IdleRecords DEF NodeType
<1>5. KeepsTx(s, z) /\ Empties(s, z)
  BY <1>3, <1>4 DEF KeepsTx, SameMessage, KeepsTold, KeepsOut, Empties, u
<1>6. QED
  BY <1>4, <1>5 DEF z

\* A flow control is to be sent.
LEMMA SendFCAnswers ==
  ASSUME NEW s \in NodeType, s.rx.state = "TRANSMIT_FC", NEW z \in SendFC(s)
  PROVE  Answers(s, s.rx.fs, z)
<1> DEFINE x == s.rx
           y == [x EXCEPT !.state = "WAIT_FCCONF"]
           f == [kind |-> "FC", fs |-> x.fs, bs |-> x.bs]
           t == [s EXCEPT !.rx = y]
           d == [t EXCEPT !.dir = "RX"]
<1>1. x \in RxType
  BY Fields
<1>2. CASE s.dir # "IDLE"
  BY <1>2 DEF SendFC, Answers, FlowStated, KeepsTx, SameMessage, KeepsTold, KeepsOut, Waits
<1>3. CASE z = RxFail(s)
  BY <1>3, RxFailIs DEF Answers
<1>4. CASE z \in CanIf_Transmit([s EXCEPT !.dir = "RX", !.rx.state = "WAIT_FCCONF"], f)
  <2>1. [s EXCEPT !.dir = "RX", !.rx.state = "WAIT_FCCONF"] = d
    BY <1>1 DEF NodeType
  <2> HIDE DEF x
  <2>2. f \in Frames /\ f.kind = "FC"
    BY <1>1 DEF Frames, RxType
  <2>3. /\ y \in RxType /\ y.state = "WAIT_FCCONF" /\ y.fs = x.fs /\ y.remain = x.remain
        /\ y.notify = x.notify
    BY <1>1 DEF RxType, RxStates
  <2> HIDE DEF y
  <2>5. t \in NodeType /\ t.rx = y /\ t.tx = s.tx /\ t.up = s.up
    BY <2>3, WithRx
  <2> HIDE DEF t
  <2>6. d \in NodeType /\ d.rx = y /\ d.tx = s.tx /\ d.up = s.up /\ d.dir = "RX"
    BY <2>5 DEF NodeType
  <2> HIDE DEF f
  <2>7. z = [d EXCEPT !.out = [sent |-> FALSE, frame |-> f]]
    BY <1>4, <2>1 DEF CanIf_Transmit
  <2> HIDE DEF d
  <2>8. [sent |-> FALSE, frame |-> f] \in [sent : BOOLEAN, frame : Frames]
    BY <2>2
  <2>9. /\ z.rx = y /\ z.tx = s.tx /\ z.up = s.up /\ z.dir = "RX"
        /\ z.out = [sent |-> FALSE, frame |-> f]
    BY <2>6, <2>7, <2>8 DEF NodeType
  <2>10. ~ Unsent(z)
    BY <2>2, <2>9 DEF Unsent
  <2>11. KeepsTx(s, z)
    BY <2>9, <2>10 DEF KeepsTx, SameMessage, KeepsTold, KeepsOut
  <2>12. Waits(s, z)
    BY <2>3, <2>9 DEF Waits, x
  <2>13. QED
    BY <2>3, <2>9, <2>11, <2>12 DEF Answers, FlowStated, x
<1>5. QED
  BY <1>2, <1>3, <1>4 DEF SendFC

LEMMA TransmitFCAnswers ==
  ASSUME NEW s \in NodeType, NEW fs \in FlowStates, NEW z \in TransmitFC(s, fs)
  PROVE  Answers(s, fs, z)
<1> DEFINE x == s.rx
           y == [x EXCEPT !.state = "TRANSMIT_FC", !.fs = fs, !.timer = N_Ar]
           t == [s EXCEPT !.rx = y]
<1>1. x \in RxType /\ N_Ar \in Nat \ {0}
  BY Fields, Constants
<1>2. z \in SendFC(t)
  BY <1>1 DEF TransmitFC, NodeType
<1> HIDE DEF x
<1>3. /\ y \in RxType /\ y.state = "TRANSMIT_FC" /\ y.fs = fs /\ y.remain = x.remain
      /\ y.notify = x.notify
  BY <1>1 DEF RxType, RxStates
<1> HIDE DEF y
<1>4. t \in NodeType /\ t.rx = y /\ t.up = s.up /\ KeepsTx(s, t)
  BY <1>3, WithRx
<1> HIDE DEF t
<1>5. Answers(t, fs, z)
  BY <1>2, <1>3, <1>4, SendFCAnswers
<1>6. KeepsTx(s, z)
  BY <1>4, <1>5, KeepsTxOn DEF Answers
<1>7. QED
  BY <1>3, <1>4, <1>5, <1>6 DEF Answers, Waits, Empties, FlowStated, x

LEMMA GrantBlockAnswers ==
  ASSUME NEW s \in NodeType, NEW z \in GrantBlock(s)
  PROVE  Answers(s, "CFS", z) \/ Answers(s, "none", z)
<1> DEFINE x == s.rx
           y == [x EXCEPT !.state = "WAIT_BUFFER_CF", !.fs = "none", !.timer = N_Br]
<1>1. x \in RxType /\ N_Br \in Nat \ {0}
  BY Fields, Constants
<1>2. CASE z \in TransmitFC(s, "CFS")
  BY <1>2, TransmitFCAnswers DEF FlowStates
<1>3. CASE z = [s EXCEPT !.rx.state = "WAIT_BUFFER_CF", !.rx.fs = "none", !.rx.timer = N_Br]
  <2>1. z = [s EXCEPT !.rx = y]
    BY <1>1, <1>3 DEF NodeType
  <2> HIDE DEF x
  <2>2. /\ y \in RxType /\ y.state = "WAIT_BUFFER_CF" /\ y.fs = "none" /\ y.remain = x.remain
        /\ y.notify = x.notify
    BY <1>1 DEF RxType, RxStates, FlowStates
  <2> HIDE DEF y
  <2>3. z.rx = y /\ z.up = s.up /\ KeepsTx(s, z)
    BY <2>1, <2>2, WithRx
  <2>4. QED
    BY <2>2, <2>3 DEF Answers, Waits, FlowStated, x
<1>4. QED
  BY <1>2, <1>3 DEF GrantBlock

\* A flow control, or its failure, leaves the reception as it was or ends it.
LEMMA AnswersKeeps ==
  ASSUME NEW s, NEW r, NEW t, NEW done, ReceiverOK(s, r, done), NEW fs, fs # "OVFL",
         r.up.pieces # <<>>, Answers(r, fs, t)
  PROVE  ReceiverOK(s, t, done) /\ t.up.pieces \in {r.up.pieces, <<>>} /\ t.up.delivered = r.up.delivered
<1>1. CASE Empties(r, t) /\ t.rx = IdleRx
  <2>1. FlowOK(t)
    BY <1>1 DEF FlowOK, Empties, IdleRx
  <2>2. QED
    BY <1>1, <2>1, EmptiesKeeps DEF Empties
<1>2. CASE Waits(r, t) /\ FlowStated(fs, t)
  <2>1. FlowOK(t)
    BY <1>2 DEF FlowOK, Waits, FlowStated
  <2>2. QED
    BY <1>2, <2>1, WaitsKeeps DEF Waits
<1>3. QED
  BY <1>1, <1>2 DEF Answers

LEMMA RisingAt ==
  ASSUME NEW pieces, Rising(pieces), NEW i \in 1 .. Len(pieces), NEW j \in 1 .. Len(pieces), i <= j
  PROVE  pieces[j][2] - pieces[i][2] >= j - i
BY DEF Rising

\* Pieces that rise from the first place to the last one of their message and are as many as it has
\* are the message.
LEMMA RisingIsWhole ==
  ASSUME NEW pieces \in Seq(Pieces), pieces # <<>>, Rising(pieces), NEW plan, NEW k \in Nat,
         k = plan[Message(pieces)], Len(pieces) = k + 1, pieces[Len(pieces)][2] <= k
  PROVE  Whole(plan, pieces)
<1> DEFINE m == pieces[1][1]
           whole == [i \in 1 .. k + 1 |-> <<m, i - 1>>]
<1>1. Message(pieces) = m
  BY DEF Message
<1>2. ASSUME NEW i \in 1 .. k + 1
      PROVE  pieces[i] = <<m, i - 1>>
  <2> DEFINE L == Len(pieces)
  <2>1. 1 \in 1 .. L /\ L \in 1 .. L /\ i \in 1 .. L /\ L = k + 1 /\ L \in Nat
    OBVIOUS
  <2>2. pieces[i] = <<pieces[i][1], pieces[i][2]>> /\ pieces[i][2] \in Nat /\ pieces[L][2] \in Nat
    BY <2>1, PieceIs
  <2>3. pieces[i][1] = m /\ pieces[1][2] = 0
    BY <2>1 DEF Rising
  <2>4. pieces[i][2] - 0 >= i - 1
    <3>1. 1 <= i
      OBVIOUS
    <3>2. pieces[i][2] - pieces[1][2] >= i - 1
      BY <2>1, <3>1, RisingAt
    <3>3. QED
      BY <2>3, <3>2
  <2>5. pieces[L][2] - pieces[i][2] >= L - i
    <3>1. i <= L
      BY <2>1
    <3>2. QED
      BY <2>1, <3>1, RisingAt
  <2>6. pieces[i][2] = i - 1
    <3> DEFINE a == pieces[i][2]
               b == pieces[L][2]
    <3>1. a \in Nat /\ b \in Nat /\ a - 0 >= i - 1 /\ b - a >= L - i /\ b <= k
      BY <2>2, <2>4, <2>5
    <3> HIDE DEF a, b, L
    <3>2. a = i - 1
      BY <2>1, <3>1
    <3>3. QED
      BY <3>2 DEF a
  <2>7. QED
    BY <2>2, <2>3, <2>6
<1>3. pieces = [i \in 1 .. Len(pieces) |-> pieces[i]]
  OBVIOUS
<1>4. pieces = whole
  BY <1>2, <1>3
<1>5. QED
  BY <1>1, <1>4 DEF Whole

LEMMA RxDoneIs ==
  ASSUME NEW s \in NodeType
  PROVE  LET z == RxDone(s)
         IN  KeepsTx(s, z) /\ z.rx = IdleRx /\ z.up.pieces = <<>> /\ z.up.delivered = s.up.pieces
<1> DEFINE u == s.up
           up == [u EXCEPT !.receiving = FALSE, !.pieces = <<>>, !.delivered = u.pieces]
           z == RxDone(s)
<1>1. u \in UpType
  BY Fields
<1>2. z = [s EXCEPT !.rx = IdleRx, !.up = up]
  BY <1>1 DEF RxDone, NodeType, UpType
<1>a. up.pieces = <<>> /\ up.delivered = s.up.pieces
  BY <1>1 DEF UpType
<1> HIDE DEF u, z
<1>3. /\ up.plan = u.plan /\ up.accepted = u.accepted /\ up.pending = u.pending /\ up.result = u.result
  BY <1>1 DEF UpType
<1> HIDE DEF up
<1>4. z.rx = IdleRx /\ z.tx = s.tx /\ z.dir = s.dir /\ z.up = up /\ z.out = s.out
  BY <1>2 DEF NodeType
<1>5. KeepsTx(s, z)
  BY <1>3, <1>4 DEF KeepsTx, SameMessage, KeepsTold, KeepsOut, u
<1>6. QED
  BY <1>4, <1>5, <1>a DEF z

\* What r had of s may be given to the upper layer, when it is a message that s has sent.
Delivers(s, r, t, done) ==
  \/ t.up.delivered = r.up.delivered
  \/ /\ r.up.pieces # <<>> /\ t.up.pieces = <<>> /\ t.up.delivered = r.up.pieces
     /\ Whole(s.up.plan, r.up.pieces)
     /\ Message(r.up.pieces) > Message(r.up.delivered) /\ Message(r.up.pieces) <= done

\* What a step leaves of a reception, when no frame has come
Receives(s, r, t, done) ==
  ReceiverOK(s, t, done) /\ t.up.pieces \in {r.up.pieces, <<>>} /\ Delivers(s, r, t, done)

LEMMA RxFailReceives ==
  ASSUME NEW s, NEW r \in NodeType, NEW done, ReceiverOK(s, r, done)
  PROVE  KeepsTx(r, RxFail(r)) /\ Receives(s, r, RxFail(r), done)
<1> DEFINE z == RxFail(r)
<1>1. KeepsTx(r, z) /\ Empties(r, z) /\ z.rx = IdleRx
  BY RxFailIs
<1> HIDE DEF z
<1>2. FlowOK(z)
  BY <1>1 DEF FlowOK, Empties, IdleRx
<1>3. ReceiverOK(s, z, done)
  BY <1>1, <1>2, EmptiesKeeps
<1>4. KeepsTx(r, z) /\ Receives(s, r, z, done)
  BY <1>1, <1>3 DEF Receives, Empties, Delivers
<1>5. QED
  BY <1>4 DEF z

LEMMA ReceivesOn ==
  ASSUME NEW s, NEW r, NEW t, NEW z, NEW done, KeepsTx(r, t), t.up.pieces = r.up.pieces,
         t.up.delivered = r.up.delivered, KeepsTx(t, z), Receives(s, t, z, done)
  PROVE  KeepsTx(r, z) /\ Receives(s, r, z, done)
BY KeepsTxOn DEF Receives, Delivers

LEMMA HandleRxChannelsReceives ==
  ASSUME NEW s, NEW r, Good(r), NEW done, ReceiverOK(s, r, done),
         \A m \in 1 .. s.up.accepted : s.up.plan[m] \in Nat,
         NEW z \in HandleRxChannels(r)
  PROVE  KeepsTx(r, z) /\ Receives(s, r, z, done)
<1> DEFINE x == r.rx
           y == [x EXCEPT !.timer = x.timer - 1]
           t == [r EXCEPT !.rx = y]
           pieces == r.up.pieces
<1>1. r \in NodeType /\ x \in RxType /\ RxOK(x) /\ r.up \in UpType
  BY Fields DEF Good
<1>a. pieces \in Seq(Pieces) /\ FlowOK(r)
  BY <1>1 DEF UpType, ReceiverOK
<1>2. CASE x.state = "IDLE"
  <2>1. z = r
    BY <1>1, <1>2 DEF HandleRxChannels, RxOK
  <2>2. QED
    BY <2>1 DEF Receives, Delivers, KeepsTx, SameMessage, KeepsTold, KeepsOut
<1>3. CASE x.state # "IDLE" /\ x.notify
  <2>1. z = RxDone(r)
    BY <1>1, <1>3 DEF HandleRxChannels
  <2>2. KeepsTx(r, z) /\ z.rx = IdleRx /\ z.up.pieces = <<>> /\ z.up.delivered = pieces
    BY <1>1, <2>1, RxDoneIs
  <2>3. pieces # <<>>
    BY <1>1, <1>3, <1>a DEF RxOK, FlowOK
  <2> DEFINE m == Message(pieces)
  <2>4. /\ m \in 1 .. s.up.accepted /\ Rising(pieces) /\ pieces[Len(pieces)][2] <= s.up.plan[m]
        /\ Len(pieces) = s.up.plan[m] + 1 /\ m <= done /\ m > Message(r.up.delivered)
    BY <1>3, <2>3 DEF ReceiverOK
  <2>5. Whole(s.up.plan, pieces)
    <3>1. s.up.plan[m] \in Nat
      BY <2>4
    <3>2. QED
      BY <1>a, <2>3, <2>4, <3>1, RisingIsWhole
  <2>6. Delivers(s, r, z, done)
    BY <2>2, <2>3, <2>4, <2>5 DEF Delivers
  <2>7. FlowOK(z)
    BY <2>2 DEF FlowOK, IdleRx
  <2>8. ReceiverOK(s, z, done)
    BY <2>2, <2>4, <2>5, <2>7 DEF ReceiverOK
  <2>9. QED
    BY <2>2, <2>6, <2>8 DEF Receives
<1>4. CASE x.state # "IDLE" /\ ~ x.notify
  <2>1. z \in HandleRxTimerProcess(r)
    BY <1>1, <1>4 DEF HandleRxChannels, RxType
  <2>2. [r EXCEPT !.rx.timer = @ - 1] = t
    BY <1>1 DEF NodeType, RxType
  <2>3. \/ x.state = "WAIT_BUFFER_CF"
           /\ z \in TransmitFC(t, "CFS") \cup TransmitFC(t, "WT") \cup {RxFail(t)}
        \/ z = RxFail(t)
        \/ z = t
        \/ t.rx.state = "WAIT_BUFFER_CF" /\ z \in TransmitFC(t, "CFS")
    <3> HIDE DEF t
    <3>1. QED
      BY <2>1, <2>2 DEF HandleRxTimerProcess
  <2>4. x.timer - 1 \in Nat
    BY <1>1, <1>4 DEF RxOK, RxType
  <2> HIDE DEF x
  <2>5. /\ y \in RxType /\ y.state = x.state /\ y.fs = x.fs /\ y.remain = x.remain /\ y.notify = x.notify
    BY <1>1, <2>4 DEF RxType
  <2> HIDE DEF y
  <2>6. t \in NodeType /\ t.rx = y /\ t.up = r.up /\ KeepsTx(r, t)
    BY <1>1, <2>5, WithRx
  <2> HIDE DEF t
  <2>7. ReceiverOK(s, t, done)
    <3>1. Waits(r, t)
      BY <2>5, <2>6 DEF Waits, x
    <3>2. FlowOK(t)
      BY <1>a, <2>5, <2>6 DEF FlowOK, x
    <3>3. QED
      BY <3>1, <3>2, WaitsKeeps
  <2>8. KeepsTx(t, z) /\ Receives(s, t, z, done)
    <3>1. CASE z = RxFail(t)
      BY <2>6, <2>7, <3>1, RxFailReceives
    <3>2. CASE z = t
      BY <2>7, <3>2 DEF Receives, Delivers, KeepsTx, SameMessage, KeepsTold, KeepsOut
    <3>3. CASE x.state = "WAIT_BUFFER_CF" /\ z \in TransmitFC(t, "CFS") \cup TransmitFC(t, "WT")
      <4>1. t.up.pieces # <<>>
        BY <1>a, <2>6, <3>3 DEF FlowOK, x
      <4>2. PICK fs \in {"CFS", "WT"} : Answers(t, fs, z)
        BY <2>6, <3>3, TransmitFCAnswers DEF FlowStates
      <4>3. QED
        BY <2>7, <4>1, <4>2, AnswersKeeps DEF Answers, Receives, Delivers
    <3>4. QED
      BY <2>3, <2>5, <2>6, <3>1, <3>2, <3>3
  <2>9. QED
    BY <2>6, <2>8, ReceivesOn
<1>5. QED
  BY <1>2, <1>3, <1>4

\* A flow control is confirmed, or refused by the controller.
LEMMA TxFCConfirmationReceives ==
  ASSUME NEW s, NEW r, Good(r), NEW done, ReceiverOK(s, r, done), r.dir = "RX",
         NEW t \in NodeType, t.rx = r.rx, t.tx = r.tx, t.up = r.up, t.dir = "IDLE", t.out = NoFrame,
         NEW z, z = TxFCConfirmation(t) \/ z = RxFail(t)
  PROVE  KeepsTx(r, z) /\ Receives(s, r, z, done)
<1> DEFINE x == t.rx
<1>1. x \in RxType /\ N_Cr \in Nat /\ N_Br \in Nat
  BY Fields, Constants
<1>2. KeepsTx(r, t)
  BY DEF KeepsTx, SameMessage, KeepsTold, KeepsOut, Unsent
<1>3. FlowOK(t) /\ ReceiverOK(s, t, done)
  <2>1. FlowOK(t) /\ Waits(r, t)
    BY DEF ReceiverOK, FlowOK, Waits
  <2>2. QED
    BY <2>1, WaitsKeeps
<1>4. ASSUME NEW y \in RxType, y.remain = x.remain, y.notify = x.notify, y.state # "IDLE", y.fs = "none",
             x.state = "WAIT_FCCONF", x.fs # "OVFL", z = [t EXCEPT !.rx = y]
      PROVE  KeepsTx(t, z) /\ Receives(s, t, z, done)
  <2>1. z.rx = y /\ z.up = t.up /\ KeepsTx(t, z)
    BY <1>4, WithRx
  <2>2. FlowOK(z) /\ Waits(t, z)
    BY <1>3, <1>4, <2>1 DEF FlowOK, Waits
  <2>3. QED
    BY <1>3, <2>1, <2>2, WaitsKeeps DEF Receives, Delivers
<1>5. KeepsTx(t, z) /\ Receives(s, t, z, done)
  <2>1. CASE z = RxFail(t)
    BY <1>3, <2>1, RxFailReceives
  <2>2. CASE z = t
    BY <1>3, <2>2 DEF Receives, Delivers, KeepsTx, SameMessage, KeepsTold, KeepsOut
  <2>3. CASE x.state = "WAIT_FCCONF" /\ x.fs = "CFS" /\ z = TxFCConfirmation(t)
    <3> DEFINE y == [x EXCEPT !.state = "WAIT_RECEIVE_CF", !.fs = "none", !.timer = N_Cr, !.wft = 0]
    <3>1. z = [t EXCEPT !.rx = y]
      BY <2>3 DEF TxFCConfirmation
    <3>2. 0 \in 0 .. RxWftMax
      BY Constants
    <3> HIDE DEF x
    <3>3. /\ y \in RxType /\ y.state = "WAIT_RECEIVE_CF" /\ y.fs = "none" /\ y.remain = x.remain
          /\ y.notify = x.notify
      BY <1>1, <3>2 DEF RxType, RxStates, FlowStates
    <3> HIDE DEF y
    <3>4. QED
      BY <1>4, <2>3, <3>1, <3>3
  <2>4. CASE x.state = "WAIT_FCCONF" /\ x.fs = "WT" /\ z = TxFCConfirmation(t)
    <3> DEFINE y == [x EXCEPT !.state = "WAIT_BUFFER_CF", !.fs = "none", !.timer = N_Br, !.wft = x.wft + 1]
    <3>1. z = [t EXCEPT !.rx = y]
      BY <2>4 DEF TxFCConfirmation
    <3>2. x.wft + 1 \in 0 .. RxWftMax
      <4>1. RxOK(x)
        BY DEF Good
      <4>2. QED
        BY <1>1, <2>4, <4>1, Constants DEF RxOK, RxType
    <3> HIDE DEF x
    <3>3. /\ y \in RxType /\ y.state = "WAIT_BUFFER_CF" /\ y.fs = "none" /\ y.remain = x.remain
          /\ y.notify = x.notify
      BY <1>1, <3>2 DEF RxType, RxStates, FlowStates
    <3> HIDE DEF y
    <3>4. QED
      BY <1>4, <2>4, <3>1, <3>3
  <2>5. CASE x.state = "WAIT_FCCONF" /\ x.fs = "OVFL" /\ z = TxFCConfirmation(t)
    <3>1. z = [t EXCEPT !.rx = IdleRx]
      BY <2>5 DEF TxFCConfirmation
    <3>2. z.rx = IdleRx /\ z.up = t.up /\ KeepsTx(t, z)
      BY <3>1, WithRx, IdleRecords
    <3>3. t.up.pieces = <<>>
      BY <1>3, <2>5 DEF FlowOK
    <3>4. FlowOK(z) /\ Empties(t, z)
      BY <3>2, <3>3 DEF FlowOK, Empties, IdleRx
    <3>5. QED
      BY <1>3, <3>2, <3>4, EmptiesKeeps DEF Receives, Delivers
  <2>6. CASE ~ (x.state = "WAIT_FCCONF" /\ x.fs \in {"CFS", "OVFL", "WT"}) /\ z = TxFCConfirmation(t)
    BY <2>2, <2>6 DEF TxFCConfirmation
  <2>7. QED
    BY <2>1, <2>3, <2>4, <2>5, <2>6
<1>6. QED
  BY <1>2, <1>5, ReceivesOn

-----------------------------------------------------------------------------
(* What a frame brings *)

LEMMA CopyRxDataIs ==
  ASSUME NEW s \in NodeType, NEW f, f.piece \in Pieces
  PROVE  LET z == CopyRxData(s, f)
         IN  /\ z \in NodeType /\ z.rx = s.rx /\ KeepsTx(s, z)
             /\ z.up.pieces = Append(s.up.pieces, f.piece) /\ z.up.delivered = s.up.delivered
<1> DEFINE u == s.up
           pieces == Append(u.pieces, f.piece)
           up == [u EXCEPT !.receiving = TRUE, !.pieces = pieces]
           z == CopyRxData(s, f)
<1>1. u \in UpType
  BY Fields
<1>2. z = [s EXCEPT !.up = up]
  BY <1>1 DEF CopyRxData, NodeType, UpType
<1>3. pieces \in Seq(Pieces)
  BY <1>1 DEF UpType
<1> HIDE DEF z, u, pieces
<1>4. /\ up \in UpType /\ up.plan = u.plan /\ up.accepted = u.accepted /\ up.pending = u.pending
      /\ up.result = u.result /\ up.pieces = pieces /\ up.delivered = u.delivered
  BY <1>1, <1>3 DEF UpType
<1> HIDE DEF up
<1>5. z \in NodeType /\ z.rx = s.rx /\ z.tx = s.tx /\ z.dir = s.dir /\ z.up = up /\ z.out = s.out
  BY <1>2, <1>4 DEF NodeType
<1>6. KeepsTx(s, z)
  BY <1>4, <1>5 DEF KeepsTx, SameMessage, KeepsTold, KeepsOut, u
<1>7. QED
  BY <1>4, <1>5, <1>6 DEF z, u, pieces

LEMMA NotifyUpperIs ==
  ASSUME NEW s \in NodeType, NEW state \in {"RECEIVE_SF", "RECEIVE_CF"}
  PROVE  LET z == NotifyUpper(s, state)
         IN  z.rx.notify = TRUE /\ z.rx.state # "IDLE" /\ z.rx.fs = "none" /\ z.up = s.up /\ KeepsTx(s, z)
<1> DEFINE y == [IdleRx EXCEPT !.state = state, !.notify = TRUE]
           z == NotifyUpper(s, state)
<1>1. y \in RxType
  <2>1. \A x \in RxType : [x EXCEPT !.state = state, !.notify = TRUE] \in RxType
    BY DEF RxType, RxStates
  <2>2. QED
    BY <2>1, IdleRecords
<1>2. y.notify = TRUE /\ y.state # "IDLE" /\ y.fs = "none"
  BY DEF IdleRx
<1>3. z = [s EXCEPT !.rx = y]
  BY DEF NotifyUpper
<1> HIDE DEF y, z
<1>4. z.rx = y /\ z.up = s.up /\ KeepsTx(s, z)
  BY <1>1, <1>3, WithRx
<1>5. QED
  BY <1>2, <1>4 DEF z

\* What is common to all that a frame may do to the connection that receives
Brings(r, z) == KeepsTx(r, z) /\ z.up.delivered = r.up.delivered /\ FlowOK(z)

LEMMA BringsNothing ==
  ASSUME NEW r \in NodeType
  PROVE  Brings(r, RxFail(r)) /\ RxFail(r).up.pieces = <<>>
<1> DEFINE z == RxFail(r)
<1>1. KeepsTx(r, z) /\ Empties(r, z) /\ z.rx = IdleRx
  BY RxFailIs
<1> HIDE DEF z
<1>2. Brings(r, z) /\ z.up.pieces = <<>>
  BY <1>1 DEF Brings, FlowOK, Empties, IdleRx
<1>3. QED
  BY <1>2 DEF z

\* The reception that was going on is ended, or there was none.
LEMMA Restarts ==
  ASSUME NEW r \in NodeType, FlowOK(r), NEW d \in NodeType, KeepsTx(r, d), d.up = r.up, d.rx = r.rx,
         NEW t, t = IF r.rx.state = "IDLE" THEN r ELSE RxFail(d)
  PROVE  t \in NodeType /\ Brings(r, t) /\ t.up.pieces = <<>>
<1>1. CASE r.rx.state = "IDLE"
  BY <1>1 DEF Brings, FlowOK, KeepsTx, SameMessage, KeepsTold, KeepsOut
<1>2. CASE r.rx.state # "IDLE"
  <2>1. t \in NodeType /\ Brings(d, t) /\ t.up.pieces = <<>>
    BY <1>2, RxFailIs, BringsNothing
  <2>2. QED
    BY <2>1, KeepsTxOn DEF Brings
<1>3. QED
  BY <1>1, <1>2

LEMMA TakenSF ==
  ASSUME NEW r, Good(r), FlowOK(r), NEW f \in Frames, f.kind = "SF", NEW z \in RxSubDealWithSF(r, f)
  PROVE  Brings(r, z) /\ (z.up.pieces = <<>> \/ (z.up.pieces = <<f.piece>> /\ z.rx.notify))
<1> DEFINE t == IF r.rx.state = "IDLE" THEN r ELSE RxFail(r)
           c == CopyRxData(t, f)
           y == NotifyUpper(c, "RECEIVE_SF")
<1>1. t \in NodeType /\ Brings(r, t) /\ t.up.pieces = <<>>
  BY Restarts DEF Good, KeepsTx, SameMessage, KeepsTold, KeepsOut
<1>2. z = y \/ z = t
  BY DEF RxSubDealWithSF
<1> HIDE DEF t
<1>3. /\ c \in NodeType /\ KeepsTx(t, c) /\ c.up.pieces = Append(<<>>, f.piece)
      /\ c.up.delivered = t.up.delivered
  BY <1>1, FrameFields, CopyRxDataIs
<1> HIDE DEF c
<1>4. y.rx.notify = TRUE /\ y.rx.state # "IDLE" /\ y.rx.fs = "none" /\ y.up = c.up /\ KeepsTx(c, y)
  BY <1>3, NotifyUpperIs
<1> HIDE DEF y
<1>5. KeepsTx(r, y)
  BY <1>1, <1>3, <1>4, KeepsTxOn DEF Brings
<1>6. y.up.pieces = <<f.piece>> /\ y.up.delivered = r.up.delivered
  BY <1>1, <1>3, <1>4 DEF Brings
<1>7. FlowOK(y)
  BY <1>4, <1>6 DEF FlowOK
<1>8. QED
  BY <1>1, <1>2, <1>4, <1>5, <1>6, <1>7 DEF Brings

\* Room for a block is granted, or not yet.
LEMMA AnswersBrings ==
  ASSUME NEW r, NEW w, NEW fs, NEW z, KeepsTx(r, w), w.up.delivered = r.up.delivered,
         w.up.pieces # <<>>, fs # "OVFL", Answers(w, fs, z)
  PROVE  /\ Brings(r, z)
         /\ z.up.pieces = <<>> \/ (z.up.pieces = w.up.pieces /\ z.rx.remain = w.rx.remain /\ z.rx.notify = w.rx.notify)
<1>1. KeepsTx(r, z)
  BY KeepsTxOn DEF Answers
<1>2. CASE Empties(w, z) /\ z.rx = IdleRx
  BY <1>1, <1>2 DEF Empties, Brings, FlowOK, IdleRx
<1>3. CASE Waits(w, z) /\ FlowStated(fs, z)
  BY <1>1, <1>3 DEF Waits, Brings, FlowOK, FlowStated
<1>4. QED
  BY <1>2, <1>3 DEF Answers

LEMMA TakenFF ==
  ASSUME NEW r, Good(r), FlowOK(r), NEW f \in Frames, f.kind = "FF", NEW z \in RxSubDealWithFF(r, f)
  PROVE  /\ Brings(r, z)
         /\ z.up.pieces = <<>> \/ (z.up.pieces = <<f.piece>> /\ ~ z.rx.notify /\ z.rx.remain = f.total)
<1> DEFINE dir == IF r.rx.state \in {"TRANSMIT_FC", "WAIT_FCCONF"} THEN "IDLE" ELSE r.dir
           d == [r EXCEPT !.dir = dir]
           t == IF r.rx.state = "IDLE" THEN r ELSE RxFail(d)
           y == [IdleRx EXCEPT !.state = "RECEIVE_FF", !.remain = f.total, !.sn = 1, !.bs = CurrentBs(f.total)]
           begun == [t EXCEPT !.rx = y]
           c == CopyRxData(begun, f)
<1>1. r \in NodeType
  BY DEF Good
<1>2. d \in NodeType /\ KeepsTx(r, d) /\ d.up = r.up /\ d.rx = r.rx
  <2>1. dir \in {"IDLE", "TX", "RX"} /\ (dir = "TX" => r.dir = "TX")
    BY <1>1 DEF NodeType
  <2> HIDE DEF dir
  <2>2. /\ d \in NodeType /\ d.up = r.up /\ d.rx = r.rx /\ d.tx = r.tx /\ d.out = r.out /\ d.dir = dir
    BY <1>1, <2>1 DEF NodeType
  <2> HIDE DEF d
  <2>3. QED
    BY <2>1, <2>2 DEF KeepsTx, SameMessage, KeepsTold, KeepsOut
<1>3. z \in GrantBlock(c) \cup TransmitFC(begun, "OVFL") \cup {t}
  BY DEF RxSubDealWithFF
<1> HIDE DEF d
<1>4. t \in NodeType /\ Brings(r, t) /\ t.up.pieces = <<>>
  BY <1>1, <1>2, Restarts
<1> HIDE DEF t
<1>5. f.total \in Nat \ {0} /\ CurrentBs(f.total) \in Nat /\ f.piece \in Pieces
  BY FrameFields, Constants DEF CurrentBs
<1>6. y \in RxType /\ y.remain = f.total /\ y.notify = FALSE
  <2> DEFINE total == f.total
             bs == CurrentBs(total)
  <2> HIDE DEF total, bs
  <2>1. \A x \in RxType : [x EXCEPT !.state = "RECEIVE_FF", !.remain = total, !.sn = 1, !.bs = bs] \in RxType
    BY <1>5 DEF RxType, RxStates, total, bs
  <2>2. y \in RxType
    BY <2>1, IdleRecords DEF total, bs
  <2>3. y.remain = f.total /\ y.notify = FALSE
    BY DEF IdleRx
  <2>4. QED
    BY <2>2, <2>3
<1> HIDE DEF y
<1>7. begun \in NodeType /\ begun.rx = y /\ begun.up = t.up /\ KeepsTx(t, begun)
  BY <1>4, <1>6, WithRx
<1> HIDE DEF begun
<1>8. /\ c \in NodeType /\ c.rx = y /\ KeepsTx(begun, c) /\ c.up.pieces = <<f.piece>>
      /\ c.up.delivered = t.up.delivered
  <2>1. /\ c \in NodeType /\ c.rx = y /\ KeepsTx(begun, c) /\ c.up.pieces = Append(<<>>, f.piece)
        /\ c.up.delivered = t.up.delivered
    BY <1>4, <1>5, <1>7, CopyRxDataIs
  <2> HIDE DEF c
  <2>2. QED
    BY <2>1
<1> HIDE DEF c
<1>9. KeepsTx(r, begun) /\ KeepsTx(r, c)
  BY <1>4, <1>7, <1>8, KeepsTxOn DEF Brings
<1>10. CASE z \in GrantBlock(c)
  <2>1. PICK fs \in {"CFS", "none"} : Answers(c, fs, z)
    BY <1>8, <1>10, GrantBlockAnswers
  <2>2. c.up.pieces # <<>> /\ c.up.delivered = r.up.delivered
    BY <1>4, <1>8 DEF Brings
  <2>3. /\ Brings(r, z)
        /\ \/ z.up.pieces = <<>>
           \/ z.up.pieces = c.up.pieces /\ z.rx.remain = c.rx.remain /\ z.rx.notify = c.rx.notify
    <3>1. fs # "OVFL" /\ KeepsTx(r, c)
      BY <1>9
    <3>2. QED
      BY <2>1, <2>2, <3>1, AnswersBrings
  <2>4. QED
    BY <1>6, <1>8, <2>3
<1>11. CASE z \in TransmitFC(begun, "OVFL")
  <2>1. Answers(begun, "OVFL", z)
    BY <1>7, <1>11, TransmitFCAnswers DEF FlowStates
  <2>2. KeepsTx(r, z)
    BY <1>9, <2>1, KeepsTxOn DEF Answers
  <2>3. begun.up.pieces = <<>> /\ begun.up.delivered = r.up.delivered
    BY <1>4, <1>7 DEF Brings
  <2>4. CASE Empties(begun, z) /\ z.rx = IdleRx
    BY <2>2, <2>3, <2>4 DEF Empties, Brings, FlowOK, IdleRx
  <2>5. CASE Waits(begun, z) /\ FlowStated("OVFL", z)
    BY <2>2, <2>3, <2>5 DEF Waits, Brings, FlowOK, FlowStated
  <2>6. QED
    BY <2>1, <2>4, <2>5 DEF Answers
<1>12. QED
  BY <1>3, <1>4, <1>10, <1>11

LEMMA TakenCF ==
  ASSUME NEW r, Good(r), FlowOK(r), NEW f \in Frames, f.kind = "CF", NEW z \in RxSubDealWithCF(r, f)
  PROVE  /\ Brings(r, z)
         /\ \/ z.up.pieces = <<>> \/ z = r
            \/ /\ r.up.pieces # <<>> /\ ~ r.rx.notify /\ z.up.pieces = Append(r.up.pieces, f.piece)
               /\ IF z.rx.notify THEN r.rx.remain = 1 ELSE z.rx.remain = r.rx.remain - 1
<1> DEFINE x == r.rx
           copied == CopyRxData(r, f)
           sn == IF x.sn < CANTP_MAX_SEQUENC_NUMBER THEN x.sn + 1 ELSE 0
           y == [x EXCEPT !.remain = x.remain - 1, !.handled = x.handled + 1, !.sn = sn]
           t == [copied EXCEPT !.rx = y]
<1>1. r \in NodeType /\ x \in RxType /\ RxOK(x) /\ f.piece \in Pieces /\ r.up \in UpType
  BY Fields, FrameFields DEF Good
<1>2. /\ copied \in NodeType /\ copied.rx = x /\ KeepsTx(r, copied)
      /\ copied.up.pieces = Append(r.up.pieces, f.piece) /\ copied.up.delivered = r.up.delivered
  BY <1>1, CopyRxDataIs
<1>3. \/ z = r \/ z = RxFail(r)
      \/ /\ x.state = "WAIT_RECEIVE_CF"
         /\ \/ x.remain = 1 /\ z = NotifyUpper(copied, "RECEIVE_CF")
            \/ x.remain # 1 /\ z \in GrantBlock([t EXCEPT !.rx.handled = 0])
            \/ x.remain # 1 /\ z = [t EXCEPT !.rx.timer = N_Cr]
  BY DEF RxSubDealWithCF, LastCF
<1>a. copied.up.pieces # <<>>
  <2>1. \A q \in Seq(Pieces), e \in Pieces : Append(q, e) # <<>>
    BY AppendProperties
  <2>2. r.up.pieces \in Seq(Pieces)
    BY <1>1 DEF UpType
  <2>3. QED
    BY <1>1, <1>2, <2>1, <2>2
<1> HIDE DEF copied
<1>4. CASE z = r \/ z = RxFail(r)
  BY <1>1, <1>4, BringsNothing DEF Brings, KeepsTx, SameMessage, KeepsTold, KeepsOut
<1>5. CASE x.state = "WAIT_RECEIVE_CF" /\ z # r /\ z # RxFail(r)
  <2>1. ~ x.notify /\ r.up.pieces # <<>>
    BY <1>1, <1>5 DEF RxOK, FlowOK
  <2>2. CASE x.remain = 1 /\ z = NotifyUpper(copied, "RECEIVE_CF")
    <3>1. z.rx.notify = TRUE /\ z.rx.state # "IDLE" /\ z.rx.fs = "none" /\ z.up = copied.up /\ KeepsTx(copied, z)
      BY <1>2, <2>2, NotifyUpperIs
    <3>2. KeepsTx(r, z)
      BY <1>2, <3>1, KeepsTxOn
    <3>3. FlowOK(z)
      BY <1>a, <3>1 DEF FlowOK
    <3>4. QED
      BY <1>2, <2>1, <2>2, <3>1, <3>2, <3>3 DEF Brings
  <2>3. CASE x.remain # 1 /\ (z \in GrantBlock([t EXCEPT !.rx.handled = 0]) \/ z = [t EXCEPT !.rx.timer = N_Cr])
    <3> DEFINE block == [y EXCEPT !.handled = 0]
               next == [y EXCEPT !.timer = N_Cr]
    <3>0. x.remain > 0
      BY <1>1, <1>5, <2>1 DEF RxOK
    <3>1. sn \in Nat /\ x.remain - 1 \in Nat /\ x.handled + 1 \in Nat /\ N_Cr \in Nat \ {0}
      BY <1>1, <3>0, Constants DEF RxType
    <3> HIDE DEF x, sn
    <3>2. y \in RxType /\ y.state = x.state /\ y.remain = x.remain - 1 /\ y.notify = x.notify /\ y.fs = x.fs
      BY <1>1, <3>1 DEF RxType
    <3>3. t \in NodeType /\ t.rx = y
      BY <1>2, <3>2, WithRx
    <3>4. [t EXCEPT !.rx.handled = 0] = [copied EXCEPT !.rx = block]
      BY <1>2, <3>2 DEF NodeType
    <3>5. [t EXCEPT !.rx.timer = N_Cr] = [copied EXCEPT !.rx = next]
      BY <1>2, <3>2 DEF NodeType
    <3> HIDE DEF t, y
    <3>6. block \in RxType /\ block.remain = y.remain /\ block.notify = y.notify
      BY <3>2 DEF RxType
    <3>7. /\ next \in RxType /\ next.remain = y.remain /\ next.notify = y.notify /\ next.state = y.state
          /\ next.fs = y.fs
      BY <3>1, <3>2 DEF RxType
    <3> HIDE DEF block, next
    <3>8. CASE z \in GrantBlock([copied EXCEPT !.rx = block])
      <4> DEFINE w == [copied EXCEPT !.rx = block]
      <4>1. w \in NodeType /\ w.rx = block /\ w.up = copied.up /\ KeepsTx(copied, w)
        BY <1>2, <3>6, WithRx
      <4> HIDE DEF w
      <4>2. PICK fs \in {"CFS", "none"} : Answers(w, fs, z)
        BY <3>8, <4>1, GrantBlockAnswers DEF w
      <4>3. KeepsTx(r, w)
        BY <1>2, <4>1, KeepsTxOn
      <4>4. /\ Brings(r, z)
            /\ \/ z.up.pieces = <<>>
               \/ z.up.pieces = w.up.pieces /\ z.rx.remain = w.rx.remain /\ z.rx.notify = w.rx.notify
        BY <1>2, <1>a, <4>1, <4>2, <4>3, AnswersBrings
      <4>5. QED
        BY <1>2, <2>1, <3>2, <3>6, <4>1, <4>4 DEF x
    <3>9. CASE z = [copied EXCEPT !.rx = next]
      <4>1. z.rx = next /\ z.up = copied.up /\ KeepsTx(copied, z)
        BY <1>2, <3>7, <3>9, WithRx
      <4>2. KeepsTx(r, z)
        BY <1>2, <4>1, KeepsTxOn
      <4>3. FlowOK(z)
        <5>1. x.fs # "OVFL"
          BY <1>5 DEF FlowOK, x
        <5>2. QED
          BY <1>5, <1>a, <3>2, <3>7, <4>1, <5>1 DEF FlowOK, x
      <4>4. QED
        BY <1>2, <2>1, <3>2, <3>7, <4>1, <4>2, <4>3 DEF Brings, x
    <3>10. QED
      BY <2>3, <3>4, <3>5, <3>8, <3>9
  <2>4. QED
    BY <1>3, <1>5, <2>2, <2>3
<1>6. QED
  BY <1>3, <1>4, <1>5

-----------------------------------------------------------------------------
(* A frame goes out *)

Sent(s, z) ==
  /\ z.rx = s.rx /\ z.tx = s.tx /\ z.dir = s.dir /\ z.up = s.up
  /\ z.out.sent /\ z.out.frame = s.out.frame

DoneWith(f, done) == IF f.kind = "SF" \/ (f.kind = "CF" /\ f.last) THEN f.piece[1] ELSE done

LEMMA PlanIsNat ==
  ASSUME NEW s, Good(s)
  PROVE  \A m \in 1 .. s.up.accepted : s.up.plan[m] \in Nat
<1> DEFINE plan == s.up.plan
           a == s.up.accepted
<1>1. plan \in Seq(Nat) /\ a \in Nat /\ a <= Len(plan)
  BY Fields DEF Good, TxOK, UpType
<1> HIDE DEF plan, a
<1>2. \A m \in 1 .. a : m \in 1 .. Len(plan)
  BY <1>1
<1>3. \A m \in 1 .. a : plan[m] \in Nat
  BY <1>1, <1>2
<1>4. QED
  BY <1>3 DEF plan, a

\* What is yet to be sent, of a frame that is not a flow control
LEMMA UnsentIs ==
  ASSUME NEW s, Good(s), NEW done \in Nat, SenderOK(s, done), Unsent(s)
  PROVE  LET f == s.out.frame
         IN  /\ f \in Frames /\ FrameOK(s, f) /\ done < f.piece[1] /\ f.piece \in Pieces
             /\ s.up.plan[f.piece[1]] \in Nat /\ f.piece[1] \in Nat
<1> DEFINE f == s.out.frame
<1>1. f \in Frames /\ s.up \in UpType /\ s.up.accepted <= Len(s.up.plan)
  BY Fields DEF Good, Unsent, TxOK
<1>2. FrameOK(s, f) /\ done < f.piece[1]
  BY DEF SenderOK
<1>3. f.piece \in Pieces /\ f.piece[1] \in 1 .. s.up.accepted
  BY <1>1, <1>2, FrameFields DEF FrameOK
<1>4. s.up.plan[f.piece[1]] \in Nat
  BY <1>3, PlanIsNat
<1>5. QED
  BY <1>1, <1>2, <1>3, <1>4 DEF Pieces

LEMMA SentOK ==
  ASSUME NEW s, Good(s), s.out # NoFrame, ~ s.out.sent, NEW done \in Nat, SenderOK(s, done),
         NEW z, Sent(s, z)
  PROVE  SenderOK(z, DoneWith(s.out.frame, done)) /\ done <= DoneWith(s.out.frame, done)
<1> DEFINE f == s.out.frame
           after == DoneWith(f, done)
           x == s.tx
           a == s.up.accepted
<1>1. x \in TxType /\ s.up \in UpType /\ TxOK(x, s.up) /\ OccupantOwnsFrame(s)
  BY Fields DEF Good
<1>2. x.total \in Nat /\ x.remain \in Nat /\ a \in Nat
  BY <1>1 DEF TxType, UpType
<1>3. z.tx = x /\ z.dir = s.dir /\ z.up = s.up /\ ~ Unsent(z)
  BY DEF Sent, Unsent
<1>4. CASE f.kind = "FC"
  <2>1. after = done
    BY <1>4 DEF DoneWith
  <2>2. s.dir # "TX"
    BY <1>1, <1>4 DEF OccupantOwnsFrame
  <2>3. SenderOK(z, done)
    BY <1>3, <2>2 DEF SenderOK
  <2>4. QED
    BY <2>1, <2>3
<1>5. CASE f.kind # "FC"
  <2>1. Unsent(s)
    BY <1>5 DEF Unsent
  <2>2. FrameOK(s, f) /\ done < f.piece[1] /\ f.piece[1] \in Nat /\ f.piece[1] <= a
    BY <2>1, UnsentIs DEF FrameOK
  <2>3. /\ x.state \in {"TRANSMIT_SF", "TRANSMIT_FF"} => f.piece[1] < a
        /\ x.state \notin {"IDLE", "TRANSMIT_SF", "TRANSMIT_FF"} =>
             f.piece = <<a, x.total - x.remain>> /\ x.state = ConfirmationOf[f.kind]
    BY <2>1 DEF SenderOK
  <2>4. after = done \/ (after = f.piece[1] /\ (f.kind = "SF" \/ (f.kind = "CF" /\ f.last)))
    BY DEF DoneWith
  <2>5. /\ x.state # "IDLE" => x.total = s.up.plan[a]
        /\ x.state \in {"TRANSMIT_SF", "WAIT_SFCONF"} => x.total = 0 /\ x.remain = 0
        /\ x.state \in {"TRANSMIT_SF", "TRANSMIT_FF", "WAIT_FFCONF"} => x.remain = x.total
        /\ x.state # "IDLE" => a > 0
        /\ x.state = "TRANSMIT_SF" => done < a
        /\ x.state # "IDLE" /\ x.remain > 0 => done < a
    BY DEF SenderOK
  <2>6. ASSUME x.state # "IDLE", x.remain > 0
        PROVE  after < a
    <3>1. CASE x.state \in {"TRANSMIT_SF", "TRANSMIT_FF"}
      BY <2>3, <2>4, <2>5, <2>6, <3>1
    <3>2. CASE x.state \notin {"TRANSMIT_SF", "TRANSMIT_FF"}
      <4>1. f.piece = <<a, x.total - x.remain>> /\ x.state = ConfirmationOf[f.kind]
        BY <2>3, <2>6, <3>2
      <4>2. f.kind # "SF"
        BY <2>5, <2>6, <4>1 DEF ConfirmationOf
      <4>3. f.kind = "CF" => ~ f.last
        BY <1>2, <2>2, <2>5, <2>6, <4>1 DEF FrameOK
      <4>4. QED
        BY <2>4, <2>5, <2>6, <4>2, <4>3
    <3>3. QED
      BY <3>1, <3>2
  <2>7. x.state = "TRANSMIT_SF" => after < a
    BY <2>3, <2>4, <2>5
  <2>8. ASSUME s.dir = "TX", x.remain = 0
        PROVE  after = a
    <3>1. f.kind \in {"SF", "FF", "CF"} /\ x.state = ConfirmationOf[f.kind] /\ f.piece = <<a, x.total - x.remain>>
      BY <1>1, <2>8 DEF OccupantOwnsFrame
    <3>2. f.kind # "FF"
      BY <1>1, <2>8, <3>1 DEF ConfirmationOf, TxOK
    <3>3. x.state # "IDLE"
      BY <3>1 DEF ConfirmationOf
    <3>4. f.kind = "CF" => f.last
      BY <1>2, <2>2, <2>5, <2>8, <3>1, <3>3 DEF FrameOK
    <3>5. QED
      BY <3>1, <3>2, <3>4 DEF DoneWith
  <2>9. after <= a /\ done <= after
    BY <1>2, <2>2, <2>4
  <2> HIDE DEF after, x, f, a
  <2>10. SenderOK(z, after)
    BY <1>3, <2>5, <2>6, <2>7, <2>8, <2>9 DEF SenderOK, x, a
  <2>11. QED
    BY <2>9, <2>10 DEF after, f
<1>6. QED
  BY <1>4, <1>5

\* What a frame f leaves of the pieces that were there
Takes(f, r, t) ==
  \/ t.up.pieces = <<>>
  \/ t.up.pieces = r.up.pieces /\ f.kind # "FF"
  \/ t.up.pieces = <<f.piece>> /\ f.kind \in {"SF", "FF"}
  \/ t.up.pieces = Append(r.up.pieces, f.piece) /\ f.kind = "CF" /\ r.up.pieces # <<>>

\* The first and the last piece of what is received
LEMMA AppendEnds ==
  ASSUME NEW pieces \in Seq(Pieces), pieces # <<>>, NEW piece \in Pieces
  PROVE  LET q == Append(pieces, piece)
         IN  /\ q \in Seq(Pieces) /\ q # <<>> /\ Len(q) = Len(pieces) + 1 /\ q[Len(q)] = piece /\ q[1] = pieces[1]
             /\ Message(q) = Message(pieces)
<1>1. Len(pieces) \in Nat \ {0} /\ 1 \in 1 .. Len(pieces)
  BY EndsOf
<1> DEFINE q == Append(pieces, piece)
<1>2. /\ q \in Seq(Pieces) /\ q # <<>> /\ Len(q) = Len(pieces) + 1
      /\ q[Len(pieces) + 1] = piece /\ \A i \in 1 .. Len(pieces) : q[i] = pieces[i]
  BY AppendProperties
<1> HIDE DEF q
<1>3. q[1] = pieces[1] /\ q[Len(q)] = piece
  BY <1>1, <1>2
<1>4. QED
  BY <1>2, <1>3 DEF Message, q

LEMMA OnePiece ==
  ASSUME NEW piece \in Pieces
  PROVE  LET q == <<piece>>
         IN  q # <<>> /\ Len(q) = 1 /\ q[1] = piece /\ q[Len(q)] = piece /\ Message(q) = piece[1]
BY DEF Message

LEMMA SentInOrder ==
  ASSUME NEW s, Good(s), s.out # NoFrame, ~ s.out.sent, NEW done \in Nat, SenderOK(s, done),
         NEW z, Sent(s, z), NEW r, r.up.pieces \in Seq(Pieces), InOrder(s, r), NEW t, Takes(s.out.frame, r, t)
  PROVE  InOrder(z, t)
<1> DEFINE f == s.out.frame
           x == s.tx
           a == s.up.accepted
           old == r.up.pieces
           new == t.up.pieces
           m == Message(new)
           place == new[Len(new)][2]
<1>1. SUFFICES ASSUME new # <<>>
               PROVE  /\ x.state \in {"TRANSMIT_SF", "TRANSMIT_FF"} => m < a
                      /\ Opened(z) => m = a /\ place <= x.total - x.remain
  BY DEF InOrder, Sent, Unsent
<1>2. x \in TxType /\ OccupantOwnsFrame(s)
  BY Fields DEF Good
<1>3. x.total - x.remain \in Int
  BY <1>2 DEF TxType
<1>4. ASSUME Opened(z)
      PROVE  Opened(s) \/ (s.dir = "TX" /\ x.state = "WAIT_FFCONF" /\ f.kind = "FF")
  BY <1>2, <1>4 DEF Opened, Sent, OccupantOwnsFrame, ConfirmationOf
<1>5. CASE new = old /\ f.kind # "FF"
  BY <1>1, <1>4, <1>5 DEF InOrder
<1>6. CASE f.kind # "FC" /\ (new = <<f.piece>> \/ (new = Append(old, f.piece) /\ old # <<>> /\ f.kind = "CF"))
  <2>1. Unsent(s)
    BY <1>6 DEF Unsent
  <2>2. f.piece \in Pieces
    BY <2>1, UnsentIs
  <2>3. /\ x.state \in {"TRANSMIT_SF", "TRANSMIT_FF"} => f.piece[1] < a
        /\ x.state \notin {"IDLE", "TRANSMIT_SF", "TRANSMIT_FF"} => f.piece = <<a, x.total - x.remain>>
    BY <2>1 DEF SenderOK
  <2>4. m = f.piece[1] /\ place = f.piece[2]
    <3>1. CASE new = <<f.piece>>
      BY <2>2, <3>1, OnePiece
    <3>2. CASE new = Append(old, f.piece) /\ old # <<>> /\ f.kind = "CF"
      <4>1. new[Len(new)] = f.piece /\ Message(new) = Message(old)
        BY <2>2, <3>2, AppendEnds
      <4>2. Message(old) = f.piece[1]
        BY <2>1, <3>2 DEF InOrder
      <4>3. QED
        BY <4>1, <4>2
    <3>3. QED
      BY <1>6, <3>1, <3>2
  <2>5. Opened(z) => x.state \notin {"IDLE", "TRANSMIT_SF", "TRANSMIT_FF"}
    BY DEF Opened, Sent
  <2>6. QED
    BY <1>3, <2>3, <2>4, <2>5
<1>7. QED
  BY <1>1, <1>5, <1>6 DEF Takes

\* What is received grows no wrong by what is accepted and sent.
LEMMA ReceiverGrows ==
  ASSUME NEW s, NEW t, NEW r \in NodeType, NEW done \in Nat, NEW after \in Nat, ReceiverOK(s, r, done),
         t.up.plan = s.up.plan, s.up.accepted \in Nat, t.up.accepted \in Nat,
         s.up.accepted <= t.up.accepted, done <= after
  PROVE  ReceiverOK(t, r, after)
<1> DEFINE pieces == r.up.pieces
           delivered == r.up.delivered
<1>1. r.up \in UpType
  BY Fields
<1>2. pieces \in Seq(Pieces) /\ delivered \in Seq(Pieces)
  BY <1>1 DEF UpType
<1>3. Message(delivered) \in Nat /\ Message(pieces) \in Nat
  <2>1. \A q \in Seq(Pieces) : Message(q) \in Nat
    BY EndsOf DEF Message
  <2>2. QED
    BY <1>2, <2>1
<1>4. Message(delivered) <= after
  BY <1>3 DEF ReceiverOK
<1>5. Message(pieces) \in 1 .. s.up.accepted => Message(pieces) \in 1 .. t.up.accepted
  BY <1>3
<1>6. Message(pieces) <= done => Message(pieces) <= after
  BY <1>3
<1>7. QED
  BY <1>4, <1>5, <1>6 DEF ReceiverOK

LEMMA RisingAppend ==
  ASSUME NEW pieces \in Seq(Pieces), pieces # <<>>, Rising(pieces), NEW piece \in Pieces,
         piece[1] = pieces[1][1], pieces[Len(pieces)][2] < piece[2]
  PROVE  Rising(Append(pieces, piece))
<1> DEFINE q == Append(pieces, piece)
           L == Len(pieces)
<1>1. L \in Nat \ {0} /\ 1 \in 1 .. L /\ L \in 1 .. L
  BY EndsOf
<1>2. /\ Len(q) = L + 1 /\ q[L + 1] = piece /\ \A i \in 1 .. L : q[i] = pieces[i]
  BY AppendProperties
<1> HIDE DEF q
<1>3. q[1][2] = 0 /\ q[1][1] = pieces[1][1]
  BY <1>1, <1>2 DEF Rising
<1>4. \A i \in 1 .. Len(q) : q[i][1] = q[1][1]
  <2>1. \A i \in 1 .. L : q[i][1] = q[1][1]
    BY <1>2, <1>3 DEF Rising
  <2>2. q[L + 1][1] = q[1][1]
    BY <1>2, <1>3
  <2>3. QED
    BY <1>1, <1>2, <2>1, <2>2
<1>5. ASSUME NEW i \in 1 .. Len(q), NEW j \in 1 .. Len(q), i <= j
      PROVE  q[j][2] - q[i][2] >= j - i
  <2>1. CASE j \in 1 .. L
    <3>1. i \in 1 .. L
      BY <1>5, <2>1
    <3>2. pieces[j][2] - pieces[i][2] >= j - i
      BY <1>5, <2>1, <3>1, RisingAt
    <3>3. QED
      BY <1>2, <2>1, <3>1, <3>2
  <2>2. CASE j = L + 1 /\ i \in 1 .. L
    <3> DEFINE a == pieces[i][2]
               b == pieces[L][2]
               c == piece[2]
    <3>1. a \in Nat /\ b \in Nat /\ c \in Nat
      BY <1>1, <2>2, PieceIs DEF Pieces
    <3>2. b - a >= L - i
      <4>1. i <= L
        BY <1>1, <2>2
      <4>2. QED
        BY <1>1, <2>2, <4>1, RisingAt
    <3>3. q[j][2] = c /\ q[i][2] = a /\ b < c
      BY <1>2, <2>2
    <3> HIDE DEF a, b, c, L
    <3>4. QED
      BY <1>1, <2>2, <3>1, <3>2, <3>3
  <2>3. CASE j = L + 1 /\ i = L + 1
    <3>1. q[j][2] \in Nat
      BY <1>2, <2>3 DEF Pieces
    <3>2. QED
      BY <1>1, <2>3, <3>1
  <2>4. QED
    BY <1>1, <1>2, <1>5, <2>1, <2>2, <2>3
<1>6. Rising(q)
  BY <1>3, <1>4, <1>5 DEF Rising
<1>7. QED
  BY <1>6 DEF q

LEMMA RisingOne ==
  ASSUME NEW piece \in Pieces, piece[2] = 0
  PROVE  Rising(<<piece>>)
<1> DEFINE q == <<piece>>
<1>1. Len(q) = 1 /\ q[1] = piece
  OBVIOUS
<1> HIDE DEF q
<1>2. \A i \in 1 .. Len(q) : i = 1
  BY <1>1
<1>3. q[1][2] - q[1][2] >= 1 - 1
  BY <1>1
<1>4. Rising(q)
  BY <1>1, <1>2, <1>3 DEF Rising
<1>5. QED
  BY <1>4 DEF q

\* A reception that begins with a message that was not sent before
LEMMA BegunKeeps ==
  ASSUME NEW s, NEW r \in NodeType, NEW t, NEW done \in Nat, NEW after \in Nat, ReceiverOK(s, r, done),
         Brings(r, t), done <= after, NEW f, FrameOK(s, f), f.piece \in Pieces, f.kind \in {"SF", "FF"},
         done < f.piece[1], s.up.plan[f.piece[1]] \in Nat,
         \/ t.up.pieces = <<>>
         \/ /\ t.up.pieces = <<f.piece>>
            /\ IF f.kind = "SF" THEN t.rx.notify /\ after = f.piece[1] ELSE ~ t.rx.notify /\ t.rx.remain = f.total
  PROVE  ReceiverOK(s, t, after) /\ Takes(f, r, t)
<1> DEFINE pieces == t.up.pieces
           m == f.piece[1]
<1>1. Message(r.up.delivered) \in Nat
  <2>1. r.up.delivered \in Seq(Pieces)
    BY Fields DEF UpType
  <2>2. QED
    BY <2>1, EndsOf DEF Message
<1>2. /\ FlowOK(t) /\ Whole(s.up.plan, t.up.delivered) /\ Message(t.up.delivered) <= done
      /\ Message(t.up.delivered) <= after /\ Message(t.up.delivered) \in Nat
  BY <1>1 DEF Brings, ReceiverOK
<1>3. CASE pieces = <<>>
  BY <1>2, <1>3 DEF ReceiverOK, Takes
<1>4. CASE pieces = <<f.piece>>
  <2>1. /\ pieces # <<>> /\ Len(pieces) = 1 /\ pieces[1] = f.piece /\ pieces[Len(pieces)] = f.piece
        /\ Message(pieces) = m
    BY <1>4, OnePiece
  <2>2. f.piece[2] = 0 /\ m \in 1 .. s.up.accepted /\ m \in Nat
    BY DEF FrameOK, Pieces
  <2>3. Rising(pieces)
    BY <1>4, <2>2, RisingOne
  <2>4. m > Message(t.up.delivered) /\ 0 <= s.up.plan[m]
    BY <1>2, <2>2
  <2>5. CASE f.kind = "SF"
    <3>1. t.rx.notify /\ m <= after /\ Len(pieces) = s.up.plan[m] + 1
      BY <1>4, <2>1, <2>2, <2>5 DEF FrameOK
    <3>2. QED
      BY <1>2, <1>4, <2>1, <2>2, <2>3, <2>4, <2>5, <3>1 DEF ReceiverOK, Takes
  <2>6. CASE f.kind = "FF"
    <3>1. ~ t.rx.notify /\ t.rx.remain = s.up.plan[m] + 1 - Len(pieces)
      BY <1>4, <2>1, <2>2, <2>6 DEF FrameOK
    <3>2. QED
      BY <1>2, <1>4, <2>1, <2>2, <2>3, <2>4, <2>6, <3>1 DEF ReceiverOK, Takes
  <2>7. QED
    BY <2>5, <2>6
<1>5. QED
  BY <1>3, <1>4

\* A reception that goes on: no frame is left for what would be one too many, or out of its order.
LEMMA ContinuedKeeps ==
  ASSUME NEW s, Good(s), NEW r \in NodeType, NEW t, NEW done \in Nat, SenderOK(s, done), ReceiverOK(s, r, done),
         InOrder(s, r), Unsent(s), s.out.frame.kind = "CF", Brings(r, t),
         r.up.pieces # <<>>, ~ r.rx.notify, t.up.pieces = Append(r.up.pieces, s.out.frame.piece),
         IF t.rx.notify THEN r.rx.remain = 1 ELSE t.rx.remain = r.rx.remain - 1
  PROVE  ReceiverOK(s, t, DoneWith(s.out.frame, done)) /\ Takes(s.out.frame, r, t)
<1> DEFINE f == s.out.frame
           after == DoneWith(f, done)
           old == r.up.pieces
           new == t.up.pieces
           m == Message(old)
           k == s.up.plan[m]
           d == t.up.delivered
<1>1. old \in Seq(Pieces) /\ r.up.delivered \in Seq(Pieces)
  BY Fields DEF UpType
<1>2. FrameOK(s, f) /\ done < f.piece[1] /\ f.piece \in Pieces /\ s.up.plan[f.piece[1]] \in Nat /\ f.piece[1] \in Nat
  BY UnsentIs
<1>3. m = f.piece[1] /\ old[Len(old)][2] < f.piece[2] /\ Len(old) \in Nat \ {0} /\ m = old[1][1]
  BY <1>1, EndsOf DEF InOrder
<1>4. /\ FlowOK(t) /\ Whole(s.up.plan, d) /\ Message(d) <= done /\ Message(d) \in Nat
      /\ m \in 1 .. s.up.accepted /\ m > Message(d) /\ Rising(old) /\ r.rx.remain = k + 1 - Len(old)
  <2>1. Message(r.up.delivered) \in Nat
    BY <1>1, EndsOf DEF Message
  <2>2. QED
    BY <2>1 DEF Brings, ReceiverOK
<1>5. /\ new \in Seq(Pieces) /\ new # <<>> /\ Len(new) = Len(old) + 1 /\ new[Len(new)] = f.piece
      /\ Message(new) = m
  BY <1>1, <1>2, AppendEnds
<1>6. Rising(new)
  BY <1>1, <1>2, <1>3, <1>4, RisingAppend
<1>7. f.piece[2] <= k /\ k \in Nat /\ f.piece[2] \in Nat /\ (f.last <=> f.piece[2] = k)
  BY <1>2, <1>3 DEF FrameOK, Pieces
<1>8. ~ t.rx.notify => t.rx.remain = k + 1 - Len(new)
  BY <1>3, <1>4, <1>5, <1>7
<1>9. ASSUME t.rx.notify
      PROVE  Len(new) = k + 1 /\ f.last
  <2>1. Len(new) = k + 1
    <3>1. k + 1 - Len(old) = 1
      BY <1>4, <1>9
    <3> HIDE DEF k, old, new, f, m
    <3>2. QED
      BY <1>3, <1>5, <1>7, <3>1
  <2>2. new[Len(new)][2] - new[1][2] >= Len(new) - 1
    <3>1. 1 \in 1 .. Len(new) /\ Len(new) \in 1 .. Len(new) /\ 1 <= Len(new)
      BY <1>5, EndsOf
    <3>2. QED
      BY <1>6, <3>1, RisingAt
  <2>3. new[1][2] = 0
    BY <1>6 DEF Rising
  <2>4. f.piece[2] >= k
    <3> HIDE DEF k, f, new
    <3>1. new[Len(new)][2] = f.piece[2]
      BY <1>5
    <3>2. f.piece[2] - 0 >= Len(new) - 1
      BY <2>2, <2>3, <3>1
    <3>3. Len(new) - 1 = k
      BY <1>7, <2>1
    <3>4. QED
      BY <1>7, <3>2, <3>3
  <2>5. QED
    BY <1>7, <2>1, <2>4
<1>10. Message(d) <= after
  BY <1>2, <1>3, <1>4 DEF DoneWith
<1>11. t.rx.notify => m <= after
  BY <1>2, <1>3, <1>9 DEF DoneWith
<1> HIDE DEF after, k, d, m, new, f
<1>12. ReceiverOK(s, t, after)
  BY <1>4, <1>5, <1>6, <1>7, <1>8, <1>9, <1>10, <1>11 DEF ReceiverOK, k, d, new
<1>13. Takes(f, r, t)
  BY DEF Takes, f
<1>14. QED
  BY <1>12, <1>13 DEF after, f

\* The other node takes the frame.
LEMMA TakenKeeps ==
  ASSUME NEW s, Good(s), NEW r, Good(r), NEW done \in Nat, SenderOK(s, done), ReceiverOK(s, r, done),
         InOrder(s, r), Unsent(s), NEW t \in RxIndication(r, s.out.frame)
  PROVE  /\ KeepsTx(r, t) /\ t.up.delivered = r.up.delivered
         /\ ReceiverOK(s, t, DoneWith(s.out.frame, done)) /\ Takes(s.out.frame, r, t)
<1> DEFINE f == s.out.frame
           after == DoneWith(f, done)
<1>1. /\ f \in Frames /\ FrameOK(s, f) /\ done < f.piece[1] /\ f.piece \in Pieces
      /\ s.up.plan[f.piece[1]] \in Nat /\ f.piece[1] \in Nat
  BY UnsentIs
<1>2. r \in NodeType /\ FlowOK(r) /\ s.up.accepted \in Nat
  BY Fields DEF Good, ReceiverOK, UpType
<1>3. after \in Nat /\ done <= after /\ (f.kind = "SF" => after = f.piece[1])
  BY <1>1 DEF DoneWith
<1>4. f.kind \in {"SF", "FF", "CF"}
  BY <1>1 DEF FrameOK
<1> HIDE DEF f, after
<1>a. t \in RxIndication(r, f)
  BY DEF f
<1>5. CASE f.kind = "SF"
  <2>1. Brings(r, t) /\ (t.up.pieces = <<>> \/ (t.up.pieces = <<f.piece>> /\ t.rx.notify))
    BY <1>a, <1>1, <1>2, <1>5, TakenSF DEF RxIndication
  <2>2. ReceiverOK(s, t, after) /\ Takes(f, r, t)
    BY <1>1, <1>2, <1>3, <1>5, <2>1, BegunKeeps
  <2>3. QED
    BY <2>1, <2>2 DEF Brings, f, after
<1>6. CASE f.kind = "FF"
  <2>1. /\ Brings(r, t)
        /\ t.up.pieces = <<>> \/ (t.up.pieces = <<f.piece>> /\ ~ t.rx.notify /\ t.rx.remain = f.total)
    BY <1>a, <1>1, <1>2, <1>6, TakenFF DEF RxIndication
  <2>2. ReceiverOK(s, t, after) /\ Takes(f, r, t)
    BY <1>1, <1>2, <1>3, <1>6, <2>1, BegunKeeps
  <2>3. QED
    BY <2>1, <2>2 DEF Brings, f, after
<1>7. CASE f.kind = "CF"
  <2>1. /\ Brings(r, t)
        /\ \/ t.up.pieces = <<>> \/ t = r
           \/ /\ r.up.pieces # <<>> /\ ~ r.rx.notify /\ t.up.pieces = Append(r.up.pieces, f.piece)
              /\ IF t.rx.notify THEN r.rx.remain = 1 ELSE t.rx.remain = r.rx.remain - 1
    BY <1>a, <1>1, <1>2, <1>7, TakenCF DEF RxIndication
  <2>2. CASE t.up.pieces = <<>> \/ t = r
    <3>1. ReceiverOK(s, t, done)
      <4>1. CASE t = r
        BY <4>1
      <4>2. CASE t.up.pieces = <<>>
        BY <2>1, <4>2, EmptiesKeeps DEF Brings, Empties
      <4>3. QED
        BY <2>2, <4>1, <4>2
    <3>2. ReceiverOK(s, t, after)
      <4>1. t \in NodeType
        BY <1>1, <1>a, RxIndicationOK DEF Good
      <4>2. s.up.plan = s.up.plan /\ s.up.accepted \in Nat /\ s.up.accepted <= s.up.accepted
        BY <1>2
      <4>3. QED
        BY <1>3, <3>1, <4>1, <4>2, ReceiverGrows
    <3>3. Takes(f, r, t)
      BY <1>7, <2>2 DEF Takes
    <3>4. QED
      BY <2>1, <3>2, <3>3 DEF Brings, f, after
  <2>3. CASE /\ r.up.pieces # <<>> /\ ~ r.rx.notify /\ t.up.pieces = Append(r.up.pieces, f.piece)
             /\ IF t.rx.notify THEN r.rx.remain = 1 ELSE t.rx.remain = r.rx.remain - 1
    <3>1. ReceiverOK(s, t, after) /\ Takes(f, r, t)
      BY <1>2, <1>7, <2>1, <2>3, ContinuedKeeps DEF f, after
    <3>2. QED
      BY <2>1, <3>1 DEF Brings, f, after
  <2>4. QED
    BY <2>1, <2>2, <2>3
<1>8. QED
  BY <1>4, <1>5, <1>6, <1>7

-----------------------------------------------------------------------------
(* The steps of one node *)

\* s goes on to z, while its peer stays r: the upper layer is told of a message that s sends, or given
\* one that it has received, or neither.
Goes(s, r, done, peerDone, z) ==
  /\ SendsTo(z, r, done) /\ Receives(r, s, z, peerDone) /\ SameMessage(s, z)
  /\ KeepsTold(s, z) \/ (Told(s, z, done) /\ z.up.delivered = s.up.delivered)

LEMMA SenderGoes ==
  ASSUME NEW s, NEW r, NEW done, NEW peerDone, NEW z, KeepsRx(s, z), SameMessage(s, z), Told(s, z, done),
         SendsTo(z, r, done), ReceiverOK(r, s, peerDone)
  PROVE  Goes(s, r, done, peerDone, z)
<1>1. FlowOK(z) /\ Waits(s, z)
  BY DEF KeepsRx, ReceiverOK, FlowOK, Waits
<1>2. ReceiverOK(r, z, peerDone)
  BY <1>1, WaitsKeeps
<1>3. QED
  BY <1>2 DEF Goes, Receives, Delivers, KeepsRx

LEMMA ReceiverGoes ==
  ASSUME NEW s, NEW r, NEW done, NEW peerDone, NEW z, KeepsTx(s, z), Receives(r, s, z, peerDone),
         SendsTo(s, r, done)
  PROVE  Goes(s, r, done, peerDone, z)
BY KeepsTxKeeps DEF Goes, KeepsTx

LEMMA SendsTells ==
  ASSUME NEW s, NEW z, Sends(s, z), NEW done
  PROVE  KeepsRx(s, z) /\ SameMessage(s, z) /\ Told(s, z, done)
BY DEF Sends, Told, Fails, Results

LEMMA ConfirmationGoes ==
  ASSUME NEW s, Good(s), s.out # NoFrame, NEW r, NEW done, SendsTo(s, r, done),
         NEW peerDone, ReceiverOK(r, s, peerDone),
         NEW result \in Results, result = "E_OK" => s.out.sent,
         NEW z, z = TxConfirmation([s EXCEPT !.out = NoFrame], result)
  PROVE  Goes(s, r, done, peerDone, z)
<1> DEFINE y == [s EXCEPT !.out = NoFrame]
           t == [y EXCEPT !.dir = "IDLE"]
<1>1. s \in NodeType
  BY DEF Good
<1>2. /\ y \in NodeType /\ y.rx = s.rx /\ y.tx = s.tx /\ y.dir = s.dir /\ y.up = s.up /\ y.out = NoFrame
  BY <1>1 DEF NodeType
<1> HIDE DEF y
<1>3. t \in NodeType /\ t.dir = "IDLE" /\ t.rx = s.rx /\ t.tx = s.tx /\ t.up = s.up /\ t.out = NoFrame
  BY <1>2, ReleasedOK
<1>4. \/ s.dir = "TX" /\ result = "E_OK" /\ z = TxConfirmationTx(t)
      \/ s.dir = "TX" /\ result = "E_NOT_OK" /\ z = TxEnd(t, "E_NOT_OK")
      \/ s.dir = "RX" /\ result = "E_OK" /\ z = TxFCConfirmation(t)
      \/ s.dir = "RX" /\ result = "E_NOT_OK" /\ z = RxFail(t)
      \/ s.dir = "IDLE" /\ z = y
  <2>1. y.dir \in {"IDLE", "TX", "RX"} /\ z = TxConfirmation(y, result) /\ result \in {"E_OK", "E_NOT_OK"}
    BY <1>2 DEF NodeType, Results, y
  <2> HIDE DEF t
  <2>2. QED
    BY <1>2, <2>1 DEF TxConfirmation, t
<1> HIDE DEF t
<1>5. CASE s.dir = "TX"
  <2>1. KeepsRx(s, z) /\ SameMessage(s, z) /\ Told(s, z, done) /\ SendsTo(z, r, done)
    BY <1>3, <1>4, <1>5, TxConfirmationSends
  <2>2. QED
    BY <2>1, SenderGoes
<1>6. CASE s.dir = "RX"
  <2>1. KeepsTx(s, z) /\ Receives(r, s, z, peerDone)
    BY <1>3, <1>4, <1>6, TxFCConfirmationReceives
  <2>2. QED
    BY <2>1, ReceiverGoes
<1>7. CASE s.dir = "IDLE"
  <2>1. z = y
    BY <1>4, <1>7
  <2>2. KeepsTx(s, z) /\ FlowOK(z) /\ Waits(s, z) /\ z.up = s.up
    BY <1>2, <1>7, <2>1 DEF KeepsTx, SameMessage, KeepsTold, KeepsOut, Unsent, ReceiverOK, FlowOK, Waits
  <2>3. Receives(r, s, z, peerDone)
    BY <2>2, WaitsKeeps DEF Receives, Delivers
  <2>4. QED
    BY <2>2, <2>3, ReceiverGoes
<1>8. QED
  BY <1>1, <1>5, <1>6, <1>7 DEF NodeType

\* A message is accepted.
LEMMA AcceptedSends ==
  ASSUME NEW s, Good(s), s.tx.state = "IDLE", s.up.accepted < Len(s.up.plan),
         NEW r \in NodeType, NEW done \in Nat, SendsTo(s, r, done), ReceiverOK(s, r, done),
         NEW z, z.dir = s.dir, z.out = s.out, z.up.plan = s.up.plan, z.up.accepted = s.up.accepted + 1,
         z.tx.total = s.up.plan[s.up.accepted + 1], z.tx.remain = z.tx.total,
         z.tx.state = IF z.tx.total = 0 THEN "TRANSMIT_SF" ELSE "TRANSMIT_FF"
  PROVE  SendsTo(z, r, done)
<1> DEFINE a == s.up.accepted
           f == s.out.frame
           pieces == r.up.pieces
<1>1. s.up \in UpType /\ a \in Nat /\ OccupantOwnsFrame(s) /\ SenderOK(s, done) /\ InOrder(s, r)
  BY Fields DEF Good, SendsTo, UpType
<1>2. done < a + 1 /\ done <= a + 1 /\ a + 1 > 0
  BY <1>1 DEF SenderOK
<1>3. z.dir # "TX"
  BY <1>1 DEF OccupantOwnsFrame, ConfirmationOf
<1>4. Unsent(z) <=> Unsent(s)
  BY DEF Unsent
<1>5. ASSUME Unsent(s)
      PROVE  FrameOK(z, f) /\ done < f.piece[1] /\ f.piece[1] < a + 1
  <2>1. FrameOK(s, f) /\ done < f.piece[1] /\ f.piece[1] \in 1 .. a
    BY <1>1, <1>5 DEF SenderOK, FrameOK
  <2>2. f.piece[1] \in 1 .. a + 1 /\ f.piece[1] < a + 1
    BY <1>1, <2>1
  <2>3. QED
    BY <2>1, <2>2 DEF FrameOK
<1>6. SenderOK(z, done)
  BY <1>2, <1>3, <1>4, <1>5 DEF SenderOK
<1>7. InOrder(z, r)
  <2>1. ~ Opened(z)
    BY DEF Opened
  <2>2. pieces # <<>> => Message(pieces) < a + 1
    BY <1>1 DEF ReceiverOK
  <2>3. QED
    BY <1>1, <1>4, <2>1, <2>2 DEF InOrder
<1>8. QED
  BY <1>6, <1>7 DEF SendsTo

-----------------------------------------------------------------------------
(* The invariant holds after each step *)

LEMMA PeerOfPeer ==
  ASSUME NEW n \in Nodes
  PROVE  Peer(Peer(n)) = n /\ Nodes = {n, Peer(n)}
<1>1. PICK a \in Nodes, b \in Nodes : a # b /\ Nodes = {a, b}
  BY CanTpConstants
<1>2. Peer(n) \in Nodes /\ Peer(n) # n /\ Peer(Peer(n)) \in Nodes /\ Peer(Peer(n)) # Peer(n)
  BY PeerIs
<1>3. QED
  BY <1>1, <1>2

\* What IInv says of a node and of its peer
LEMMA PairIs ==
  ASSUME IInv, NEW n \in Nodes
  PROVE  LET p == Peer(n)
         IN  /\ p \in Nodes /\ p # n /\ Peer(p) = n /\ Good(node[n]) /\ Good(node[p])
             /\ carried[n] \in Nat /\ carried[p] \in Nat
             /\ node[n] \in NodeType /\ node[p] \in NodeType
             /\ node[n].up.pieces \in Seq(Pieces) /\ node[p].up.pieces \in Seq(Pieces)
             /\ node[n].up.accepted \in Nat /\ node[p].up.accepted \in Nat
             /\ SendsTo(node[n], node[p], carried[n]) /\ ReceiverOK(node[n], node[p], carried[n])
             /\ SendsTo(node[p], node[n], carried[p]) /\ ReceiverOK(node[p], node[n], carried[p])
<1> DEFINE p == Peer(n)
<1>1. p \in Nodes /\ p # n /\ Peer(p) = n
  BY PeerIs, PeerOfPeer
<1>2. Good(node[n]) /\ Good(node[p]) /\ carried[n] \in Nat /\ carried[p] \in Nat
  BY <1>1, GoodNodes DEF IInv
<1>3. PairOK(node[n], node[p], carried[n]) /\ PairOK(node[p], node[Peer(p)], carried[p])
  BY <1>1 DEF IInv
<1>4. \A s : Good(s) => s \in NodeType /\ s.up.pieces \in Seq(Pieces) /\ s.up.accepted \in Nat
  BY Fields DEF Good, UpType
<1>5. QED
  BY <1>1, <1>2, <1>3, <1>4 DEF PairOK, SendsTo

\* One node changes, and what it has accepted does not shrink.
LEMMA OneNodeKeeps ==
  ASSUME IInv, CanTpInvariant', NEW n \in Nodes, NEW z,
         node' = [node EXCEPT ![n] = z], UNCHANGED carried,
         z.up.plan = node[n].up.plan, z.up.accepted \in Nat, node[n].up.accepted <= z.up.accepted,
         SendsTo(z, node[Peer(n)], carried[n]), ReceiverOK(node[Peer(n)], z, carried[Peer(n)]),
         z.up.pieces \in {node[n].up.pieces, <<>>}
  PROVE  IInv'
<1> DEFINE p == Peer(n)
           s == node[n]
           r == node[p]
<1>1. /\ p \in Nodes /\ p # n /\ Peer(p) = n /\ Nodes = {n, p} /\ r \in NodeType
      /\ carried[n] \in Nat /\ s.up.accepted \in Nat
      /\ ReceiverOK(s, r, carried[n]) /\ SendsTo(r, s, carried[p])
  BY PairIs, PeerOfPeer
<1>2. node'[n] = z /\ node'[p] = r
  BY <1>1, GoodNodes DEF IInv
<1> HIDE DEF p, s, r
<1>3. ReceiverOK(z, r, carried[n])
  <2>1. z.up.plan = s.up.plan /\ s.up.accepted <= z.up.accepted /\ carried[n] <= carried[n]
    BY <1>1 DEF s
  <2>2. QED
    BY <1>1, <2>1, ReceiverGrows
<1>4. PairOK(z, r, carried[n])
  BY <1>3 DEF PairOK, SendsTo, p, r
<1>5. PairOK(r, z, carried[p])
  BY <1>1, PiecesKeep DEF PairOK, SendsTo, p, r, s
<1>6. \A m \in Nodes : PairOK(node'[m], node'[Peer(m)], carried'[m])
  <2>1. PairOK(node'[n], node'[p], carried'[n]) /\ PairOK(node'[p], node'[n], carried'[p])
    BY <1>2, <1>4, <1>5
  <2>2. QED
    BY <1>1, <2>1 DEF p
<1>7. QED
  BY <1>6 DEF IInv

LEMMA GoesKeeps ==
  ASSUME IInv, CanTpInvariant', NEW n \in Nodes, NEW z,
         node' = [node EXCEPT ![n] = z], UNCHANGED carried,
         Goes(node[n], node[Peer(n)], carried[n], carried[Peer(n)], z)
  PROVE  IInv'
<1>1. node[n].up.accepted \in Nat
  BY PairIs
<1>2. z.up.plan = node[n].up.plan /\ z.up.accepted \in Nat /\ node[n].up.accepted <= z.up.accepted
  BY <1>1 DEF Goes, SameMessage
<1>3. QED
  BY <1>2, OneNodeKeeps DEF Goes, Receives

LEMMA CancelTransmitGoes ==
  ASSUME IInv, NEW n \in Nodes, CancelTransmit(n)
  PROVE  \E z : /\ node' = [node EXCEPT ![n] = z] /\ UNCHANGED carried
                /\ Goes(node[n], node[Peer(n)], carried[n], carried[Peer(n)], z)
<1> DEFINE s == node[n]
           d == [s EXCEPT !.dir = IF @ = "TX" THEN "IDLE" ELSE @]
           z == TxEnd(d, "E_NOT_OK")
           r == node[Peer(n)]
           done == carried[n]
           peerDone == carried[Peer(n)]
<1>1. /\ Good(s) /\ s \in NodeType /\ Sending(s) /\ SendsTo(s, r, done) /\ ReceiverOK(r, s, peerDone)
  BY PairIs, GoodSends DEF CancelTransmit
<1>2. node' = [node EXCEPT ![n] = z] /\ UNCHANGED carried
  BY DEF CancelTransmit
<1> HIDE DEF s, r, done, peerDone
<1>3. z = TxEnd([s EXCEPT !.dir = "IDLE"], "E_NOT_OK") \/ (z = TxEnd(s, "E_NOT_OK") /\ s.dir # "TX")
  <2>1. s.dir = "TX" => d = [s EXCEPT !.dir = "IDLE"]
    BY <1>1 DEF NodeType
  <2>2. s.dir # "TX" => d = s
    BY <1>1 DEF NodeType
  <2>3. QED
    BY <2>1, <2>2
<1> HIDE DEF z
<1>4. Sends(s, z) /\ SendsTo(z, r, done)
  BY <1>1, <1>3, FailedEnd
<1>5. Goes(s, r, done, peerDone, z)
  BY <1>1, <1>4, SendsTells, SenderGoes
<1>6. QED
  BY <1>2, <1>5 DEF s, r, done, peerDone

LEMMA CancelReceiveGoes ==
  ASSUME IInv, NEW n \in Nodes, CancelReceive(n)
  PROVE  \E z : /\ node' = [node EXCEPT ![n] = z] /\ UNCHANGED carried
                /\ Goes(node[n], node[Peer(n)], carried[n], carried[Peer(n)], z)
<1>1. Goes(node[n], node[Peer(n)], carried[n], carried[Peer(n)], RxFail(node[n]))
  BY PairIs, RxFailReceives, ReceiverGoes
<1>2. QED
  BY <1>1 DEF CancelReceive

LEMMA MainFunctionGoes ==
  ASSUME IInv, NEW n \in Nodes, MainFunction(n)
  PROVE  \E z : /\ node' = [node EXCEPT ![n] = z] /\ UNCHANGED carried
                /\ Goes(node[n], node[Peer(n)], carried[n], carried[Peer(n)], z)
<1> DEFINE s == node[n]
           r == node[Peer(n)]
           done == carried[n]
           peerDone == carried[Peer(n)]
<1>1. /\ Good(s) /\ Good(r) /\ r.up.pieces \in Seq(Pieces)
      /\ SendsTo(s, r, done) /\ ReceiverOK(r, s, peerDone)
  BY PairIs
<1>2. CASE MainFunctionRx(n)
  <2>1. PICK z \in HandleRxChannels(s) : node' = [node EXCEPT ![n] = z]
    BY <1>2 DEF MainFunctionRx
  <2>2. UNCHANGED carried
    BY <1>2 DEF MainFunctionRx
  <2> HIDE DEF s, r, done, peerDone
  <2>3. KeepsTx(s, z) /\ Receives(r, s, z, peerDone)
    BY <1>1, PlanIsNat, HandleRxChannelsReceives
  <2>4. Goes(s, r, done, peerDone, z)
    BY <1>1, <2>3, ReceiverGoes
  <2>5. QED
    BY <2>1, <2>2, <2>4 DEF s, r, done, peerDone
<1>3. CASE MainFunctionTx(n)
  <2>1. PICK z \in HandleTxChannels(s) : node' = [node EXCEPT ![n] = z]
    BY <1>3 DEF MainFunctionTx
  <2>2. UNCHANGED carried
    BY <1>3 DEF MainFunctionTx
  <2> HIDE DEF s, r, done, peerDone
  <2>3. Sends(s, z) /\ SendsTo(z, r, done)
    BY <1>1, HandleTxChannelsSends
  <2>4. Goes(s, r, done, peerDone, z)
    BY <1>1, <2>3, SendsTells, SenderGoes
  <2>5. QED
    BY <2>1, <2>2, <2>4 DEF s, r, done, peerDone
<1>4. QED
  BY <1>2, <1>3 DEF MainFunction

LEMMA ConfirmGoes ==
  ASSUME IInv, NEW n \in Nodes, Confirm(n) \/ ConfirmNegative(n)
  PROVE  \E z : /\ node' = [node EXCEPT ![n] = z] /\ UNCHANGED carried
                /\ Goes(node[n], node[Peer(n)], carried[n], carried[Peer(n)], z)
<1> DEFINE s == node[n]
           r == node[Peer(n)]
           done == carried[n]
           peerDone == carried[Peer(n)]
<1>1. Good(s) /\ SendsTo(s, r, done) /\ ReceiverOK(r, s, peerDone)
  BY PairIs
<1>2. s.out # NoFrame
  BY DEF Confirm, ConfirmNegative, NoFrame
<1>3. PICK result \in Results : /\ node' = [node EXCEPT ![n] = TxConfirmation([s EXCEPT !.out = NoFrame], result)]
                                /\ result = "E_OK" => s.out.sent
  BY DEF Confirm, ConfirmNegative, Results
<1>4. UNCHANGED carried
  BY DEF Confirm, ConfirmNegative
<1> HIDE DEF s, r, done, peerDone
<1>5. Goes(s, r, done, peerDone, TxConfirmation([s EXCEPT !.out = NoFrame], result))
  BY <1>1, <1>2, <1>3, ConfirmationGoes
<1>6. QED
  BY <1>3, <1>4, <1>5 DEF s, r, done, peerDone

\* The node that Transmit(n) leaves, and what it shows to the upper layer
LEMMA TransmitIs ==
  ASSUME IInv, NEW n \in Nodes, Transmit(n)
  PROVE  \E z : /\ node' = [node EXCEPT ![n] = z] /\ UNCHANGED carried
                /\ z.up.plan = node[n].up.plan /\ z.up.accepted = node[n].up.accepted + 1
                /\ node[n].up.pending = 0 /\ z.up.pending = 1 /\ z.up.result = node[n].up.result
                /\ z.up.pieces = node[n].up.pieces /\ z.up.delivered = node[n].up.delivered
                /\ SendsTo(z, node[Peer(n)], carried[n]) /\ ReceiverOK(node[Peer(n)], z, carried[Peer(n)])
<1> DEFINE s == node[n]
           u == s.up
           r == node[Peer(n)]
           done == carried[n]
           peerDone == carried[Peer(n)]
           total == u.plan[u.accepted + 1]
           state == IF total = 0 THEN "TRANSMIT_SF" ELSE "TRANSMIT_FF"
           up == [u EXCEPT !.accepted = u.accepted + 1, !.pending = u.pending + 1]
           x == [IdleTx EXCEPT !.state = state, !.timer = N_Cs, !.total = total, !.remain = total]
           z == [s EXCEPT !.up = up, !.tx = x]
<1>1. /\ Good(s) /\ s \in NodeType /\ u \in UpType /\ TxOK(s.tx, u) /\ r \in NodeType /\ done \in Nat
      /\ SendsTo(s, r, done) /\ ReceiverOK(s, r, done) /\ ReceiverOK(r, s, peerDone)
      /\ s.tx.state = "IDLE" /\ u.accepted < Len(u.plan)
  BY PairIs, Fields DEF Good, Transmit
<1>2. node' = [node EXCEPT ![n] = z] /\ UNCHANGED carried
  BY <1>1 DEF Transmit, NodeType, UpType
<1> HIDE DEF total
<1>3. x.state = state /\ x.total = total /\ x.remain = total
  BY DEF IdleTx
<1>4. u.pending = 0
  BY <1>1 DEF TxOK, UpType
<1> HIDE DEF x, r, done, peerDone, u
<1>5. /\ up.plan = u.plan /\ up.accepted = u.accepted + 1 /\ up.pending = 1 /\ up.result = u.result
      /\ up.pieces = u.pieces /\ up.delivered = u.delivered
  BY <1>1, <1>4 DEF UpType
<1> HIDE DEF up
<1>6. z.up = up /\ z.tx = x /\ z.rx = s.rx /\ z.dir = s.dir /\ z.out = s.out
  BY <1>1 DEF NodeType
<1> HIDE DEF z, s
<1>7. SendsTo(z, r, done)
  BY <1>1, <1>3, <1>5, <1>6, AcceptedSends DEF u, total
<1>8. ReceiverOK(r, z, peerDone)
  <2>1. FlowOK(z) /\ Waits(s, z)
    BY <1>1, <1>5, <1>6 DEF ReceiverOK, FlowOK, Waits, u
  <2>2. QED
    BY <1>1, <2>1, WaitsKeeps
<1>9. QED
  BY <1>2, <1>4, <1>5, <1>6, <1>7, <1>8 DEF s, u, r, done, peerDone

\* The nodes that Send(n) leaves, and what they show to the upper layers
LEMMA SendIs ==
  ASSUME IInv, FirstFramesArrive, NEW n \in Nodes, Send(n)
  PROVE  LET s == node[n]
             p == Peer(n)
             r == node[p]
             f == s.out.frame
             after == DoneWith(f, carried[n])
         IN  \E z, t :
               /\ node' = [node EXCEPT ![n] = z, ![p] = t]
               /\ carried' = [carried EXCEPT ![n] = after]
               /\ z.up = s.up /\ SameMessage(r, t) /\ t.up.delivered = r.up.delivered
               /\ PairOK(z, t, after) /\ PairOK(t, z, carried[p])
               /\ \/ KeepsTold(r, t) /\ (after = carried[n] \/ after \in carried[n] + 1 .. s.up.accepted)
                  \/ Fails(r, t) /\ after = carried[n]
<1> DEFINE s == node[n]
           p == Peer(n)
           r == node[p]
           f == s.out.frame
           done == carried[n]
           peerDone == carried[p]
           after == DoneWith(f, done)
           out == [s.out EXCEPT !.sent = TRUE]
           z == [s EXCEPT !.out = out]
<1>1. /\ Good(s) /\ Good(r) /\ s \in NodeType /\ r \in NodeType /\ done \in Nat /\ peerDone \in Nat /\ p # n
      /\ s.up.accepted \in Nat /\ r.up.accepted \in Nat /\ r.up.pieces \in Seq(Pieces)
      /\ SendsTo(s, r, done) /\ ReceiverOK(s, r, done) /\ SendsTo(r, s, peerDone) /\ ReceiverOK(r, s, peerDone)
      /\ SenderOK(s, done) /\ InOrder(s, r) /\ p \in Nodes
  BY PairIs DEF SendsTo
<1>2. s.out # NoFrame /\ ~ s.out.sent /\ s.out \in [sent : BOOLEAN, frame : Frames] /\ f \in Frames
  BY <1>1, Fields DEF Send
<1>3. PICK t \in RxIndication(r, f) \cup (IF f.kind \in Missed THEN {r} ELSE {}) :
        node' = [node EXCEPT ![n].out.sent = TRUE, ![p] = t]
  BY DEF Send
<1>4. node' = [node EXCEPT ![n] = z, ![p] = t]
  BY <1>1, <1>3, GoodNodes DEF NodeType, IInv
<1>5. carried' = [carried EXCEPT ![n] = after]
  <2>1. carried' = CarriedWith(n) /\ carried \in [Nodes -> Nat]
    BY GoodNodes DEF Send, IInv
  <2>2. QED
    BY <2>1 DEF CarriedWith, DoneWith
<1>6. Sent(s, z)
  <2>1. out.sent /\ out.frame = f
    BY <1>2
  <2> HIDE DEF out, f
  <2>2. z.rx = s.rx /\ z.tx = s.tx /\ z.dir = s.dir /\ z.up = s.up /\ z.out = out
    BY <1>1 DEF NodeType
  <2> HIDE DEF z
  <2>3. QED
    BY <2>1, <2>2 DEF Sent, f
<1> HIDE DEF z, s, r, p, done, peerDone
<1>7. SenderOK(z, after) /\ done <= after
  BY <1>1, <1>2, <1>6, SentOK
<1>8. Good(t)
  BY <1>1, <1>2, <1>3, RxIndicationOK
<1>9. ASSUME ReceiverOK(s, t, after), Takes(f, r, t), after \in Nat, SameMessage(r, t),
             t.up.delivered = r.up.delivered, SendsTo(t, s, peerDone)
      PROVE  PairOK(z, t, after) /\ PairOK(t, z, peerDone)
  <2>1. z.up = s.up /\ z.rx = s.rx
    BY <1>6 DEF Sent
  <2>2. ReceiverOK(z, t, after)
    BY <1>9, <2>1 DEF ReceiverOK
  <2>3. InOrder(z, t)
    BY <1>1, <1>2, <1>6, <1>9, SentInOrder
  <2>4. SenderOK(t, peerDone) /\ InOrder(t, z)
    BY <1>9, <2>1 DEF SendsTo, InOrder
  <2>5. ReceiverOK(t, z, peerDone)
    BY <1>1, <1>9, <2>1 DEF ReceiverOK, SameMessage, FlowOK
  <2>6. QED
    BY <1>7, <2>2, <2>3, <2>4, <2>5 DEF PairOK
<1>10. z.up = s.up
  BY <1>6 DEF Sent
<1>11. CASE f.kind = "FC"
  <2>1. after = done
    BY <1>11 DEF DoneWith
  <2>2. Sends(r, t) /\ SendsTo(t, s, peerDone)
    <3>1. CASE t = r
      BY <1>1, <3>1 DEF Sends, KeepsRx, SameMessage, KeepsTold
    <3>2. CASE t \in RxIndication(r, f)
      <4>1. t \in RxSubDealWithFC(r, f)
        BY <1>11, <3>2 DEF RxIndication
      <4>2. QED
        BY <1>1, <1>2, <1>11, <4>1, RxSubDealWithFCSends
    <3>3. QED
      BY <1>3, <3>1, <3>2
  <2>3. t.rx = r.rx /\ t.up.pieces = r.up.pieces /\ t.up.delivered = r.up.delivered /\ SameMessage(r, t)
    BY <2>2 DEF Sends, KeepsRx
  <2>4. ReceiverOK(s, t, after) /\ Takes(f, r, t)
    BY <1>1, <1>11, <2>1, <2>3 DEF ReceiverOK, FlowOK, Takes
  <2>5. PairOK(z, t, after) /\ PairOK(t, z, peerDone)
    BY <1>1, <1>9, <2>1, <2>2, <2>3, <2>4
  <2>6. KeepsTold(r, t) \/ Fails(r, t)
    BY <2>2 DEF Sends
  <2>7. QED
    BY <1>4, <1>5, <1>10, <2>1, <2>3, <2>5, <2>6 DEF s, r, p, done, peerDone
<1>12. CASE f.kind # "FC"
  <2>1. Unsent(s)
    BY <1>2, <1>12 DEF Unsent
  <2>2. /\ FrameOK(s, f) /\ done < f.piece[1] /\ f.piece[1] \in Nat /\ f.piece[1] <= s.up.accepted
    BY <1>1, <2>1, UnsentIs DEF FrameOK
  <2>3. after \in Nat /\ (after = done \/ after \in done + 1 .. s.up.accepted)
    BY <1>1, <2>2 DEF DoneWith
  <2>4. KeepsTx(r, t) /\ t.up.delivered = r.up.delivered /\ ReceiverOK(s, t, after) /\ Takes(f, r, t)
    <3>1. CASE t = r /\ f.kind \in Missed
      <4>1. f.kind # "FF"
        BY <3>1 DEF FirstFramesArrive
      <4>2. ReceiverOK(s, r, after)
        <5> HIDE DEF after
        <5>1. s.up.accepted <= s.up.accepted
          BY <1>1
        <5>2. QED
          BY <1>1, <1>7, <2>3, <5>1, ReceiverGrows
      <4>3. QED
        BY <3>1, <4>1, <4>2 DEF Takes, KeepsTx, SameMessage, KeepsTold, KeepsOut
    <3>2. CASE t \in RxIndication(r, f)
      BY <1>1, <2>1, <3>2, TakenKeeps
    <3>3. QED
      BY <1>3, <3>1, <3>2
  <2>5. SendsTo(t, s, peerDone)
    BY <1>1, <2>4, KeepsTxKeeps
  <2>6. SameMessage(r, t) /\ KeepsTold(r, t)
    BY <2>4 DEF KeepsTx
  <2>7. PairOK(z, t, after) /\ PairOK(t, z, peerDone)
    BY <1>9, <2>3, <2>4, <2>5, <2>6
  <2>8. QED
    BY <1>4, <1>5, <1>10, <2>3, <2>4, <2>6, <2>7 DEF s, r, p, done, peerDone
<1>13. QED
  BY <1>11, <1>12

-----------------------------------------------------------------------------
(* What the steps are to the upper layers *)

\* What was given to the upper layer is a whole message: MessageOf is its number.
LEMMA WholeIs ==
  ASSUME IInv, NEW n \in Nodes
  PROVE  MessageOf(n, node[Peer(n)].up.delivered) = Message(node[Peer(n)].up.delivered)
<1>1. Whole(node[n].up.plan, node[Peer(n)].up.delivered)
  BY PairIs DEF ReceiverOK
<1>2. QED
  BY <1>1 DEF Whole, MessageOf, Message

LEMMA WholeIsThen == IInv' =>
  \A n \in Nodes : MessageOf(n, node[Peer(n)].up.delivered)' = Message(node'[Peer(n)].up.delivered)
<1>1. IInv => \A n \in Nodes : MessageOf(n, node[Peer(n)].up.delivered) = Message(node[Peer(n)].up.delivered)
  BY WholeIs
<1>2. IInv' => (\A n \in Nodes : MessageOf(n, node[Peer(n)].up.delivered) = Message(node[Peer(n)].up.delivered))'
  BY <1>1, PTL
<1>3. QED
  BY <1>2

\* What the upper layers see, in the terms of the abstract specification
Accepted == [n \in Nodes |-> node[n].up.accepted]
Pending == [n \in Nodes |-> node[n].up.pending = 1]
Result == [n \in Nodes |-> node[n].up.result]
Delivered == [n \in Nodes |-> MessageOf(n, node[Peer(n)].up.delivered)]

LEMMA TransferSteps ==
  /\ Transfer!vars = <<Accepted, Pending, Result, carried, Delivered>>
  /\ \A n \in Nodes :
       /\ /\ ~ Pending[n] /\ Pending' = [Pending EXCEPT ![n] = TRUE]
          /\ Accepted' = [Accepted EXCEPT ![n] = Accepted[n] + 1]
          /\ UNCHANGED <<Result, carried, Delivered>>
          => Transfer!Next
       /\ \A m \in carried[n] + 1 .. Accepted[n] :
            /\ carried' = [carried EXCEPT ![n] = m] /\ UNCHANGED <<Accepted, Pending, Result, Delivered>>
            => Transfer!Next
       /\ \A r \in {"E_OK", "E_NOT_OK"} :
            /\ Pending[n] /\ (r = "E_OK" => carried[n] = Accepted[n])
            /\ Pending' = [Pending EXCEPT ![n] = FALSE] /\ Result' = [Result EXCEPT ![n] = r]
            /\ UNCHANGED <<Accepted, carried, Delivered>>
            => Transfer!Next
       /\ \A m \in Delivered[n] + 1 .. carried[n] :
            /\ Delivered' = [Delivered EXCEPT ![n] = m] /\ UNCHANGED <<Accepted, Pending, Result, carried>>
            => Transfer!Next
<1>1. Transfer!vars = <<Accepted, Pending, Result, carried, Delivered>>
  BY DEF Transfer!vars, Accepted, Pending, Result, Delivered
<1>2. ASSUME NEW n \in Nodes,
             ~ Pending[n], Pending' = [Pending EXCEPT ![n] = TRUE],
             Accepted' = [Accepted EXCEPT ![n] = Accepted[n] + 1], UNCHANGED <<Result, carried, Delivered>>
      PROVE  Transfer!Next
  <2>1. Transfer!Transmit(n)
    BY <1>2 DEF Transfer!Transmit, Accepted, Pending, Result, Delivered
  <2>2. QED
    BY <2>1 DEF Transfer!Next
<1>3. ASSUME NEW n \in Nodes, NEW m \in carried[n] + 1 .. Accepted[n],
             carried' = [carried EXCEPT ![n] = m], UNCHANGED <<Accepted, Pending, Result, Delivered>>
      PROVE  Transfer!Next
  <2>1. Transfer!Carry(n)
    BY <1>3 DEF Transfer!Carry, Accepted, Pending, Result, Delivered
  <2>2. QED
    BY <2>1 DEF Transfer!Next
<1>4. ASSUME NEW n \in Nodes, NEW r \in {"E_OK", "E_NOT_OK"},
             Pending[n], r = "E_OK" => carried[n] = Accepted[n],
             Pending' = [Pending EXCEPT ![n] = FALSE], Result' = [Result EXCEPT ![n] = r],
             UNCHANGED <<Accepted, carried, Delivered>>
      PROVE  Transfer!Next
  <2>1. Transfer!Confirm(n, r)
    BY <1>4 DEF Transfer!Confirm, Accepted, Pending, Result, Delivered
  <2>2. QED
    BY <2>1 DEF Transfer!Next
<1>5. ASSUME NEW n \in Nodes, NEW m \in Delivered[n] + 1 .. carried[n],
             Delivered' = [Delivered EXCEPT ![n] = m], UNCHANGED <<Accepted, Pending, Result, carried>>
      PROVE  Transfer!Next
  <2>1. Transfer!Deliver(n)
    BY <1>5 DEF Transfer!Deliver, Accepted, Pending, Result, Delivered
  <2>2. QED
    BY <2>1 DEF Transfer!Next
<1>6. QED
  BY <1>1, <1>2, <1>3, <1>4, <1>5

LEMMA UnseenSteps ==
  ASSUME UNCHANGED <<Accepted, Pending, Result, carried, Delivered>>
  PROVE  UNCHANGED Transfer!vars
BY DEF Transfer!vars, Accepted, Pending, Result, Delivered

\* The connections that the upper layers wait for
LEMMA PendingIs ==
  /\ Pending \in [Nodes -> BOOLEAN] /\ Pending' \in [Nodes -> BOOLEAN]
  /\ \A n \in Nodes : Pending[n] <=> node[n].up.pending = 1
  /\ \A n \in Nodes : Pending'[n] <=> node'[n].up.pending = 1
BY DEF Pending

LEMMA PendingChanges ==
  ASSUME NEW n \in Nodes, NEW b \in BOOLEAN, node'[n].up.pending = 1 <=> b,
         \A m \in Nodes \ {n} : node'[m].up.pending = node[m].up.pending
  PROVE  Pending' = [Pending EXCEPT ![n] = b]
<1>1. ASSUME NEW m \in Nodes
      PROVE  Pending'[m] = [Pending EXCEPT ![n] = b][m]
  <2>1. CASE m = n
    BY <2>1, PendingIs
  <2>2. CASE m # n
    BY <2>2, PendingIs
  <2>3. QED
    BY <2>1, <2>2
<1>2. QED
  BY <1>1, PendingIs

LEMMA DeliveredIs ==
  ASSUME IInv, IInv'
  PROVE  /\ Delivered = [n \in Nodes |-> Message(node[Peer(n)].up.delivered)]
         /\ Delivered' = [n \in Nodes |-> Message(node'[Peer(n)].up.delivered)]
<1>1. \A n \in Nodes : MessageOf(n, node[Peer(n)].up.delivered)' = Message(node'[Peer(n)].up.delivered)
  BY WholeIsThen
<1>2. Delivered' = [n \in Nodes |-> MessageOf(n, node[Peer(n)].up.delivered)']
  BY DEF Delivered
<1>3. Delivered' = [n \in Nodes |-> Message(node'[Peer(n)].up.delivered)]
  BY <1>1, <1>2
<1>4. Delivered = [n \in Nodes |-> Message(node[Peer(n)].up.delivered)]
  BY WholeIs DEF Delivered
<1>5. QED
  BY <1>3, <1>4

\* A step of one node is seen as a confirmation, as a message that is given, or not at all.
LEMMA GoesIsSeen ==
  ASSUME IInv, IInv', NEW n \in Nodes, NEW z,
         node' = [node EXCEPT ![n] = z], UNCHANGED carried,
         Goes(node[n], node[Peer(n)], carried[n], carried[Peer(n)], z)
  PROVE  [Transfer!Next]_(Transfer!vars)
<1> DEFINE s == node[n]
           p == Peer(n)
<1>1. /\ p \in Nodes /\ p # n /\ Peer(p) = n /\ Nodes = {n, p} /\ s.up.pieces \in Seq(Pieces)
      /\ s.up.accepted \in Nat /\ carried[p] \in Nat /\ node \in [Nodes -> NodeType]
  BY PairIs, PeerOfPeer, GoodNodes DEF IInv
<1>2. node'[n] = z /\ node'[p] = node[p]
  BY <1>1
<1>3. /\ Delivered = [m \in Nodes |-> Message(node[Peer(m)].up.delivered)]
      /\ Delivered' = [m \in Nodes |-> Message(node'[Peer(m)].up.delivered)]
  BY DeliveredIs
<1>4. z.up.accepted = s.up.accepted /\ Receives(node[p], s, z, carried[p])
  BY DEF Goes, SameMessage
<1>5. UNCHANGED Accepted
  BY <1>1, <1>2, <1>4 DEF Accepted
<1>6. ASSUME z.up.delivered = s.up.delivered
      PROVE  UNCHANGED Delivered
  <2>1. \A m \in Nodes : node'[Peer(m)].up.delivered = node[Peer(m)].up.delivered
    BY <1>1, <1>2, <1>6
  <2>2. QED
    BY <1>3, <2>1
<1>7. CASE KeepsTold(s, z)
  <2>1. UNCHANGED Pending /\ UNCHANGED Result
    BY <1>1, <1>2, <1>7 DEF Pending, Result, KeepsTold
  <2>2. CASE z.up.delivered = s.up.delivered
    BY <1>5, <1>6, <2>1, <2>2, UnseenSteps
  <2>3. CASE /\ s.up.pieces # <<>> /\ z.up.delivered = s.up.pieces
             /\ Message(s.up.pieces) > Message(s.up.delivered) /\ Message(s.up.pieces) <= carried[p]
    <3> DEFINE m == Message(s.up.pieces)
    <3>1. Delivered[p] = Message(s.up.delivered) /\ Message(s.up.delivered) \in Nat
      <4>1. s.up.delivered \in Seq(Pieces)
        BY <1>1, Fields DEF UpType
      <4>2. QED
        BY <1>1, <1>3, <4>1, EndsOf DEF Message
    <3>2. m \in Delivered[p] + 1 .. carried[p]
      BY <1>1, <2>3, <3>1, EndsOf
    <3>3. Delivered' = [Delivered EXCEPT ![p] = m]
      <4>1. node'[Peer(p)].up.delivered = s.up.pieces /\ node'[Peer(n)].up.delivered = node[Peer(n)].up.delivered
        BY <1>1, <1>2, <2>3
      <4>2. \A q \in Nodes :
              Message(node'[Peer(q)].up.delivered) = IF q = p THEN m ELSE Message(node[Peer(q)].up.delivered)
        BY <1>1, <4>1
      <4> HIDE DEF m
      <4>3. QED
        BY <1>1, <1>3, <4>2
    <3> HIDE DEF m
    <3>4. QED
      BY <1>1, <1>5, <2>1, <3>2, <3>3, TransferSteps
  <2>4. QED
    BY <1>4, <2>2, <2>3 DEF Receives, Delivers
<1>8. CASE ~ KeepsTold(s, z)
  <2>1. /\ s.up.pending = 1 /\ z.up.pending = 0 /\ z.up.result \in Results
        /\ z.up.result = "E_OK" => carried[n] = s.up.accepted
        /\ z.up.delivered = s.up.delivered
    BY <1>8 DEF Goes, Told
  <2>2. Pending[n] /\ Pending' = [Pending EXCEPT ![n] = FALSE]
    BY <1>1, <1>2, <2>1, PendingIs, PendingChanges
  <2>3. Result' = [Result EXCEPT ![n] = z.up.result]
    BY <1>1, <1>2, <2>1 DEF Result
  <2>4. z.up.result = "E_OK" => carried[n] = Accepted[n]
    BY <2>1 DEF Accepted
  <2>5. UNCHANGED Delivered
    BY <1>6, <2>1
  <2>6. QED
    BY <1>5, <2>1, <2>2, <2>3, <2>4, <2>5, TransferSteps DEF Results
<1>9. QED
  BY <1>7, <1>8

LEMMA TransmitIsSeen ==
  ASSUME IInv, CanTpInvariant', NEW n \in Nodes, Transmit(n)
  PROVE  IInv' /\ Transfer!Next
<1> DEFINE s == node[n]
           p == Peer(n)
<1>1. PICK z : /\ node' = [node EXCEPT ![n] = z] /\ UNCHANGED carried
               /\ z.up.plan = s.up.plan /\ z.up.accepted = s.up.accepted + 1
               /\ s.up.pending = 0 /\ z.up.pending = 1 /\ z.up.result = s.up.result
               /\ z.up.pieces = s.up.pieces /\ z.up.delivered = s.up.delivered
               /\ SendsTo(z, node[p], carried[n]) /\ ReceiverOK(node[p], z, carried[p])
  BY TransmitIs
<1>2. /\ p \in Nodes /\ p # n /\ Peer(p) = n /\ Nodes = {n, p} /\ s.up.accepted \in Nat
      /\ node \in [Nodes -> NodeType]
  BY PairIs, PeerOfPeer, GoodNodes DEF IInv
<1>3. IInv'
  <2>1. z.up.accepted \in Nat /\ s.up.accepted <= z.up.accepted
    BY <1>1, <1>2
  <2>2. QED
    BY <1>1, <2>1, OneNodeKeeps
<1>4. node'[n] = z /\ node'[p] = node[p]
  BY <1>1, <1>2
<1>5. ~ Pending[n] /\ Pending' = [Pending EXCEPT ![n] = TRUE]
  BY <1>1, <1>2, <1>4, PendingIs, PendingChanges
<1>6. Accepted' = [Accepted EXCEPT ![n] = Accepted[n] + 1]
  BY <1>1, <1>2, <1>4 DEF Accepted
<1>7. UNCHANGED Result
  BY <1>1, <1>2, <1>4 DEF Result
<1>8. UNCHANGED Delivered
  <2>1. \A m \in Nodes : node'[Peer(m)].up.delivered = node[Peer(m)].up.delivered
    BY <1>1, <1>2, <1>4
  <2>2. QED
    BY <1>3, <2>1, DeliveredIs
<1>9. QED
  BY <1>1, <1>3, <1>5, <1>6, <1>7, <1>8, TransferSteps

LEMMA SendIsSeen ==
  ASSUME IInv, CanTpInvariant', FirstFramesArrive, NEW n \in Nodes, Send(n)
  PROVE  IInv' /\ [Transfer!Next]_(Transfer!vars)
<1> DEFINE s == node[n]
           p == Peer(n)
           r == node[p]
           after == DoneWith(s.out.frame, carried[n])
<1>1. PICK z, t :
        /\ node' = [node EXCEPT ![n] = z, ![p] = t]
        /\ carried' = [carried EXCEPT ![n] = after]
        /\ z.up = s.up /\ SameMessage(r, t) /\ t.up.delivered = r.up.delivered
        /\ PairOK(z, t, after) /\ PairOK(t, z, carried[p])
        /\ \/ KeepsTold(r, t) /\ (after = carried[n] \/ after \in carried[n] + 1 .. s.up.accepted)
           \/ Fails(r, t) /\ after = carried[n]
  BY SendIs
<1>2. /\ p \in Nodes /\ p # n /\ Peer(p) = n /\ Nodes = {n, p}
      /\ node \in [Nodes -> NodeType] /\ carried \in [Nodes -> Nat]
  BY PairIs, PeerOfPeer, GoodNodes DEF IInv
<1> HIDE DEF after
<1>3. node'[n] = z /\ node'[p] = t /\ carried'[n] = after /\ carried'[p] = carried[p]
  BY <1>1, <1>2
<1>4. IInv'
  <2>1. \A m \in Nodes : PairOK(node'[m], node'[Peer(m)], carried'[m])
    BY <1>1, <1>2, <1>3
  <2>2. QED
    BY <2>1 DEF IInv
<1>5. UNCHANGED Accepted
  BY <1>1, <1>2, <1>3 DEF Accepted, SameMessage
<1>6. UNCHANGED Delivered
  <2>1. \A m \in Nodes : node'[Peer(m)].up.delivered = node[Peer(m)].up.delivered
    BY <1>1, <1>2, <1>3
  <2>2. QED
    BY <1>4, <2>1, DeliveredIs
<1>7. CASE KeepsTold(r, t)
  <2>1. UNCHANGED Pending /\ UNCHANGED Result
    BY <1>1, <1>2, <1>3, <1>7 DEF Pending, Result, KeepsTold
  <2>2. CASE after = carried[n]
    <3>1. UNCHANGED carried
      BY <1>1, <1>2, <2>2
    <3>2. QED
      BY <1>4, <1>5, <1>6, <2>1, <3>1, UnseenSteps
  <2>3. CASE after \in carried[n] + 1 .. s.up.accepted
    <3>1. after \in carried[n] + 1 .. Accepted[n]
      BY <2>3 DEF Accepted
    <3>2. QED
      BY <1>1, <1>4, <1>5, <1>6, <2>1, <3>1, TransferSteps
  <2>4. CASE Fails(r, t)
    BY <1>7, <2>4 DEF Fails, KeepsTold
  <2>5. QED
    BY <1>1, <2>2, <2>3, <2>4
<1>8. CASE Fails(r, t) /\ after = carried[n]
  <2>1. UNCHANGED carried
    BY <1>1, <1>2, <1>8
  <2>2. Pending[p] /\ Pending' = [Pending EXCEPT ![p] = FALSE]
    <3>1. node[p].up.pending = 1 /\ node'[p].up.pending = 0 /\ node'[n].up.pending = node[n].up.pending
      BY <1>1, <1>3, <1>8 DEF Fails
    <3>2. QED
      BY <1>2, <3>1, PendingIs, PendingChanges
  <2>3. Result' = [Result EXCEPT ![p] = "E_NOT_OK"]
    BY <1>1, <1>2, <1>3, <1>8 DEF Result, Fails
  <2>4. Transfer!Next
    BY <1>2, <1>5, <1>6, <2>1, <2>2, <2>3, TransferSteps
  <2>5. QED
    BY <1>4, <2>4
<1>9. QED
  BY <1>1, <1>7, <1>8

LEMMA InitIsSeen == Init => IInv /\ Transfer!Init
<1> SUFFICES ASSUME Init
             PROVE  IInv /\ Transfer!Init
  OBVIOUS
<1>1. CanTpInvariant
  BY InitOK
<1>2. PICK plan \in Plans :
        node = [n \in Nodes |->
                  [rx |-> IdleRx, tx |-> IdleTx, dir |-> "IDLE", out |-> NoFrame,
                   up |-> [plan |-> plan[n], accepted |-> 0, pending |-> 0, result |-> "E_OK",
                           receiving |-> FALSE, pieces |-> <<>>, delivered |-> <<>>]]]
  BY DEF Init
<1>3. ASSUME NEW n \in Nodes
      PROVE  /\ node[n].rx = IdleRx /\ node[n].tx = IdleTx /\ node[n].dir = "IDLE" /\ node[n].out = NoFrame
             /\ node[n].up.accepted = 0 /\ node[n].up.pending = 0 /\ node[n].up.result = "E_OK"
             /\ node[n].up.pieces = <<>> /\ node[n].up.delivered = <<>>
             /\ carried[n] = 0 /\ Peer(n) \in Nodes
  BY <1>2, PeerIs DEF Init
<1>4. ASSUME NEW n \in Nodes
      PROVE  PairOK(node[n], node[Peer(n)], carried[n])
  <2>1. SenderOK(node[n], 0)
    BY <1>3 DEF SenderOK, Unsent, IdleTx
  <2>2. ReceiverOK(node[n], node[Peer(n)], 0)
    <3> DEFINE r == node[Peer(n)]
    <3>1. r.rx.state = "IDLE" /\ r.rx.fs = "none" /\ r.up.pieces = <<>> /\ r.up.delivered = <<>>
      BY <1>3 DEF IdleRx
    <3> HIDE DEF r
    <3>2. FlowOK(r) /\ Whole(node[n].up.plan, r.up.delivered) /\ Message(r.up.delivered) = 0
      BY <3>1 DEF FlowOK, Whole, Message
    <3>3. ReceiverOK(node[n], r, 0)
      BY <3>1, <3>2 DEF ReceiverOK
    <3>4. QED
      BY <3>3 DEF r
  <2>3. InOrder(node[n], node[Peer(n)])
    BY <1>3 DEF InOrder
  <2>4. QED
    BY <1>3, <2>1, <2>2, <2>3 DEF PairOK
<1>5. IInv
  BY <1>1, <1>4 DEF IInv
<1>6. \A n \in Nodes : MessageOf(n, node[Peer(n)].up.delivered) = 0
  BY <1>3 DEF MessageOf
<1>7. Transfer!Init
  <2>1. [n \in Nodes |-> node[n].up.accepted] = [n \in Nodes |-> 0]
    BY <1>3
  <2>2. [n \in Nodes |-> node[n].up.pending = 1] = [n \in Nodes |-> FALSE]
    <3>1. \A n \in Nodes : node[n].up.pending \in {0}
      BY <1>3, Zenon
    <3> DEFINE IsPending(x) == x = 1
    <3>2. \A x \in {0} : ~ IsPending(x) /\ IsPending(x) \in BOOLEAN
      OBVIOUS
    <3> HIDE DEF IsPending
    <3>3. \A n \in Nodes : ~ IsPending(node[n].up.pending) /\ IsPending(node[n].up.pending) \in BOOLEAN
      BY <3>1, <3>2, Zenon
    <3>4. \A n \in Nodes : IsPending(node[n].up.pending) = FALSE
      BY <3>3
    <3>5. [n \in Nodes |-> IsPending(node[n].up.pending)] = [n \in Nodes |-> FALSE]
      BY <3>4, Zenon
    <3>6. QED
      BY <3>5 DEF IsPending
  <2>3. [n \in Nodes |-> node[n].up.result] = [n \in Nodes |-> "E_OK"]
    BY <1>3
  <2>4. [n \in Nodes |-> MessageOf(n, node[Peer(n)].up.delivered)] = [n \in Nodes |-> 0]
    BY <1>6
  <2>5. QED
    BY <2>1, <2>2, <2>3, <2>4 DEF Transfer!Init, Init
<1>8. QED
  BY <1>5, <1>7

LEMMA StepIsSeen ==
  ASSUME FirstFramesArrive, IInv, [Next]_vars
  PROVE  IInv' /\ [Transfer!Next]_(Transfer!vars)
<1>1. CASE Next
  <2>1. PICK n \in Nodes :
          \/ Transmit(n) \/ CancelTransmit(n) \/ CancelReceive(n)
          \/ MainFunction(n) \/ Send(n) \/ Confirm(n) \/ ConfirmNegative(n)
    BY <1>1 DEF Next
  <2>2. CanTpInvariant'
    BY <2>1, TransmitStep, CancelTransmitStep, CancelReceiveStep, MainFunctionStep, SendStep, ConfirmStep DEF IInv
  <2>3. CASE CancelTransmit(n) \/ CancelReceive(n) \/ MainFunction(n) \/ Confirm(n) \/ ConfirmNegative(n)
    <3>1. PICK z : /\ node' = [node EXCEPT ![n] = z] /\ UNCHANGED carried
                   /\ Goes(node[n], node[Peer(n)], carried[n], carried[Peer(n)], z)
      BY <2>3, CancelTransmitGoes, CancelReceiveGoes, MainFunctionGoes, ConfirmGoes
    <3>2. IInv'
      BY <2>2, <3>1, GoesKeeps
    <3>3. QED
      BY <3>1, <3>2, GoesIsSeen
  <2>4. QED
    BY <2>1, <2>2, <2>3, TransmitIsSeen, SendIsSeen
<1>2. CASE UNCHANGED vars
  <2>1. UNCHANGED <<node, carried, turn>>
    BY <1>2 DEF vars
  <2>2. IInv'
    BY <2>1 DEF IInv, CanTpInvariant, TypeOK, NodeOK, CountsAgree, TimersRun, OccupantOwnsFrame
  <2>3. UNCHANGED <<Accepted, Pending, Result, carried, Delivered>>
    BY <2>1 DEF Accepted, Pending, Result, Delivered, MessageOf
  <2>4. QED
    BY <2>2, <2>3, UnseenSteps
<1>3. QED
  BY <1>1, <1>2

\* When no first frame is missed, what the layers above CanTp see is a transfer: each message that
\* they are given is whole, was sent to its last frame, and comes after the one before; each message
\* that was accepted is confirmed once, with E_OK only when all of it went out.
THEOREM TransfersRefine ==
  ASSUME FirstFramesArrive
  PROVE  Spec => ImplementsTransfer
<1>1. Init => IInv /\ Transfer!Init
  BY InitIsSeen
<1>2. IInv /\ [Next]_vars => IInv' /\ [Transfer!Next]_(Transfer!vars)
  BY StepIsSeen
<1>3. QED
  BY <1>1, <1>2, PTL DEF Spec, ImplementsTransfer, Transfer!Spec

=============================================================================
