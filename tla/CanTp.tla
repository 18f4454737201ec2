--------------------------------- MODULE CanTp ---------------------------------
(***************************************************************************)
(* The CAN transport layer (CanTp.c, CanTp_Internal.c): two nodes, each     *)
(* with a connection to send and one to receive, whose frames and flow      *)
(* control frames share one N-PDU.  A message is one single frame, or a     *)
(* first frame and consecutive frames in blocks that the receiver grants.   *)
(*                                                                          *)
(* A handler is an operator from the record of its node to the set of the   *)
(* records it may end with, as the upper layer and CanIf answer; a C        *)
(* function that it calls is such an operator too.  Lengths are counted in  *)
(* consecutive frames, times in calls of the main function.                 *)
(***************************************************************************)
EXTENDS Integers, Sequences

CONSTANTS
    Nodes,
    Plans,          \* each gives a node the messages to send, by their numbers of consecutive frames
    N_As, N_Bs, N_Cs, N_Ar, N_Br, N_Cr,
    FcSTmin,        \* what CanTp_CalculateSTMin makes of the separation time, never 0
    Bs,             \* the block size configured, 0 for no limit
    RxWftMax,
    UINT8_VALUES,   \* 256 in the code: what a block size is reduced with
    Missed,         \* the kinds of frames a node may have no room for when they come
    CANTP_MAX_SEQUENC_NUMBER

ASSUME CanTpConstants ==
    /\ \E a, b \in Nodes : a # b /\ Nodes = {a, b}
    /\ \A plan \in Plans, n \in Nodes : plan[n] \in Seq(Nat)
    /\ {N_As, N_Bs, N_Cs, N_Ar, N_Br, N_Cr, FcSTmin} \subseteq Nat \ {0}
    /\ Missed \subseteq {"SF", "FF", "CF", "FC"}
    /\ UINT8_VALUES \in Nat \ {0} /\ Bs < UINT8_VALUES
    /\ {Bs, RxWftMax, CANTP_MAX_SEQUENC_NUMBER} \subseteq Nat

VARIABLES
    node,      \* of each node: rx, tx, dir, out, and up, what the upper layer has seen
    carried,   \* the last message of a node whose last frame the bus has taken
    turn       \* the node whose main function is called next, and the half that runs

vars == <<node, carried, turn>>

Peer(n) == CHOOSE p \in Nodes : p # n

NoFrame == [sent |-> FALSE, frame |-> [kind |-> "none"]]

\* CanTp_InitRxChannel, CanTp_InitTxChannel
IdleRx == [state |-> "IDLE", fs |-> "none", timer |-> 0, remain |-> 0, handled |-> 0, sn |-> 0,
           bs |-> 0, wft |-> 0, notify |-> FALSE]
IdleTx == [state |-> "IDLE", timer |-> 0, stmin |-> 0, total |-> 0, remain |-> 0, handled |-> 0, sn |-> 0,
           bs |-> 0, first |-> FALSE]

Init ==
    /\ \E plan \in Plans :
           node = [n \in Nodes |->
                     [rx |-> IdleRx, tx |-> IdleTx, dir |-> "IDLE", out |-> NoFrame,
                      up |-> [plan |-> plan[n], accepted |-> 0, pending |-> 0, result |-> "E_OK",
                              receiving |-> FALSE, pieces |-> <<>>, delivered |-> <<>>]]]
    /\ carried = [n \in Nodes |-> 0]
    /\ turn \in Nodes \X {"rx"}

\* PduR_CanTpTxConfirmation after CanTp_InitTxChannel, in either order
TxEnd(s, result) == [s EXCEPT !.tx = IdleTx, !.up.pending = @ - 1, !.up.result = result]

\* PduR_CanTpRxIndication with E_NOT_OK after CanTp_InitRxChannel, in either order
RxFail(s) == [s EXCEPT !.rx = IdleRx, !.up.receiving = FALSE, !.up.pieces = <<>>]

RxDone(s) == [s EXCEPT !.rx = IdleRx, !.up.receiving = FALSE, !.up.pieces = <<>>, !.up.delivered = s.up.pieces]

\* CanIf without transmit buffers takes a frame when the last one of the N-PDU is confirmed and
\* the controller is started, and returns E_NOT_OK otherwise.
CanIf_Transmit(s, f) ==
    IF s.out = NoFrame THEN {[s EXCEPT !.out = [sent |-> FALSE, frame |-> f]]} ELSE {}
-----------------------------------------------------------------------------
(* Sending *)

Transmitting == {"TRANSMIT_SF", "TRANSMIT_FF", "TRANSMIT_CF"}
WaitingForConfirmation == {"WAIT_SFCONF", "WAIT_FFCONF", "WAIT_CFCONF"}

\* CanTp_TxConstructPCI; a piece of a message is its number and its place in it.
TxConstructPCI(s) ==
    LET sn == IF s.tx.sn > CANTP_MAX_SEQUENC_NUMBER THEN 0 ELSE s.tx.sn
        piece == <<s.up.accepted, s.tx.total - s.tx.remain>> IN
    CASE s.tx.state = "TRANSMIT_SF" ->
           [tx |-> [s.tx EXCEPT !.state = "WAIT_SFCONF", !.timer = N_As],
            frame |-> [kind |-> "SF", piece |-> piece]]
      [] s.tx.state = "TRANSMIT_FF" ->
           [tx |-> [s.tx EXCEPT !.state = "WAIT_FFCONF", !.timer = N_As],
            frame |-> [kind |-> "FF", piece |-> piece, total |-> s.tx.total]]
      [] OTHER ->
           [tx |-> [s.tx EXCEPT !.state = "WAIT_CFCONF", !.timer = N_As, !.sn = sn, !.remain = @ - 1],
            frame |-> [kind |-> "CF", piece |-> <<piece[1], piece[2] + 1>>, sn |-> sn,
                       last |-> s.tx.remain = 1]]

TxTransmit(s) ==
    LET c == TxConstructPCI(s) IN
    CanIf_Transmit([s EXCEPT !.tx = c.tx, !.dir = "TX"], c.frame) \cup {TxEnd([s EXCEPT !.dir = "IDLE"], "E_NOT_OK")}

\* The upper layer gives the data, or none, or is busy; an N-PDU that is occupied ends the transmission.
GetTxBuffer(s) ==
    (IF s.dir = "IDLE" THEN TxTransmit(s) ELSE {}) \cup {TxEnd(s, "E_NOT_OK")}

TxTimeout(s) == {TxEnd([s EXCEPT !.dir = "IDLE"], "E_NOT_OK")}

\* CanTp_HandleTxTimeoutProcess
HandleTxTimeoutProcess(s) ==
    IF s.tx.state \in Transmitting \cup {"WAIT_CF_STMIN"}
    THEN LET t == [s EXCEPT !.tx.state = IF @ = "WAIT_CF_STMIN" THEN "TRANSMIT_CF" ELSE @] IN
         GetTxBuffer(t) \cup TxTimeout(t)
    ELSE TxTimeout(s)

HandleTxChannels(s) ==
    LET stmin == IF s.tx.stmin > 0 THEN s.tx.stmin - 1 ELSE 0
        state == IF s.tx.state = "WAIT_CF_STMIN" /\ stmin = 0 THEN "TRANSMIT_CF" ELSE s.tx.state
        t == [s EXCEPT !.tx = [s.tx EXCEPT !.timer = s.tx.timer - 1, !.stmin = stmin, !.state = state]] IN
    CASE s.tx.state = "IDLE" -> {s}
      [] s.tx.state # "IDLE" /\ t.tx.timer = 0 -> HandleTxTimeoutProcess(t)
      [] OTHER -> {t} \cup (IF t.tx.state \in Transmitting THEN GetTxBuffer(t) ELSE {})

RxSubDealWithFC(s, f) ==
    CASE s.tx.state # "WAIT_RECEIVE_FC" -> {s}
      [] s.tx.state = "WAIT_RECEIVE_FC" /\ f.fs = "CFS" ->
           {[s EXCEPT !.tx = [s.tx EXCEPT !.state = "TRANSMIT_CF", !.timer = N_Cs, !.first = TRUE,
                              !.sn = IF s.tx.first THEN s.tx.sn ELSE 1,
                              !.bs = IF s.tx.first THEN s.tx.bs ELSE f.bs]]}
      [] s.tx.state = "WAIT_RECEIVE_FC" /\ f.fs = "WT" -> {[s EXCEPT !.tx.timer = N_Bs]}
      [] OTHER -> {TxEnd([s EXCEPT !.dir = "IDLE"], "E_NOT_OK")}

\* CanTp_TxConfirmationTx with E_OK
TxConfirmationTx(s) ==
    LET full == s.tx.bs # 0 /\ s.tx.handled + 1 = s.tx.bs IN
    CASE s.tx.state = "WAIT_SFCONF" \/ (s.tx.state = "WAIT_CFCONF" /\ s.tx.remain = 0) -> TxEnd(s, "E_OK")
      [] s.tx.state = "WAIT_FFCONF" -> [s EXCEPT !.tx.state = "WAIT_RECEIVE_FC", !.tx.timer = N_Bs]
      [] s.tx.state = "WAIT_CFCONF" /\ s.tx.remain # 0 ->
           [s EXCEPT !.tx = [s.tx EXCEPT !.sn = s.tx.sn + 1,
               !.handled = IF full THEN 0 ELSE s.tx.handled + 1,
               !.state = IF full THEN "WAIT_RECEIVE_FC" ELSE "WAIT_CF_STMIN",
               !.timer = IF full THEN N_Bs ELSE N_Cs,
               !.stmin = IF full THEN 0 ELSE FcSTmin]]
      [] OTHER -> s
-----------------------------------------------------------------------------
(* Receiving *)

\* An N-PDU that is occupied is not tried again: the state waits for its timer.
SendFC(s) ==
    IF s.dir # "IDLE" THEN {s}
    ELSE CanIf_Transmit([s EXCEPT !.dir = "RX", !.rx.state = "WAIT_FCCONF"],
                        [kind |-> "FC", fs |-> s.rx.fs, bs |-> s.rx.bs])
         \cup {RxFail(s)}

TransmitFC(s, fs) == SendFC([s EXCEPT !.rx.state = "TRANSMIT_FC", !.rx.fs = fs, !.rx.timer = N_Ar])

\* The upper layer has room for the next block, or the receiver waits for it.
GrantBlock(s) ==
    TransmitFC(s, "CFS") \cup {[s EXCEPT !.rx.state = "WAIT_BUFFER_CF", !.rx.fs = "none", !.rx.timer = N_Br]}

\* CanTp_HandleRxTimerProcess; CanTp_GetRxBuffer finds room or does not.
HandleRxTimerProcess(s) ==
    LET t == [s EXCEPT !.rx.timer = @ - 1] IN
    CASE s.rx.state = "WAIT_BUFFER_CF" /\ t.rx.timer = 0 ->
           TransmitFC(t, "CFS") \cup (IF t.rx.wft < RxWftMax THEN TransmitFC(t, "WT") ELSE {RxFail(t)})
      [] s.rx.state # "WAIT_BUFFER_CF" /\ t.rx.timer = 0 -> {RxFail(t)}
      [] OTHER -> {t} \cup (IF t.rx.state = "WAIT_BUFFER_CF" THEN TransmitFC(t, "CFS") ELSE {})

HandleRxChannels(s) ==
    CASE s.rx.state = "IDLE" -> {s}
      [] s.rx.notify -> {RxDone(s)}
      [] OTHER -> HandleRxTimerProcess(s)

\* The whole message is there.  What the main function does not look at any more is forgotten.
NotifyUpper(s, state) == [s EXCEPT !.rx = [IdleRx EXCEPT !.state = state, !.notify = TRUE]]

CopyRxData(s, f) == [s EXCEPT !.up.receiving = TRUE, !.up.pieces = Append(@, f.piece)]

\* When the upper layer takes no data, what it has begun is ended at once.
RxSubDealWithSF(s, f) ==
    LET t == IF s.rx.state = "IDLE" THEN s ELSE RxFail(s) IN
    {NotifyUpper(CopyRxData(t, f), "RECEIVE_SF"), t}

\* CanTp_GetRxCurrentBs: a multiple of 256 consecutive frames comes out as 0, one block for all.
CurrentBs(total) ==
    LET bs == total % UINT8_VALUES IN
    IF Bs # 0 /\ bs > Bs THEN Bs ELSE bs

\* CanTp_RxSubDealWithFF, CanTp_RxSubDealWithFFTOUP.  A first frame in the middle of a reception
\* ends it, and gives the N-PDU back without looking who occupies it.
RxSubDealWithFF(s, f) ==
    LET dir == IF s.rx.state \in {"TRANSMIT_FC", "WAIT_FCCONF"} THEN "IDLE" ELSE s.dir
        t == IF s.rx.state = "IDLE" THEN s ELSE RxFail([s EXCEPT !.dir = dir])
        begun == [t EXCEPT !.rx = [IdleRx EXCEPT !.state = "RECEIVE_FF", !.remain = f.total, !.sn = 1,
                                                 !.bs = CurrentBs(f.total)]] IN
    GrantBlock(CopyRxData(begun, f)) \cup TransmitFC(begun, "OVFL") \cup {t}

\* Mutant: the last consecutive frame but one counts as the last.
LastCFEarly(s) == s.rx.remain <= 2

\* CanTp_RxSubDealWithCFCheck: what is left fits into this frame.
LastCF(s) == s.rx.remain = 1

RxSubDealWithCF(s, f) ==
    LET copied == CopyRxData(s, f)
        t == [copied EXCEPT !.rx = [s.rx EXCEPT !.remain = s.rx.remain - 1, !.handled = s.rx.handled + 1,
                 !.sn = IF s.rx.sn < CANTP_MAX_SEQUENC_NUMBER THEN s.rx.sn + 1 ELSE 0]] IN
    CASE s.rx.state # "WAIT_RECEIVE_CF" -> {s}
      [] s.rx.state = "WAIT_RECEIVE_CF" /\ f.sn # s.rx.sn -> {RxFail(s)}
      [] OTHER -> {RxFail(s)} \cup
           (CASE LastCF(s) -> {NotifyUpper(copied, "RECEIVE_CF")}
              [] ~ LastCF(s) /\ t.rx.bs # 0 /\ t.rx.handled >= t.rx.bs -> GrantBlock([t EXCEPT !.rx.handled = 0])
              [] OTHER -> {[t EXCEPT !.rx.timer = N_Cr]})

\* Mutant: the wait frames are not counted.
TxFCConfirmationUncounted(s) ==
    CASE s.rx.state = "WAIT_FCCONF" /\ s.rx.fs = "CFS" ->
           [s EXCEPT !.rx = [s.rx EXCEPT !.state = "WAIT_RECEIVE_CF", !.fs = "none", !.timer = N_Cr, !.wft = 0]]
      [] s.rx.state = "WAIT_FCCONF" /\ s.rx.fs = "OVFL" -> [s EXCEPT !.rx = IdleRx]
      [] s.rx.state = "WAIT_FCCONF" /\ s.rx.fs = "WT" ->
           [s EXCEPT !.rx = [s.rx EXCEPT !.state = "WAIT_BUFFER_CF", !.fs = "none", !.timer = N_Br]]
      [] OTHER -> s

\* CanTp_TxFCConfirmation with E_OK
TxFCConfirmation(s) ==
    CASE s.rx.state = "WAIT_FCCONF" /\ s.rx.fs = "CFS" ->
           [s EXCEPT !.rx = [s.rx EXCEPT !.state = "WAIT_RECEIVE_CF", !.fs = "none", !.timer = N_Cr, !.wft = 0]]
      [] s.rx.state = "WAIT_FCCONF" /\ s.rx.fs = "OVFL" -> [s EXCEPT !.rx = IdleRx]
      [] s.rx.state = "WAIT_FCCONF" /\ s.rx.fs = "WT" ->
           [s EXCEPT !.rx = [s.rx EXCEPT !.state = "WAIT_BUFFER_CF", !.fs = "none", !.timer = N_Br,
                                 !.wft = s.rx.wft + 1]]
      [] OTHER -> s
-----------------------------------------------------------------------------
(* The functions of the module *)

\* CanTp_Transmit, CanTp_TxSetupConnection
Transmit(n) ==
    LET s == node[n]
        total == s.up.plan[s.up.accepted + 1] IN
    /\ s.tx.state = "IDLE"
    /\ s.up.accepted < Len(s.up.plan)
    /\ node' = [node EXCEPT ![n] =
         [s EXCEPT !.up.accepted = @ + 1, !.up.pending = @ + 1,
                   !.tx = [IdleTx EXCEPT !.state = IF total = 0 THEN "TRANSMIT_SF" ELSE "TRANSMIT_FF",
                                         !.timer = N_Cs, !.total = total, !.remain = total]]]
    /\ UNCHANGED <<carried, turn>>

CancelTransmit(n) ==
    LET s == node[n] IN
    /\ s.tx.state # "IDLE"
    /\ node' = [node EXCEPT ![n] = TxEnd([s EXCEPT !.dir = IF @ = "TX" THEN "IDLE" ELSE @], "E_NOT_OK")]
    /\ UNCHANGED <<carried, turn>>

\* Only while more than one consecutive frame is missing: DatalenRemain > InitalDLC
CancelReceive(n) ==
    LET s == node[n] IN
    /\ s.rx.state \notin {"IDLE", "RECEIVE_SF"}
    /\ s.rx.remain > 1
    /\ node' = [node EXCEPT ![n] = RxFail(s)]
    /\ UNCHANGED <<carried, turn>>

\* The main functions of the nodes are called in turns: their cycles are equally long.  What the
\* bus brings may come between the two halves.
MainFunctionRx(n) ==
    /\ turn = <<n, "rx">>
    /\ turn' = <<n, "tx">>
    /\ node' \in {[node EXCEPT ![n] = s] : s \in HandleRxChannels(node[n])}
    /\ UNCHANGED carried

MainFunctionTx(n) ==
    /\ turn = <<n, "tx">>
    /\ turn' = <<Peer(n), "rx">>
    /\ node' \in {[node EXCEPT ![n] = s] : s \in HandleTxChannels(node[n])}
    /\ UNCHANGED carried

RxIndication(s, f) ==
    CASE f.kind = "SF" -> RxSubDealWithSF(s, f)
      [] f.kind = "FF" -> RxSubDealWithFF(s, f)
      [] f.kind = "CF" -> RxSubDealWithCF(s, f)
      [] f.kind = "FC" -> RxSubDealWithFC(s, f)

\* Mutant: the N-PDU is given back when the confirmation is E_OK only.
TxConfirmationKeepsFailed(s, result) ==
    LET t == [s EXCEPT !.dir = "IDLE"] IN
    CASE s.dir = "TX" /\ result = "E_OK" -> TxConfirmationTx(t)
      [] s.dir = "TX" /\ result # "E_OK" -> TxEnd(s, result)
      [] s.dir = "RX" /\ result = "E_OK" -> TxFCConfirmation(t)
      [] s.dir = "RX" /\ result # "E_OK" -> RxFail(s)
      [] OTHER -> s

TxConfirmation(s, result) ==
    LET t == [s EXCEPT !.dir = "IDLE"] IN
    CASE s.dir = "TX" /\ result = "E_OK" -> TxConfirmationTx(t)
      [] s.dir = "TX" /\ result # "E_OK" -> TxEnd(t, result)
      [] s.dir = "RX" /\ result = "E_OK" -> TxFCConfirmation(t)
      [] s.dir = "RX" /\ result # "E_OK" -> RxFail(t)
      [] OTHER -> s
-----------------------------------------------------------------------------
(* The bus and CanIf *)

CarriedWith(n) ==
    LET f == node[n].out.frame IN
    IF f.kind = "SF" \/ (f.kind = "CF" /\ f.last) THEN [carried EXCEPT ![n] = f.piece[1]] ELSE carried

\* A frame goes out, and its receiver gets it or has no room for it.
Send(n) ==
    LET s == node[n] p == Peer(n) IN
    /\ s.out # NoFrame
    /\ ~ s.out.sent
    /\ node' \in {[node EXCEPT ![n].out.sent = TRUE, ![p] = r] :
                     r \in RxIndication(node[p], s.out.frame) \cup
                         (IF s.out.frame.kind \in Missed THEN {node[p]} ELSE {})}
    /\ carried' = CarriedWith(n)
    /\ UNCHANGED turn

Confirm(n) ==
    LET s == node[n] IN
    /\ s.out.sent
    /\ node' = [node EXCEPT ![n] = TxConfirmation([s EXCEPT !.out = NoFrame], "E_OK")]
    /\ UNCHANGED <<carried, turn>>

\* The controller is stopped: CanIf_NotifyNegativeTxConfirmation
ConfirmNegative(n) ==
    LET s == node[n] IN
    /\ s.out # NoFrame
    /\ node' = [node EXCEPT ![n] = TxConfirmation([s EXCEPT !.out = NoFrame], "E_NOT_OK")]
    /\ UNCHANGED <<carried, turn>>

MainFunction(n) == MainFunctionRx(n) \/ MainFunctionTx(n)

Next ==
    \E n \in Nodes :
        \/ Transmit(n) \/ CancelTransmit(n) \/ CancelReceive(n)
        \/ MainFunction(n) \/ Send(n) \/ Confirm(n) \/ ConfirmNegative(n)

\* The scheduler of the basic software calls the main function in every cycle.
Fairness == \A n \in Nodes : WF_vars(MainFunction(n))

Spec == Init /\ [][Next]_vars /\ Fairness
-----------------------------------------------------------------------------
RxStates == {"IDLE", "RECEIVE_SF", "RECEIVE_FF", "RECEIVE_CF", "WAIT_RECEIVE_CF", "WAIT_BUFFER_CF",
             "TRANSMIT_FC", "WAIT_FCCONF"}
TxStates == {"IDLE", "WAIT_CF_STMIN", "WAIT_RECEIVE_FC"} \cup Transmitting \cup WaitingForConfirmation
Results == {"E_OK", "E_NOT_OK"}
FlowStates == {"none", "CFS", "WT", "OVFL"}
Pieces == Nat \X Nat

RxType == [state : RxStates, fs : FlowStates, timer : Nat, remain : Nat, handled : Nat, sn : Nat,
           bs : Nat, wft : 0 .. RxWftMax, notify : BOOLEAN]
TxType == [state : TxStates, timer : Nat, stmin : Nat, total : Nat, remain : Nat, handled : Nat,
           sn : Nat, bs : Nat, first : BOOLEAN]
UpType == [plan : Seq(Nat), accepted : Nat, pending : {0, 1}, result : Results,
           receiving : BOOLEAN, pieces : Seq(Pieces), delivered : Seq(Pieces)]

Frames == [kind : {"SF"}, piece : Pieces]
          \cup [kind : {"FF"}, piece : Pieces, total : Nat \ {0}]
          \cup [kind : {"CF"}, piece : Pieces, sn : Nat, last : BOOLEAN]
          \cup [kind : {"FC"}, fs : FlowStates, bs : Nat]

NodeType == [rx : RxType, tx : TxType, dir : {"IDLE", "TX", "RX"}, up : UpType,
             out : {NoFrame} \cup [sent : BOOLEAN, frame : Frames]]

TypeOK ==
    /\ node \in [Nodes -> NodeType]
    /\ carried \in [Nodes -> Nat]
    /\ turn \in Nodes \X {"rx", "tx"}

\* What is left to send or to receive is more than nothing until the last frame is out or there, and
\* then the main function tells it.  A receiver that asks the sender to wait has not done so too often.
CountsAgree(s) ==
    /\ s.up.accepted <= Len(s.up.plan)
    /\ s.tx.remain <= s.tx.total
    /\ s.tx.state \in {"TRANSMIT_FF", "WAIT_FFCONF", "WAIT_RECEIVE_FC", "WAIT_CF_STMIN", "TRANSMIT_CF"} =>
         s.tx.remain > 0
    /\ s.rx.notify <=> s.rx.state \in {"RECEIVE_SF", "RECEIVE_CF"}
    /\ s.rx.state # "IDLE" /\ ~ s.rx.notify => s.rx.remain > 0
    /\ s.rx.state \in {"TRANSMIT_FC", "WAIT_FCCONF"} /\ s.rx.fs = "WT" => s.rx.wft < RxWftMax

\* A connection that waits has a timer that runs.
TimersRun(s) ==
    /\ s.tx.state # "IDLE" <=> s.up.pending = 1
    /\ s.tx.state # "IDLE" => s.tx.timer > 0
    /\ s.rx.state # "IDLE" => s.rx.timer > 0 \/ s.rx.notify

\* The state that waits for the confirmation of a frame
ConfirmationOf == [SF |-> "WAIT_SFCONF", FF |-> "WAIT_FFCONF", CF |-> "WAIT_CFCONF"]

\* A confirmation reaches the connection whose frame it confirms, in the state that waits for it:
\* the N-PDU is occupied only while CanIf has a frame, of the connection that occupies it, and when
\* the sender occupies it the frame is the one it sent last.
OccupantOwnsFrame(s) ==
    LET f == s.out.frame IN
    /\ s.dir # "IDLE" => s.out # NoFrame
    /\ s.dir = "RX" => f.kind = "FC"
    /\ s.dir = "TX" =>
         /\ f.kind \in {"SF", "FF", "CF"} /\ s.tx.state = ConfirmationOf[f.kind]
         /\ f.piece = <<s.up.accepted, s.tx.total - s.tx.remain>>

NodeOK(s) == CountsAgree(s) /\ TimersRun(s) /\ OccupantOwnsFrame(s)

\* Counts, timers, the occupant of the N-PDU and the frame that CanIf has agree on both nodes.
CanTpInvariant == TypeOK /\ \A n \in Nodes : NodeOK(node[n])

\* The number of the message that the pieces are, all of them in their order.
MessageOf(n, pieces) ==
    IF pieces = <<>> THEN 0
    ELSE LET m == pieces[1][1] IN
         IF pieces = [i \in 1 .. node[n].up.plan[m] + 1 |-> <<m, i - 1>>] THEN m ELSE -1

\* What the upper layers see is a transfer of messages that are whole, in order, and none twice,
\* with one confirmation for each.
Transfer == INSTANCE CanTpSpec WITH
    accepted <- [n \in Nodes |-> node[n].up.accepted],
    pending <- [n \in Nodes |-> node[n].up.pending = 1],
    result <- [n \in Nodes |-> node[n].up.result],
    delivered <- [n \in Nodes |-> MessageOf(n, node[Peer(n)].up.delivered)]

ImplementsTransfer == Transfer!Spec

\* A node has room for every first frame.  One that is missed leaves an older reception open, whose
\* flow control lets the peer go on with the new message: pieces of two messages may be given as one.
FirstFramesArrive == "FF" \notin Missed

\* Whatever happens to the frames, what was begun ends on both sides.
EveryTransferEnds ==
    \A n \in Nodes : /\ []<>(node[n].up.pending = 0)
                     /\ []<> ~ node[n].up.receiving
=============================================================================
