-------------------------------- MODULE Fee --------------------------------
(***************************************************************************)
(* Fee_62: blocks of NvM kept as records in clusters of flash.  Headers     *)
(* grow from the start of a cluster, data from its end; a record is its     *)
(* header, its data and a valid flag, written in this order.  When a        *)
(* cluster is full its blocks are copied to the next one.  One cluster      *)
(* group, notifications instead of polling.                                 *)
(*                                                                         *)
(* The RAM of the module is the record fee; each C function that changes it *)
(* is an operator from record to record.  A function starts at most one     *)
(* flash request, fee.mem, and gives the job to go on with at its end.      *)
(***************************************************************************)
EXTENDS FeeFlash, FiniteSetsExt

CONSTANTS
  FeeBlockSum,        \* number of blocks
  FeeBlockSize,       \* cells of each block's data
  FeeImmediateData,   \* the blocks for immediate data
  Value,              \* what a block may hold
  Nothing,            \* what it holds before it is written
  FailingJobs,        \* jobs whose flash request may fail, with nothing done
  CancelledJobs,      \* jobs during which NvM may call Fee_Cancel
  InvalidatesAny,     \* may NvM invalidate a block that is not ClearlyItsOwn?
  Delivered,          \* values of all blocks in a flash that is not empty at first
  Written,            \* bound: the values NvM writes to each block
  MaxRequests         \* bound: requests of NvM

Block == 0 .. FeeBlockSum - 1

ASSUME FeeConstants ==
  /\ FeeBlockSum \in Nat \ {0}
  /\ FeeBlockSize \in [Block -> Nat \ {0}]
  /\ FeeImmediateData \subseteq Block
  /\ Nothing \notin Value /\ Torn \notin Value
  /\ InvalidatesAny \in BOOLEAN
  /\ Written \in [Block -> SUBSET Value]
  /\ Delivered \subseteq [Block -> Value]
  /\ MaxRequests \in Nat

(* What the blocks below n need together, for each n. *)
SumBelow(need) ==
  LET sum[n \in 0 .. FeeBlockSum] == IF n = 0 THEN 0 ELSE sum[n - 1] + need[n - 1]
  IN  sum

HeadersBelow(blocks) == SumBelow([b \in Block |-> IF b \in blocks THEN 1 ELSE 0])
DataBelow(blocks) == SumBelow([b \in Block |-> IF b \in blocks THEN FeeBlockSize[b] ELSE 0])

(* A copied cluster has room for the largest block; else swaps follow swaps. *)
ASSUME EnoughRoom ==
  \A b \in Block :
    HeadersBelow(Block)[FeeBlockSum] + DataBelow(Block)[FeeBlockSum] + FeeBlockSize[b] + 3
      <= FeeClusterLength

(* The errors and cancellations for which the store promises nothing: those  *)
(* that leave a record or a flag in the flash of which Fee does not know.    *)
Spared ==
  /\ FailingJobs \cap {"FEE_JOB_WRITE_DONE", "FEE_JOB_INT_SCAN_CLUSTER_HDR_GET",
                      "FEE_JOB_INT_SCAN_BLOCK_HDR_GET"} = {}
  /\ CancelledJobs \cap {"FEE_JOB_WRITE_DATA", "FEE_JOB_WRITE_VALIDATE", "FEE_JOB_WRITE_DONE",
                        "FEE_JOB_INVAL_BLOCK_DONE", "FEE_JOB_ERASE_IMMEDIATE_DONE",
                        "FEE_JOB_INT_SWAP_CLUSTER_VLD_DONE"} = {}
  /\ ~InvalidatesAny

VARIABLES
  fee,       \* the RAM of Fee
  request,   \* what NvM waits for
  answer,    \* what became of its last request
  asked      \* requests so far

feeVars == <<flash, fee, request, answer, asked>>

NoRequest == [job |-> "FEE_JOB_NONE", block |-> Nothing, value |-> Nothing]
NoAnswer == [result |-> "MEMIF_JOB_PENDING", value |-> Nothing]

Unwritten == [status |-> "FEE_BLOCK_INVALID", cluster |-> 0, dataAddr |-> 0, validHdr |-> 0]
NoSwap == [cluster |-> 0, block |-> 0, dataAddr |-> 0, hdrAddr |-> 0, preJob |-> "FEE_JOB_NONE"]

(* Fee_JobInfo and the addresses of the cluster group after Fee_Init. *)
InitialRam ==
  [status |-> "MEMIF_BUSY_INTERNAL", job |-> "FEE_JOB_INT_SCAN", result |-> "MEMIF_JOB_PENDING",
   block |-> 0, data |-> Nothing, info |-> [b \in Block |-> Unwritten],
   cluster |-> 0, useId |-> 0, hdrAddr |-> 0, dataAddr |-> 0, idx |-> 0,
   swap |-> NoSwap, mem |-> NoAccess]

Off == [InitialRam EXCEPT !.status = "MEMIF_UNINIT", !.job = "FEE_JOB_NONE",
                          !.result = "MEMIF_JOB_FAILED"]

Start(f, m, job) == [f EXCEPT !.mem = m, !.job = job, !.result = "MEMIF_JOB_PENDING"]
End(f, result) == [f EXCEPT !.job = "FEE_JOB_NONE", !.result = result]

-----------------------------------------------------------------------------
(* Swap: the blocks are copied to the next cluster, which counts once its   *)
(* own valid flag is set.                                                   *)

JobIntSwap(f) ==
  LET c == (f.cluster + 1) % ClusterCount
  IN  Start([f EXCEPT !.swap = [cluster |-> c, block |-> 0, dataAddr |-> FeeClusterLength,
                                hdrAddr |-> 1, preJob |-> f.job]],
            Erase(c), "FEE_JOB_INT_SWAP_CLUSTER_CLEAR")

(* Mutant: the header is written with its valid flag, as at the first start. *)
JobIntSwapClusterClearValid(f) ==
  Start(f, Program(f.swap.cluster, 0, <<ClusterHdr(f.useId + 1, "set")>>),
        "FEE_JOB_INT_SWAP_BLOCK")

JobIntSwapClusterClear(f) ==
  Start(f, Program(f.swap.cluster, 0, <<ClusterHdr(f.useId + 1, "erased")>>),
        "FEE_JOB_INT_SWAP_BLOCK")

(* The blocks a swap takes along. *)
Carried(f) ==
  {b \in Block : \/ f.info[b].status = "FEE_BLOCK_VALID"
                 \/ b \in FeeImmediateData /\ f.info[b].status = "FEE_BLOCK_INCONSISTENT"}

JobIntSwapClusterVld(f) ==
  Start(f, SetFlag(f.swap.cluster, 0, "valid"), "FEE_JOB_INT_SWAP_CLUSTER_VLD_DONE")

JobIntSwapBlock(f) ==
  LET rest == {b \in Carried(f) : b >= f.swap.block}
      b == Min(rest)
      valid == f.info[b].status = "FEE_BLOCK_VALID"
      addr == f.swap.dataAddr - FeeBlockSize[b]
  IN  IF rest = {} THEN JobIntSwapClusterVld(f)
      ELSE Start([f EXCEPT !.swap.block = IF valid THEN b ELSE b + 1,
                           !.swap.dataAddr = addr, !.swap.hdrAddr = f.swap.hdrAddr + 1],
                 Program(f.swap.cluster, f.swap.hdrAddr, <<BlockHdr(b, addr)>>),
                 IF valid THEN "FEE_JOB_INT_SWAP_DATA_READ" ELSE "FEE_JOB_INT_SWAP_BLOCK")

JobIntSwapDataRead(f) ==
  LET b == f.swap.block
  IN  Start(f, Read(f.info[b].cluster, f.info[b].dataAddr, FeeBlockSize[b]), "FEE_JOB_INT_SWAP_DATA_WRITE")

JobIntSwapDataWrite(f, buffer) ==
  Start(f, Program(f.swap.cluster, f.swap.dataAddr, buffer), "FEE_JOB_INT_SWAP_BLOCK_VLD")

JobIntSwapBlockVldWrite(f) ==
  Start([f EXCEPT !.swap.block = f.swap.block + 1],
        SetFlag(f.swap.cluster, f.swap.hdrAddr - 1, "valid"), "FEE_JOB_INT_SWAP_BLOCK")

-----------------------------------------------------------------------------
(* Requests of NvM. *)

JobRead(f) ==
  LET known == f.info[f.block]
  IN  CASE known.status = "FEE_BLOCK_VALID" ->
             Start(f, Read(known.cluster, known.dataAddr, FeeBlockSize[f.block]), "FEE_JOB_NONE")
        [] known.status = "FEE_BLOCK_INVALID" -> End(f, "MEMIF_BLOCK_INVALID")
        [] OTHER -> End(f, "MEMIF_BLOCK_INCONSISTENT")

(* Go on with next, or with a swap when the block does not fit. *)
JobWriteHdr(f, next) ==
  LET addr == f.dataAddr - FeeBlockSize[f.block]
  IN  IF FeeBlockSize[f.block] + 2 > f.dataAddr - f.hdrAddr THEN JobIntSwap(f)
      ELSE Start(f, Program(f.cluster, f.hdrAddr, <<BlockHdr(f.block, addr)>>), next)

(* The record whose header was written is the block's from here on. *)
TakeRecord(f) ==
  LET addr == f.dataAddr - FeeBlockSize[f.block]
  IN  [f EXCEPT !.dataAddr = addr, !.hdrAddr = f.hdrAddr + 1,
                !.info[f.block] = [status |-> "FEE_BLOCK_INCONSISTENT", cluster |-> f.cluster,
                                   dataAddr |-> addr, validHdr |-> f.hdrAddr]]

JobWriteData(f) ==
  LET g == IF f.block \in FeeImmediateData THEN f ELSE TakeRecord(f)
      known == g.info[g.block]
  IN  Start(g, Program(known.cluster, known.dataAddr, DataCells(g.data, FeeBlockSize[g.block])),
            "FEE_JOB_WRITE_VALIDATE")

(* An immediate block must have been erased, which wrote its header. *)
JobWrite(f) ==
  IF f.block \notin FeeImmediateData THEN JobWriteHdr(f, "FEE_JOB_WRITE_DATA")
  ELSE IF f.info[f.block].status = "FEE_BLOCK_INCONSISTENT" THEN JobWriteData(f)
  ELSE [f EXCEPT !.result = "MEMIF_JOB_FAILED"]

JobWriteValidate(f) ==
  Start(f, SetFlag(f.info[f.block].cluster, f.info[f.block].validHdr, "valid"), "FEE_JOB_WRITE_DONE")

JobWriteDone(f) ==
  End([f EXCEPT !.info[f.block].status = "FEE_BLOCK_VALID"], "MEMIF_JOB_OK")

JobInvalBlock(f) ==
  IF f.info[f.block].status = "FEE_BLOCK_INVALID" THEN End(f, "MEMIF_JOB_OK")
  ELSE Start(f, SetFlag(f.info[f.block].cluster, f.info[f.block].validHdr, "invalid"), "FEE_JOB_INVAL_BLOCK_DONE")

JobInvalBlockDone(f) ==
  End([f EXCEPT !.info[f.block].status = "FEE_BLOCK_INVALID"], "MEMIF_JOB_OK")

JobEraseImmediate(f) == JobWriteHdr(f, "FEE_JOB_ERASE_IMMEDIATE_DONE")
JobEraseImmediateDone(f) == End(TakeRecord(f), "MEMIF_JOB_OK")

(* The new cluster is in use; the request that led to the swap goes on. *)
JobIntSwapClusterVldDone(f) ==
  LET copied == Carried(f)
      headers(n) == HeadersBelow(copied)[n]
      addr(n) == FeeClusterLength - DataBelow(copied)[n]
      moved(b) == [f.info[b] EXCEPT !.cluster = f.swap.cluster, !.dataAddr = addr(b + 1),
                                    !.validHdr = headers(b) + 1]
      g == [f EXCEPT !.info = [b \in Block |-> IF b \in copied THEN moved(b) ELSE f.info[b]],
                     !.cluster = f.swap.cluster, !.useId = f.useId + 1,
                     !.dataAddr = addr(FeeBlockSum), !.hdrAddr = 1 + headers(FeeBlockSum),
                     !.job = f.swap.preJob]
  IN  IF g.job = "FEE_JOB_WRITE" THEN JobWrite(g) ELSE JobEraseImmediate(g)

-----------------------------------------------------------------------------
(* Scan at the start: the valid cluster with the greatest use ID, then its  *)
(* block headers up to the first erased one.                                *)

JobIntScanClusterHdrRead(f) == Start(f, Read(f.idx, 0, 1), "FEE_JOB_INT_SCAN_CLUSTER_HDR_GET")
JobInitScan(f) == JobIntScanClusterHdrRead([f EXCEPT !.idx = 0])

JobIntScanBlockHdrRead(f) == Start(f, Read(f.cluster, f.hdrAddr, 1), "FEE_JOB_INT_SCAN_BLOCK_HDR_GET")

JobIntScanClusterDone(f) ==
  IF f.useId = 0
  THEN Start([f EXCEPT !.idx = 0], Erase(0), "FEE_JOB_INT_SCAN_CLUSTER_CLEAR")
  ELSE JobIntScanBlockHdrRead([f EXCEPT !.hdrAddr = 1, !.dataAddr = FeeClusterLength])

UnpackClusterHdr(cell) == cell.kind = "cluster" /\ cell.valid = "set"

(* buffer is empty when the read failed. *)
JobIntScanClusterHdrGet(f, buffer) ==
  LET newer == buffer # <<>> /\ UnpackClusterHdr(buffer[1]) /\ buffer[1].use > f.useId
      g == IF newer THEN [f EXCEPT !.useId = buffer[1].use, !.cluster = f.idx] ELSE f
  IN  IF f.idx + 1 = ClusterCount THEN JobIntScanClusterDone([g EXCEPT !.idx = 0])
      ELSE JobIntScanClusterHdrRead([g EXCEPT !.idx = f.idx + 1])

JobIntScanClusterClear(f) ==
  Start(f, Program(f.idx, 0, <<ClusterHdr(1, "set")>>), "FEE_JOB_INT_SCAN_CLUSTER_CLEAR_DONE")

JobIntScanClusterClearDone(f) ==
  End([f EXCEPT !.cluster = f.idx, !.useId = 1, !.hdrAddr = 1, !.dataAddr = FeeClusterLength],
      "MEMIF_JOB_OK")

UnpackBlockHdr(buffer) ==
  CASE buffer = <<>> -> "FEE_BLOCK_HEADER_INVALID"
    [] buffer = <<Blank>> -> "FEE_BLOCK_HEADER_BLANK"
    [] buffer # <<>> /\ buffer[1].kind = "block" ->
         IF buffer[1].valid = "set" /\ buffer[1].invalid = "erased"
         THEN "FEE_BLOCK_VALID" ELSE "FEE_BLOCK_INVALID"
    [] OTHER -> "FEE_BLOCK_HEADER_INVALID"

(* A header counts when its data lie below all data seen and above the headers. *)
Plausible(f, hdr) ==
  /\ hdr.addr <= f.dataAddr - FeeBlockSize[hdr.block]
  /\ hdr.addr >= f.hdrAddr + 2

(* Mutant: the place of a record that does not count is not kept. *)
NoteRecordOnlyIfTaken(f, hdr, status) ==
  LET replaces == f.info[hdr.block].status # "FEE_BLOCK_VALID" \/ status = "FEE_BLOCK_VALID"
  IN  IF ~Plausible(f, hdr) \/ ~replaces THEN f
      ELSE [f EXCEPT !.dataAddr = hdr.addr,
                     !.info[hdr.block] = [status |-> status, cluster |-> f.cluster,
                                          dataAddr |-> hdr.addr, validHdr |-> f.hdrAddr]]

(* Mutant: the newest record counts even when its write was interrupted. *)
NoteRecordAlways(f, hdr, status) ==
  IF ~Plausible(f, hdr) THEN f
  ELSE [f EXCEPT !.dataAddr = hdr.addr,
                 !.info[hdr.block] = [status |-> status, cluster |-> f.cluster,
                                      dataAddr |-> hdr.addr, validHdr |-> f.hdrAddr]]

(* The older record stays the block's unless the newer one is valid. *)
NoteRecord(f, hdr, status) ==
  LET replaces == f.info[hdr.block].status # "FEE_BLOCK_VALID" \/ status = "FEE_BLOCK_VALID"
      g == [f EXCEPT !.dataAddr = hdr.addr]
  IN  IF ~Plausible(f, hdr) THEN f
      ELSE IF replaces
      THEN [g EXCEPT !.info[hdr.block] =
                       [status |-> status, cluster |-> f.cluster,
                        dataAddr |-> hdr.addr, validHdr |-> f.hdrAddr]]
      ELSE g

JobIntScanBlockHdrGet(f, buffer) ==
  LET status == UnpackBlockHdr(buffer)
      next(g) == JobIntScanBlockHdrRead([g EXCEPT !.hdrAddr = f.hdrAddr + 1])
  IN  CASE status = "FEE_BLOCK_HEADER_INVALID" ->
             IF f.hdrAddr + 1 >= FeeClusterLength THEN End(f, "MEMIF_JOB_OK") ELSE next(f)
        [] status = "FEE_BLOCK_HEADER_BLANK" -> End(f, "MEMIF_JOB_OK")
        [] OTHER -> next(NoteRecord(f, buffer[1], status))

-----------------------------------------------------------------------------
(* Jobs started by the main function, and those that follow a flash request. *)

Dispatch(f) ==
  CASE f.job = "FEE_JOB_INT_SCAN"        -> JobInitScan(f)
    [] f.job = "FEE_JOB_READ"            -> JobRead(f)
    [] f.job = "FEE_JOB_WRITE"           -> JobWrite(f)
    [] f.job = "FEE_JOB_INVAL_BLOCK"     -> JobInvalBlock(f)
    [] f.job = "FEE_JOB_ERASE_IMMEDIATE" -> JobEraseImmediate(f)

JobSchedule(f, buffer) ==
  CASE f.job = "FEE_JOB_WRITE_DATA"                  -> JobWriteData(f)
    [] f.job = "FEE_JOB_WRITE_VALIDATE"              -> JobWriteValidate(f)
    [] f.job = "FEE_JOB_WRITE_DONE"                  -> JobWriteDone(f)
    [] f.job = "FEE_JOB_INVAL_BLOCK_DONE"            -> JobInvalBlockDone(f)
    [] f.job = "FEE_JOB_ERASE_IMMEDIATE_DONE"        -> JobEraseImmediateDone(f)
    [] f.job = "FEE_JOB_INT_SCAN_CLUSTER_HDR_GET"    -> JobIntScanClusterHdrGet(f, buffer)
    [] f.job = "FEE_JOB_INT_SCAN_CLUSTER_CLEAR"      -> JobIntScanClusterClear(f)
    [] f.job = "FEE_JOB_INT_SCAN_CLUSTER_CLEAR_DONE" -> JobIntScanClusterClearDone(f)
    [] f.job = "FEE_JOB_INT_SCAN_BLOCK_HDR_GET"      -> JobIntScanBlockHdrGet(f, buffer)
    [] f.job = "FEE_JOB_INT_SWAP_CLUSTER_CLEAR"      -> JobIntSwapClusterClear(f)
    [] f.job = "FEE_JOB_INT_SWAP_BLOCK"              -> JobIntSwapBlock(f)
    [] f.job = "FEE_JOB_INT_SWAP_DATA_READ"          -> JobIntSwapDataRead(f)
    [] f.job = "FEE_JOB_INT_SWAP_DATA_WRITE"         -> JobIntSwapDataWrite(f, buffer)
    [] f.job = "FEE_JOB_INT_SWAP_BLOCK_VLD"          -> JobIntSwapBlockVldWrite(f)
    [] f.job = "FEE_JOB_INT_SWAP_CLUSTER_VLD_DONE"   -> JobIntSwapClusterVldDone(f)

JobNotiHandle(f) ==
  CASE f.result = "MEMIF_JOB_PENDING" -> f
    [] f.result \notin {"MEMIF_JOB_PENDING", "MEMIF_JOB_OK"} /\ f.status = "MEMIF_BUSY_INTERNAL" ->
         [f EXCEPT !.status = "MEMIF_UNINIT"]
    [] OTHER -> [f EXCEPT !.status = "MEMIF_IDLE"]

(* Mutant: the result of a read is left pending. *)
MemHwAbJobEndHandlePending(f, buffer) ==
  IF f.job = "FEE_JOB_NONE"
  THEN [f EXCEPT !.status = "MEMIF_IDLE"]
  ELSE JobNotiHandle(JobSchedule(f, buffer))

MemHwAbJobEndHandle(f, buffer) ==
  IF f.job = "FEE_JOB_NONE"
  THEN [f EXCEPT !.result = "MEMIF_JOB_OK", !.status = "MEMIF_IDLE"]
  ELSE JobNotiHandle(JobSchedule(f, buffer))

(* After a failed header the scan goes on with the next one. *)
MemHwAbJobErrorHandle(f) ==
  CASE f.job = "FEE_JOB_INT_SCAN_BLOCK_HDR_GET"   -> JobIntScanBlockHdrGet(f, <<>>)
    [] f.job = "FEE_JOB_INT_SCAN_CLUSTER_HDR_GET" -> JobIntScanClusterHdrGet(f, <<>>)
    [] OTHER -> [f EXCEPT !.result = "MEMIF_JOB_FAILED",
                          !.status = IF f.status = "MEMIF_BUSY_INTERNAL" THEN "MEMIF_UNINIT"
                                     ELSE "MEMIF_IDLE"]

(* What a read of a block returns: a value, unless the cells are not those   *)
(* of one write.                                                            *)
ValueOf(cells) ==
  IF cells[1].kind = "data" /\ cells = DataCells(cells[1].value, Len(cells))
  THEN cells[1].value ELSE Torn

(* The new RAM, and the notification of NvM when its request is over.  What *)
(* a request leaves in Fee_JobInfo is not read any more and forgotten here. *)
Becomes(f, buffer) ==
  IF request # NoRequest /\ f.status # "MEMIF_BUSY"
  THEN /\ fee' = [f EXCEPT !.block = 0, !.data = Nothing, !.swap = NoSwap]
       /\ request' = NoRequest
       /\ answer' = [result |-> f.result,
                     value |-> IF request.job = "FEE_JOB_READ" /\ f.result = "MEMIF_JOB_OK"
                               THEN ValueOf(buffer) ELSE Nothing]
  ELSE /\ fee' = f
       /\ UNCHANGED <<request, answer>>

-----------------------------------------------------------------------------
(* What a start would find: the last valid record in the valid cluster with *)
(* the greatest use ID.                                                     *)

IsValidCluster(c) == UnpackClusterHdr(flash[c][0])
Newest ==
  {c \in Cluster : /\ IsValidCluster(c)
                   /\ \A d \in Cluster : IsValidCluster(d) => flash[d][0].use <= flash[c][0].use}

IsValidRecord(c, a, b) ==
  /\ flash[c][a].kind = "block" /\ flash[c][a].block = b
  /\ flash[c][a].valid = "set" /\ flash[c][a].invalid = "erased"
LatestRecord(b) ==
  {r \in Newest \X Address : /\ IsValidRecord(r[1], r[2], b)
                             /\ \A e \in r[2] + 1 .. FeeClusterLength - 1 : ~IsValidRecord(r[1], e, b)}

DataAt(c, addr, b) == ValueOf(CellsAt(c, addr, FeeBlockSize[b]))

Stored ==
  [b \in Block |-> IF LatestRecord(b) = {} THEN Nothing
                   ELSE CHOOSE v \in {DataAt(r[1], flash[r[1]][r[2]].addr, b) : r \in LatestRecord(b)} : TRUE]

-----------------------------------------------------------------------------
FeeInit ==
  /\ fee.status = "MEMIF_UNINIT"
  /\ fee' = InitialRam
  /\ UNCHANGED <<flash, request, answer, asked>>

(* NvM asks for one thing at a time, and only when Fee is idle.  Fee would  *)
(* take a request during a swap or a scan, too; NvM waits (NvM_Act.c:915).  *)
Request(job, b, v) ==
  /\ fee.status = "MEMIF_IDLE"
  /\ fee' = [fee EXCEPT !.status = "MEMIF_BUSY", !.job = job, !.result = "MEMIF_JOB_PENDING",
                        !.block = b, !.data = v]
  /\ request' = [job |-> job, block |-> b, value |-> v]
  /\ answer' = NoAnswer
  /\ asked < MaxRequests
  /\ asked' = asked + 1
  /\ UNCHANGED flash

FeeRead(b) == Request("FEE_JOB_READ", b, Nothing)
FeeWrite(b, v) == Request("FEE_JOB_WRITE", b, v)

(* The flag for invalid would go to a header of the block, and no valid     *)
(* record would be left.                                                    *)
ClearlyItsOwn(b) ==
  LET known == fee.info[b]
      hdr == flash[known.cluster][known.validHdr]
  IN  known.status # "FEE_BLOCK_INVALID" =>
        /\ hdr.kind = "block" /\ hdr.block = b
        /\ \A a \in Address : IsValidRecord(fee.cluster, a, b) => a = known.validHdr

FeeInvalidateBlock(b) ==
  /\ InvalidatesAny \/ ClearlyItsOwn(b)
  /\ Request("FEE_JOB_INVAL_BLOCK", b, Nothing)
FeeEraseImmediateBlock(b) ==
  /\ b \in FeeImmediateData
  /\ Request("FEE_JOB_ERASE_IMMEDIATE", b, Nothing)

(* The driver stops the flash request where it is. *)
FeeCancel ==
  /\ fee.status = "MEMIF_BUSY"
  /\ fee.job \in CancelledJobs
  /\ flash' \in Interrupted(fee.mem)
  /\ Becomes([fee EXCEPT !.job = "FEE_JOB_NONE", !.result = "MEMIF_JOB_CANCELED",
                         !.status = "MEMIF_IDLE", !.mem = NoAccess], <<>>)
  /\ UNCHANGED asked

StartingJobs ==
  {"FEE_JOB_INT_SCAN", "FEE_JOB_READ", "FEE_JOB_WRITE", "FEE_JOB_INVAL_BLOCK", "FEE_JOB_ERASE_IMMEDIATE"}

MainFunction ==
  /\ fee.status # "MEMIF_UNINIT"
  /\ fee.result = "MEMIF_JOB_PENDING"
  /\ fee.job \in StartingJobs
  /\ Becomes(JobNotiHandle(Dispatch(fee)), <<>>)
  /\ UNCHANGED <<flash, asked>>

JobEndNotification ==
  LET buffer == IF fee.mem.op = "read" THEN CellsAt(fee.mem.cluster, fee.mem.at, fee.mem.length)
                ELSE <<>>
  IN  /\ fee.mem # NoAccess
      /\ flash' = Completed(fee.mem)
      /\ Becomes(MemHwAbJobEndHandle([fee EXCEPT !.mem = NoAccess], buffer), buffer)
      /\ UNCHANGED asked

JobErrorNotification ==
  /\ fee.mem # NoAccess
  /\ fee.job \in FailingJobs
  /\ Becomes(MemHwAbJobErrorHandle([fee EXCEPT !.mem = NoAccess]), <<>>)
  /\ UNCHANGED <<flash, asked>>

PowerLoss ==
  /\ fee.status # "MEMIF_UNINIT"
  /\ flash' \in Interrupted(fee.mem)
  /\ fee' = Off
  /\ UNCHANGED asked
  /\ request' = NoRequest
  /\ answer' = NoAnswer

(* A flash with a valid record of each block, laid out as after a swap.     *)
Holding(values) ==
  LET addr(b) == FeeClusterLength - DataBelow(Block)[b + 1]
      cell(a) ==
        IF a = 0 THEN ClusterHdr(1, "set")
        ELSE IF a <= FeeBlockSum THEN [BlockHdr(a - 1, addr(a - 1)) EXCEPT !.valid = "set"]
        ELSE IF a < addr(FeeBlockSum - 1) THEN Blank
        ELSE LET b == Min({c \in Block : a >= addr(c)})
             IN  DataCells(values[b], FeeBlockSize[b])[a - addr(b) + 1]
  IN  [c \in Cluster |-> [a \in Address |-> IF c = 0 THEN cell(a) ELSE Blank]]

Init ==
  /\ flash \in {[c \in Cluster |-> [a \in Address |-> Blank]]} \cup {Holding(d) : d \in Delivered}
  /\ fee = Off
  /\ request = NoRequest
  /\ answer = NoAnswer
  /\ asked = 0

Next ==
  \/ FeeInit
  \/ \E b \in Block : \/ FeeRead(b)
                      \/ FeeInvalidateBlock(b)
                      \/ FeeEraseImmediateBlock(b)
                      \/ \E v \in Written[b] : FeeWrite(b, v)
  \/ FeeCancel
  \/ MainFunction
  \/ JobEndNotification
  \/ JobErrorNotification
  \/ PowerLoss

(* The main function is called in every cycle, and the flash driver finishes. *)
Fairness == WF_feeVars(MainFunction) /\ WF_feeVars(JobEndNotification)

Spec == Init /\ [][Next]_feeVars /\ Fairness

-----------------------------------------------------------------------------
(* Every variable keeps its type: addresses stay in the cluster and a read  *)
(* never hands out half a record.                                           *)
JobType ==
  StartingJobs \cup
  {"FEE_JOB_WRITE_DATA", "FEE_JOB_WRITE_VALIDATE", "FEE_JOB_WRITE_DONE", "FEE_JOB_INVAL_BLOCK_DONE",
   "FEE_JOB_ERASE_IMMEDIATE_DONE", "FEE_JOB_INT_SCAN_CLUSTER_HDR_GET",
   "FEE_JOB_INT_SCAN_CLUSTER_CLEAR", "FEE_JOB_INT_SCAN_CLUSTER_CLEAR_DONE",
   "FEE_JOB_INT_SCAN_BLOCK_HDR_GET", "FEE_JOB_INT_SWAP_CLUSTER_CLEAR", "FEE_JOB_INT_SWAP_BLOCK",
   "FEE_JOB_INT_SWAP_DATA_READ", "FEE_JOB_INT_SWAP_DATA_WRITE", "FEE_JOB_INT_SWAP_BLOCK_VLD",
   "FEE_JOB_INT_SWAP_CLUSTER_VLD_DONE", "FEE_JOB_NONE"}

FeeTypeOK ==
  /\ fee.status \in {"MEMIF_UNINIT", "MEMIF_IDLE", "MEMIF_BUSY", "MEMIF_BUSY_INTERNAL"}
  /\ fee.job \in JobType
  /\ fee.block \in Block
  /\ fee.data \in Value \cup {Nothing}
  /\ \A b \in Block :
       /\ fee.info[b].status \in {"FEE_BLOCK_VALID", "FEE_BLOCK_INVALID", "FEE_BLOCK_INCONSISTENT"}
       /\ fee.info[b].dataAddr \in Address
       /\ fee.info[b].validHdr \in Address
  /\ fee.cluster \in Cluster /\ fee.idx \in Cluster /\ fee.swap.cluster \in Cluster
  /\ fee.useId \in Nat
  /\ fee.hdrAddr \in Address /\ fee.dataAddr \in 0 .. FeeClusterLength
  /\ fee.mem # NoAccess => fee.mem.cluster \in Cluster
  /\ request # NoRequest => request.block \in Block
  /\ answer # NoAnswer => answer.value \in Value \cup {Nothing}

(* Flash is programmed only where it is erased, a flag only once: what was  *)
(* written is never programmed over, whatever interrupted what.             *)
ProgramsErasedOnly ==
  LET cell(i) == flash[fee.mem.cluster][fee.mem.at + i]
  IN  CASE fee.mem.op = "program" -> \A i \in 0 .. Len(fee.mem.cells) - 1 : cell(i) = Blank
        [] fee.mem.op = "flag" -> /\ fee.mem.flag \in DOMAIN cell(0)
                                  /\ cell(0)[fee.mem.flag] = "erased"
        [] OTHER -> TRUE

(* An idle Fee knows of each block what the next start would find: the scan *)
(* at the start, the writes since and the addresses computed after a swap   *)
(* agree with the flash.                                                    *)
KnowsWhatIsStored ==
  fee.status = "MEMIF_IDLE" =>
    \A b \in Block :
      CASE fee.info[b].status = "FEE_BLOCK_VALID" ->
             /\ Stored[b] \in Value
             /\ DataAt(fee.info[b].cluster, fee.info[b].dataAddr, b) = Stored[b]
        [] fee.info[b].status = "FEE_BLOCK_INVALID" -> Stored[b] = Nothing
        [] OTHER -> TRUE

(* The types of Fee's RAM, and that an idle Fee knows what is stored.       *)
FeeInvariant ==
  /\ FeeTypeOK
  /\ KnowsWhatIsStored

(* Blocks whose old value may go with the next swap: erased for immediate   *)
(* data, or left by a write that failed.                                    *)
Doubtful ==
  LET writing == /\ fee.job \in {"FEE_JOB_WRITE_VALIDATE", "FEE_JOB_WRITE_DONE"}
                 /\ request # NoRequest
                 /\ request.block \notin FeeImmediateData
  IN  {b \in Block : /\ fee.info[b].status = "FEE_BLOCK_INCONSISTENT"
                     /\ ~(writing /\ b = request.block)}

(* Fee implements the store: an acknowledged write is read back after any   *)
(* number of swaps and power losses, an interrupted one leaves the old or   *)
(* the new value, and nothing else changes.                                 *)
Store == INSTANCE FeeStore WITH store <- Stored, doubt <- Doubtful
ImplementsStore == Store!StoreSpec

(* A request of NvM, and the scan of a start, come to an end.               *)
JobsEnd == (fee.result = "MEMIF_JOB_PENDING") ~> (fee.result # "MEMIF_JOB_PENDING")

=============================================================================
