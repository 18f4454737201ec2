------------------------------ MODULE Fee_proofs ------------------------------
(***************************************************************************)
(* Theorems about Fee_62, for any number of clusters and blocks, any sizes  *)
(* of them that leave room for a swap, and any sequence of requests, power  *)
(* losses and spared errors: what Fee keeps in its RAM is what the flash    *)
(* holds, no cell is programmed twice between two erases, and the whole     *)
(* implements FeeStore.                                                     *)
(*                                                                         *)
(* Inv is the inductive invariant.  It says of the cluster in use that its  *)
(* headers and data do not overlap and where the next ones go (Layout,      *)
(* Low), of each block what its entry in the RAM says of the records in the *)
(* flash (Known), and of each job which flash request it waits for and what *)
(* the flash holds by then (Scanning, Serving, Swapping).                   *)
(***************************************************************************)
EXTENDS Fee, SequenceTheorems, WellFoundedInduction, TLAPS

-----------------------------------------------------------------------------
(* Cells and layout. *)
Flag == {"erased", "set"}

Cell ==
  {Blank, Torn}
  \cup [kind : {"cluster"}, use : Nat, valid : Flag]
  \cup [kind : {"block"}, block : Block, addr : Address, valid : Flag, invalid : Flag]
  \cup [kind : {"data"}, value : Value, part : Nat]

Contents == [Address -> Cell]

(* A cluster k with headers in the cells below h. *)
IsHeader(k, a) == k[a].kind = "block"
IsRecord(k, a, b) == IsHeader(k, a) /\ k[a].block = b
IsValid(k, a, b) == IsRecord(k, a, b) /\ k[a].valid = "set" /\ k[a].invalid = "erased"

Holds(k, addr, b, v) ==
  \A i \in 1 .. FeeBlockSize[b] : k[addr + i - 1] = [kind |-> "data", value |-> v, part |-> i]
Whole(k, addr, b) == \E v \in Value : Holds(k, addr, b, v)
Empty(k, addr, b) == \A i \in 1 .. FeeBlockSize[b] : k[addr + i - 1] = Blank

Layout(k, h) ==
  /\ h \in 1 .. FeeClusterLength - 1
  /\ \A a \in 1 .. h - 1 : k[a].kind \in {"block", "torn"}
  /\ \A a \in 1 .. h - 1 : IsHeader(k, a) =>
       /\ k[a].addr > h /\ k[a].addr >= a + 2
       /\ k[a].addr + FeeBlockSize[k[a].block] <= FeeClusterLength
       /\ k[a].valid = "set" => Whole(k, k[a].addr, k[a].block)
  /\ \A a, e \in 1 .. h - 1 : a < e /\ IsHeader(k, a) /\ IsHeader(k, e) =>
       k[e].addr + FeeBlockSize[k[e].block] <= k[a].addr
  /\ \A x \in h .. FeeClusterLength - 1 :
       /\ k[x].kind \in {"blank", "torn", "data"}
       /\ (\A a \in 1 .. h - 1 : IsHeader(k, a) => x < k[a].addr) => k[x] = Blank

(* The data of the headers below h begin at d. *)
Low(k, h, d) ==
  /\ d \in h + 1 .. FeeClusterLength
  /\ \A a \in 1 .. h - 1 : IsHeader(k, a) => d <= k[a].addr
  /\ d = FeeClusterLength \/ \E a \in 1 .. h - 1 : IsHeader(k, a) /\ k[a].addr = d

ValidCluster(k) == UnpackClusterHdr(k[0])

Current(fl, c, u) ==
  /\ c \in Cluster
  /\ ValidCluster(fl[c]) /\ fl[c][0].use = u /\ u > 0
  /\ \A d \in Cluster \ {c} : ValidCluster(fl[d]) => fl[d][0].use < u

NoneValid(fl) == \A c \in Cluster : ~ ValidCluster(fl[c])

Disk(fl) ==
  \/ NoneValid(fl)
  \/ \E c \in Cluster : Current(fl, c, fl[c][0].use) /\ \E h \in Address : Layout(fl[c], h)

-----------------------------------------------------------------------------
Statuses == {"MEMIF_UNINIT", "MEMIF_IDLE", "MEMIF_BUSY", "MEMIF_BUSY_INTERNAL"}
Results == {"MEMIF_JOB_PENDING", "MEMIF_JOB_OK", "MEMIF_JOB_FAILED", "MEMIF_JOB_CANCELED",
            "MEMIF_BLOCK_INVALID", "MEMIF_BLOCK_INCONSISTENT"}
Infos == [status : {"FEE_BLOCK_VALID", "FEE_BLOCK_INVALID", "FEE_BLOCK_INCONSISTENT"},
          cluster : Cluster, dataAddr : Address, validHdr : Address]
Swaps == [cluster : Cluster, block : 0 .. FeeBlockSum, dataAddr : 0 .. FeeClusterLength,
          hdrAddr : Address, preJob : JobType]

RamFields == {"status", "job", "result", "block", "data", "info", "cluster", "useId", "hdrAddr", "dataAddr",
              "idx", "swap", "mem"}

RamOK(f) ==
  /\ DOMAIN f = RamFields /\ f = [x \in RamFields |-> f[x]]
  /\ f.status \in Statuses /\ f.job \in JobType /\ f.result \in Results
  /\ f.block \in Block /\ f.data \in Value \cup {Nothing}
  /\ f.info \in [Block -> Infos]
  /\ f.cluster \in Cluster /\ f.useId \in Nat
  /\ f.hdrAddr \in Address /\ f.dataAddr \in 0 .. FeeClusterLength
  /\ f.idx \in Cluster /\ f.swap \in Swaps

-----------------------------------------------------------------------------
(* What Fee knows of block b. *)
Writing(f, b) ==
  f.status = "MEMIF_BUSY" /\ f.job \in {"FEE_JOB_WRITE_VALIDATE", "FEE_JOB_WRITE_DONE"} /\ f.block = b

KnownValid(k, f, b) ==
  LET i == f.info[b]
  IN  /\ i.cluster = f.cluster /\ i.validHdr \in 1 .. f.hdrAddr - 1
      /\ IsValid(k, i.validHdr, b) /\ k[i.validHdr].addr = i.dataAddr
      /\ \A a \in i.validHdr + 1 .. f.hdrAddr - 1 : ~ IsValid(k, a, b)

KnownInvalid(k, f, b) == \A a \in 1 .. f.hdrAddr - 1 : ~ IsValid(k, a, b)

KnownKept(k, f, b) ==
  LET i == f.info[b]
  IN  /\ i.cluster = f.cluster /\ i.validHdr \in 1 .. f.hdrAddr - 1
      /\ IsRecord(k, i.validHdr, b) /\ k[i.validHdr].addr = i.dataAddr
      /\ k[i.validHdr].valid = "erased"
      /\ \A a \in i.validHdr + 1 .. f.hdrAddr - 1 : ~ IsRecord(k, a, b)
      /\ ~ (Writing(f, b) /\ f.job = "FEE_JOB_WRITE_DONE") => Empty(k, i.dataAddr, b)

NotInvalidated(fl, f, b) ==
  LET i == f.info[b]
  IN  IsRecord(fl[i.cluster], i.validHdr, b) => fl[i.cluster][i.validHdr].invalid = "erased"

Known(fl, f, b) ==
  LET k == fl[f.cluster]
      s == f.info[b].status
  IN  /\ s = "FEE_BLOCK_VALID" => KnownValid(k, f, b)
      /\ s = "FEE_BLOCK_INVALID" => KnownInvalid(k, f, b)
      /\ s = "FEE_BLOCK_INCONSISTENT" /\ (b \in FeeImmediateData \/ Writing(f, b)) => KnownKept(k, f, b)
      /\ s = "FEE_BLOCK_INCONSISTENT" => NotInvalidated(fl, f, b)
      /\ s = "FEE_BLOCK_INCONSISTENT" /\ f.info[b].cluster # f.cluster => KnownInvalid(k, f, b)

Running(fl, f) ==
  /\ Current(fl, f.cluster, f.useId)
  /\ Layout(fl[f.cluster], f.hdrAddr)
  /\ Low(fl[f.cluster], f.hdrAddr, f.dataAddr)
  /\ \A b \in Block : Known(fl, f, b)

Own(fl, f, b) ==
  LET i == f.info[b]
  IN  i.status # "FEE_BLOCK_INVALID" =>
        /\ IsRecord(fl[i.cluster], i.validHdr, b)
        /\ \A a \in Address : IsValid(fl[f.cluster], a, b) => a = i.validHdr

-----------------------------------------------------------------------------
(* The scan at the start. *)
Unseen(f) == \A b \in Block : f.info[b].status = "FEE_BLOCK_INVALID"

SeenClusters(fl, f) ==
  /\ \A d \in 0 .. f.idx - 1 : ValidCluster(fl[d]) => fl[d][0].use <= f.useId
  /\ f.useId # 0 => ValidCluster(fl[f.cluster]) /\ fl[f.cluster][0].use = f.useId

Scanning(fl, f) ==
  \/ /\ f.job = "FEE_JOB_INT_SCAN" /\ f.mem = NoAccess
     /\ Disk(fl) /\ Unseen(f) /\ f.useId = 0
  \/ /\ f.job = "FEE_JOB_INT_SCAN_CLUSTER_HDR_GET" /\ f.mem = Read(f.idx, 0, 1)
     /\ Disk(fl) /\ Unseen(f) /\ SeenClusters(fl, f)
  \/ /\ f.job = "FEE_JOB_INT_SCAN_CLUSTER_CLEAR" /\ f.mem = Erase(0) /\ f.idx = 0
     /\ NoneValid(fl) /\ Unseen(f)
  \/ /\ f.job = "FEE_JOB_INT_SCAN_CLUSTER_CLEAR_DONE" /\ f.mem = Program(0, 0, <<ClusterHdr(1, "set")>>) /\ f.idx = 0
     /\ NoneValid(fl) /\ Unseen(f) /\ \A a \in Address : fl[0][a] = Blank
  \/ /\ f.job = "FEE_JOB_INT_SCAN_BLOCK_HDR_GET" /\ f.mem = Read(f.cluster, f.hdrAddr, 1)
     /\ Current(fl, f.cluster, f.useId)
     /\ \E h \in Address : Layout(fl[f.cluster], h) /\ f.hdrAddr \in 1 .. h
     /\ Low(fl[f.cluster], f.hdrAddr, f.dataAddr)
     /\ \A b \in Block : Known(fl, f, b) /\ f.info[b].status # "FEE_BLOCK_INCONSISTENT"

-----------------------------------------------------------------------------
(* A swap: the blocks below n are in the new cluster. *)
Place(f, n) == HeadersBelow(Carried(f))[n] + 1
Room(f, n) == FeeClusterLength - DataBelow(Carried(f))[n]

Same(fl, f, b) ==
  \A i \in 1 .. FeeBlockSize[b] :
    fl[f.swap.cluster][Room(f, b + 1) + i - 1] = fl[f.info[b].cluster][f.info[b].dataAddr + i - 1]

Header(fl, f, b, flag) ==
  fl[f.swap.cluster][Place(f, b)] =
    [kind |-> "block", block |-> b, addr |-> Room(f, b + 1), valid |-> flag, invalid |-> "erased"]

Copied(fl, f, n) ==
  \A b \in Carried(f) : b < n =>
    /\ Header(fl, f, b, IF f.info[b].status = "FEE_BLOCK_VALID" THEN "set" ELSE "erased")
    /\ Same(fl, f, b)

Opened(fl, f, n) ==
  LET k == fl[f.swap.cluster]
  IN  /\ k[0] = ClusterHdr(f.useId + 1, "erased")
      /\ Layout(k, Place(f, n)) /\ Low(k, Place(f, n), Room(f, n))
      /\ \A a \in 1 .. Place(f, n) - 1 : \E b \in Carried(f) : b < n /\ a = Place(f, b)

Part(fl, f, n) == Opened(fl, f, n) /\ Copied(fl, f, n)

(* The header of b is there, too. *)
Half(fl, f, b) == Opened(fl, f, b + 1) /\ Copied(fl, f, b) /\ Header(fl, f, b, "erased")

At(f, n) == f.swap.hdrAddr = Place(f, n) /\ f.swap.dataAddr = Room(f, n)

ProgramHeader(f, b) == Program(f.swap.cluster, Place(f, b), <<BlockHdr(b, Room(f, b + 1))>>)

Takes(f, b) == b \in Carried(f) /\ f.info[b].status = "FEE_BLOCK_VALID"

Source(fl, f, b) == [i \in 1 .. FeeBlockSize[b] |-> fl[f.info[b].cluster][f.info[b].dataAddr + i - 1]]

Swapping(fl, f) ==
  LET c == f.swap.cluster
      n == f.swap.block
  IN  \/ /\ f.job = "FEE_JOB_INT_SWAP_CLUSTER_CLEAR" /\ f.mem = Erase(c)
         /\ At(f, 0) /\ n = 0
      \/ /\ f.job = "FEE_JOB_INT_SWAP_BLOCK" /\ At(f, n)
         /\ \/ /\ n = 0 /\ f.mem = Program(c, 0, <<ClusterHdr(f.useId + 1, "erased")>>)
               /\ \A a \in Address : fl[c][a] = Blank
            \/ \E b \in Carried(f) \ {x \in Block : Takes(f, x)} :
                 n = b + 1 /\ f.mem = ProgramHeader(f, b) /\ Part(fl, f, b)
            \/ \E b \in Carried(f) :
                 /\ Takes(f, b) /\ n = b + 1 /\ f.mem = SetFlag(c, Place(f, b), "valid")
                 /\ Half(fl, f, b) /\ Same(fl, f, b)
      \/ /\ f.job = "FEE_JOB_INT_SWAP_DATA_READ" /\ Takes(f, n) /\ At(f, n + 1)
         /\ f.mem = ProgramHeader(f, n) /\ Part(fl, f, n)
      \/ /\ f.job = "FEE_JOB_INT_SWAP_DATA_WRITE" /\ Takes(f, n) /\ At(f, n + 1)
         /\ f.mem = Read(f.info[n].cluster, f.info[n].dataAddr, FeeBlockSize[n])
         /\ Half(fl, f, n) /\ Empty(fl[c], Room(f, n + 1), n)
      \/ /\ f.job = "FEE_JOB_INT_SWAP_BLOCK_VLD" /\ Takes(f, n) /\ At(f, n + 1)
         /\ f.mem = Program(c, Room(f, n + 1), Source(fl, f, n))
         /\ Half(fl, f, n) /\ Empty(fl[c], Room(f, n + 1), n)
      \/ /\ f.job = "FEE_JOB_INT_SWAP_CLUSTER_VLD_DONE"
         /\ f.mem = SetFlag(c, 0, "valid")
         /\ Part(fl, f, FeeBlockSum)

-----------------------------------------------------------------------------
(* The requests of NvM. *)
HeaderPending(f) ==
  /\ FeeBlockSize[f.block] + 2 <= f.dataAddr - f.hdrAddr
  /\ f.mem = Program(f.cluster, f.hdrAddr, <<BlockHdr(f.block, f.dataAddr - FeeBlockSize[f.block])>>)

Serving(fl, f, req) ==
  LET b == f.block
      i == f.info[b]
  IN  \/ /\ f.job \in {"FEE_JOB_READ", "FEE_JOB_WRITE"} /\ f.mem = NoAccess /\ req.job = f.job
      \/ /\ f.job = "FEE_JOB_ERASE_IMMEDIATE" /\ f.mem = NoAccess /\ req.job = f.job
         /\ b \in FeeImmediateData
      \/ /\ f.job = "FEE_JOB_INVAL_BLOCK" /\ f.mem = NoAccess /\ req.job = f.job /\ Own(fl, f, b)
      \/ /\ f.job = "FEE_JOB_NONE" /\ req.job = "FEE_JOB_READ" /\ i.status = "FEE_BLOCK_VALID"
         /\ f.mem = Read(i.cluster, i.dataAddr, FeeBlockSize[b])
      \/ /\ f.job = "FEE_JOB_WRITE_DATA" /\ req.job = "FEE_JOB_WRITE" /\ b \notin FeeImmediateData
         /\ HeaderPending(f)
      \/ /\ f.job = "FEE_JOB_ERASE_IMMEDIATE_DONE" /\ req.job = "FEE_JOB_ERASE_IMMEDIATE"
         /\ b \in FeeImmediateData /\ HeaderPending(f)
      \/ /\ f.job = "FEE_JOB_WRITE_VALIDATE" /\ req.job = "FEE_JOB_WRITE"
         /\ i.status = "FEE_BLOCK_INCONSISTENT"
         /\ f.mem = Program(i.cluster, i.dataAddr, DataCells(f.data, FeeBlockSize[b]))
      \/ /\ f.job = "FEE_JOB_WRITE_DONE" /\ req.job = "FEE_JOB_WRITE"
         /\ i.status = "FEE_BLOCK_INCONSISTENT"
         /\ f.mem = SetFlag(i.cluster, i.validHdr, "valid")
         /\ Holds(fl[i.cluster], i.dataAddr, b, f.data)
      \/ /\ f.job = "FEE_JOB_INVAL_BLOCK_DONE" /\ req.job = "FEE_JOB_INVAL_BLOCK"
         /\ i.status # "FEE_BLOCK_INVALID" /\ Own(fl, f, b)
         /\ f.mem = SetFlag(i.cluster, i.validHdr, "invalid")
      \/ /\ \/ req.job = "FEE_JOB_WRITE" /\ b \notin FeeImmediateData
            \/ req.job = "FEE_JOB_ERASE_IMMEDIATE" /\ b \in FeeImmediateData
         /\ f.swap.preJob = req.job
         /\ f.swap.cluster = (f.cluster + 1) % ClusterCount
         /\ Swapping(fl, f)

RequestOK(req) ==
  \/ req = NoRequest
  \/ /\ req = [job |-> req.job, block |-> req.block, value |-> req.value] /\ req.block \in Block
     /\ \/ req.job = "FEE_JOB_WRITE" /\ req.value \in Value
        \/ req.job \in {"FEE_JOB_READ", "FEE_JOB_INVAL_BLOCK", "FEE_JOB_ERASE_IMMEDIATE"} /\ req.value = Nothing

(* The flash fl, the RAM f and the request req belong together. *)
FeeInv(fl, f, req) ==
  /\ fl \in [Cluster -> Contents]
  /\ RamOK(f) /\ RequestOK(req)
  /\ \/ /\ f.status = "MEMIF_UNINIT" /\ f.mem = NoAccess /\ req = NoRequest
        /\ Disk(fl) /\ \A b \in Block : f.info[b].status # "FEE_BLOCK_INCONSISTENT"
     \/ /\ f.status = "MEMIF_IDLE" /\ f.mem = NoAccess /\ req = NoRequest
        /\ f.result # "MEMIF_JOB_PENDING" /\ Running(fl, f)
     \/ /\ f.status = "MEMIF_BUSY_INTERNAL" /\ req = NoRequest /\ f.result = "MEMIF_JOB_PENDING"
        /\ Scanning(fl, f)
     \/ /\ f.status = "MEMIF_BUSY" /\ req # NoRequest /\ f.result = "MEMIF_JOB_PENDING"
        /\ f.block = req.block /\ f.data = req.value
        /\ Running(fl, f) /\ Serving(fl, f, req)

(* No answer hands out what nobody wrote. *)
AnswerOK == answer.value \in Value \cup {Nothing}

Inv == FeeInv(flash, fee, request) /\ AnswerOK

-----------------------------------------------------------------------------
(* Numbers and sums. *)

\* What holds of 0 and is handed on up to n holds of every number up to n.
LEMMA UpTo ==
  ASSUME NEW n \in Nat, NEW S, 0 \in S, \A k \in 0 .. n - 1 : k \in S => k + 1 \in S
  PROVE  0 .. n \subseteq S
<1> DEFINE T == {k \in 0 .. n : k \notin S}
<1>1. SUFFICES ASSUME T # {}
               PROVE  FALSE
  OBVIOUS
<1>2. PICK k \in T : \A y \in T : ~ (<<y, k>> \in OpToRel(<, Nat))
  <2>1. T \subseteq Nat OBVIOUS
  <2>2. QED BY <1>1, <2>1, NatLessThanWellFounded, WFMin
<1>3. k # 0 /\ k \in 1 .. n /\ k - 1 \in 0 .. n - 1 /\ (k - 1) + 1 = k OBVIOUS
<1>4. k - 1 \in T BY <1>3
<1>5. <<k - 1, k>> \in OpToRel(<, Nat) BY <1>3 DEF OpToRel
<1>6. QED BY <1>2, <1>4, <1>5

LEMMA MinIs ==
  ASSUME NEW T \in SUBSET Nat, T # {}
  PROVE  Min(T) \in T /\ \A y \in T : Min(T) <= y
<1>1. PICK k \in T : \A y \in T : ~ (<<y, k>> \in OpToRel(<, Nat)) BY NatLessThanWellFounded, WFMin
<1>2. ASSUME NEW y \in T
      PROVE  k <= y
  <2>1. y \in Nat /\ k \in Nat OBVIOUS
  <2>2. ~ (y < k) BY <1>1, <2>1 DEF OpToRel
  <2>3. QED BY <2>1, <2>2
<1>3. QED BY <1>2 DEF Min

-----------------------------------------------------------------------------
(* Sums over the blocks below a number. *)
IsSum(need, sum, n) ==
  /\ sum \in [0 .. n -> Nat]
  /\ sum[0] = 0
  /\ \A m \in 1 .. n : sum[m] = sum[m - 1] + need[m - 1]

LEMMA SumsExist ==
  ASSUME NEW need \in [Block -> Nat]
  PROVE  \E sum : IsSum(need, sum, FeeBlockSum)
<1> DEFINE S == {n \in 0 .. FeeBlockSum : \E sum : IsSum(need, sum, n)}
<1>0. FeeBlockSum \in Nat \ {0} /\ Block = 0 .. FeeBlockSum - 1 BY FeeConstants DEF Block
<1>1. 0 \in S
  <2>1. IsSum(need, [m \in 0 .. 0 |-> 0], 0) BY DEF IsSum
  <2>2. QED BY <1>0, <2>1
<1>2. ASSUME NEW k \in 0 .. FeeBlockSum - 1, k \in S
      PROVE  k + 1 \in S
  <2>1. PICK sum : IsSum(need, sum, k) BY <1>2
  <2> DEFINE next == [m \in 0 .. k + 1 |-> IF m = k + 1 THEN sum[k] + need[k] ELSE sum[m]]
  <2>2. need[k] \in Nat /\ sum[k] \in Nat /\ k \in Nat BY <1>0, <2>1 DEF IsSum
  <2>3. next \in [0 .. k + 1 -> Nat] BY <2>1, <2>2 DEF IsSum
  <2>4. next[0] = 0 BY <2>1, <2>2 DEF IsSum
  <2>5. ASSUME NEW m \in 1 .. k + 1
        PROVE  next[m] = next[m - 1] + need[m - 1]
    BY <2>1, <2>2 DEF IsSum
  <2>6. IsSum(need, next, k + 1) BY <2>3, <2>4, <2>5 DEF IsSum
  <2>7. k + 1 \in 0 .. FeeBlockSum BY <1>0
  <2>8. QED BY <2>6, <2>7
<1> HIDE DEF S
<1>3. 0 .. FeeBlockSum \subseteq S BY <1>0, <1>1, <1>2, UpTo
<1>4. FeeBlockSum \in S BY <1>0, <1>3
<1>5. QED BY <1>4 DEF S

LEMMA SumIs ==
  ASSUME NEW need \in [Block -> Nat]
  PROVE  IsSum(need, SumBelow(need), FeeBlockSum)
<1> DEFINE Rec(sum) == [n \in 0 .. FeeBlockSum |-> IF n = 0 THEN 0 ELSE sum[n - 1] + need[n - 1]]
<1>0. FeeBlockSum \in Nat \ {0} /\ Block = 0 .. FeeBlockSum - 1 BY FeeConstants DEF Block
<1>1. \E sum : sum = Rec(sum)
  <2>1. PICK sum : IsSum(need, sum, FeeBlockSum) BY SumsExist
  <2>2. sum = [n \in 0 .. FeeBlockSum |-> sum[n]] BY <2>1 DEF IsSum
  <2>3. ASSUME NEW n \in 0 .. FeeBlockSum
        PROVE  sum[n] = IF n = 0 THEN 0 ELSE sum[n - 1] + need[n - 1]
    BY <1>0, <2>1 DEF IsSum
  <2>4. sum = Rec(sum) BY <2>2, <2>3
  <2>5. QED BY <2>4
<1>2. SumBelow(need) = CHOOSE sum : sum = Rec(sum) BY DEF SumBelow
<1> DEFINE s == SumBelow(need)
<1>3. s = Rec(s) BY <1>1, <1>2
<1> HIDE DEF s
<1>4. s[0] = 0 /\ DOMAIN s = 0 .. FeeBlockSum /\ s = [n \in 0 .. FeeBlockSum |-> s[n]] BY <1>0, <1>3
<1>5. \A m \in 1 .. FeeBlockSum : s[m] = s[m - 1] + need[m - 1] BY <1>0, <1>3
<1>6. 0 .. FeeBlockSum \subseteq {n \in 0 .. FeeBlockSum : s[n] \in Nat}
  <2> DEFINE S == {n \in 0 .. FeeBlockSum : s[n] \in Nat}
  <2>1. 0 \in S BY <1>0, <1>4
  <2>2. ASSUME NEW k \in 0 .. FeeBlockSum - 1, k \in S
        PROVE  k + 1 \in S
    BY <1>0, <1>5, <2>2
  <2> HIDE DEF S
  <2>3. 0 .. FeeBlockSum \subseteq S BY <1>0, <2>1, <2>2, UpTo
  <2>4. QED BY <2>3 DEF S
<1>7. s \in [0 .. FeeBlockSum -> Nat] BY <1>4, <1>6
<1>8. QED BY <1>4, <1>5, <1>7 DEF IsSum, s

LEMMA Numbers ==
  /\ FeeBlockSum \in Nat \ {0} /\ Block = 0 .. FeeBlockSum - 1
  /\ ClusterCount \in Nat /\ ClusterCount > 1 /\ Cluster = 0 .. ClusterCount - 1
  /\ FeeClusterLength \in Nat /\ FeeClusterLength > 2 /\ Address = 0 .. FeeClusterLength - 1
  /\ \A b \in Block : FeeBlockSize[b] \in Nat /\ FeeBlockSize[b] >= 1
  /\ \A b \in Block : b \in 0 .. FeeBlockSum /\ b + 1 \in 0 .. FeeBlockSum /\ (b + 1) - 1 = b
BY FeeConstants, FlashConstants DEF Block, Cluster, Address

\* The sums grow by one and by the size of a block at each block that counts.
LEMMA BelowIs ==
  ASSUME NEW s
  PROVE  /\ HeadersBelow(s) \in [0 .. FeeBlockSum -> Nat] /\ HeadersBelow(s)[0] = 0
         /\ DataBelow(s) \in [0 .. FeeBlockSum -> Nat] /\ DataBelow(s)[0] = 0
         /\ \A b \in Block :
              /\ HeadersBelow(s)[b + 1] = HeadersBelow(s)[b] + (IF b \in s THEN 1 ELSE 0)
              /\ DataBelow(s)[b + 1] = DataBelow(s)[b] + (IF b \in s THEN FeeBlockSize[b] ELSE 0)
<1> DEFINE one == [b \in Block |-> IF b \in s THEN 1 ELSE 0]
           size == [b \in Block |-> IF b \in s THEN FeeBlockSize[b] ELSE 0]
<1>1. one \in [Block -> Nat] /\ size \in [Block -> Nat] BY Numbers
<1>2. HeadersBelow(s) = SumBelow(one) /\ DataBelow(s) = SumBelow(size)
  BY DEF HeadersBelow, DataBelow
<1>3. IsSum(one, HeadersBelow(s), FeeBlockSum) /\ IsSum(size, DataBelow(s), FeeBlockSum)
  BY <1>1, <1>2, SumIs
<1>4. ASSUME NEW b \in Block
      PROVE  /\ HeadersBelow(s)[b + 1] = HeadersBelow(s)[b] + (IF b \in s THEN 1 ELSE 0)
             /\ DataBelow(s)[b + 1] = DataBelow(s)[b] + (IF b \in s THEN FeeBlockSize[b] ELSE 0)
  <2>1. b + 1 \in 1 .. FeeBlockSum /\ (b + 1) - 1 = b BY Numbers
  <2>2. one[b] = (IF b \in s THEN 1 ELSE 0) /\ size[b] = (IF b \in s THEN FeeBlockSize[b] ELSE 0)
    OBVIOUS
  <2> HIDE DEF one, size
  <2>3. HeadersBelow(s)[b + 1] = HeadersBelow(s)[b] + one[b] BY <1>3, <2>1 DEF IsSum
  <2>4. DataBelow(s)[b + 1] = DataBelow(s)[b] + size[b] BY <1>3, <2>1 DEF IsSum
  <2>5. QED BY <2>2, <2>3, <2>4
<1>5. QED BY <1>3, <1>4 DEF IsSum

\* Where no block counts, the sums stay what they are.
LEMMA BelowSkips ==
  ASSUME NEW s, NEW n \in 0 .. FeeBlockSum, NEW m \in n .. FeeBlockSum,
         \A b \in n .. m - 1 : b \notin s
  PROVE  HeadersBelow(s)[m] = HeadersBelow(s)[n] /\ DataBelow(s)[m] = DataBelow(s)[n]
<1> DEFINE S == {k \in 0 .. m - n : /\ HeadersBelow(s)[n + k] = HeadersBelow(s)[n]
                                    /\ DataBelow(s)[n + k] = DataBelow(s)[n]}
<1>1. 0 \in S BY Numbers
<1>2. ASSUME NEW k \in 0 .. (m - n) - 1, k \in S
      PROVE  k + 1 \in S
  <2>1. n + k \in Block /\ n + k \in n .. m - 1 /\ (n + k) + 1 = n + (k + 1) /\ k + 1 \in 0 .. m - n
    BY Numbers
  <2>2. n + k \notin s BY <2>1
  <2>3. /\ HeadersBelow(s)[n + (k + 1)] = HeadersBelow(s)[n + k] + 0
        /\ DataBelow(s)[n + (k + 1)] = DataBelow(s)[n + k] + 0
    BY <2>1, <2>2, BelowIs
  <2>4. HeadersBelow(s)[n + k] \in Nat /\ DataBelow(s)[n + k] \in Nat BY <2>1, BelowIs, Numbers
  <2>5. QED BY <1>2, <2>1, <2>3, <2>4
<1> HIDE DEF S
<1>3. 0 .. m - n \subseteq S
  <2>1. m - n \in Nat BY Numbers
  <2>2. QED BY <1>1, <1>2, <2>1, UpTo
<1>4. m - n \in S /\ n + (m - n) = m BY <1>3, Numbers
<1>5. QED BY <1>4 DEF S

LEMMA BelowRises ==
  ASSUME NEW s, NEW n \in 0 .. FeeBlockSum, NEW m \in n .. FeeBlockSum
  PROVE  HeadersBelow(s)[n] <= HeadersBelow(s)[m] /\ DataBelow(s)[n] <= DataBelow(s)[m]
<1> DEFINE S == {k \in 0 .. m - n : /\ HeadersBelow(s)[n] <= HeadersBelow(s)[n + k]
                                    /\ DataBelow(s)[n] <= DataBelow(s)[n + k]}
<1>0. HeadersBelow(s)[n] \in Nat /\ DataBelow(s)[n] \in Nat
  <2>1. HeadersBelow(s) \in [0 .. FeeBlockSum -> Nat] /\ DataBelow(s) \in [0 .. FeeBlockSum -> Nat]
    BY BelowIs
  <2>2. QED BY <2>1
<1>1. 0 \in S BY <1>0, Numbers
<1>2. ASSUME NEW k \in 0 .. (m - n) - 1, k \in S
      PROVE  k + 1 \in S
  <2>1. n + k \in Block /\ (n + k) + 1 = n + (k + 1) /\ k + 1 \in 0 .. m - n BY Numbers
  <2>2. /\ HeadersBelow(s)[n + (k + 1)] = HeadersBelow(s)[n + k] + (IF n + k \in s THEN 1 ELSE 0)
        /\ DataBelow(s)[n + (k + 1)] = DataBelow(s)[n + k] + (IF n + k \in s THEN FeeBlockSize[n + k] ELSE 0)
    BY <2>1, BelowIs
  <2>3. HeadersBelow(s)[n + k] \in Nat /\ DataBelow(s)[n + k] \in Nat /\ FeeBlockSize[n + k] \in Nat
    BY <2>1, BelowIs, Numbers
  <2>4. HeadersBelow(s)[n] <= HeadersBelow(s)[n + k] /\ DataBelow(s)[n] <= DataBelow(s)[n + k]
    BY <1>2
  <2> HIDE DEF S
  <2>5. /\ HeadersBelow(s)[n] <= HeadersBelow(s)[n + (k + 1)]
        /\ DataBelow(s)[n] <= DataBelow(s)[n + (k + 1)]
    BY <1>0, <2>2, <2>3, <2>4
  <2>6. QED BY <2>1, <2>5 DEF S
<1> HIDE DEF S
<1>3. 0 .. m - n \subseteq S
  <2>1. m - n \in Nat BY Numbers
  <2>2. QED BY <1>1, <1>2, <2>1, UpTo
<1>4. m - n \in S /\ n + (m - n) = m BY <1>3, Numbers
<1>5. QED BY <1>4 DEF S

\* Some blocks need no more than all of them.
LEMMA BelowAll ==
  ASSUME NEW s, NEW n \in 0 .. FeeBlockSum
  PROVE  /\ HeadersBelow(s)[n] <= HeadersBelow(Block)[n]
         /\ DataBelow(s)[n] <= DataBelow(Block)[n]
<1> DEFINE S == {k \in 0 .. FeeBlockSum : /\ HeadersBelow(s)[k] <= HeadersBelow(Block)[k]
                                          /\ DataBelow(s)[k] <= DataBelow(Block)[k]}
<1>1. 0 \in S BY BelowIs, Numbers, SMTT(30)
<1>2. ASSUME NEW k \in 0 .. FeeBlockSum - 1, k \in S
      PROVE  k + 1 \in S
  <2>1. k \in Block /\ k \in 0 .. FeeBlockSum /\ k + 1 \in 0 .. FeeBlockSum BY Numbers
  <2>2. /\ HeadersBelow(s)[k + 1] = HeadersBelow(s)[k] + (IF k \in s THEN 1 ELSE 0)
        /\ DataBelow(s)[k + 1] = DataBelow(s)[k] + (IF k \in s THEN FeeBlockSize[k] ELSE 0)
        /\ HeadersBelow(Block)[k + 1] = HeadersBelow(Block)[k] + 1
        /\ DataBelow(Block)[k + 1] = DataBelow(Block)[k] + FeeBlockSize[k]
    BY <2>1, BelowIs
  <2>3. /\ HeadersBelow(s)[k] \in Nat /\ DataBelow(s)[k] \in Nat /\ FeeBlockSize[k] \in Nat
        /\ HeadersBelow(Block)[k] \in Nat /\ DataBelow(Block)[k] \in Nat
    BY <2>1, BelowIs, Numbers, SMTT(30)
  <2>4. HeadersBelow(s)[k] <= HeadersBelow(Block)[k] /\ DataBelow(s)[k] <= DataBelow(Block)[k]
    BY <1>2
  <2> HIDE DEF S
  <2>5. /\ HeadersBelow(s)[k + 1] <= HeadersBelow(Block)[k + 1]
        /\ DataBelow(s)[k + 1] <= DataBelow(Block)[k + 1]
    BY <2>2, <2>3, <2>4
  <2>6. QED BY <2>1, <2>5 DEF S
<1> HIDE DEF S
<1>3. 0 .. FeeBlockSum \subseteq S BY <1>1, <1>2, UpTo, Numbers
<1>4. QED BY <1>3 DEF S

\* A cluster has room for what a swap takes along, and a header beside it.
LEMMA RoomForAll ==
  ASSUME NEW s, NEW n \in 0 .. FeeBlockSum
  PROVE  /\ HeadersBelow(s)[n] \in Nat /\ DataBelow(s)[n] \in Nat
         /\ HeadersBelow(s)[n] + DataBelow(s)[n] + 4 <= FeeClusterLength
<1> DEFINE N == FeeBlockSum
<1>1. 0 \in Block /\ N \in n .. N /\ N \in 0 .. N /\ n \in 0 .. N BY Numbers
<1>2. /\ HeadersBelow(s)[n] \in Nat /\ DataBelow(s)[n] \in Nat
      /\ HeadersBelow(Block)[n] \in Nat /\ DataBelow(Block)[n] \in Nat
      /\ HeadersBelow(Block)[N] \in Nat /\ DataBelow(Block)[N] \in Nat
  BY <1>1, BelowIs
<1>3. HeadersBelow(s)[n] <= HeadersBelow(Block)[n] /\ DataBelow(s)[n] <= DataBelow(Block)[n]
  BY BelowAll
<1>4. HeadersBelow(Block)[n] <= HeadersBelow(Block)[N] /\ DataBelow(Block)[n] <= DataBelow(Block)[N]
  BY <1>1, BelowRises
<1>5. HeadersBelow(Block)[N] + DataBelow(Block)[N] + FeeBlockSize[0] + 3 <= FeeClusterLength
  BY <1>1, EnoughRoom
<1>6. FeeBlockSize[0] \in Nat /\ FeeBlockSize[0] >= 1 /\ FeeClusterLength \in Nat BY <1>1, Numbers
<1>7. QED BY <1>2, <1>3, <1>4, <1>5, <1>6

-----------------------------------------------------------------------------
(* Cells and requests to the driver. *)
LEMMA CellIs ==
  ASSUME NEW cell \in Cell
  PROVE  /\ cell.kind \in {"blank", "torn", "cluster", "block", "data"}
         /\ cell.kind = "blank" <=> cell = Blank
         /\ cell.kind = "torn" <=> cell = Torn
         /\ cell.kind = "cluster" =>
              /\ cell.use \in Nat /\ cell.valid \in Flag
              /\ cell = [kind |-> "cluster", use |-> cell.use, valid |-> cell.valid]
         /\ cell.kind = "block" =>
              /\ cell.block \in Block /\ cell.addr \in Address /\ cell.valid \in Flag /\ cell.invalid \in Flag
              /\ cell = [kind |-> "block", block |-> cell.block, addr |-> cell.addr,
                         valid |-> cell.valid, invalid |-> cell.invalid]
         /\ cell.kind = "data" => cell.value \in Value
BY DEF Cell, Blank, Torn

LEMMA CellsAre ==
  /\ Blank \in Cell /\ Torn \in Cell
  /\ Blank.kind = "blank" /\ Torn.kind = "torn"
  /\ \A u \in Nat, v \in Flag : ClusterHdr(u, v) \in Cell
  /\ \A b \in Block, x \in Address, v, i \in Flag :
       [kind |-> "block", block |-> b, addr |-> x, valid |-> v, invalid |-> i] \in Cell
  /\ \A b \in Block, x \in Address : BlockHdr(b, x) \in Cell
  /\ \A v \in Value, n \in Nat : [kind |-> "data", value |-> v, part |-> n] \in Cell
BY DEF Cell, Blank, Torn, ClusterHdr, BlockHdr, Flag

\* A cluster whose cells after the header are erased.
LEMMA ErasedLayout ==
  ASSUME NEW k \in Contents, \A a \in 1 .. FeeClusterLength - 1 : k[a] = Blank
  PROVE  Layout(k, 1) /\ Low(k, 1, FeeClusterLength)
BY Numbers, CellsAre DEF Layout, Low

\* The cells between headers and data are erased.
LEMMA GapIsBlank ==
  ASSUME NEW k \in Contents, NEW h, NEW d, Layout(k, h), Low(k, h, d)
  PROVE  /\ \A x \in h .. d - 1 : x \in Address /\ k[x] = Blank
         /\ h \in Nat /\ d \in Nat /\ h >= 1 /\ h < d /\ d <= FeeClusterLength
<1>1. /\ h \in Nat /\ d \in Nat /\ h >= 1 /\ h < d /\ d <= FeeClusterLength
  BY Numbers DEF Layout, Low
<1>2. ASSUME NEW x \in h .. d - 1
      PROVE  x \in Address /\ k[x] = Blank
  <2>1. x \in h .. FeeClusterLength - 1 /\ x \in Address /\ x < d BY <1>1, Numbers
  <2>2. ASSUME NEW a \in 1 .. h - 1, IsHeader(k, a)
        PROVE  x < k[a].addr
    BY <1>1, <2>1, <2>2, CellIs, Numbers DEF Contents, IsHeader, Low
  <2>3. QED BY <2>1, <2>2 DEF Layout
<1>3. QED BY <1>1, <1>2

-----------------------------------------------------------------------------
(* The layout of a cluster. *)

LEMMA HeaderIs ==
  ASSUME NEW k \in Contents, NEW h, Layout(k, h), NEW a \in 1 .. h - 1, IsHeader(k, a)
  PROVE  /\ a \in Address /\ a \in Nat /\ h \in Nat /\ a < h /\ h < FeeClusterLength
         /\ k[a] \in Cell /\ k[a].block \in Block /\ k[a].addr \in Address /\ k[a].addr \in Nat
         /\ FeeBlockSize[k[a].block] \in Nat /\ FeeBlockSize[k[a].block] >= 1
         /\ k[a].addr > h /\ k[a].addr >= a + 2
         /\ k[a].addr + FeeBlockSize[k[a].block] <= FeeClusterLength
         /\ k[a].valid \in Flag /\ k[a].invalid \in Flag
         /\ k[a].valid = "set" => Whole(k, k[a].addr, k[a].block)
<1>1. /\ a \in Address /\ a \in Nat /\ h \in Nat /\ a < h /\ h < FeeClusterLength
  BY Numbers DEF Layout
<1>2. k[a] \in Cell BY <1>1 DEF Contents
<1>3. /\ k[a].block \in Block /\ k[a].addr \in Address /\ k[a].valid \in Flag /\ k[a].invalid \in Flag
  BY <1>2, CellIs DEF IsHeader
<1>4. /\ k[a].addr > h /\ k[a].addr >= a + 2
      /\ k[a].addr + FeeBlockSize[k[a].block] <= FeeClusterLength
      /\ k[a].valid = "set" => Whole(k, k[a].addr, k[a].block)
  BY DEF Layout
<1>5. QED BY <1>1, <1>2, <1>3, <1>4, Numbers

LEMMA WholeKept ==
  ASSUME NEW k, NEW kk, NEW addr, NEW b, Whole(k, addr, b),
         \A i \in 1 .. FeeBlockSize[b] : kk[addr + i - 1] = k[addr + i - 1]
  PROVE  Whole(kk, addr, b)
BY DEF Whole, Holds

\* The headers below h are at the same places and for the same data.
SameHeads(k, kk, h) ==
  \A a \in 1 .. h - 1 :
    /\ kk[a].kind = k[a].kind
    /\ IsHeader(k, a) => kk[a].block = k[a].block /\ kk[a].addr = k[a].addr

LEMMA SameLow ==
  ASSUME NEW k, NEW kk, NEW h, NEW d, SameHeads(k, kk, h), Low(k, h, d)
  PROVE  Low(kk, h, d)
BY DEF SameHeads, Low, IsHeader

\* The next header is written where it belongs.
LEMMA AppendHeader ==
  ASSUME NEW k \in Contents, NEW kk \in Contents, NEW h, NEW d, Layout(k, h), Low(k, h, d),
         NEW b \in Block, FeeBlockSize[b] + 2 <= d - h,
         kk[h] = BlockHdr(b, d - FeeBlockSize[b]),
         \A x \in 1 .. FeeClusterLength - 1 : x # h => kk[x] = k[x]
  PROVE  Layout(kk, h + 1) /\ Low(kk, h + 1, d - FeeBlockSize[b])
<1> DEFINE L == FeeClusterLength
           size == FeeBlockSize[b]
<1>1. /\ h \in Nat /\ d \in Nat /\ h >= 1 /\ h < d /\ d <= L /\ L \in Nat
      /\ size \in Nat /\ size >= 1 /\ size + 2 <= d - h
  BY GapIsBlank, Numbers
<1>2. /\ kk[h].kind = "block" /\ kk[h].block = b /\ kk[h].addr = d - size /\ kk[h].valid = "erased"
  BY DEF BlockHdr
<1> HIDE DEF size
<1>3. \A a \in 1 .. h - 1 : kk[a] = k[a] BY <1>1
<1>4. ASSUME NEW a \in 1 .. h - 1, IsHeader(k, a)
      PROVE  /\ k[a].addr >= d /\ k[a].addr \in Nat
             /\ FeeBlockSize[k[a].block] \in Nat
             /\ \A i \in 1 .. FeeBlockSize[k[a].block] :
                  kk[k[a].addr + i - 1] = k[k[a].addr + i - 1]
  BY <1>1, <1>4, HeaderIs DEF Low
<1>5. 1 .. (h + 1) - 1 = (1 .. h - 1) \cup {h} /\ h + 1 \in 1 .. L - 1 BY <1>1
<1>6. \A a \in 1 .. (h + 1) - 1 : kk[a].kind \in {"block", "torn"} BY <1>2, <1>3, <1>5 DEF Layout
<1>7. ASSUME NEW a \in 1 .. (h + 1) - 1, IsHeader(kk, a)
      PROVE  /\ kk[a].addr > h + 1 /\ kk[a].addr >= a + 2
             /\ kk[a].addr + FeeBlockSize[kk[a].block] <= L
             /\ kk[a].valid = "set" => Whole(kk, kk[a].addr, kk[a].block)
  <2>1. CASE a = h BY <1>1, <1>2, <2>1 DEF size
  <2>2. CASE a # h BY <1>1, <1>3, <1>4, <1>5, <1>7, <2>2, HeaderIs, WholeKept DEF IsHeader
  <2>3. QED BY <2>1, <2>2
<1>8. ASSUME NEW a \in 1 .. (h + 1) - 1, NEW e \in 1 .. (h + 1) - 1, a < e, IsHeader(kk, a), IsHeader(kk, e)
      PROVE  kk[e].addr + FeeBlockSize[kk[e].block] <= kk[a].addr
  BY <1>1, <1>2, <1>3, <1>4, <1>5, <1>8 DEF IsHeader, size, Layout
<1>9. ASSUME NEW x \in h + 1 .. L - 1
      PROVE  /\ kk[x].kind \in {"blank", "torn", "data"}
             /\ (\A a \in 1 .. (h + 1) - 1 : IsHeader(kk, a) => x < kk[a].addr) => kk[x] = Blank
  BY <1>1, <1>3, <1>5 DEF IsHeader, Layout
<1>10. Layout(kk, h + 1) BY <1>5, <1>6, <1>7, <1>8, <1>9 DEF Layout
<1>11. Low(kk, h + 1, d - size) BY <1>1, <1>2, <1>3, <1>4, <1>5 DEF IsHeader, Low
<1>12. QED BY <1>10, <1>11 DEF size

\* The write of the next header was cut off.
LEMMA AppendTorn ==
  ASSUME NEW k \in Contents, NEW kk \in Contents, NEW h, NEW d, Layout(k, h), Low(k, h, d), h + 1 < d,
         kk[h] = Torn, \A x \in 1 .. FeeClusterLength - 1 : x # h => kk[x] = k[x]
  PROVE  Layout(kk, h + 1)
<1> DEFINE L == FeeClusterLength
<1>1. /\ h \in Nat /\ d \in Nat /\ h >= 1 /\ h < d /\ d <= L /\ L \in Nat BY GapIsBlank, Numbers
<1>2. kk[h].kind = "torn" /\ ~ IsHeader(kk, h) BY DEF Torn, IsHeader
<1>3. \A a \in 1 .. h - 1 : kk[a] = k[a] BY <1>1
<1>5. 1 .. (h + 1) - 1 = (1 .. h - 1) \cup {h} /\ h + 1 \in 1 .. L - 1 BY <1>1
<1>6. \A a \in 1 .. (h + 1) - 1 : kk[a].kind \in {"block", "torn"} BY <1>2, <1>3, <1>5 DEF Layout
<1>4. ASSUME NEW a \in 1 .. (h + 1) - 1, IsHeader(kk, a)
      PROVE  a \in 1 .. h - 1 /\ IsHeader(k, a) /\ kk[a] = k[a]
  BY <1>2, <1>3, <1>4, <1>5 DEF IsHeader
<1>7. ASSUME NEW a \in 1 .. (h + 1) - 1, IsHeader(kk, a)
      PROVE  /\ kk[a].addr > h + 1 /\ kk[a].addr >= a + 2
             /\ kk[a].addr + FeeBlockSize[kk[a].block] <= L
             /\ kk[a].valid = "set" => Whole(kk, kk[a].addr, kk[a].block)
  BY <1>1, <1>4, <1>7, HeaderIs, WholeKept DEF Low
<1>8. ASSUME NEW a \in 1 .. (h + 1) - 1, NEW e \in 1 .. (h + 1) - 1, a < e, IsHeader(kk, a), IsHeader(kk, e)
      PROVE  kk[e].addr + FeeBlockSize[kk[e].block] <= kk[a].addr
  BY <1>4, <1>8 DEF Layout
<1>9. ASSUME NEW x \in h + 1 .. L - 1
      PROVE  /\ kk[x].kind \in {"blank", "torn", "data"}
             /\ (\A a \in 1 .. (h + 1) - 1 : IsHeader(kk, a) => x < kk[a].addr) => kk[x] = Blank
  BY <1>1, <1>3, <1>5 DEF IsHeader, Layout
<1>10. QED BY <1>5, <1>6, <1>7, <1>8, <1>9 DEF Layout

\* Data are written, or cut off, where a header without its valid flag has reserved the place.
LEMMA FillData ==
  ASSUME NEW k \in Contents, NEW kk \in Contents, NEW h, Layout(k, h),
         NEW a \in 1 .. h - 1, IsHeader(k, a), k[a].valid = "erased",
         \A x \in 1 .. FeeClusterLength - 1 :
           \/ kk[x] = k[x]
           \/ /\ x \in k[a].addr .. k[a].addr + FeeBlockSize[k[a].block] - 1
              /\ kk[x].kind \in {"blank", "torn", "data"}
  PROVE  Layout(kk, h) /\ SameHeads(k, kk, h)
<1> DEFINE L == FeeClusterLength
           size == FeeBlockSize[k[a].block]
           addr == k[a].addr
<1>1. /\ h \in Nat /\ h < L /\ L \in Nat /\ addr \in Nat /\ size \in Nat /\ size >= 1
      /\ addr > h /\ addr + size <= L
  BY HeaderIs, Numbers
<1>2. \A x \in 1 .. L - 1 : kk[x] = k[x] \/ (x \in addr .. addr + size - 1 /\ kk[x].kind \in {"blank", "torn", "data"})
  OBVIOUS
<1> HIDE DEF size, addr
<1>3. \A e \in 1 .. h - 1 : kk[e] = k[e] BY <1>1, <1>2
<1>4. SameHeads(k, kk, h) BY <1>3 DEF SameHeads
<1>5. ASSUME NEW e \in 1 .. h - 1, IsHeader(kk, e)
      PROVE  /\ kk[e].addr > h /\ kk[e].addr >= e + 2
             /\ kk[e].addr + FeeBlockSize[kk[e].block] <= L
             /\ kk[e].valid = "set" => Whole(kk, kk[e].addr, kk[e].block)
  <2>1. kk[e] = k[e] /\ IsHeader(k, e) BY <1>3, <1>5 DEF IsHeader
  <2>2. /\ k[e].addr \in Nat /\ FeeBlockSize[k[e].block] \in Nat /\ k[e].addr > h /\ k[e].addr >= e + 2
        /\ k[e].addr + FeeBlockSize[k[e].block] <= L
        /\ k[e].valid = "set" => Whole(k, k[e].addr, k[e].block)
    BY <2>1, HeaderIs
  <2>3. ASSUME k[e].valid = "set"
        PROVE  Whole(kk, k[e].addr, k[e].block)
    BY <1>1, <1>2, <2>1, <2>2, <2>3, WholeKept, SMTT(30) DEF Layout, addr, size
  <2>4. QED BY <2>1, <2>2, <2>3
<1>6. ASSUME NEW c \in 1 .. h - 1, NEW e \in 1 .. h - 1, c < e, IsHeader(kk, c), IsHeader(kk, e)
      PROVE  kk[e].addr + FeeBlockSize[kk[e].block] <= kk[c].addr
  BY <1>3, <1>6 DEF IsHeader, Layout
<1>7. ASSUME NEW x \in h .. L - 1
      PROVE  /\ kk[x].kind \in {"blank", "torn", "data"}
             /\ (\A e \in 1 .. h - 1 : IsHeader(kk, e) => x < kk[e].addr) => kk[x] = Blank
  BY <1>1, <1>2, <1>3 DEF Layout, IsHeader, addr
<1>8. \A e \in 1 .. h - 1 : kk[e].kind \in {"block", "torn"} BY <1>3 DEF Layout
<1>9. h \in 1 .. L - 1 BY DEF Layout
<1>10. QED BY <1>4, <1>5, <1>6, <1>7, <1>8, <1>9 DEF Layout

\* Headers get flags, the valid flag only when the data are there.
LEMMA FlagHeaders ==
  ASSUME NEW k \in Contents, NEW kk \in Contents, NEW h, Layout(k, h), SameHeads(k, kk, h),
         \A x \in h .. FeeClusterLength - 1 : kk[x] = k[x],
         \A a \in 1 .. h - 1 : IsHeader(k, a) /\ kk[a].valid = "set" => Whole(k, k[a].addr, k[a].block)
  PROVE  Layout(kk, h)
<1> DEFINE L == FeeClusterLength
<1>1. h \in Nat /\ L \in Nat /\ h \in 1 .. L - 1 BY Numbers DEF Layout
<1>2. ASSUME NEW e \in 1 .. h - 1, IsHeader(kk, e)
      PROVE  /\ kk[e].addr = k[e].addr /\ kk[e].block = k[e].block /\ IsHeader(k, e)
             /\ kk[e].addr > h /\ kk[e].addr >= e + 2
             /\ kk[e].addr + FeeBlockSize[kk[e].block] <= L
             /\ kk[e].valid = "set" => Whole(kk, kk[e].addr, kk[e].block)
  BY <1>1, <1>2, HeaderIs, WholeKept DEF SameHeads, IsHeader
<1>3. ASSUME NEW c \in 1 .. h - 1, NEW e \in 1 .. h - 1, c < e, IsHeader(kk, c), IsHeader(kk, e)
      PROVE  kk[e].addr + FeeBlockSize[kk[e].block] <= kk[c].addr
  BY <1>2, <1>3 DEF Layout
<1>4. ASSUME NEW x \in h .. L - 1
      PROVE  /\ kk[x].kind \in {"blank", "torn", "data"}
             /\ (\A e \in 1 .. h - 1 : IsHeader(kk, e) => x < kk[e].addr) => kk[x] = Blank
  BY DEF SameHeads, IsHeader, Layout
<1>5. \A e \in 1 .. h - 1 : kk[e].kind \in {"block", "torn"} BY DEF Layout, SameHeads
<1>6. QED BY <1>1, <1>2, <1>3, <1>4, <1>5 DEF Layout

-----------------------------------------------------------------------------
(* What a flash request does to the cells. *)

Disks == [Cluster -> Contents]
Others(fl, fl2, c) == \A d \in Cluster \ {c} : fl2[d] = fl[d]

CellSet(fl, fl2, c, at, cell) ==
  /\ fl2 \in Disks /\ Others(fl, fl2, c)
  /\ fl2[c][at] = cell
  /\ \A a \in Address \ {at} : fl2[c][a] = fl[c][a]

RangeSet(fl, fl2, c, at, cells, n) ==
  /\ fl2 \in Disks /\ Others(fl, fl2, c)
  /\ \A a \in Address : a \in at .. at + n - 1 => fl2[c][a] = cells[a - at + 1]
  /\ \A a \in Address : a \notin at .. at + n - 1 => fl2[c][a] = fl[c][a]

RangePart(fl, fl2, c, at, cells, n) ==
  /\ fl2 \in Disks /\ Others(fl, fl2, c)
  /\ \A a \in Address : a \in at .. at + n - 1 => fl2[c][a] \in {fl[c][a], cells[a - at + 1], Torn}
  /\ \A a \in Address : a \notin at .. at + n - 1 => fl2[c][a] = fl[c][a]

\* Programming n of the cells.
LEMMA Programming ==
  ASSUME flash \in Disks, NEW c \in Cluster, NEW at \in Address, NEW n \in Nat, at + n <= FeeClusterLength,
         NEW cells, NEW p \in 0 .. n, \A i \in 1 .. n : cells[i] \in Cell,
         \A a \in Address : a \in at .. at + n - 1 => flash[c][a] = Blank
  PROVE  /\ RangeSet(flash, Programmed(Program(c, at, cells), p), c, at, cells, p)
         /\ RangePart(flash, Programmed(Program(c, at, cells), p), c, at, cells, n)
<1> DEFINE m == Program(c, at, cells)
           fl2 == Programmed(m, p)
           k == [a \in Address |->
                  IF a \notin at .. at + p - 1 THEN flash[c][a]
                  ELSE IF flash[c][a] = Blank THEN cells[a - at + 1]
                  ELSE Torn]
<1>0. at \in Nat /\ \A a \in Address : a \in Nat BY Numbers
<1>1. fl2 = [flash EXCEPT ![c] = k] BY DEF Programmed, Program
<1>2. \A a \in Address : /\ a \in at .. at + p - 1 => k[a] = cells[a - at + 1] /\ a - at + 1 \in 1 .. n
                         /\ a \notin at .. at + p - 1 => k[a] = flash[c][a]
                         /\ a \in at .. at + p - 1 => a \in at .. at + n - 1
  BY <1>0
<1>3. flash[c] \in Contents BY DEF Disks
<1>4. k \in Contents
  <2>1. ASSUME NEW a \in Address
        PROVE  k[a] \in Cell
    BY <1>2, <1>3 DEF Contents
  <2> HIDE DEF m, fl2
  <2>2. k \in [Address -> Cell] BY <2>1
  <2>3. QED BY <2>2 DEF Contents
<1> HIDE DEF m, fl2, k
<1>5. fl2 \in Disks /\ Others(flash, fl2, c) /\ fl2[c] = k BY <1>1, <1>4 DEF Disks, Others
<1>6. RangeSet(flash, fl2, c, at, cells, p) BY <1>2, <1>5 DEF RangeSet
<1>7. RangePart(flash, fl2, c, at, cells, n) BY <1>2, <1>5 DEF RangePart
<1>8. QED BY <1>6, <1>7 DEF fl2, m

LEMMA ProgramMany ==
  ASSUME flash \in Disks, NEW c \in Cluster, NEW at \in Address, NEW n \in Nat, at + n <= FeeClusterLength,
         NEW cells \in [1 .. n -> Cell],
         \A a \in Address : a \in at .. at + n - 1 => flash[c][a] = Blank
  PROVE  /\ RangeSet(flash, Completed(Program(c, at, cells)), c, at, cells, n)
         /\ \A fl2 \in Interrupted(Program(c, at, cells)) : RangePart(flash, fl2, c, at, cells, n)
<1> DEFINE m == Program(c, at, cells)
<1>0. at \in Nat /\ \A a \in Address : a \in Nat BY Numbers
<1>1. Len(cells) = n BY SeqDef, LenProperties
<1>2. m.op = "program" /\ m.cluster = c /\ m.at = at /\ m.cells = cells BY DEF Program
<1>3. Completed(m) = Programmed(m, n) BY <1>1, <1>2 DEF Completed
<1>4. \A p \in 0 .. n : /\ RangeSet(flash, Programmed(m, p), c, at, cells, p)
                        /\ RangePart(flash, Programmed(m, p), c, at, cells, n)
  BY Programming
<1>5. RangePart(flash, flash, c, at, cells, n) BY DEF RangePart, Others
<1> HIDE DEF m
<1>6. ASSUME NEW p \in 0 .. n - 1
      PROVE  RangePart(flash, [Programmed(m, p) EXCEPT ![c][at + p] = Torn], c, at, cells, n)
  <2> DEFINE fl1 == Programmed(m, p)
             fl2 == [fl1 EXCEPT ![c][at + p] = Torn]
  <2>1. RangePart(flash, fl1, c, at, cells, n) BY <1>4
  <2> HIDE DEF fl1
  <2>2. at + p \in Address /\ at + p \in at .. at + n - 1 BY <1>0, Numbers
  <2>3. fl1 \in Disks /\ fl1[c] \in Contents BY <2>1 DEF RangePart, Disks
  <2>4. fl2[c] = [fl1[c] EXCEPT ![at + p] = Torn] /\ \A d \in Cluster \ {c} : fl2[d] = fl1[d]
    BY <2>3 DEF Disks
  <2>5. fl2[c] \in Contents /\ fl2[c][at + p] = Torn /\ \A a \in Address \ {at + p} : fl2[c][a] = fl1[c][a]
    BY <2>2, <2>3, <2>4, CellsAre DEF Contents
  <2>6. fl2 \in Disks BY <2>3, <2>4, <2>5 DEF Disks
  <2> HIDE DEF fl2
  <2>7. RangePart(flash, fl2, c, at, cells, n) BY <2>1, <2>2, <2>4, <2>5, <2>6 DEF RangePart, Others
  <2>8. QED BY <2>7 DEF fl1, fl2
<1>7. ASSUME NEW fl2 \in Interrupted(m)
      PROVE  RangePart(flash, fl2, c, at, cells, n)
  <2>1. \/ fl2 = flash \/ fl2 = Completed(m)
        \/ \E p \in 0 .. n : fl2 = Programmed(m, p)
        \/ \E p \in 0 .. n - 1 : fl2 = [Programmed(m, p) EXCEPT ![c][at + p] = Torn]
    BY <1>1, <1>2, <1>7 DEF Interrupted
  <2>2. n \in 0 .. n OBVIOUS
  <2>3. QED BY <1>3, <1>4, <1>5, <1>6, <2>1, <2>2
<1>8. RangeSet(flash, Completed(m), c, at, cells, n) BY <1>3, <1>4
<1>9. QED BY <1>7, <1>8 DEF m

LEMMA ProgramOne ==
  ASSUME flash \in Disks, NEW c \in Cluster, NEW at \in Address, NEW cell \in Cell, flash[c][at] = Blank
  PROVE  /\ CellSet(flash, Completed(Program(c, at, <<cell>>)), c, at, cell)
         /\ \A fl2 \in Interrupted(Program(c, at, <<cell>>)) :
              \/ fl2 = flash
              \/ CellSet(flash, fl2, c, at, cell)
              \/ CellSet(flash, fl2, c, at, Torn)
<1> DEFINE cells == <<cell>>
           m == Program(c, at, cells)
<1>0. at \in Nat /\ at + 1 <= FeeClusterLength /\ at .. at + 1 - 1 = {at} BY Numbers
<1>1. cells \in [1 .. 1 -> Cell] /\ cells[1] = cell OBVIOUS
<1>2. \A a \in Address : a \in at .. at + 1 - 1 => flash[c][a] = Blank BY <1>0
<1> HIDE DEF cells, m
<1>3. /\ RangeSet(flash, Completed(m), c, at, cells, 1)
      /\ \A fl2 \in Interrupted(m) : RangePart(flash, fl2, c, at, cells, 1)
  BY <1>0, <1>1, <1>2, ProgramMany DEF m
<1>4. CellSet(flash, Completed(m), c, at, cell) BY <1>0, <1>1, <1>3 DEF CellSet, RangeSet
<1>5. ASSUME NEW fl2 \in Interrupted(m)
      PROVE  fl2 = flash \/ CellSet(flash, fl2, c, at, cell) \/ CellSet(flash, fl2, c, at, Torn)
  <2>1. RangePart(flash, fl2, c, at, cells, 1) BY <1>3
  <2>2. at - at + 1 = 1 BY <1>0
  <2>3. /\ fl2 \in Disks /\ Others(flash, fl2, c)
        /\ \A a \in Address \ {at} : fl2[c][a] = flash[c][a]
        /\ fl2[c][at] \in {flash[c][at], cell, Torn}
    BY <1>0, <1>1, <2>1, <2>2 DEF RangePart
  <2>4. CASE fl2[c][at] = flash[c][at] BY <2>3, <2>4 DEF Disks, Contents, Others
  <2>5. CASE fl2[c][at] # flash[c][at] BY <2>3, <2>5 DEF CellSet
  <2>6. QED BY <2>4, <2>5
<1>6. QED BY <1>4, <1>5 DEF m, cells

\* A flag of a header that was erased.
LEMMA FlagOne ==
  ASSUME flash \in Disks, NEW c \in Cluster, NEW at \in Address, NEW flag, NEW cell \in Cell,
         flag \in DOMAIN flash[c][at], flash[c][at][flag] = "erased",
         cell = [flash[c][at] EXCEPT ![flag] = "set"]
  PROVE  /\ CellSet(flash, Completed(SetFlag(c, at, flag)), c, at, cell)
         /\ Interrupted(SetFlag(c, at, flag)) = {flash, Completed(SetFlag(c, at, flag))}
<1> DEFINE m == SetFlag(c, at, flag)
           fl2 == Completed(m)
<1>1. m.op = "flag" /\ m.cluster = c /\ m.at = at /\ m.flag = flag BY DEF SetFlag
<1> HIDE DEF m
<1>2. fl2 = [flash EXCEPT ![c][at] = cell] BY <1>1 DEF Completed, Flagged
<1> HIDE DEF fl2
<1>3. flash[c] \in Contents /\ flash[c] \in [Address -> Cell] /\ flash \in [Cluster -> Contents]
  BY DEF Disks, Contents
<1>4. fl2[c] = [flash[c] EXCEPT ![at] = cell] /\ \A d \in Cluster \ {c} : fl2[d] = flash[d]
  BY <1>2, <1>3
<1>5. fl2[c] \in [Address -> Cell] BY <1>3, <1>4
<1>6. fl2 \in Disks BY <1>2, <1>3, <1>5 DEF Disks, Contents
<1>7. CellSet(flash, fl2, c, at, cell) BY <1>3, <1>4, <1>6 DEF CellSet, Others
<1>8. Interrupted(m) = {flash, fl2} BY <1>1 DEF Interrupted, fl2
<1>9. QED BY <1>7, <1>8 DEF m, fl2

\* A cluster is erased, or left anyhow without a header it did not have.
LEMMA EraseOne ==
  ASSUME flash \in Disks, NEW c \in Cluster
  PROVE  /\ Completed(Erase(c)) \in Disks /\ Others(flash, Completed(Erase(c)), c)
         /\ \A a \in Address : Completed(Erase(c))[c][a] = Blank
         /\ \A fl2 \in Interrupted(Erase(c)) :
              \/ fl2 = flash
              \/ /\ fl2 \in Disks /\ Others(flash, fl2, c)
                 /\ fl2[c][0] \in {flash[c][0], Blank, Torn}
                 /\ \A a \in Address \ {0} : fl2[c][a] \in {Blank, Torn}
<1> DEFINE m == Erase(c)
<1>0. 0 \in Address BY Numbers
<1>1. m.op = "erase" /\ m.cluster = c BY DEF Erase
<1> HIDE DEF m
<1>2. flash \in [Cluster -> Contents] /\ flash[c] \in [Address -> Cell] BY DEF Disks, Contents
<1>3. Completed(m) = [flash EXCEPT ![c] = [a \in Address |-> Blank]] BY <1>1 DEF Completed
<1>4. /\ Completed(m) \in Disks /\ Others(flash, Completed(m), c)
      /\ \A a \in Address : Completed(m)[c][a] = Blank
  BY <1>2, <1>3, CellsAre DEF Contents, Disks, Others
<1>5. ASSUME NEW fl2 \in Interrupted(m)
      PROVE  \/ fl2 = flash
             \/ /\ fl2 \in Disks /\ Others(flash, fl2, c)
                /\ fl2[c][0] \in {flash[c][0], Blank, Torn}
                /\ \A a \in Address \ {0} : fl2[c][a] \in {Blank, Torn}
  <2>1. \/ fl2 = flash \/ fl2 = Completed(m)
        \/ \E head \in {flash[c][0], Torn}, rest \in {Blank, Torn} :
             fl2 = [flash EXCEPT ![c] = [a \in Address |-> IF a = 0 THEN head ELSE rest]]
    BY <1>1, <1>5 DEF Interrupted
  <2>2. ASSUME NEW head \in {flash[c][0], Torn}, NEW rest \in {Blank, Torn},
               fl2 = [flash EXCEPT ![c] = [a \in Address |-> IF a = 0 THEN head ELSE rest]]
        PROVE  /\ fl2 \in Disks /\ Others(flash, fl2, c)
               /\ fl2[c][0] \in {flash[c][0], Blank, Torn}
               /\ \A a \in Address \ {0} : fl2[c][a] \in {Blank, Torn}
    <3> DEFINE k == [a \in Address |-> IF a = 0 THEN head ELSE rest]
    <3>1. head \in Cell /\ rest \in Cell BY <1>0, <1>2, CellsAre
    <3>2. k \in [Address -> Cell] /\ k[0] = head /\ \A a \in Address \ {0} : k[a] = rest
      BY <1>0, <3>1
    <3> HIDE DEF k
    <3>3. fl2 = [flash EXCEPT ![c] = k] BY <2>2 DEF k
    <3>4. QED BY <1>2, <3>2, <3>3 DEF Disks, Others, Contents
  <2>3. QED BY <1>0, <1>4, <2>1, <2>2
<1>6. QED BY <1>4, <1>5 DEF m

LEMMA ReadOrNone ==
  ASSUME NEW m, m = NoAccess \/ \E c, at, n : m = Read(c, at, n)
  PROVE  Completed(m) = flash /\ Interrupted(m) = {flash}
BY DEF NoAccess, Read, Completed, Interrupted

-----------------------------------------------------------------------------
(* What Fee knows stays true of a flash that changes elsewhere. *)

\* The flash changes in another cluster than the one in use.
Elsewhere(fl, fl2, c) ==
  /\ fl2 \in Disks /\ Others(fl, fl2, c)
  /\ ValidCluster(fl2[c]) => fl2[c][0] = fl[c][0]
  /\ \A a \in Address : IsHeader(fl2[c], a) => fl2[c][a] = fl[c][a] \/ fl2[c][a].invalid = "erased"

AtDone(f, b) == Writing(f, b) /\ f.job = "FEE_JOB_WRITE_DONE"

\* The records of block x are the same to f before and to g afterwards.
Keeps(fl, fl2, f, g, x) ==
  LET k == fl[f.cluster]
      kk == fl2[f.cluster]
  IN  /\ g.cluster = f.cluster /\ g.info[x] = f.info[x]
      /\ \/ g.hdrAddr = f.hdrAddr
         \/ g.hdrAddr = f.hdrAddr + 1 /\ ~ IsRecord(kk, f.hdrAddr, x)
      /\ Writing(g, x) => x \in FeeImmediateData \/ Writing(f, x)
      /\ AtDone(f, x) => AtDone(g, x)
      /\ \A a \in 1 .. f.hdrAddr - 1 : IsRecord(k, a, x) \/ IsRecord(kk, a, x) => kk[a] = k[a]
      /\ \A a \in 1 .. f.hdrAddr - 1 :
           ~ AtDone(g, x) /\ IsRecord(k, a, x) /\ k[a].valid = "erased" /\ Empty(k, k[a].addr, x)
             => Empty(kk, k[a].addr, x)
      /\ \A c \in Cluster, a \in Address :
           IsRecord(fl2[c], a, x) => fl2[c][a] = fl[c][a] \/ fl2[c][a].invalid = "erased"

\* What is known of a block stays true when its records stay what they are.
LEMMA KnownKeeps ==
  ASSUME NEW fl, NEW fl2, NEW f, NEW g, NEW x \in Block, RamOK(f), Known(fl, f, x),
         Keeps(fl, fl2, f, g, x)
  PROVE  Known(fl2, g, x)
<1>0. f.info \in [Block -> Infos] /\ f.hdrAddr \in Nat /\ f.cluster \in Cluster BY Numbers DEF RamOK
<1> DEFINE k == fl[f.cluster]
           kk == fl2[f.cluster]
           h == f.hdrAddr
           i == f.info[x]
<1>1. \A a \in 1 .. h - 1 : IsRecord(k, a, x) \/ IsRecord(kk, a, x) => kk[a] = k[a] BY DEF Keeps
<1>2. \A a \in 1 .. g.hdrAddr - 1 : a \in 1 .. h - 1 \/ ~ IsRecord(kk, a, x) BY <1>0 DEF Keeps
<1>3. 1 .. h - 1 \subseteq 1 .. g.hdrAddr - 1 BY <1>0 DEF Keeps
<1> DEFINE same == /\ g.cluster = f.cluster /\ g.info[x] = i
                   /\ Writing(g, x) => x \in FeeImmediateData \/ Writing(f, x)
                   /\ AtDone(f, x) => AtDone(g, x)
<1>20. same BY DEF Keeps
<1>4. i.cluster \in Cluster /\ i.validHdr \in Address /\ i.validHdr \in Nat
  BY <1>0, Numbers DEF Infos
<1>5. /\ i.status = "FEE_BLOCK_VALID" => KnownValid(k, f, x)
      /\ i.status = "FEE_BLOCK_INVALID" => KnownInvalid(k, f, x)
      /\ i.status = "FEE_BLOCK_INCONSISTENT" /\ (x \in FeeImmediateData \/ Writing(f, x)) => KnownKept(k, f, x)
      /\ i.status = "FEE_BLOCK_INCONSISTENT" => NotInvalidated(fl, f, x)
      /\ i.status = "FEE_BLOCK_INCONSISTENT" /\ i.cluster # f.cluster => KnownInvalid(k, f, x)
  BY DEF Known
<1>6. \A a \in 1 .. h - 1 : IsRecord(k, a, x) <=> IsRecord(kk, a, x) BY <1>1 DEF IsRecord, IsHeader
<1>7. \A a \in 1 .. h - 1 : IsValid(k, a, x) <=> IsValid(kk, a, x) BY <1>1, <1>6 DEF IsValid
<1>8. \A a \in 1 .. g.hdrAddr - 1 : IsValid(kk, a, x) => a \in 1 .. h - 1 /\ IsValid(k, a, x)
  BY <1>2, <1>7 DEF IsValid
<1>9. \A a \in 1 .. g.hdrAddr - 1 : IsRecord(kk, a, x) => a \in 1 .. h - 1 /\ IsRecord(k, a, x)
  BY <1>2, <1>6
<1>10. ASSUME NEW a \in 1 .. h - 1, ~ AtDone(g, x), IsRecord(k, a, x), k[a].valid = "erased", Empty(k, k[a].addr, x)
       PROVE  Empty(kk, k[a].addr, x)
  BY <1>10 DEF Keeps
<1>11. NotInvalidated(fl, f, x) => NotInvalidated(fl2, g, x)
  BY <1>4, <1>20 DEF Keeps, NotInvalidated, IsRecord, IsHeader
<1> HIDE DEF k, kk, h
<1>12. KnownInvalid(k, f, x) => KnownInvalid(kk, g, x) BY <1>8, <1>20 DEF KnownInvalid, h
<1>13. KnownValid(k, f, x) => KnownValid(kk, g, x)
  BY <1>1, <1>3, <1>4, <1>7, <1>8, <1>20 DEF KnownValid, h, IsValid
<1>14. ASSUME i.status = "FEE_BLOCK_INCONSISTENT", x \in FeeImmediateData \/ Writing(g, x)
       PROVE  KnownKept(kk, g, x)
  <2>1. KnownKept(k, f, x) BY <1>5, <1>14, <1>20
  <2>2. /\ i.cluster = f.cluster /\ i.validHdr \in 1 .. h - 1
        /\ IsRecord(k, i.validHdr, x) /\ k[i.validHdr].addr = i.dataAddr
        /\ k[i.validHdr].valid = "erased"
        /\ \A a \in i.validHdr + 1 .. h - 1 : ~ IsRecord(k, a, x)
        /\ ~ AtDone(f, x) => Empty(k, i.dataAddr, x)
    BY <2>1 DEF KnownKept, h, AtDone
  <2>3. kk[i.validHdr] = k[i.validHdr] BY <1>1, <2>2
  <2>4. /\ IsRecord(kk, i.validHdr, x) /\ kk[i.validHdr].addr = i.dataAddr /\ kk[i.validHdr].valid = "erased"
        /\ i.validHdr \in 1 .. g.hdrAddr - 1
    BY <1>3, <1>6, <2>2, <2>3
  <2>5. \A a \in i.validHdr + 1 .. g.hdrAddr - 1 : ~ IsRecord(kk, a, x) BY <1>4, <1>9, <2>2
  <2>6. ~ AtDone(g, x) => Empty(kk, i.dataAddr, x) BY <1>10, <1>20, <2>2
  <2>7. QED BY <1>20, <2>2, <2>4, <2>5, <2>6 DEF KnownKept, AtDone
<1>15. QED BY <1>5, <1>11, <1>12, <1>13, <1>14, <1>20 DEF Known, k, kk

\* The headers and data in use are the same.
Core(f, g) ==
  /\ g.cluster = f.cluster /\ g.useId = f.useId /\ g.hdrAddr = f.hdrAddr /\ g.dataAddr = f.dataAddr
  /\ g.info = f.info

LEMMA RamKept ==
  ASSUME NEW fl, NEW f, NEW g, RamOK(f), Running(fl, f), Core(f, g),
         \A b \in Block : AtDone(f, b) => AtDone(g, b),
         \A b \in Block : Writing(g, b) => b \in FeeImmediateData \/ Writing(f, b)
  PROVE  Running(fl, g)
BY Numbers, KnownKeeps DEF RamOK, Running, Core, Keeps

LEMMA CurrentKept ==
  ASSUME NEW fl, NEW fl2, NEW c \in Cluster, NEW u, NEW d \in Cluster, Current(fl, c, u), Others(fl, fl2, d),
         IF d = c THEN fl2[c][0] = fl[c][0] ELSE ValidCluster(fl2[d]) => fl2[d][0] = fl[d][0]
  PROVE  Current(fl2, c, u)
BY DEF Current, Others, ValidCluster

LEMMA DiskOf ==
  ASSUME NEW fl, NEW f, Running(fl, f), f.hdrAddr \in Address
  PROVE  Disk(fl)
BY DEF Running, Disk, Current

LEMMA ElsewhereKept ==
  ASSUME NEW fl \in Disks, NEW fl2, NEW f, RamOK(f), Running(fl, f), NEW c \in Cluster \ {f.cluster},
         Elsewhere(fl, fl2, c)
  PROVE  Running(fl2, f)
<1>1. f.info \in [Block -> Infos] /\ f.hdrAddr \in Nat /\ f.cluster \in Cluster BY Numbers DEF RamOK
<1>2. fl2[f.cluster] = fl[f.cluster] BY <1>1 DEF Elsewhere, Others
<1>3. Current(fl2, f.cluster, f.useId) BY <1>1, CurrentKept DEF Elsewhere, Running
<1>4. ASSUME NEW x \in Block
      PROVE  Known(fl2, f, x)
  BY <1>2, KnownKeeps DEF Running, Elsewhere, Others, IsRecord, Keeps
<1>5. QED BY <1>2, <1>3, <1>4 DEF Running

-----------------------------------------------------------------------------
(* The steps of a record: its header, its data, its flags. *)

LEMMA Lengths ==
  FeeClusterLength \in Nat /\ FeeClusterLength > 2 /\ Address = 0 .. FeeClusterLength - 1
BY FlashConstants DEF Address

LEMMA RunningIs ==
  ASSUME NEW fl \in Disks, NEW f, RamOK(f), Running(fl, f)
  PROVE  /\ f.cluster \in Cluster /\ fl[f.cluster] \in Contents
         /\ f.info \in [Block -> Infos]
         /\ f.hdrAddr \in Nat /\ f.hdrAddr >= 1 /\ f.hdrAddr \in Address
         /\ f.dataAddr \in Nat /\ f.hdrAddr < f.dataAddr /\ f.dataAddr <= FeeClusterLength
         /\ Layout(fl[f.cluster], f.hdrAddr) /\ Low(fl[f.cluster], f.hdrAddr, f.dataAddr)
         /\ Current(fl, f.cluster, f.useId)
         /\ \A x \in Block : Known(fl, f, x)
         /\ Disk(fl)
BY GapIsBlank, DiskOf DEF RamOK, Disks, Running

\* A header has been written for block b.
LEMMA Appended ==
  ASSUME NEW fl \in Disks, NEW fl2, NEW f, NEW g, RamOK(f), Running(fl, f), NEW b \in Block,
         f.block = b, FeeBlockSize[b] + 2 <= f.dataAddr - f.hdrAddr,
         CellSet(fl, fl2, f.cluster, f.hdrAddr, BlockHdr(b, f.dataAddr - FeeBlockSize[b])),
         Core(TakeRecord(f), g),
         \A x \in Block : ~ AtDone(f, x) /\ ~ AtDone(g, x),
         \A x \in Block : x # b /\ Writing(g, x) => x \in FeeImmediateData \/ Writing(f, x)
  PROVE  Running(fl2, g) /\ RamOK(TakeRecord(f))
<1> DEFINE c == f.cluster
           h == f.hdrAddr
           d == f.dataAddr
           size == FeeBlockSize[b]
           k == fl[c]
           kk == fl2[c]
           rec == [status |-> "FEE_BLOCK_INCONSISTENT", cluster |-> c, dataAddr |-> d - size, validHdr |-> h]
<1>1. /\ c \in Cluster /\ k \in Contents /\ f.info \in [Block -> Infos]
      /\ h \in Nat /\ h >= 1 /\ h \in Address /\ d \in Nat /\ h < d /\ d <= FeeClusterLength
      /\ Layout(k, h) /\ Low(k, h, d) /\ Current(fl, c, f.useId) /\ \A x \in Block : Known(fl, f, x)
  BY RunningIs
<1>2. size \in Nat /\ size >= 1 /\ size + 2 <= d - h /\ FeeClusterLength \in Nat BY Numbers
<1>3. d - size \in Address /\ h + 1 \in Address /\ d - size \in 0 .. FeeClusterLength
  <2> HIDE DEF c, h, d, size, k, kk
  <2>1. QED BY <1>1, <1>2, Lengths
<1>4. /\ fl2 \in Disks /\ Others(fl, fl2, c) /\ kk[h] = BlockHdr(b, d - size)
      /\ \A a \in Address \ {h} : kk[a] = k[a]
  BY DEF CellSet
<1>5. kk \in Contents BY <1>1, <1>4 DEF Disks
<1>6. kk[h].kind = "block" /\ kk[h].block = b /\ kk[h].addr = d - size /\ kk[h].valid = "erased" /\ kk[h].invalid = "erased"
  BY <1>4 DEF BlockHdr
<1>7. /\ g.cluster = c /\ g.useId = f.useId /\ g.hdrAddr = h + 1 /\ g.dataAddr = d - size
      /\ g.info = [f.info EXCEPT ![b] = rec]
  BY DEF Core, TakeRecord, RamOK, RamFields
<1>8. rec \in Infos BY <1>1, <1>3 DEF Infos
<1>9. RamOK(TakeRecord(f)) BY <1>1, <1>3, <1>8 DEF RamOK, RamFields, TakeRecord
<1> HIDE DEF c, h, d, size, k, kk
<1>10. \A a \in 1 .. FeeClusterLength - 1 : a \in Address BY <1>2, Lengths
<1>11. Layout(kk, h + 1) /\ Low(kk, h + 1, d - size)
  BY <1>1, <1>2, <1>4, <1>5, <1>10, AppendHeader DEF size
<1>12. Current(fl2, c, f.useId) BY <1>1, <1>4, Lengths, CurrentKept DEF k, kk
<1>13. ASSUME NEW x \in Block, x # b
       PROVE  Known(fl2, g, x)
  <2>1. g.info[x] = f.info[x] BY <1>1, <1>7, <1>13
  <2>2. ~ IsRecord(kk, h, x) BY <1>6, <1>13 DEF IsRecord
  <2>3. \A a \in 1 .. h - 1 : kk[a] = k[a] BY <1>1, <1>4, Lengths
  <2>4. ASSUME NEW a \in 1 .. h - 1, IsRecord(k, a, x), Empty(k, k[a].addr, x)
        PROVE  Empty(kk, k[a].addr, x)
    <3>1. /\ k[a].addr \in Nat /\ FeeBlockSize[x] \in Nat /\ k[a].addr > h
          /\ k[a].addr + FeeBlockSize[x] <= FeeClusterLength
      BY <1>1, <2>4, HeaderIs DEF IsRecord
    <3>2. ASSUME NEW i \in 1 .. FeeBlockSize[x]
          PROVE  k[a].addr + i - 1 \in Address \ {h}
      BY <1>1, <1>2, <3>1, Lengths, SMTT(30)
    <3>3. QED BY <1>4, <2>4, <3>2 DEF Empty
  <2>5. ASSUME NEW e \in Cluster, NEW a \in Address, IsRecord(fl2[e], a, x)
        PROVE  fl2[e][a] = fl[e][a]
    BY <1>4, <2>2, <2>5 DEF Others, k, kk
  <2>6. Keeps(fl, fl2, f, g, x) BY <1>7, <1>13, <2>1, <2>2, <2>3, <2>4, <2>5 DEF Keeps, h, k, kk, c
  <2>7. QED BY <1>1, <2>6, KnownKeeps
<1>14. Known(fl2, g, b)
  <2>1. g.info[b] = rec BY <1>1, <1>7
  <2>2. Empty(kk, d - size, b) BY <1>1, <1>2, <1>4, GapIsBlank DEF Empty, size
  <2>3. KnownKept(kk, g, b)
    <3>1. rec.validHdr = h /\ rec.cluster = c /\ rec.dataAddr = d - size OBVIOUS
    <3> HIDE DEF rec
    <3>2. h \in 1 .. (h + 1) - 1 /\ h + 1 .. (h + 1) - 1 = {} BY <1>1
    <3>3. QED BY <1>6, <1>7, <2>1, <2>2, <3>1, <3>2 DEF KnownKept, IsRecord, IsHeader
  <2>4. NotInvalidated(fl2, g, b) BY <1>6, <2>1 DEF NotInvalidated, kk
  <2>5. g.info[b].status = "FEE_BLOCK_INCONSISTENT" /\ g.info[b].cluster = g.cluster BY <1>7, <2>1
  <2>6. QED BY <1>7, <2>3, <2>4, <2>5 DEF Known, kk
<1>15. Running(fl2, g) BY <1>7, <1>11, <1>12, <1>13, <1>14 DEF Running, kk
<1>16. QED BY <1>9, <1>15

\* The write of a header was cut off.
LEMMA AppendCut ==
  ASSUME NEW fl \in Disks, NEW fl2, NEW f, RamOK(f), Running(fl, f),
         f.hdrAddr + 1 < f.dataAddr,
         CellSet(fl, fl2, f.cluster, f.hdrAddr, Torn)
  PROVE  Disk(fl2)
<1> DEFINE c == f.cluster
           h == f.hdrAddr
           k == fl[c]
           kk == fl2[c]
<1>1. /\ c \in Cluster /\ k \in Contents
      /\ h \in Nat /\ h >= 1 /\ h \in Address /\ f.dataAddr \in Nat /\ f.dataAddr <= FeeClusterLength
      /\ Layout(k, h) /\ Low(k, h, f.dataAddr) /\ Current(fl, c, f.useId)
  BY RunningIs
<1>2. /\ fl2 \in Disks /\ Others(fl, fl2, c) /\ kk[h] = Torn
      /\ \A a \in Address \ {h} : kk[a] = k[a]
  BY DEF CellSet
<1>3. kk \in Contents /\ kk[0] = k[0] /\ h + 1 \in Address BY <1>1, <1>2, Lengths DEF Disks
<1> HIDE DEF c, h, k, kk
<1>4. \A a \in 1 .. FeeClusterLength - 1 : a \in Address BY Numbers
<1>5. Layout(kk, h + 1) BY <1>1, <1>2, <1>3, <1>4, AppendTorn DEF h
<1>6. Current(fl2, c, f.useId) BY <1>1, <1>2, <1>3, CurrentKept DEF k, kk
<1>7. QED BY <1>1, <1>3, <1>5, <1>6 DEF Disk, Current, kk

\* The data of two headers do not overlap.
LEMMA Disjoint ==
  ASSUME NEW k \in Contents, NEW h, Layout(k, h), NEW a \in 1 .. h - 1, NEW e \in 1 .. h - 1,
         IsHeader(k, a), IsHeader(k, e), a # e,
         NEW i \in 1 .. FeeBlockSize[k[e].block]
  PROVE  /\ k[e].addr + i - 1 \notin k[a].addr .. k[a].addr + FeeBlockSize[k[a].block] - 1
         /\ k[e].addr + i - 1 \in Address /\ k[e].addr + i - 1 > h
<1>1. /\ k[a].addr \in Nat /\ FeeBlockSize[k[a].block] \in Nat /\ a \in Nat /\ e \in Nat /\ h \in Nat
      /\ k[e].addr \in Nat /\ FeeBlockSize[k[e].block] \in Nat
      /\ k[e].addr > h /\ k[e].addr + FeeBlockSize[k[e].block] <= FeeClusterLength
  BY HeaderIs
<1>2. \/ k[e].addr + FeeBlockSize[k[e].block] <= k[a].addr
      \/ k[a].addr + FeeBlockSize[k[a].block] <= k[e].addr
  BY <1>1 DEF Layout
<1>3. i \in Nat /\ i >= 1 /\ i <= FeeBlockSize[k[e].block] BY <1>1
<1> DEFINE p == k[a].addr
           q == k[e].addr
           s == FeeBlockSize[k[a].block]
           t == FeeBlockSize[k[e].block]
<1>4. /\ p \in Nat /\ q \in Nat /\ s \in Nat /\ t \in Nat /\ h \in Nat /\ q > h /\ q + t <= FeeClusterLength
      /\ q + t <= p \/ p + s <= q
      /\ i \in Nat /\ i >= 1 /\ i <= t
  BY <1>1, <1>2, <1>3
<1> HIDE DEF p, q, s, t
<1>5. q + i - 1 \notin p .. p + s - 1 /\ q + i - 1 \in Address /\ q + i - 1 > h
  BY <1>4, Lengths, SMTT(30)
<1>6. QED BY <1>5 DEF p, q, s, t

\* The data of block b are written, or cut off.
LEMMA Filled ==
  ASSUME NEW fl \in Disks, NEW fl2, NEW f, RamOK(f), Running(fl, f), NEW b \in Block, NEW v \in Value,
         f.info[b].status = "FEE_BLOCK_INCONSISTENT", b \in FeeImmediateData \/ Writing(f, b),
         \A x \in Block : ~ AtDone(f, x),
         RangePart(fl, fl2, f.info[b].cluster, f.info[b].dataAddr, DataCells(v, FeeBlockSize[b]), FeeBlockSize[b])
  PROVE  /\ Disk(fl2)
         /\ \A g : Core(f, g) /\ AtDone(g, b) /\ (\A x \in Block \ {b} : ~ Writing(g, x)) => Running(fl2, g)
<1> DEFINE c == f.cluster
           h == f.hdrAddr
           k == fl[c]
           kk == fl2[c]
           a == f.info[b].validHdr
           addr == f.info[b].dataAddr
           size == FeeBlockSize[b]
<1>1. /\ c \in Cluster /\ k \in Contents /\ f.info \in [Block -> Infos]
      /\ h \in Nat /\ h >= 1 /\ h \in Address
      /\ Layout(k, h) /\ Low(k, h, f.dataAddr) /\ Current(fl, c, f.useId) /\ \A x \in Block : Known(fl, f, x)
  BY RunningIs
<1>2. KnownKept(k, f, b) BY <1>1 DEF Known
<1>3. /\ f.info[b].cluster = c /\ a \in 1 .. h - 1 /\ IsRecord(k, a, b) /\ k[a].addr = addr
      /\ k[a].valid = "erased"
  BY <1>2 DEF KnownKept
<1>4. /\ IsHeader(k, a) /\ k[a].block = b /\ a \in Nat /\ addr \in Nat /\ size \in Nat /\ size >= 1 /\ addr > h
      /\ addr + size <= FeeClusterLength
  BY <1>1, <1>3, HeaderIs DEF IsRecord
<1> HIDE DEF c, h, k, kk, a, addr, size
<1>5. /\ fl2 \in Disks /\ Others(fl, fl2, c)
      /\ \A x \in Address : x \in addr .. addr + size - 1 => kk[x] \in {k[x], DataCells(v, size)[x - addr + 1], Torn}
      /\ \A x \in Address : x \notin addr .. addr + size - 1 => kk[x] = k[x]
  BY <1>3 DEF RangePart, kk, k, c, addr, size
<1>6. kk \in Contents /\ kk[0] = k[0] BY <1>1, <1>4, <1>5, Lengths DEF Disks, kk
<1>7. \A x \in Address : x \in addr .. addr + size - 1 => kk[x].kind \in {"blank", "torn", "data"}
  <2>1. SUFFICES ASSUME NEW x \in Address, x \in addr .. addr + size - 1
                 PROVE  kk[x].kind \in {"blank", "torn", "data"}
    OBVIOUS
  <2>2. x \in h .. FeeClusterLength - 1 /\ x - addr + 1 \in 1 .. size BY <1>1, <1>4, <2>1, Lengths
  <2>3. k[x].kind \in {"blank", "torn", "data"} BY <1>1, <2>2 DEF Layout
  <2>4. DataCells(v, size)[x - addr + 1].kind = "data" BY <2>2 DEF DataCells
  <2>5. QED BY <1>5, <2>1, <2>3, <2>4, CellsAre
<1>8. Layout(kk, h) /\ SameHeads(k, kk, h)
  <2>1. \A x \in 1 .. FeeClusterLength - 1 : x \in Address BY Lengths
  <2>2. \A x \in 1 .. FeeClusterLength - 1 :
           \/ kk[x] = k[x]
           \/ /\ x \in k[a].addr .. k[a].addr + FeeBlockSize[k[a].block] - 1
              /\ kk[x].kind \in {"blank", "torn", "data"}
    BY <1>3, <1>4, <1>5, <1>7, <2>1 DEF size
  <2>3. QED BY <1>1, <1>3, <1>4, <1>6, <2>2, FillData
<1>9. Current(fl2, c, f.useId) BY <1>1, <1>5, <1>6, CurrentKept DEF k, kk
<1>10. Disk(fl2) BY <1>1, <1>8, <1>9 DEF Disk, Current, kk
<1>11. ASSUME NEW g, Core(f, g), AtDone(g, b), \A x \in Block \ {b} : ~ Writing(g, x)
       PROVE  Running(fl2, g)
  <2>1. ASSUME NEW x \in Block
        PROVE  Known(fl2, g, x)
    <3>1. \A e \in 1 .. h - 1 : kk[e] = k[e] BY <1>1, <1>4, <1>5, Lengths
    <3>2. ASSUME NEW e \in 1 .. h - 1, ~ AtDone(g, x), IsRecord(k, e, x), Empty(k, k[e].addr, x)
          PROVE  Empty(kk, k[e].addr, x)
      <4>1. e # a /\ IsHeader(k, e) /\ k[e].block = x BY <1>3, <1>4, <1>11, <3>2 DEF IsRecord
      <4>2. ASSUME NEW i \in 1 .. FeeBlockSize[x]
            PROVE  k[e].addr + i - 1 \in Address /\ k[e].addr + i - 1 \notin addr .. addr + size - 1
        BY <1>1, <1>3, <1>4, <4>1, Disjoint DEF size
      <4>3. QED BY <1>5, <3>2, <4>2 DEF Empty
    <3>3. ASSUME NEW e \in Cluster, NEW y \in Address, IsRecord(fl2[e], y, x)
          PROVE  fl2[e][y] = fl[e][y]
      BY <1>5, <1>7, <3>3 DEF Others, IsRecord, IsHeader, k, kk
    <3>4. Writing(g, x) => x \in FeeImmediateData \/ Writing(f, x) BY <1>11
    <3>5. Keeps(fl, fl2, f, g, x) BY <1>11, <3>1, <3>2, <3>3, <3>4 DEF Keeps, Core, h, k, kk, c
    <3>6. QED BY <1>1, <3>5, KnownKeeps
  <2>2. Low(kk, h, f.dataAddr) BY <1>1, <1>8, SameLow
  <2>3. QED BY <1>8, <1>9, <1>11, <2>1, <2>2 DEF Running, Core, h, kk, c
<1>12. QED BY <1>10, <1>11

\* All data of block b are written.
LEMMA FilledHolds ==
  ASSUME NEW fl, NEW fl2, NEW c, NEW addr \in Nat, NEW b \in Block, NEW v, addr + FeeBlockSize[b] <= FeeClusterLength,
         RangeSet(fl, fl2, c, addr, DataCells(v, FeeBlockSize[b]), FeeBlockSize[b])
  PROVE  Holds(fl2[c], addr, b, v)
<1> DEFINE size == FeeBlockSize[b]
<1>1. size \in Nat BY Numbers
<1>2. ASSUME NEW i \in 1 .. size
      PROVE  fl2[c][addr + i - 1] = [kind |-> "data", value |-> v, part |-> i]
  <2> HIDE DEF size
  <2>1. addr + i - 1 \in Address /\ addr + i - 1 \in addr .. addr + size - 1 /\ (addr + i - 1) - addr + 1 = i
    BY <1>1, Lengths DEF size
  <2>2. fl2[c][addr + i - 1] = DataCells(v, size)[i] BY <2>1 DEF RangeSet, size
  <2>3. QED BY <2>2 DEF DataCells
<1>3. QED BY <1>2 DEF Holds

\* Fee notes a new status of block b.
Noted(f, b, s) == [f EXCEPT !.info[b].status = s]

\* The header that f knows of block b gets a flag.
GetsValid(fl, fl2, f, b) ==
  CellSet(fl, fl2, f.info[b].cluster, f.info[b].validHdr,
          [fl[f.info[b].cluster][f.info[b].validHdr] EXCEPT !.valid = "set"])
GetsInvalid(fl, fl2, f, b) ==
  CellSet(fl, fl2, f.info[b].cluster, f.info[b].validHdr,
          [fl[f.info[b].cluster][f.info[b].validHdr] EXCEPT !.invalid = "set"])

\* The record of block b gets its valid flag.
LEMMA Validated ==
  ASSUME NEW fl \in Disks, NEW fl2, NEW f, NEW g, RamOK(f), Running(fl, f), NEW b \in Block,
         f.info[b].status = "FEE_BLOCK_INCONSISTENT", AtDone(f, b),
         f.data \in Value, Holds(fl[f.info[b].cluster], f.info[b].dataAddr, b, f.data),
         GetsValid(fl, fl2, f, b),
         Core(Noted(f, b, "FEE_BLOCK_VALID"), g),
         \A x \in Block : ~ Writing(g, x)
  PROVE  Running(fl2, g)
<1> DEFINE c == f.cluster
           h == f.hdrAddr
           k == fl[c]
           kk == fl2[c]
           a == f.info[b].validHdr
           addr == f.info[b].dataAddr
<1>1. /\ c \in Cluster /\ k \in Contents /\ f.info \in [Block -> Infos]
      /\ h \in Nat /\ h >= 1 /\ h \in Address
      /\ Layout(k, h) /\ Low(k, h, f.dataAddr) /\ Current(fl, c, f.useId) /\ \A x \in Block : Known(fl, f, x)
  BY RunningIs
<1>2. KnownKept(k, f, b) /\ NotInvalidated(fl, f, b) /\ Writing(f, b) BY <1>1 DEF Known, AtDone
<1>3. /\ f.info[b].cluster = c /\ a \in 1 .. h - 1 /\ IsRecord(k, a, b) /\ k[a].addr = addr
      /\ k[a].valid = "erased" /\ \A e \in a + 1 .. h - 1 : ~ IsRecord(k, e, b)
  BY <1>2 DEF KnownKept
<1>4. k[a].invalid = "erased" BY <1>2, <1>3 DEF NotInvalidated
<1>5. /\ g.cluster = c /\ g.useId = f.useId /\ g.hdrAddr = h /\ g.dataAddr = f.dataAddr
      /\ g.info[b].status = "FEE_BLOCK_VALID" /\ g.info[b].cluster = c /\ g.info[b].validHdr = a /\ g.info[b].dataAddr = addr
      /\ \A x \in Block \ {b} : g.info[x] = f.info[x]
  BY <1>1, <1>3 DEF Noted, Core, RamOK, RamFields, Infos
<1> HIDE DEF c, h, k, kk, a, addr
<1>6. /\ fl2 \in Disks /\ Others(fl, fl2, c) /\ kk[a] = [k[a] EXCEPT !.valid = "set"]
      /\ \A x \in Address \ {a} : kk[x] = k[x]
  BY <1>3 DEF GetsValid, CellSet, k, kk, a, c
<1>7. /\ a \in Nat /\ a >= 1 /\ a < h /\ a \in Address
      /\ k[a].kind = "block" /\ k[a].block = b
      /\ k[a] = [kind |-> "block", block |-> b, addr |-> addr, valid |-> "erased", invalid |-> "erased"]
  BY <1>1, <1>3, <1>4, Lengths, CellIs DEF Contents, IsRecord, IsHeader
<1>8. kk[a] = [kind |-> "block", block |-> b, addr |-> addr, valid |-> "set", invalid |-> "erased"]
  BY <1>6, <1>7
<1>9. kk \in Contents /\ kk[0] = k[0] BY <1>1, <1>6, <1>7, Lengths DEF Disks, kk
<1>10. SameHeads(k, kk, h) BY <1>1, <1>6, <1>7, <1>8, Lengths DEF SameHeads
<1>11. Layout(kk, h)
  <2>1. \A x \in h .. FeeClusterLength - 1 : kk[x] = k[x] BY <1>1, <1>6, <1>7, Lengths
  <2>2. ASSUME NEW e \in 1 .. h - 1, IsHeader(k, e), kk[e].valid = "set"
        PROVE  Whole(k, k[e].addr, k[e].block)
    <3>1. CASE e = a BY <1>3, <1>7, <3>1 DEF Whole, k, addr, c
    <3>2. CASE e # a BY <1>1, <1>6, <2>2, <3>2, Lengths DEF Layout
    <3>3. QED BY <3>1, <3>2
  <2>3. QED BY <1>1, <1>9, <1>10, <2>1, <2>2, FlagHeaders
<1>12. Current(fl2, c, f.useId) BY <1>1, <1>6, <1>9, CurrentKept DEF k, kk
<1>13. ASSUME NEW x \in Block, x # b
       PROVE  Known(fl2, g, x)
  <2>1. ASSUME NEW e \in 1 .. h - 1, IsRecord(k, e, x) \/ IsRecord(kk, e, x)
        PROVE  kk[e] = k[e]
    BY <1>1, <1>6, <1>7, <1>8, <1>13, <2>1, Lengths DEF IsRecord
  <2>2. ASSUME NEW e \in 1 .. h - 1, IsRecord(k, e, x), Empty(k, k[e].addr, x)
        PROVE  Empty(kk, k[e].addr, x)
    <3>1. /\ k[e].addr \in Nat /\ FeeBlockSize[x] \in Nat /\ k[e].addr > h
          /\ k[e].addr + FeeBlockSize[x] <= FeeClusterLength
      BY <1>1, <2>2, HeaderIs DEF IsRecord
    <3>2. ASSUME NEW i \in 1 .. FeeBlockSize[x]
          PROVE  k[e].addr + i - 1 \in Address \ {a}
      BY <1>1, <1>7, <3>1, Lengths
    <3>3. QED BY <1>6, <2>2, <3>2 DEF Empty
  <2>3. ASSUME NEW e \in Cluster, NEW y \in Address, IsRecord(fl2[e], y, x)
        PROVE  fl2[e][y] = fl[e][y]
    BY <1>6, <1>8, <1>13, <2>3 DEF Others, IsRecord, k, kk
  <2>4. ~ AtDone(f, x) BY <1>2, <1>13 DEF AtDone, Writing
  <2>5. Keeps(fl, fl2, f, g, x) BY <1>5, <1>13, <2>1, <2>2, <2>3, <2>4 DEF Keeps, h, k, kk, c
  <2>6. QED BY <1>1, <2>5, KnownKeeps
<1>14. Known(fl2, g, b)
  <2>1. ASSUME NEW e \in a + 1 .. h - 1
        PROVE  ~ IsValid(kk, e, b)
    BY <1>1, <1>3, <1>6, <1>7, Lengths DEF IsValid, IsRecord, IsHeader
  <2>2. IsValid(kk, a, b) /\ kk[a].addr = addr BY <1>8 DEF IsValid, IsRecord, IsHeader
  <2>3. KnownValid(kk, g, b) BY <1>3, <1>5, <2>1, <2>2 DEF KnownValid
  <2>4. QED BY <1>5, <2>3 DEF Known, kk
<1>15. Low(kk, h, f.dataAddr) BY <1>1, <1>10, SameLow
<1>16. QED BY <1>5, <1>11, <1>12, <1>13, <1>14, <1>15 DEF Running, kk

\* A header that Fee may flag as invalid.
LEMMA OwnIs ==
  ASSUME NEW fl \in Disks, NEW f, RamOK(f), Running(fl, f), NEW b \in Block,
         f.info[b].status # "FEE_BLOCK_INVALID", Own(fl, f, b)
  PROVE  LET i == f.info[b]
             hdr == fl[i.cluster][i.validHdr]
         IN  /\ i.cluster \in Cluster /\ i.validHdr \in Address
             /\ hdr = [kind |-> "block", block |-> b, addr |-> hdr.addr, valid |-> hdr.valid, invalid |-> "erased"]
             /\ hdr.addr \in Address /\ hdr.valid \in Flag
<1> DEFINE i == f.info[b]
           hdr == fl[i.cluster][i.validHdr]
<1>1. i \in Infos /\ i.status \in {"FEE_BLOCK_VALID", "FEE_BLOCK_INVALID", "FEE_BLOCK_INCONSISTENT"}
      /\ i.cluster \in Cluster /\ i.validHdr \in Address
  BY DEF RamOK, Infos
<1>2. hdr \in Cell BY <1>1 DEF Disks, Contents
<1>3. hdr.kind = "block" /\ hdr.block = b BY DEF Own, IsRecord, IsHeader
<1>4. Known(fl, f, b) BY DEF Running
<1>5. hdr.invalid = "erased"
  BY <1>1, <1>3, <1>4 DEF Known, KnownValid, IsValid, NotInvalidated, IsRecord, IsHeader
<1>6. QED BY <1>1, <1>2, <1>3, <1>5, CellIs

\* The record of block b gets its invalid flag.
LEMMA Invalidated ==
  ASSUME NEW fl \in Disks, NEW fl2, NEW f, NEW g, RamOK(f), Running(fl, f), NEW b \in Block,
         f.info[b].status # "FEE_BLOCK_INVALID", Own(fl, f, b),
         GetsInvalid(fl, fl2, f, b),
         Core(Noted(f, b, "FEE_BLOCK_INVALID"), g),
         \A x \in Block : ~ AtDone(f, x),
         \A x \in Block : ~ Writing(g, x)
  PROVE  Running(fl2, g)
<1> DEFINE c == f.cluster
           h == f.hdrAddr
           k == fl[c]
           kk == fl2[c]
           i == f.info[b]
           a == i.validHdr
           hdr == fl[i.cluster][a]
           new == fl2[i.cluster][a]
<1>1. /\ c \in Cluster /\ k \in Contents /\ f.info \in [Block -> Infos]
      /\ h \in Nat /\ h >= 1 /\ h \in Address
      /\ Layout(k, h) /\ Low(k, h, f.dataAddr) /\ Current(fl, c, f.useId) /\ \A x \in Block : Known(fl, f, x)
  BY RunningIs
<1>2. /\ i.cluster \in Cluster /\ a \in Address
      /\ hdr = [kind |-> "block", block |-> b, addr |-> hdr.addr, valid |-> hdr.valid, invalid |-> "erased"]
      /\ hdr.addr \in Address /\ hdr.valid \in Flag
  BY OwnIs, Zenon
<1>3. i \in Infos /\ i.status \in {"FEE_BLOCK_VALID", "FEE_BLOCK_INCONSISTENT"} BY <1>1 DEF Infos
<1>4. /\ g.cluster = c /\ g.useId = f.useId /\ g.hdrAddr = h /\ g.dataAddr = f.dataAddr
      /\ g.info[b].status = "FEE_BLOCK_INVALID"
      /\ \A x \in Block \ {b} : g.info[x] = f.info[x]
  BY <1>1, <1>3 DEF Noted, Core, RamOK, RamFields, Infos
<1>5. \A e \in 1 .. h - 1 : IsValid(k, e, b) => e = a BY <1>1, Lengths DEF Own
<1> HIDE DEF c, h, k, kk, a
<1>6. /\ fl2 \in Disks /\ Others(fl, fl2, i.cluster) /\ new = [hdr EXCEPT !.invalid = "set"]
      /\ \A x \in Address \ {a} : fl2[i.cluster][x] = fl[i.cluster][x]
  BY DEF GetsInvalid, CellSet, a
<1> HIDE DEF hdr, new, i
<1>7. new = [kind |-> "block", block |-> b, addr |-> hdr.addr, valid |-> hdr.valid, invalid |-> "set"]
  BY <1>2, <1>6
<1>8. \A e \in Cluster, x \in Address : e # i.cluster \/ x # a => fl2[e][x] = fl[e][x]
  BY <1>6 DEF Others
<1>9. kk \in Contents /\ k[0].kind = "cluster" /\ 0 \in Address
  BY <1>1, <1>6, Lengths DEF Disks, kk, Current, ValidCluster, UnpackClusterHdr, k
<1>10. \A e \in 1 .. h - 1 : e \in Address BY <1>1, Lengths
<1>11. i.cluster = c => /\ a \in 1 .. h - 1 /\ k[a] = hdr /\ kk[a] = new
                        /\ \A x \in Address \ {a} : kk[x] = k[x]
  <2>1. SUFFICES ASSUME i.cluster = c
                 PROVE  a \in 1 .. h - 1 /\ k[a] = hdr /\ kk[a] = new /\ \A x \in Address \ {a} : kk[x] = k[x]
    OBVIOUS
  <2>2. k[a] = hdr /\ kk[a] = new BY <2>1 DEF k, kk, hdr, new
  <2>3. a # 0 BY <1>2, <1>9, <2>2
  <2>4. a \notin h .. FeeClusterLength - 1 BY <1>1, <1>2, <2>2 DEF Layout
  <2>5. a \in 1 .. h - 1 BY <1>1, <1>2, <2>3, <2>4, Lengths
  <2>6. QED BY <1>1, <1>8, <2>1, <2>2, <2>5 DEF k, kk
<1>12. i.cluster # c => kk = k BY <1>1, <1>6 DEF Others, k, kk
<1>13. kk[0] = k[0] /\ SameHeads(k, kk, h) BY <1>2, <1>7, <1>9, <1>10, <1>11, <1>12 DEF SameHeads
<1>14. Layout(kk, h)
  <2>1. CASE i.cluster = c
    <3>1. \A x \in h .. FeeClusterLength - 1 : kk[x] = k[x] BY <1>1, <1>11, <2>1, Lengths
    <3>2. ASSUME NEW e \in 1 .. h - 1, IsHeader(k, e), kk[e].valid = "set"
          PROVE  Whole(k, k[e].addr, k[e].block)
      BY <1>1, <1>2, <1>7, <1>10, <1>11, <2>1, <3>2 DEF Layout
    <3>3. QED BY <1>1, <1>9, <1>13, <3>1, <3>2, FlagHeaders
  <2>2. CASE i.cluster # c BY <1>1, <1>12, <2>2
  <2>3. QED BY <2>1, <2>2
<1>15. Current(fl2, c, f.useId)
  <2>1. CASE i.cluster = c BY <1>1, <1>6, <1>13, <2>1, CurrentKept DEF k, kk
  <2>2. CASE i.cluster # c
    <3>1. ValidCluster(fl2[i.cluster]) => fl2[i.cluster][0] = fl[i.cluster][0]
      BY <1>2, <1>7, <1>8, <1>9 DEF ValidCluster, UnpackClusterHdr, new
    <3>2. QED BY <1>1, <1>2, <1>6, <2>2, <3>1, CurrentKept
  <2>3. QED BY <2>1, <2>2
<1>16. ASSUME NEW x \in Block, x # b
       PROVE  Known(fl2, g, x)
  <2>1. ASSUME NEW e \in 1 .. h - 1, IsRecord(k, e, x) \/ IsRecord(kk, e, x)
        PROVE  kk[e] = k[e]
    BY <1>2, <1>7, <1>10, <1>11, <1>12, <1>16, <2>1 DEF IsRecord
  <2>2. ASSUME NEW e \in 1 .. h - 1, IsRecord(k, e, x), Empty(k, k[e].addr, x)
        PROVE  Empty(kk, k[e].addr, x)
    <3>1. /\ k[e].addr \in Nat /\ FeeBlockSize[x] \in Nat /\ k[e].addr > h
          /\ k[e].addr + FeeBlockSize[x] <= FeeClusterLength
      BY <1>1, <2>2, HeaderIs DEF IsRecord
    <3>2. ASSUME NEW j \in 1 .. FeeBlockSize[x]
          PROVE  k[e].addr + j - 1 \in Address /\ k[e].addr + j - 1 \notin 1 .. h - 1
      BY <1>1, <3>1, Lengths
    <3>3. ASSUME NEW j \in 1 .. FeeBlockSize[x]
          PROVE  kk[k[e].addr + j - 1] = k[k[e].addr + j - 1]
      BY <1>11, <1>12, <3>2
    <3>4. QED BY <2>2, <3>3 DEF Empty
  <2>3. ASSUME NEW e \in Cluster, NEW y \in Address, IsRecord(fl2[e], y, x)
        PROVE  fl2[e][y] = fl[e][y]
    BY <1>7, <1>8, <1>16, <2>3 DEF IsRecord, new
  <2>5. Keeps(fl, fl2, f, g, x) BY <1>4, <1>16, <2>1, <2>2, <2>3 DEF Keeps, h, k, kk, c
  <2>6. QED BY <1>1, <2>5, KnownKeeps
<1>17. Known(fl2, g, b)
  <2>1. ASSUME NEW e \in 1 .. h - 1
        PROVE  ~ IsValid(kk, e, b)
    <3>1. CASE i.cluster = c /\ e = a BY <1>7, <1>11, <3>1 DEF IsValid
    <3>2. CASE i.cluster = c /\ e # a BY <1>5, <1>10, <1>11, <3>2 DEF IsValid, IsRecord, IsHeader
    <3>3. CASE i.cluster # c
      <4>1. i.status # "FEE_BLOCK_VALID" BY <1>1, <3>3 DEF Known, KnownValid, i, c
      <4>2. KnownInvalid(k, f, b) BY <1>1, <1>3, <3>3, <4>1 DEF Known, i, c, k
      <4>3. QED BY <1>12, <3>3, <4>2 DEF KnownInvalid, h
    <3>4. QED BY <3>1, <3>2, <3>3
  <2>2. KnownInvalid(kk, g, b) BY <1>4, <2>1 DEF KnownInvalid
  <2>3. QED BY <1>4, <2>2 DEF Known, kk
<1>18. Low(kk, h, f.dataAddr) BY <1>1, <1>13, SameLow
<1>19. QED BY <1>4, <1>14, <1>15, <1>16, <1>17, <1>18 DEF Running, kk

-----------------------------------------------------------------------------
(* The RAM of Fee. *)

LEMMA StartIs ==
  ASSUME NEW f, NEW m, NEW job \in JobType, RamOK(f)
  PROVE  LET g == Start(f, m, job)
         IN  /\ RamOK(g) /\ Core(f, g)
             /\ g.status = f.status /\ g.job = job /\ g.result = "MEMIF_JOB_PENDING" /\ g.block = f.block
             /\ g.data = f.data /\ g.idx = f.idx /\ g.swap = f.swap /\ g.mem = m
BY DEF RamOK, RamFields, Start, Results, Core

LEMMA EndIs ==
  ASSUME NEW f, NEW result \in Results, RamOK(f)
  PROVE  LET g == End(f, result)
         IN  /\ RamOK(g) /\ Core(f, g)
             /\ g.status = f.status /\ g.job = "FEE_JOB_NONE" /\ g.result = result /\ g.block = f.block
             /\ g.data = f.data /\ g.idx = f.idx /\ g.swap = f.swap /\ g.mem = f.mem
BY DEF RamOK, RamFields, End, JobType, Core

Cleared(f) == [f EXCEPT !.mem = NoAccess]

LEMMA ClearedIs ==
  ASSUME NEW f, RamOK(f)
  PROVE  LET g == Cleared(f)
         IN  /\ RamOK(g) /\ Core(f, g)
             /\ g.status = f.status /\ g.job = f.job /\ g.result = f.result /\ g.block = f.block
             /\ g.data = f.data /\ g.idx = f.idx /\ g.swap = f.swap /\ g.mem = NoAccess
BY DEF RamOK, RamFields, Cleared, Core

Idled(f) == [f EXCEPT !.status = "MEMIF_IDLE"]

LEMMA IdledIs ==
  ASSUME NEW f, RamOK(f)
  PROVE  LET g == Idled(f)
         IN  /\ RamOK(g) /\ Core(f, g)
             /\ g.status = "MEMIF_IDLE" /\ g.job = f.job /\ g.result = f.result /\ g.block = f.block
             /\ g.data = f.data /\ g.idx = f.idx /\ g.swap = f.swap /\ g.mem = f.mem
BY DEF RamOK, RamFields, Idled, Statuses, Core

Settled(f) == [f EXCEPT !.block = 0, !.data = Nothing, !.swap = NoSwap]

LEMMA SettledIs ==
  ASSUME NEW f, RamOK(f)
  PROVE  LET g == Settled(f)
         IN  /\ RamOK(g) /\ Core(f, g)
             /\ g.status = f.status /\ g.job = f.job /\ g.result = f.result /\ g.block = 0
             /\ g.data = Nothing /\ g.idx = f.idx /\ g.swap = NoSwap /\ g.mem = f.mem
<1>1. NoSwap \in Swaps BY Numbers DEF NoSwap, Swaps, JobType
<1>2. 0 \in Block BY Numbers
<1>3. QED BY <1>1, <1>2 DEF RamOK, RamFields, Settled, Core

LEMMA NotiIs ==
  ASSUME NEW f
  PROVE  /\ f.result = "MEMIF_JOB_PENDING" => JobNotiHandle(f) = f
         /\ f.result # "MEMIF_JOB_PENDING" /\ f.status = "MEMIF_BUSY" => JobNotiHandle(f) = Idled(f)
         /\ f.result = "MEMIF_JOB_OK" => JobNotiHandle(f) = Idled(f)
BY DEF JobNotiHandle, Idled

-----------------------------------------------------------------------------
(* What a step leaves behind before NvM hears of it. *)
Busy(fl, f, req) ==
  /\ fl \in Disks /\ RamOK(f) /\ RequestOK(req)
  /\ f.status = "MEMIF_BUSY" /\ req # NoRequest /\ f.result = "MEMIF_JOB_PENDING"
  /\ f.block = req.block /\ f.data = req.value
  /\ Running(fl, f)

Ready(fl, g, req) ==
  /\ fl \in Disks /\ RamOK(g) /\ RequestOK(req)
  /\ \/ /\ g.status = "MEMIF_UNINIT" /\ g.mem = NoAccess /\ req = NoRequest
        /\ Disk(fl) /\ \A b \in Block : g.info[b].status # "FEE_BLOCK_INCONSISTENT"
     \/ /\ g.status = "MEMIF_IDLE" /\ g.mem = NoAccess
        /\ g.result # "MEMIF_JOB_PENDING" /\ Running(fl, g)
     \/ /\ g.status = "MEMIF_BUSY_INTERNAL" /\ req = NoRequest /\ g.result = "MEMIF_JOB_PENDING"
        /\ Scanning(fl, g)
     \/ Busy(fl, g, req) /\ Serving(fl, g, req)

NextRam(g, req) == IF req # NoRequest /\ g.status # "MEMIF_BUSY" THEN Settled(g) ELSE g
NextRequest(g, req) == IF req # NoRequest /\ g.status # "MEMIF_BUSY" THEN NoRequest ELSE req

LEMMA IdleRuns ==
  ASSUME NEW fl, NEW f, NEW g, RamOK(f), Running(fl, f), Core(f, g), g.status # "MEMIF_BUSY",
         \A b \in Block : ~ AtDone(f, b)
  PROVE  Running(fl, g)
BY RamKept DEF Writing

LEMMA ReadyBecomes ==
  ASSUME NEW fl, NEW g, NEW req, Ready(fl, g, req)
  PROVE  FeeInv(fl, NextRam(g, req), NextRequest(g, req))
<1>1. RamOK(g) /\ RequestOK(req) /\ fl \in [Cluster -> Contents] BY DEF Ready, Disks
<1>2. RequestOK(NoRequest) BY DEF RequestOK
<1>3. CASE req # NoRequest /\ g.status # "MEMIF_BUSY"
  <2>1. NextRam(g, req) = Settled(g) /\ NextRequest(g, req) = NoRequest
    BY <1>3 DEF NextRam, NextRequest
  <2>2. g.status = "MEMIF_IDLE" /\ g.mem = NoAccess /\ g.result # "MEMIF_JOB_PENDING" /\ Running(fl, g)
    BY <1>3 DEF Ready, Busy
  <2> DEFINE s == Settled(g)
  <2>3. RamOK(s) /\ Core(g, s) /\ s.status = g.status /\ s.result = g.result /\ s.mem = g.mem
    BY <1>1, SettledIs
  <2>4. Running(fl, s) BY <1>1, <2>2, <2>3, IdleRuns DEF AtDone, Writing
  <2>5. QED BY <1>1, <1>2, <2>1, <2>2, <2>3, <2>4 DEF FeeInv
<1>4. CASE ~ (req # NoRequest /\ g.status # "MEMIF_BUSY")
  BY <1>1, <1>4 DEF NextRam, NextRequest, Ready, Busy, FeeInv
<1>5. QED BY <1>3, <1>4

\* A job of a request has come to its end.
LEMMA Finished ==
  ASSUME NEW fl \in Disks, NEW h, NEW req, RamOK(h), RequestOK(req), Running(fl, h),
         \A b \in Block : ~ AtDone(h, b),
         h.status = "MEMIF_BUSY", h.result # "MEMIF_JOB_PENDING", h.mem = NoAccess
  PROVE  Ready(fl, JobNotiHandle(h), req) /\ JobNotiHandle(h) = Idled(h)
<1> DEFINE g == Idled(h)
<1>1. JobNotiHandle(h) = g BY NotiIs
<1>2. RamOK(g) /\ Core(h, g) /\ g.status = "MEMIF_IDLE" /\ g.result = h.result /\ g.mem = h.mem
  BY IdledIs
<1>3. Running(fl, g) BY <1>2, IdleRuns
<1>4. QED BY <1>1, <1>2, <1>3 DEF Ready

LEMMA ClearedBusy ==
  ASSUME NEW fl, NEW f, NEW req, Busy(fl, f, req)
  PROVE  Busy(fl, Cleared(f), req)
<1> DEFINE g == Cleared(f)
<1>1. RamOK(f) /\ Running(fl, f) BY DEF Busy
<1>2. /\ RamOK(g) /\ Core(f, g)
      /\ g.status = f.status /\ g.job = f.job /\ g.result = f.result /\ g.block = f.block /\ g.data = f.data
  BY <1>1, ClearedIs
<1>3. Running(fl, g) BY <1>1, <1>2, RamKept DEF AtDone, Writing
<1>4. QED BY <1>2, <1>3 DEF Busy

NoneAtDone(f) == \A b \in Block : ~ AtDone(f, b)

LEMMA NotAtDone ==
  ASSUME NEW f, f.job # "FEE_JOB_WRITE_DONE" \/ f.status # "MEMIF_BUSY"
  PROVE  NoneAtDone(f)
BY DEF NoneAtDone, AtDone, Writing

LEMMA CarriedSame ==
  ASSUME NEW f, NEW g, g.info = f.info
  PROVE  /\ Carried(g) = Carried(f)
         /\ \A n : Place(g, n) = Place(f, n) /\ Room(g, n) = Room(f, n)
         /\ \A b : Takes(g, b) <=> Takes(f, b)
BY DEF Carried, Place, Room, Takes

LEMMA PlaceIs ==
  ASSUME NEW f
  PROVE  /\ Place(f, 0) = 1 /\ Room(f, 0) = FeeClusterLength
         /\ \A n \in 0 .. FeeBlockSum :
              /\ Place(f, n) \in Nat /\ Room(f, n) \in Nat /\ Place(f, n) >= 1 /\ Room(f, n) <= FeeClusterLength
              /\ Place(f, n) + 3 <= Room(f, n)
              /\ Place(f, n) \in Address
         /\ \A b \in Block :
              IF b \in Carried(f)
              THEN Place(f, b + 1) = Place(f, b) + 1 /\ Room(f, b + 1) = Room(f, b) - FeeBlockSize[b]
              ELSE Place(f, b + 1) = Place(f, b) /\ Room(f, b + 1) = Room(f, b)
<1> DEFINE s == Carried(f)
<1>1. \A n \in 0 .. FeeBlockSum : /\ HeadersBelow(s)[n] \in Nat /\ DataBelow(s)[n] \in Nat
                                  /\ HeadersBelow(s)[n] + DataBelow(s)[n] + 4 <= FeeClusterLength
  BY RoomForAll
<1>2. HeadersBelow(s)[0] = 0 /\ DataBelow(s)[0] = 0 BY BelowIs
<1>3. ASSUME NEW b \in Block
      PROVE  /\ HeadersBelow(s)[b + 1] = HeadersBelow(s)[b] + (IF b \in s THEN 1 ELSE 0)
             /\ DataBelow(s)[b + 1] = DataBelow(s)[b] + (IF b \in s THEN FeeBlockSize[b] ELSE 0)
             /\ b \in 0 .. FeeBlockSum /\ b + 1 \in 0 .. FeeBlockSum /\ FeeBlockSize[b] \in Nat
  BY BelowIs, Numbers
<1> HIDE DEF s
<1>4. Place(f, 0) = 1 /\ Room(f, 0) = FeeClusterLength BY <1>2, Lengths DEF Place, Room, s
<1>5. ASSUME NEW n \in 0 .. FeeBlockSum
      PROVE  /\ Place(f, n) \in Nat /\ Room(f, n) \in Nat /\ Place(f, n) >= 1 /\ Room(f, n) <= FeeClusterLength
             /\ Place(f, n) + 3 <= Room(f, n)
             /\ Place(f, n) \in Address
  BY <1>1, Lengths, SMTT(30) DEF Place, Room, s
<1>6. ASSUME NEW b \in Block
      PROVE  IF b \in Carried(f)
             THEN Place(f, b + 1) = Place(f, b) + 1 /\ Room(f, b + 1) = Room(f, b) - FeeBlockSize[b]
             ELSE Place(f, b + 1) = Place(f, b) /\ Room(f, b + 1) = Room(f, b)
  <2>1. /\ HeadersBelow(s)[b] \in Nat /\ DataBelow(s)[b] \in Nat BY <1>1, <1>3
  <2>2. CASE b \in s BY <1>3, <2>1, <2>2, Lengths DEF Place, Room, s
  <2>3. CASE b \notin s BY <1>3, <2>1, <2>3, Lengths DEF Place, Room, s
  <2>4. QED BY <2>2, <2>3 DEF s
<1>7. QED BY <1>4, <1>5, <1>6

LEMMA NextCluster ==
  ASSUME NEW c \in Cluster
  PROVE  (c + 1) % ClusterCount \in Cluster \ {c}
<1>1. ClusterCount \in Nat /\ ClusterCount > 1 /\ Cluster = 0 .. ClusterCount - 1 /\ c \in 0 .. ClusterCount - 1
  BY Numbers
<1>2. CASE c + 1 = ClusterCount BY <1>1, <1>2
<1>3. CASE c + 1 < ClusterCount BY <1>1, <1>3
<1>4. QED BY <1>1, <1>2, <1>3

\* A flash request is started for the request of NvM.
LEMMA Started ==
  ASSUME NEW fl, NEW f, NEW req, Busy(fl, f, req), NEW m, NEW job \in JobType \ {"FEE_JOB_WRITE_DONE"},
         NoneAtDone(f),
         job = "FEE_JOB_WRITE_VALIDATE" => f.block \in FeeImmediateData
  PROVE  /\ Busy(fl, Start(f, m, job), req)
         /\ JobNotiHandle(Start(f, m, job)) = Start(f, m, job)
<1> DEFINE g == Start(f, m, job)
<1>1. RamOK(f) /\ Running(fl, f) BY DEF Busy
<1>2. /\ RamOK(g) /\ Core(f, g) /\ g.result = "MEMIF_JOB_PENDING"
      /\ g.status = f.status /\ g.job = job /\ g.block = f.block /\ g.data = f.data
  BY <1>1, StartIs
<1> HIDE DEF g
<1>3. \A b \in Block : (AtDone(f, b) => AtDone(g, b)) /\ (Writing(g, b) => b \in FeeImmediateData)
  BY <1>2 DEF AtDone, Writing, NoneAtDone
<1>4. Running(fl, g) BY <1>1, <1>2, <1>3, RamKept
<1>5. Busy(fl, g, req) BY <1>2, <1>4 DEF Busy
<1>6. QED BY <1>2, <1>5, NotiIs DEF g

\* A header is programmed next, or a swap begins.
LEMMA HeaderServes ==
  ASSUME NEW fl, NEW f, NEW req, Busy(fl, f, req), NEW next, NoneAtDone(f), f.job = req.job,
         \/ /\ req.job = "FEE_JOB_WRITE" /\ f.block \notin FeeImmediateData /\ next = "FEE_JOB_WRITE_DATA"
         \/ /\ req.job = "FEE_JOB_ERASE_IMMEDIATE" /\ f.block \in FeeImmediateData
            /\ next = "FEE_JOB_ERASE_IMMEDIATE_DONE"
  PROVE  /\ Ready(fl, JobNotiHandle(JobWriteHdr(f, next)), req)
         /\ JobNotiHandle(JobWriteHdr(f, next)) = JobWriteHdr(f, next)
         /\ JobWriteHdr(f, next).status = "MEMIF_BUSY"
<1> DEFINE addr == f.dataAddr - FeeBlockSize[f.block]
<1>1. RamOK(f) /\ f.cluster \in Cluster /\ f.block \in Block /\ f.job \in JobType BY DEF Busy, RamOK
<1>2. CASE FeeBlockSize[f.block] + 2 > f.dataAddr - f.hdrAddr
  <2> DEFINE c == (f.cluster + 1) % ClusterCount
             g == [f EXCEPT !.swap = [cluster |-> c, block |-> 0, dataAddr |-> FeeClusterLength,
                                      hdrAddr |-> 1, preJob |-> f.job]]
             n == Start(g, Erase(c), "FEE_JOB_INT_SWAP_CLUSTER_CLEAR")
  <2>1. JobWriteHdr(f, next) = n BY <1>2 DEF JobWriteHdr, JobIntSwap
  <2>2. c \in Cluster \ {f.cluster} BY <1>1, NextCluster
  <2> HIDE DEF c
  <2>3. [cluster |-> c, block |-> 0, dataAddr |-> FeeClusterLength, hdrAddr |-> 1, preJob |-> f.job] \in Swaps
    BY <1>1, <2>2, Numbers DEF Swaps
  <2>4. /\ RamOK(g) /\ Core(f, g) /\ g.status = f.status /\ g.job = f.job /\ g.result = f.result
        /\ g.block = f.block /\ g.data = f.data /\ g.swap.cluster = c /\ g.swap.block = 0
        /\ g.swap.dataAddr = FeeClusterLength /\ g.swap.hdrAddr = 1 /\ g.swap.preJob = f.job
    BY <1>1, <2>3 DEF RamOK, RamFields, Core
  <2> HIDE DEF g
  <2>5. Busy(fl, g, req) BY <1>1, <2>4, RamKept DEF Busy, AtDone, Writing
  <2>6. NoneAtDone(g) BY <2>4 DEF NoneAtDone, AtDone, Writing
  <2>7. Busy(fl, n, req) /\ JobNotiHandle(n) = n BY <2>5, <2>6, Started DEF JobType
  <2>8. /\ n.job = "FEE_JOB_INT_SWAP_CLUSTER_CLEAR" /\ n.mem = Erase(c) /\ n.swap = g.swap /\ n.block = g.block
        /\ n.cluster = g.cluster /\ n.info = g.info
    BY <2>4, StartIs DEF JobType, Core
  <2> HIDE DEF n
  <2>9. Swapping(fl, n) BY <2>4, <2>8, PlaceIs DEF At, Swapping
  <2>10. Serving(fl, n, req) BY <2>4, <2>8, <2>9 DEF Serving, Core, c
  <2>11. n.status = "MEMIF_BUSY" BY <2>7 DEF Busy
  <2>12. QED BY <2>1, <2>7, <2>10, <2>11 DEF Ready, Busy
<1>3. CASE ~ (FeeBlockSize[f.block] + 2 > f.dataAddr - f.hdrAddr)
  <2> DEFINE n == Start(f, Program(f.cluster, f.hdrAddr, <<BlockHdr(f.block, addr)>>), next)
  <2>1. JobWriteHdr(f, next) = n BY <1>3 DEF JobWriteHdr
  <2>2. next \in JobType /\ next \notin {"FEE_JOB_WRITE_DONE", "FEE_JOB_WRITE_VALIDATE"}
    BY DEF JobType
  <2>3. Busy(fl, n, req) /\ JobNotiHandle(n) = n BY <2>2, Started
  <2>4. n.job = next /\ n.mem = Program(f.cluster, f.hdrAddr, <<BlockHdr(f.block, addr)>>) /\ n.block = f.block /\ Core(f, n)
    BY <1>1, <2>2, StartIs
  <2> HIDE DEF n
  <2>5. FeeBlockSize[f.block] + 2 <= f.dataAddr - f.hdrAddr
    <3>1. FeeBlockSize[f.block] \in Nat /\ f.dataAddr \in Int /\ f.hdrAddr \in Int
      BY <1>1, Numbers DEF RamOK
    <3>2. QED BY <1>3, <3>1
  <2>6. HeaderPending(n) BY <2>4, <2>5 DEF HeaderPending, Core
  <2>7. Serving(fl, n, req) BY <2>4, <2>6 DEF Serving
  <2>8. n.status = "MEMIF_BUSY" BY <2>3 DEF Busy
  <2>9. QED BY <2>1, <2>3, <2>7, <2>8 DEF Ready, Busy
<1>4. QED BY <1>2, <1>3

-----------------------------------------------------------------------------
(* The main function begins a job. *)

SwapJobs ==
  {"FEE_JOB_INT_SWAP_CLUSTER_CLEAR", "FEE_JOB_INT_SWAP_BLOCK", "FEE_JOB_INT_SWAP_DATA_READ",
   "FEE_JOB_INT_SWAP_DATA_WRITE", "FEE_JOB_INT_SWAP_BLOCK_VLD", "FEE_JOB_INT_SWAP_CLUSTER_VLD_DONE"}

LEMMA SwappingJobs ==
  ASSUME NEW fl, NEW f, Swapping(fl, f)
  PROVE  f.job \in SwapJobs
BY DEF Swapping, SwapJobs

\* The jobs that serve a request, one by one.
LEMMA ServingIs ==
  ASSUME NEW fl, NEW f, NEW req, Serving(fl, f, req)
  PROVE  LET b == f.block
             i == f.info[b]
         IN  /\ f.job \in {"FEE_JOB_READ", "FEE_JOB_WRITE"} => f.mem = NoAccess /\ req.job = f.job
             /\ f.job = "FEE_JOB_ERASE_IMMEDIATE" => f.mem = NoAccess /\ req.job = f.job /\ b \in FeeImmediateData
             /\ f.job = "FEE_JOB_INVAL_BLOCK" => f.mem = NoAccess /\ req.job = f.job /\ Own(fl, f, b)
             /\ f.job = "FEE_JOB_NONE" =>
                  /\ req.job = "FEE_JOB_READ" /\ i.status = "FEE_BLOCK_VALID"
                  /\ f.mem = Read(i.cluster, i.dataAddr, FeeBlockSize[b])
             /\ f.job = "FEE_JOB_WRITE_DATA" =>
                  req.job = "FEE_JOB_WRITE" /\ b \notin FeeImmediateData /\ HeaderPending(f)
             /\ f.job = "FEE_JOB_ERASE_IMMEDIATE_DONE" =>
                  req.job = "FEE_JOB_ERASE_IMMEDIATE" /\ b \in FeeImmediateData /\ HeaderPending(f)
             /\ f.job = "FEE_JOB_WRITE_VALIDATE" =>
                  /\ req.job = "FEE_JOB_WRITE" /\ i.status = "FEE_BLOCK_INCONSISTENT"
                  /\ f.mem = Program(i.cluster, i.dataAddr, DataCells(f.data, FeeBlockSize[b]))
             /\ f.job = "FEE_JOB_WRITE_DONE" =>
                  /\ req.job = "FEE_JOB_WRITE" /\ i.status = "FEE_BLOCK_INCONSISTENT"
                  /\ f.mem = SetFlag(i.cluster, i.validHdr, "valid")
                  /\ Holds(fl[i.cluster], i.dataAddr, b, f.data)
             /\ f.job = "FEE_JOB_INVAL_BLOCK_DONE" =>
                  /\ req.job = "FEE_JOB_INVAL_BLOCK" /\ i.status # "FEE_BLOCK_INVALID" /\ Own(fl, f, b)
                  /\ f.mem = SetFlag(i.cluster, i.validHdr, "invalid")
             /\ f.job \in SwapJobs =>
                  /\ \/ req.job = "FEE_JOB_WRITE" /\ b \notin FeeImmediateData
                     \/ req.job = "FEE_JOB_ERASE_IMMEDIATE" /\ b \in FeeImmediateData
                  /\ f.swap.preJob = req.job
                  /\ f.swap.cluster = (f.cluster + 1) % ClusterCount
                  /\ Swapping(fl, f)
             /\ f.job \in SwapJobs \cup
                  {"FEE_JOB_READ", "FEE_JOB_WRITE", "FEE_JOB_ERASE_IMMEDIATE", "FEE_JOB_INVAL_BLOCK", "FEE_JOB_NONE",
                   "FEE_JOB_WRITE_DATA", "FEE_JOB_ERASE_IMMEDIATE_DONE", "FEE_JOB_WRITE_VALIDATE",
                   "FEE_JOB_WRITE_DONE", "FEE_JOB_INVAL_BLOCK_DONE"}
BY SwappingJobs DEF Serving, SwapJobs

LEMMA OwnSame ==
  ASSUME NEW fl, NEW f, NEW g, NEW b, Core(f, g), Own(fl, f, b)
  PROVE  Own(fl, g, b)
BY DEF Own, Core

LEMMA BusyIs ==
  ASSUME NEW fl, NEW f, NEW req, Busy(fl, f, req)
  PROVE  /\ fl \in Disks /\ RamOK(f) /\ RequestOK(req) /\ Running(fl, f)
         /\ f.status = "MEMIF_BUSY" /\ req # NoRequest /\ f.result = "MEMIF_JOB_PENDING"
         /\ f.block = req.block /\ f.data = req.value /\ f.block \in Block
         /\ f.info \in [Block -> Infos] /\ f.cluster \in Cluster
         /\ f.info[f.block].status \in {"FEE_BLOCK_VALID", "FEE_BLOCK_INVALID", "FEE_BLOCK_INCONSISTENT"}
         /\ f.info[f.block] \in Infos
         /\ req.job = "FEE_JOB_WRITE" => f.data \in Value
         /\ req.job \in {"FEE_JOB_WRITE", "FEE_JOB_READ", "FEE_JOB_INVAL_BLOCK", "FEE_JOB_ERASE_IMMEDIATE"}
BY DEF Busy, RamOK, Infos, RequestOK

\* A request ends where the main function begins it.
LEMMA EndsAtOnce ==
  ASSUME NEW fl, NEW f, NEW req, Busy(fl, f, req), NoneAtDone(f), f.mem = NoAccess,
         NEW result \in Results \ {"MEMIF_JOB_PENDING"}
  PROVE  /\ Ready(fl, JobNotiHandle(End(f, result)), req)
         /\ JobNotiHandle(End(f, result)) = Idled(End(f, result))
<1> DEFINE g == End(f, result)
<1>1. fl \in Disks /\ RamOK(f) /\ RequestOK(req) /\ Running(fl, f) /\ f.status = "MEMIF_BUSY"
  BY BusyIs
<1>2. /\ RamOK(g) /\ Core(f, g) /\ g.status = "MEMIF_BUSY" /\ g.result = result /\ g.job = "FEE_JOB_NONE"
      /\ g.mem = NoAccess
  BY <1>1, EndIs
<1> HIDE DEF g
<1>3. \A b \in Block : ~ AtDone(g, b) /\ ~ Writing(g, b) BY <1>2 DEF AtDone, Writing
<1>4. Running(fl, g) BY <1>1, <1>2, <1>3, RamKept DEF NoneAtDone
<1>5. QED BY <1>1, <1>2, <1>3, <1>4, Finished DEF g

LEMMA MainRead ==
  ASSUME NEW fl, NEW f, NEW req, Busy(fl, f, req), Serving(fl, f, req), f.job = "FEE_JOB_READ"
  PROVE  Ready(fl, JobNotiHandle(JobRead(f)), req)
<1> DEFINE i == f.info[f.block]
           m == Read(i.cluster, i.dataAddr, FeeBlockSize[f.block])
           g == Start(f, m, "FEE_JOB_NONE")
<1>1. f.mem = NoAccess /\ req.job = "FEE_JOB_READ" BY ServingIs
<1>2. NoneAtDone(f) /\ RamOK(f) /\ i.status \in {"FEE_BLOCK_VALID", "FEE_BLOCK_INVALID", "FEE_BLOCK_INCONSISTENT"}
  BY BusyIs, NotAtDone
<1>3. CASE i.status = "FEE_BLOCK_VALID"
  <2>1. JobRead(f) = g BY <1>3 DEF JobRead
  <2>2. "FEE_JOB_NONE" \in JobType \ {"FEE_JOB_WRITE_DONE"} BY DEF JobType
  <2>3. Busy(fl, g, req) /\ JobNotiHandle(g) = g BY <1>2, <2>2, Started
  <2>4. g.job = "FEE_JOB_NONE" /\ g.mem = m /\ g.block = f.block /\ Core(f, g)
    BY <1>2, <2>2, StartIs
  <2> HIDE DEF g
  <2>5. Serving(fl, g, req) BY <1>1, <1>3, <2>4 DEF Serving, Core
  <2>6. QED BY <2>1, <2>3, <2>5 DEF Ready, Busy
<1>4. CASE i.status = "FEE_BLOCK_INVALID" BY <1>1, <1>2, <1>4, EndsAtOnce DEF JobRead, Results
<1>5. CASE i.status = "FEE_BLOCK_INCONSISTENT" BY <1>1, <1>2, <1>5, EndsAtOnce DEF JobRead, Results
<1>6. QED BY <1>2, <1>3, <1>4, <1>5

LEMMA MainWrite ==
  ASSUME NEW fl, NEW f, NEW req, Busy(fl, f, req), Serving(fl, f, req), f.job = "FEE_JOB_WRITE"
  PROVE  Ready(fl, JobNotiHandle(JobWrite(f)), req)
<1> DEFINE i == f.info[f.block]
           m == Program(i.cluster, i.dataAddr, DataCells(f.data, FeeBlockSize[f.block]))
           g == Start(f, m, "FEE_JOB_WRITE_VALIDATE")
<1>1. f.mem = NoAccess /\ req.job = "FEE_JOB_WRITE" BY ServingIs
<1>2. NoneAtDone(f) /\ RamOK(f) /\ fl \in Disks /\ RequestOK(req) /\ Running(fl, f) /\ f.status = "MEMIF_BUSY"
  BY BusyIs, NotAtDone
<1>3. CASE f.block \notin FeeImmediateData BY <1>1, <1>2, <1>3, HeaderServes DEF JobWrite
<1>4. CASE f.block \in FeeImmediateData /\ i.status = "FEE_BLOCK_INCONSISTENT"
  <2>1. JobWrite(f) = g BY <1>4 DEF JobWrite, JobWriteData
  <2>2. "FEE_JOB_WRITE_VALIDATE" \in JobType \ {"FEE_JOB_WRITE_DONE"} BY DEF JobType
  <2>3. Busy(fl, g, req) /\ JobNotiHandle(g) = g BY <1>2, <1>4, <2>2, Started
  <2>4. g.job = "FEE_JOB_WRITE_VALIDATE" /\ g.mem = m /\ g.block = f.block /\ g.data = f.data /\ Core(f, g)
    BY <1>2, <2>2, StartIs
  <2> HIDE DEF g
  <2>5. Serving(fl, g, req) BY <1>1, <1>4, <2>4 DEF Serving, Core
  <2>6. QED BY <2>1, <2>3, <2>5 DEF Ready, Busy
<1>5. CASE f.block \in FeeImmediateData /\ i.status # "FEE_BLOCK_INCONSISTENT"
  <2> DEFINE h == [f EXCEPT !.result = "MEMIF_JOB_FAILED"]
  <2>1. JobWrite(f) = h BY <1>5 DEF JobWrite
  <2>2. /\ RamOK(h) /\ Core(f, h) /\ h.status = f.status /\ h.job = f.job /\ h.mem = f.mem /\ h.result = "MEMIF_JOB_FAILED"
    BY <1>2 DEF RamOK, RamFields, Core, Results
  <2> HIDE DEF h
  <2>3. \A b \in Block : ~ AtDone(h, b) /\ ~ Writing(h, b) BY <2>2 DEF AtDone, Writing
  <2>4. Running(fl, h) BY <1>2, <2>2, <2>3, RamKept DEF NoneAtDone
  <2>5. QED BY <1>1, <1>2, <2>1, <2>2, <2>3, <2>4, Finished
<1>6. QED BY <1>3, <1>4, <1>5

LEMMA MainInvalidate ==
  ASSUME NEW fl, NEW f, NEW req, Busy(fl, f, req), Serving(fl, f, req), f.job = "FEE_JOB_INVAL_BLOCK"
  PROVE  Ready(fl, JobNotiHandle(JobInvalBlock(f)), req)
<1> DEFINE i == f.info[f.block]
           m == SetFlag(i.cluster, i.validHdr, "invalid")
           g == Start(f, m, "FEE_JOB_INVAL_BLOCK_DONE")
<1>1. f.mem = NoAccess /\ req.job = "FEE_JOB_INVAL_BLOCK" /\ Own(fl, f, f.block) BY ServingIs
<1>2. NoneAtDone(f) /\ RamOK(f) BY BusyIs, NotAtDone
<1>3. CASE i.status # "FEE_BLOCK_INVALID"
  <2>1. JobInvalBlock(f) = g BY <1>3 DEF JobInvalBlock
  <2>2. "FEE_JOB_INVAL_BLOCK_DONE" \in JobType \ {"FEE_JOB_WRITE_DONE"} BY DEF JobType
  <2>3. Busy(fl, g, req) /\ JobNotiHandle(g) = g BY <1>2, <2>2, Started
  <2>4. g.job = "FEE_JOB_INVAL_BLOCK_DONE" /\ g.mem = m /\ g.block = f.block /\ Core(f, g)
    BY <1>2, <2>2, StartIs
  <2> HIDE DEF g
  <2>5. Own(fl, g, f.block) BY <1>1, <2>4, OwnSame
  <2>6. Serving(fl, g, req) BY <1>1, <1>3, <2>4, <2>5 DEF Serving, Core
  <2>7. QED BY <2>1, <2>3, <2>6 DEF Ready, Busy
<1>4. CASE i.status = "FEE_BLOCK_INVALID" BY <1>1, <1>2, <1>4, EndsAtOnce DEF JobInvalBlock, Results
<1>6. QED BY <1>3, <1>4

LEMMA MainErase ==
  ASSUME NEW fl, NEW f, NEW req, Busy(fl, f, req), Serving(fl, f, req), f.job = "FEE_JOB_ERASE_IMMEDIATE"
  PROVE  Ready(fl, JobNotiHandle(JobEraseImmediate(f)), req)
BY ServingIs, NotAtDone, HeaderServes DEF JobEraseImmediate

LEMMA MainScan ==
  ASSUME NEW fl, NEW f, NEW req, fl \in Disks, RamOK(f), RequestOK(req), req = NoRequest,
         f.status = "MEMIF_BUSY_INTERNAL", Scanning(fl, f), f.job = "FEE_JOB_INT_SCAN"
  PROVE  Ready(fl, JobNotiHandle(JobInitScan(f)), req)
<1> DEFINE g == [f EXCEPT !.idx = 0]
           n == Start(g, Read(0, 0, 1), "FEE_JOB_INT_SCAN_CLUSTER_HDR_GET")
<1>1. f.mem = NoAccess /\ Disk(fl) /\ Unseen(f) /\ f.useId = 0 BY DEF Scanning
<1>2. 0 \in Cluster BY Numbers
<1>3. RamOK(g) /\ g.idx = 0 /\ Core(f, g) /\ g.status = f.status BY <1>2 DEF RamOK, RamFields, Core
<1>4. JobInitScan(f) = n BY <1>3 DEF JobInitScan, JobIntScanClusterHdrRead
<1> HIDE DEF g
<1>5. /\ RamOK(n) /\ Core(g, n) /\ n.status = g.status /\ n.job = "FEE_JOB_INT_SCAN_CLUSTER_HDR_GET"
      /\ n.result = "MEMIF_JOB_PENDING" /\ n.idx = g.idx /\ n.mem = Read(0, 0, 1)
  BY <1>3, StartIs DEF JobType
<1> HIDE DEF n
<1>6. SeenClusters(fl, n) /\ Unseen(n) BY <1>1, <1>3, <1>5 DEF Core, SeenClusters, Unseen
<1>7. Scanning(fl, n) BY <1>1, <1>3, <1>5, <1>6 DEF Scanning
<1>8. QED BY <1>3, <1>4, <1>5, <1>7, NotiIs DEF Ready

LEMMA MainReady ==
  ASSUME NEW fl, NEW f, NEW req, FeeInv(fl, f, req), f.status # "MEMIF_UNINIT",
         f.result = "MEMIF_JOB_PENDING", f.job \in StartingJobs
  PROVE  Ready(fl, JobNotiHandle(Dispatch(f)), req)
<1>1. fl \in Disks /\ RamOK(f) /\ RequestOK(req) BY DEF FeeInv, Disks
<1>2. CASE f.status = "MEMIF_BUSY_INTERNAL"
  BY <1>1, <1>2, MainScan DEF FeeInv, Scanning, StartingJobs, Dispatch
<1>3. CASE f.status = "MEMIF_BUSY"
  <2>1. Busy(fl, f, req) /\ Serving(fl, f, req) BY <1>1, <1>3 DEF FeeInv, Busy
  <2>2. f.job \in {"FEE_JOB_READ", "FEE_JOB_WRITE", "FEE_JOB_INVAL_BLOCK", "FEE_JOB_ERASE_IMMEDIATE"}
    BY <2>1, ServingIs DEF SwapJobs, StartingJobs
  <2>3. CASE f.job = "FEE_JOB_READ" BY <2>1, <2>3, MainRead DEF Dispatch
  <2>4. CASE f.job = "FEE_JOB_WRITE" BY <2>1, <2>4, MainWrite DEF Dispatch
  <2>5. CASE f.job = "FEE_JOB_INVAL_BLOCK" BY <2>1, <2>5, MainInvalidate DEF Dispatch
  <2>6. CASE f.job = "FEE_JOB_ERASE_IMMEDIATE" BY <2>1, <2>6, MainErase DEF Dispatch
  <2>7. QED BY <2>2, <2>3, <2>4, <2>5, <2>6
<1>4. QED BY <1>2, <1>3 DEF FeeInv

-----------------------------------------------------------------------------
(* A flash request of NvM's request has ended. *)

LEMMA HeaderPendingIs ==
  ASSUME NEW fl, NEW f, NEW req, Busy(fl, f, req), HeaderPending(f)
  PROVE  /\ f.mem = Program(f.cluster, f.hdrAddr, <<BlockHdr(f.block, f.dataAddr - FeeBlockSize[f.block])>>)
         /\ f.cluster \in Cluster /\ f.hdrAddr \in Address /\ f.hdrAddr \in Nat /\ f.dataAddr \in Nat
         /\ BlockHdr(f.block, f.dataAddr - FeeBlockSize[f.block]) \in Cell
         /\ fl[f.cluster][f.hdrAddr] = Blank
         /\ FeeBlockSize[f.block] + 2 <= f.dataAddr - f.hdrAddr /\ f.hdrAddr + 1 < f.dataAddr
<1>1. fl \in Disks /\ RamOK(f) /\ Running(fl, f) /\ f.block \in Block BY BusyIs
<1>2. /\ f.cluster \in Cluster /\ f.hdrAddr \in Address /\ f.hdrAddr \in Nat /\ f.dataAddr \in Nat
      /\ fl[f.cluster] \in Contents /\ f.hdrAddr < f.dataAddr /\ f.dataAddr <= FeeClusterLength
      /\ Layout(fl[f.cluster], f.hdrAddr) /\ Low(fl[f.cluster], f.hdrAddr, f.dataAddr)
  BY <1>1, RunningIs
<1>3. FeeBlockSize[f.block] \in Nat /\ FeeBlockSize[f.block] >= 1 BY <1>1, Numbers
<1>4. FeeBlockSize[f.block] + 2 <= f.dataAddr - f.hdrAddr BY DEF HeaderPending
<1>5. f.dataAddr - FeeBlockSize[f.block] \in Address /\ f.hdrAddr + 1 < f.dataAddr
  BY <1>2, <1>3, <1>4, Lengths, SMTT(30)
<1>6. BlockHdr(f.block, f.dataAddr - FeeBlockSize[f.block]) \in Cell BY <1>1, <1>5, CellsAre
<1>7. fl[f.cluster][f.hdrAddr] = Blank BY <1>2, GapIsBlank
<1>8. QED BY <1>2, <1>4, <1>5, <1>6, <1>7 DEF HeaderPending

EndRead(f) == [Cleared(f) EXCEPT !.result = "MEMIF_JOB_OK", !.status = "MEMIF_IDLE"]

LEMMA EndOfRead ==
  ASSUME NEW fl, NEW f, NEW req, Busy(fl, f, req), f.job = "FEE_JOB_NONE"
  PROVE  Ready(fl, EndRead(f), req)
<1> DEFINE g == EndRead(f)
<1>1. fl \in Disks /\ RamOK(f) /\ RequestOK(req) /\ Running(fl, f) BY BusyIs
<1>2. RamOK(g) /\ Core(f, g) /\ g.status = "MEMIF_IDLE" /\ g.result = "MEMIF_JOB_OK" /\ g.mem = NoAccess
  BY <1>1 DEF RamOK, RamFields, Core, EndRead, Cleared, Statuses, Results
<1> HIDE DEF g
<1>3. Running(fl, g) BY <1>1, <1>2, NotAtDone, IdleRuns DEF NoneAtDone
<1>4. QED BY <1>1, <1>2, <1>3 DEF Ready, g

LEMMA TakeRecordIs ==
  ASSUME NEW f, RamOK(f)
  PROVE  LET g == TakeRecord(f)
         IN  /\ g.status = f.status /\ g.job = f.job /\ g.result = f.result /\ g.block = f.block
             /\ g.data = f.data /\ g.idx = f.idx /\ g.swap = f.swap /\ g.mem = f.mem
             /\ g.cluster = f.cluster
             /\ f.block \in Block =>
                  g.info[f.block] = [status |-> "FEE_BLOCK_INCONSISTENT", cluster |-> f.cluster,
                                     dataAddr |-> f.dataAddr - FeeBlockSize[f.block], validHdr |-> f.hdrAddr]
BY DEF RamOK, RamFields, TakeRecord

LEMMA EndOfHeader ==
  ASSUME NEW fl, NEW f, NEW req, Busy(fl, f, req), Serving(fl, f, req), NEW fl2,
         f.job = "FEE_JOB_WRITE_DATA",
         CellSet(fl, fl2, f.cluster, f.hdrAddr, BlockHdr(f.block, f.dataAddr - FeeBlockSize[f.block]))
  PROVE  Ready(fl2, JobNotiHandle(JobWriteData(Cleared(f))), req)
<1> DEFINE f0 == Cleared(f)
           t == TakeRecord(f0)
           i == t.info[t.block]
           m == Program(i.cluster, i.dataAddr, DataCells(t.data, FeeBlockSize[t.block]))
           g == Start(t, m, "FEE_JOB_WRITE_VALIDATE")
<1>1. req.job = "FEE_JOB_WRITE" /\ f.block \notin FeeImmediateData /\ HeaderPending(f) BY ServingIs
<1>2. FeeBlockSize[f.block] + 2 <= f.dataAddr - f.hdrAddr BY <1>1, HeaderPendingIs
<1>3. fl \in Disks /\ RamOK(f) /\ RequestOK(req) /\ Running(fl, f) /\ f.block \in Block /\ Busy(fl, f0, req)
  BY BusyIs, ClearedBusy
<1>4. /\ RamOK(f0) /\ Core(f, f0) /\ f0.status = f.status /\ f0.job = f.job /\ f0.block = f.block /\ f0.data = f.data
  BY <1>3, ClearedIs
<1> HIDE DEF f0
<1>5. /\ t.status = f.status /\ t.block = f.block /\ t.data = f.data /\ t.cluster = f.cluster
      /\ i = [status |-> "FEE_BLOCK_INCONSISTENT", cluster |-> f.cluster,
              dataAddr |-> f.dataAddr - FeeBlockSize[f.block], validHdr |-> f.hdrAddr]
  BY <1>3, <1>4, TakeRecordIs DEF Core
<1>6. JobWriteData(f0) = g BY <1>1, <1>4 DEF JobWriteData
<1> HIDE DEF t, i, m
<1>7. "FEE_JOB_WRITE_VALIDATE" \in JobType BY DEF JobType
<1>8. Running(fl, f0) /\ RamOK(TakeRecord(f0))
  <2>1. Running(fl, f0) BY <1>3, BusyIs
  <2>2. NoneAtDone(f0) BY <1>4, NotAtDone
  <2>3. Core(t, t) /\ \A x \in Block : x # f.block /\ Writing(f0, x) => x \in FeeImmediateData
    BY <1>4 DEF Core, Writing
  <2>4. CellSet(fl, fl2, f0.cluster, f0.hdrAddr, BlockHdr(f0.block, f0.dataAddr - FeeBlockSize[f0.block]))
    BY <1>4 DEF Core
  <2>5. FeeBlockSize[f0.block] + 2 <= f0.dataAddr - f0.hdrAddr BY <1>2, <1>4 DEF Core
  <2>6. NoneAtDone(t) BY <1>4, TakeRecordIs, NotAtDone DEF t
  <2>7. \A x \in Block : ~ Writing(t, x) BY <1>4, TakeRecordIs DEF t, Writing
  <2>8. QED BY <1>3, <1>4, <2>1, <2>2, <2>3, <2>4, <2>5, <2>6, <2>7, Appended DEF NoneAtDone, t
<1>9. /\ RamOK(g) /\ Core(t, g) /\ g.status = t.status /\ g.job = "FEE_JOB_WRITE_VALIDATE"
      /\ g.result = "MEMIF_JOB_PENDING" /\ g.block = t.block /\ g.data = t.data /\ g.mem = m
  BY <1>7, <1>8, StartIs DEF t
<1> HIDE DEF g
<1>10. Running(fl2, g)
  <2>1. NoneAtDone(f0) /\ NoneAtDone(g) BY <1>4, <1>9, NotAtDone
  <2>2. \A x \in Block : x # f.block => ~ Writing(g, x) BY <1>5, <1>9 DEF Writing
  <2>3. CellSet(fl, fl2, f0.cluster, f0.hdrAddr, BlockHdr(f0.block, f0.dataAddr - FeeBlockSize[f0.block]))
    BY <1>4 DEF Core
  <2>4. FeeBlockSize[f0.block] + 2 <= f0.dataAddr - f0.hdrAddr BY <1>2, <1>4 DEF Core
  <2>5. QED BY <1>3, <1>4, <1>8, <1>9, <2>1, <2>2, <2>3, <2>4, Appended DEF NoneAtDone, t
<1>11. Serving(fl2, g, req) BY <1>1, <1>5, <1>9 DEF Core, i, m, Serving
<1>12. Busy(fl2, g, req) BY <1>3, <1>5, <1>9, <1>10, BusyIs DEF CellSet, Busy
<1>13. JobNotiHandle(g) = g BY <1>9, NotiIs
<1>14. QED BY <1>6, <1>11, <1>12, <1>13 DEF Ready, Busy, f0

LEMMA EndOfErase ==
  ASSUME NEW fl, NEW f, NEW req, Busy(fl, f, req), Serving(fl, f, req), NEW fl2,
         f.job = "FEE_JOB_ERASE_IMMEDIATE_DONE",
         CellSet(fl, fl2, f.cluster, f.hdrAddr, BlockHdr(f.block, f.dataAddr - FeeBlockSize[f.block]))
  PROVE  Ready(fl2, JobNotiHandle(JobEraseImmediateDone(Cleared(f))), req)
<1> DEFINE f0 == Cleared(f)
           t == TakeRecord(f0)
           g == End(t, "MEMIF_JOB_OK")
<1>1. HeaderPending(f) BY ServingIs
<1>2. FeeBlockSize[f.block] + 2 <= f.dataAddr - f.hdrAddr BY <1>1, HeaderPendingIs
<1>3. fl \in Disks /\ RamOK(f) /\ RequestOK(req) /\ Running(fl, f) /\ f.block \in Block /\ Busy(fl, f0, req) /\ f.status = "MEMIF_BUSY"
  BY BusyIs, ClearedBusy
<1>4. /\ RamOK(f0) /\ Core(f, f0) /\ f0.status = f.status /\ f0.job = f.job /\ f0.block = f.block /\ f0.mem = NoAccess
  BY <1>3, ClearedIs
<1> HIDE DEF f0
<1>5. t.status = f.status /\ t.job = f.job /\ t.mem = NoAccess BY <1>4, TakeRecordIs
<1> HIDE DEF t
<1>6. NoneAtDone(f0) /\ NoneAtDone(t) /\ \A x \in Block : ~ Writing(t, x)
  BY <1>4, <1>5, NotAtDone DEF Writing
<1>7. Running(fl2, t) /\ RamOK(t)
  BY <1>2, <1>3, <1>4, <1>6, BusyIs, Appended DEF Core, NoneAtDone, t
<1>8. /\ RamOK(g) /\ Core(t, g) /\ g.status = t.status /\ g.job = "FEE_JOB_NONE"
      /\ g.result = "MEMIF_JOB_OK" /\ g.mem = t.mem
  BY <1>7, EndIs DEF Results
<1> HIDE DEF g
<1>9. \A x \in Block : ~ AtDone(g, x) /\ ~ Writing(g, x) BY <1>8 DEF AtDone, Writing
<1>10. Running(fl2, g) BY <1>6, <1>7, <1>8, <1>9, RamKept DEF NoneAtDone
<1>11. fl2 \in Disks BY DEF CellSet
<1>12. Ready(fl2, JobNotiHandle(g), req) BY <1>3, <1>5, <1>8, <1>9, <1>10, <1>11, Finished
<1>13. QED BY <1>12 DEF JobEraseImmediateDone, g, t, f0

\* Where Fee has written the header of the block it is about to write.
LEMMA DataPendingIs ==
  ASSUME NEW fl, NEW f, NEW req, Busy(fl, f, req), Serving(fl, f, req), f.job = "FEE_JOB_WRITE_VALIDATE"
  PROVE  LET b == f.block
             i == f.info[b]
         IN  /\ f.mem = Program(i.cluster, i.dataAddr, DataCells(f.data, FeeBlockSize[b]))
             /\ Writing(f, b) /\ i.status = "FEE_BLOCK_INCONSISTENT" /\ f.data \in Value /\ req.job = "FEE_JOB_WRITE"
             /\ i.cluster \in Cluster /\ i.cluster = f.cluster /\ i.dataAddr \in Address /\ i.dataAddr \in Nat
             /\ FeeBlockSize[b] \in Nat
             /\ i.dataAddr + FeeBlockSize[b] <= FeeClusterLength
             /\ DataCells(f.data, FeeBlockSize[b]) \in [1 .. FeeBlockSize[b] -> Cell]
             /\ \A a \in Address : a \in i.dataAddr .. i.dataAddr + FeeBlockSize[b] - 1 => fl[i.cluster][a] = Blank
<1> DEFINE b == f.block
           i == f.info[b]
           size == FeeBlockSize[b]
<1>1. /\ f.mem = Program(i.cluster, i.dataAddr, DataCells(f.data, FeeBlockSize[b]))
      /\ req.job = "FEE_JOB_WRITE" /\ i.status = "FEE_BLOCK_INCONSISTENT"
  BY ServingIs
<1>2. /\ fl \in Disks /\ RamOK(f) /\ Running(fl, f) /\ f.status = "MEMIF_BUSY" /\ b \in Block /\ f.data \in Value
  BY <1>1, BusyIs
<1>3. Writing(f, b) /\ ~ AtDone(f, b) BY <1>2 DEF Writing, AtDone
<1>4. /\ f.cluster \in Cluster /\ fl[f.cluster] \in Contents /\ Layout(fl[f.cluster], f.hdrAddr) /\ Known(fl, f, b)
  BY <1>2, RunningIs
<1>5. KnownKept(fl[f.cluster], f, b) BY <1>1, <1>3, <1>4 DEF Known
<1>6. /\ i.cluster = f.cluster /\ i.validHdr \in 1 .. f.hdrAddr - 1
      /\ IsRecord(fl[f.cluster], i.validHdr, b) /\ fl[f.cluster][i.validHdr].addr = i.dataAddr
      /\ Empty(fl[f.cluster], i.dataAddr, b)
  BY <1>3, <1>5 DEF KnownKept, AtDone
<1>7. i.dataAddr \in Address /\ i.dataAddr \in Nat /\ size \in Nat /\ i.dataAddr + size <= FeeClusterLength
  BY <1>4, <1>6, HeaderIs DEF IsRecord
<1>8. DataCells(f.data, size) \in [1 .. size -> Cell] BY <1>2, <1>7, CellsAre DEF DataCells
<1> HIDE DEF size
<1>9. ASSUME NEW a \in Address, a \in i.dataAddr .. i.dataAddr + size - 1
      PROVE  fl[i.cluster][a] = Blank
  <2> DEFINE d == i.dataAddr
             j == a - d + 1
  <2>1. d \in Nat /\ a \in Nat /\ a \in d .. d + size - 1 /\ size \in Nat BY <1>7, <1>9, Lengths
  <2>2. Empty(fl[i.cluster], d, b) BY <1>6
  <2> HIDE DEF d, i
  <2>3. j \in 1 .. size /\ d + j - 1 = a BY <2>1
  <2>4. fl[i.cluster][d + j - 1] = Blank BY <2>2, <2>3 DEF Empty, size
  <2>5. QED BY <2>3, <2>4
<1>10. QED BY <1>1, <1>2, <1>3, <1>4, <1>6, <1>7, <1>8, <1>9 DEF size

LEMMA EndOfData ==
  ASSUME NEW fl, NEW f, NEW req, Busy(fl, f, req), Serving(fl, f, req), NEW fl2,
         f.job = "FEE_JOB_WRITE_VALIDATE",
         RangeSet(fl, fl2, f.info[f.block].cluster, f.info[f.block].dataAddr,
                  DataCells(f.data, FeeBlockSize[f.block]), FeeBlockSize[f.block]),
         RangePart(fl, fl2, f.info[f.block].cluster, f.info[f.block].dataAddr,
                   DataCells(f.data, FeeBlockSize[f.block]), FeeBlockSize[f.block])
  PROVE  Ready(fl2, JobNotiHandle(JobWriteValidate(Cleared(f))), req)
<1> DEFINE f0 == Cleared(f)
           b == f.block
           i == f.info[b]
           m == SetFlag(i.cluster, i.validHdr, "valid")
           g == Start(f0, m, "FEE_JOB_WRITE_DONE")
<1>1. /\ Writing(f, b) /\ i.status = "FEE_BLOCK_INCONSISTENT" /\ f.data \in Value /\ req.job = "FEE_JOB_WRITE"
      /\ i.dataAddr \in Nat /\ i.dataAddr + FeeBlockSize[b] <= FeeClusterLength
  BY DataPendingIs
<1>2. fl \in Disks /\ RamOK(f) /\ Running(fl, f) /\ f.block \in Block /\ f.status = "MEMIF_BUSY"
  BY BusyIs
<1>3. /\ RamOK(f0) /\ Core(f, f0) /\ f0.status = f.status /\ f0.block = f.block /\ f0.data = f.data
  BY <1>2, ClearedIs
<1> HIDE DEF f0
<1>4. "FEE_JOB_WRITE_DONE" \in JobType BY DEF JobType
<1>5. /\ RamOK(g) /\ Core(f0, g) /\ g.status = f0.status /\ g.job = "FEE_JOB_WRITE_DONE"
      /\ g.result = "MEMIF_JOB_PENDING" /\ g.block = f0.block /\ g.data = f0.data /\ g.mem = m
  BY <1>3, <1>4, StartIs
<1>6. JobWriteValidate(f0) = g BY <1>3 DEF JobWriteValidate, Core
<1> HIDE DEF g
<1>7. Running(fl2, g)
  <2>1. Core(f, g) /\ AtDone(g, b) /\ \A x \in Block \ {b} : ~ Writing(g, x)
    BY <1>2, <1>3, <1>5 DEF Core, AtDone, Writing
  <2>2. NoneAtDone(f) BY NotAtDone
  <2>3. QED BY <1>1, <1>2, <2>1, <2>2, Filled DEF NoneAtDone
<1>8. Holds(fl2[i.cluster], i.dataAddr, b, f.data) BY <1>1, <1>2, FilledHolds
<1>9. Serving(fl2, g, req) BY <1>1, <1>3, <1>5, <1>8 DEF Serving, Core
<1>10. Busy(fl2, g, req) BY <1>3, <1>5, <1>7, BusyIs DEF RangeSet, Busy
<1>11. JobNotiHandle(g) = g BY <1>5, NotiIs, SMTT(30)
<1>12. QED BY <1>6, <1>9, <1>10, <1>11 DEF Ready, Busy, f0

\* The header whose valid flag Fee is about to set.
LEMMA ValidPendingIs ==
  ASSUME NEW fl, NEW f, NEW req, Busy(fl, f, req), Serving(fl, f, req), f.job = "FEE_JOB_WRITE_DONE"
  PROVE  LET b == f.block
             i == f.info[b]
             hdr == fl[i.cluster][i.validHdr]
         IN  /\ f.mem = SetFlag(i.cluster, i.validHdr, "valid")
             /\ AtDone(f, b) /\ i.status = "FEE_BLOCK_INCONSISTENT" /\ f.data \in Value
             /\ Holds(fl[i.cluster], i.dataAddr, b, f.data) /\ req.job = "FEE_JOB_WRITE"
             /\ i.cluster \in Cluster /\ i.cluster = f.cluster /\ i.validHdr \in Address
             /\ i.validHdr \in 1 .. f.hdrAddr - 1 /\ hdr.addr = i.dataAddr
             /\ \A a \in i.validHdr + 1 .. f.hdrAddr - 1 : ~ IsRecord(fl[i.cluster], a, b)
             /\ hdr = [kind |-> "block", block |-> b, addr |-> hdr.addr, valid |-> "erased", invalid |-> "erased"]
             /\ [hdr EXCEPT !.valid = "set"] \in Cell
<1> DEFINE b == f.block
           i == f.info[b]
           k == fl[f.cluster]
           hdr == fl[i.cluster][i.validHdr]
<1>1. /\ f.mem = SetFlag(i.cluster, i.validHdr, "valid")
      /\ req.job = "FEE_JOB_WRITE" /\ i.status = "FEE_BLOCK_INCONSISTENT"
      /\ Holds(fl[i.cluster], i.dataAddr, b, f.data)
  BY ServingIs
<1>2. /\ fl \in Disks /\ RamOK(f) /\ Running(fl, f) /\ f.status = "MEMIF_BUSY" /\ b \in Block /\ f.data \in Value
  BY <1>1, BusyIs
<1>3. Writing(f, b) /\ AtDone(f, b) BY <1>2 DEF Writing, AtDone
<1>4. /\ f.cluster \in Cluster /\ k \in Contents /\ Layout(k, f.hdrAddr) /\ Known(fl, f, b)
  BY <1>2, RunningIs
<1>5. KnownKept(k, f, b) /\ NotInvalidated(fl, f, b) BY <1>1, <1>3, <1>4 DEF Known
<1>6. /\ i.cluster = f.cluster /\ i.validHdr \in 1 .. f.hdrAddr - 1
      /\ IsRecord(k, i.validHdr, b) /\ k[i.validHdr].valid = "erased"
      /\ k[i.validHdr].addr = i.dataAddr
      /\ \A a \in i.validHdr + 1 .. f.hdrAddr - 1 : ~ IsRecord(k, a, b)
  BY <1>5 DEF KnownKept
<1>7. k[i.validHdr].invalid = "erased" BY <1>5, <1>6 DEF NotInvalidated
<1>8. i.validHdr \in Address /\ k[i.validHdr] \in Cell BY <1>4, <1>6, HeaderIs DEF IsRecord
<1>9. /\ hdr = [kind |-> "block", block |-> b, addr |-> hdr.addr, valid |-> "erased", invalid |-> "erased"]
      /\ hdr.addr \in Address
  BY <1>6, <1>7, <1>8, CellIs DEF IsRecord, IsHeader
<1> HIDE DEF hdr
<1>10. [hdr EXCEPT !.valid = "set"] = [kind |-> "block", block |-> b, addr |-> hdr.addr, valid |-> "set", invalid |-> "erased"]
  BY <1>9
<1>11. [hdr EXCEPT !.valid = "set"] \in Cell BY <1>2, <1>9, <1>10, CellsAre DEF Flag
<1>12. QED BY <1>1, <1>2, <1>3, <1>4, <1>6, <1>8, <1>9, <1>11, Zenon DEF hdr

\* The table of the blocks with a new status of block b.
InfoNoted(info, b, s) == [info EXCEPT ![b].status = s]

BlockStatuses == {"FEE_BLOCK_VALID", "FEE_BLOCK_INVALID", "FEE_BLOCK_INCONSISTENT"}

LEMMA NotedIs ==
  ASSUME NEW f, RamOK(f), NEW b \in Block, NEW s \in BlockStatuses
  PROVE  LET g == Noted(f, b, s)
         IN  /\ RamOK(g)
             /\ g.status = f.status /\ g.job = f.job /\ g.result = f.result /\ g.block = f.block
             /\ g.data = f.data /\ g.idx = f.idx /\ g.swap = f.swap /\ g.mem = f.mem
             /\ g.cluster = f.cluster /\ g.useId = f.useId /\ g.hdrAddr = f.hdrAddr /\ g.dataAddr = f.dataAddr
             /\ g.info = InfoNoted(f.info, b, s)
<1> DEFINE info == InfoNoted(f.info, b, s)
           g == Noted(f, b, s)
<1>1. DOMAIN f = RamFields /\ f = [x \in RamFields |-> f[x]] /\ f.info \in [Block -> Infos]
  BY DEF RamOK
<1>2. g = [f EXCEPT !.info = info] BY <1>1 DEF Noted, InfoNoted
<1>3. info \in [Block -> Infos] BY <1>1 DEF Infos, BlockStatuses, InfoNoted
<1> HIDE DEF info, g
<1>4. /\ DOMAIN g = RamFields /\ g.info = info /\ \A x \in RamFields : x # "info" => g[x] = f[x]
  BY <1>1, <1>2 DEF RamFields
<1>5. g = [x \in RamFields |-> g[x]] BY <1>1, <1>2
<1>6. /\ g.status = f.status /\ g.job = f.job /\ g.result = f.result /\ g.block = f.block
      /\ g.data = f.data /\ g.idx = f.idx /\ g.swap = f.swap /\ g.mem = f.mem
      /\ g.cluster = f.cluster /\ g.useId = f.useId /\ g.hdrAddr = f.hdrAddr /\ g.dataAddr = f.dataAddr
  BY <1>4 DEF RamFields
<1>7. RamOK(g) BY <1>3, <1>4, <1>5, <1>6 DEF RamOK
<1>8. QED BY <1>4, <1>6, <1>7 DEF info, g

LEMMA NotedSame ==
  ASSUME NEW f, NEW g, RamOK(f), RamOK(g), Core(f, g), NEW b \in Block, NEW s \in BlockStatuses
  PROVE  Core(Noted(f, b, s), Noted(g, b, s))
<1> DEFINE ff == Noted(f, b, s)
           gg == Noted(g, b, s)
<1>1. /\ ff.cluster = f.cluster /\ ff.useId = f.useId /\ ff.hdrAddr = f.hdrAddr /\ ff.dataAddr = f.dataAddr
      /\ ff.info = InfoNoted(f.info, b, s)
  BY NotedIs
<1>2. /\ gg.cluster = g.cluster /\ gg.useId = g.useId /\ gg.hdrAddr = g.hdrAddr /\ gg.dataAddr = g.dataAddr
      /\ gg.info = InfoNoted(g.info, b, s)
  BY NotedIs
<1> HIDE DEF ff, gg
<1>3. Core(ff, gg) BY <1>1, <1>2 DEF Core
<1>4. QED BY <1>3 DEF ff, gg

LEMMA EndOfValidate ==
  ASSUME NEW fl, NEW f, NEW req, Busy(fl, f, req), Serving(fl, f, req), NEW fl2,
         f.job = "FEE_JOB_WRITE_DONE",
         GetsValid(fl, fl2, f, f.block)
  PROVE  Ready(fl2, JobNotiHandle(JobWriteDone(Cleared(f))), req)
<1> DEFINE f0 == Cleared(f)
           b == f.block
           v == Noted(f0, f0.block, "FEE_BLOCK_VALID")
           g == End(v, "MEMIF_JOB_OK")
<1>1. /\ AtDone(f, b) /\ f.info[b].status = "FEE_BLOCK_INCONSISTENT" /\ f.data \in Value
      /\ Holds(fl[f.info[b].cluster], f.info[b].dataAddr, b, f.data)
  BY ValidPendingIs, Zenon
<1>2. fl \in Disks /\ RamOK(f) /\ RequestOK(req) /\ Running(fl, f) /\ f.block \in Block /\ f.status = "MEMIF_BUSY"
  BY BusyIs
<1>3. /\ RamOK(f0) /\ Core(f, f0) /\ f0.status = f.status /\ f0.block = f.block /\ f0.mem = NoAccess
  BY <1>2, ClearedIs
<1> HIDE DEF f0
<1>4. /\ RamOK(v) /\ v.status = f.status /\ v.mem = NoAccess
      /\ Core(Noted(f, b, "FEE_BLOCK_VALID"), v)
  <2>1. "FEE_BLOCK_VALID" \in BlockStatuses BY DEF BlockStatuses
  <2>2. RamOK(v) /\ v.status = f0.status /\ v.mem = f0.mem BY <1>2, <1>3, <2>1, NotedIs
  <2>3. Core(Noted(f, b, "FEE_BLOCK_VALID"), v) BY <1>2, <1>3, <2>1, NotedSame
  <2>4. QED BY <1>3, <2>2, <2>3
<1> HIDE DEF v
<1>5. /\ RamOK(g) /\ Core(v, g) /\ g.status = v.status /\ g.job = "FEE_JOB_NONE"
      /\ g.result = "MEMIF_JOB_OK" /\ g.mem = v.mem
  BY <1>4, EndIs DEF Results
<1>6. JobWriteDone(f0) = g BY DEF JobWriteDone, v, Noted
<1> HIDE DEF g
<1>7. \A x \in Block : ~ AtDone(g, x) /\ ~ Writing(g, x) BY <1>5 DEF AtDone, Writing
<1>8. Running(fl2, g) BY <1>1, <1>2, <1>4, <1>5, <1>7, Validated DEF Core
<1>9. fl2 \in Disks BY Zenon DEF GetsValid, CellSet
<1>10. QED BY <1>2, <1>4, <1>5, <1>6, <1>7, <1>8, <1>9, Finished DEF f0

LEMMA EndOfInvalidate ==
  ASSUME NEW fl, NEW f, NEW req, Busy(fl, f, req), Serving(fl, f, req), NEW fl2,
         f.job = "FEE_JOB_INVAL_BLOCK_DONE",
         GetsInvalid(fl, fl2, f, f.block)
  PROVE  Ready(fl2, JobNotiHandle(JobInvalBlockDone(Cleared(f))), req)
<1> DEFINE f0 == Cleared(f)
           b == f.block
           v == Noted(f0, f0.block, "FEE_BLOCK_INVALID")
           g == End(v, "MEMIF_JOB_OK")
<1>1. f.info[b].status # "FEE_BLOCK_INVALID" /\ Own(fl, f, b) BY ServingIs
<1>2. fl \in Disks /\ RamOK(f) /\ RequestOK(req) /\ Running(fl, f) /\ f.block \in Block /\ f.status = "MEMIF_BUSY"
  BY BusyIs
<1>3. /\ RamOK(f0) /\ Core(f, f0) /\ f0.status = f.status /\ f0.block = f.block /\ f0.mem = NoAccess
  BY <1>2, ClearedIs
<1> HIDE DEF f0
<1>4. /\ RamOK(v) /\ v.status = f.status /\ v.mem = NoAccess
      /\ Core(Noted(f, b, "FEE_BLOCK_INVALID"), v)
  <2>1. "FEE_BLOCK_INVALID" \in BlockStatuses BY DEF BlockStatuses
  <2>2. RamOK(v) /\ v.status = f0.status /\ v.mem = f0.mem BY <1>2, <1>3, <2>1, NotedIs
  <2>3. Core(Noted(f, b, "FEE_BLOCK_INVALID"), v) BY <1>2, <1>3, <2>1, NotedSame
  <2>4. QED BY <1>3, <2>2, <2>3
<1> HIDE DEF v
<1>5. /\ RamOK(g) /\ Core(v, g) /\ g.status = v.status /\ g.job = "FEE_JOB_NONE"
      /\ g.result = "MEMIF_JOB_OK" /\ g.mem = v.mem
  BY <1>4, EndIs DEF Results
<1>6. JobInvalBlockDone(f0) = g BY DEF JobInvalBlockDone, v, Noted
<1> HIDE DEF g
<1>7. \A x \in Block : ~ AtDone(g, x) /\ ~ Writing(g, x) BY <1>5 DEF AtDone, Writing
<1>8. Running(fl2, g) BY <1>1, <1>2, <1>4, <1>5, <1>7, NotAtDone, Invalidated DEF Core, NoneAtDone
<1>9. fl2 \in Disks BY Zenon DEF GetsInvalid, CellSet
<1>10. QED BY <1>2, <1>4, <1>5, <1>6, <1>7, <1>8, <1>9, Finished DEF f0

-----------------------------------------------------------------------------
(* A flash request of the scan has ended. *)

\* Fee scans the flash.
ScanBusy(fl, f) ==
  /\ fl \in Disks /\ RamOK(f) /\ f.status = "MEMIF_BUSY_INTERNAL" /\ f.result = "MEMIF_JOB_PENDING"
  /\ Scanning(fl, f)

LEMMA ScanningIs ==
  ASSUME NEW fl, NEW f, Scanning(fl, f)
  PROVE  /\ f.job = "FEE_JOB_INT_SCAN" => f.mem = NoAccess /\ Disk(fl) /\ Unseen(f) /\ f.useId = 0
         /\ f.job = "FEE_JOB_INT_SCAN_CLUSTER_HDR_GET" =>
              f.mem = Read(f.idx, 0, 1) /\ Disk(fl) /\ Unseen(f) /\ SeenClusters(fl, f)
         /\ f.job = "FEE_JOB_INT_SCAN_CLUSTER_CLEAR" =>
              f.mem = Erase(0) /\ f.idx = 0 /\ NoneValid(fl) /\ Unseen(f)
         /\ f.job = "FEE_JOB_INT_SCAN_CLUSTER_CLEAR_DONE" =>
              /\ f.mem = Program(0, 0, <<ClusterHdr(1, "set")>>) /\ f.idx = 0
              /\ NoneValid(fl) /\ Unseen(f) /\ \A a \in Address : fl[0][a] = Blank
         /\ f.job = "FEE_JOB_INT_SCAN_BLOCK_HDR_GET" =>
              /\ f.mem = Read(f.cluster, f.hdrAddr, 1)
              /\ Current(fl, f.cluster, f.useId)
              /\ \E h \in Address : Layout(fl[f.cluster], h) /\ f.hdrAddr \in 1 .. h
              /\ Low(fl[f.cluster], f.hdrAddr, f.dataAddr)
              /\ \A b \in Block : Known(fl, f, b) /\ f.info[b].status # "FEE_BLOCK_INCONSISTENT"
         /\ f.job \in {"FEE_JOB_INT_SCAN", "FEE_JOB_INT_SCAN_CLUSTER_HDR_GET", "FEE_JOB_INT_SCAN_CLUSTER_CLEAR",
                       "FEE_JOB_INT_SCAN_CLUSTER_CLEAR_DONE", "FEE_JOB_INT_SCAN_BLOCK_HDR_GET"}
BY DEF Scanning

\* Fee goes on with the scan.
LEMMA ScanGoesOn ==
  ASSUME NEW fl, NEW f, NEW m, NEW job \in JobType, fl \in Disks, RamOK(f), f.status = "MEMIF_BUSY_INTERNAL",
         Scanning(fl, Start(f, m, job))
  PROVE  Ready(fl, JobNotiHandle(Start(f, m, job)), NoRequest)
<1> DEFINE g == Start(f, m, job)
<1>1. RamOK(g) /\ g.status = f.status /\ g.result = "MEMIF_JOB_PENDING" BY StartIs
<1> HIDE DEF g
<1>2. JobNotiHandle(g) = g BY <1>1, NotiIs
<1>3. RequestOK(NoRequest) BY DEF RequestOK
<1>4. QED BY <1>1, <1>2, <1>3 DEF Ready, g

LEMMA ValidHeader ==
  ASSUME NEW k \in Contents, ValidCluster(k)
  PROVE  k[0].use \in Nat /\ k[0].kind = "cluster" /\ k[0].valid = "set"
BY Lengths, CellIs DEF Contents, ValidCluster, UnpackClusterHdr

LEMMA FirstHeader ==
  ASSUME NEW fl, NEW f, f.hdrAddr = 1, Unseen(f)
  PROVE  \A b \in Block : Known(fl, f, b) /\ f.info[b].status # "FEE_BLOCK_INCONSISTENT"
BY DEF Unseen, Known, KnownInvalid

LEMMA FirstLow ==
  ASSUME NEW k
  PROVE  Low(k, 1, FeeClusterLength)
BY Lengths DEF Low

\* The blocks that were seen, and those that will be.
LEMMA SeenMore ==
  ASSUME NEW fl \in Disks, NEW f, RamOK(f), SeenClusters(fl, f), NEW g,
         IF ValidCluster(fl[f.idx]) /\ fl[f.idx][0].use > f.useId
         THEN g.useId = fl[f.idx][0].use /\ g.cluster = f.idx
         ELSE g.useId = f.useId /\ g.cluster = f.cluster
  PROVE  /\ \A d \in 0 .. f.idx : ValidCluster(fl[d]) => fl[d][0].use <= g.useId
         /\ g.useId # 0 => ValidCluster(fl[g.cluster]) /\ fl[g.cluster][0].use = g.useId
         /\ g.useId \in Nat /\ g.cluster \in Cluster
<1>1. f.idx \in Nat /\ f.idx \in Cluster /\ f.useId \in Nat /\ f.cluster \in Cluster
  BY Numbers DEF RamOK
<1>2. ASSUME NEW d \in 0 .. f.idx, ValidCluster(fl[d])
      PROVE  fl[d][0].use \in Nat
  BY <1>1, <1>2, Numbers, ValidHeader DEF Disks
<1>3. \A d \in 0 .. f.idx : d = f.idx \/ d \in 0 .. f.idx - 1 BY <1>1
<1>4. CASE ValidCluster(fl[f.idx]) /\ fl[f.idx][0].use > f.useId
  BY <1>1, <1>2, <1>3, <1>4 DEF SeenClusters
<1>5. CASE ~ (ValidCluster(fl[f.idx]) /\ fl[f.idx][0].use > f.useId)
  BY <1>1, <1>2, <1>3, <1>5 DEF SeenClusters
<1>6. QED BY <1>4, <1>5

\* Once all clusters were seen, the best one is the current one.
LEMMA SeenAll ==
  ASSUME NEW fl \in Disks, Disk(fl), NEW u \in Nat, NEW c \in Cluster,
         \A d \in Cluster : ValidCluster(fl[d]) => fl[d][0].use <= u,
         u # 0 => ValidCluster(fl[c]) /\ fl[c][0].use = u
  PROVE  /\ u = 0 => NoneValid(fl)
         /\ u # 0 => Current(fl, c, u) /\ \E h \in Address : Layout(fl[c], h)
<1>1. CASE NoneValid(fl) BY <1>1 DEF NoneValid
<1>2. CASE \E d \in Cluster : Current(fl, d, fl[d][0].use) /\ \E h \in Address : Layout(fl[d], h)
  <2>1. PICK d \in Cluster : Current(fl, d, fl[d][0].use) /\ \E h \in Address : Layout(fl[d], h)
    BY <1>2
  <2> DEFINE v == fl[d][0].use
  <2>2. ValidCluster(fl[d]) /\ v > 0 /\ v \in Nat /\ v <= u BY <2>1, ValidHeader DEF Current, Disks
  <2>3. u # 0 BY <2>2
  <2>4. c = d BY <2>1, <2>2, <2>3 DEF Current
  <2>5. QED BY <2>1, <2>3, <2>4
<1>3. QED BY <1>1, <1>2 DEF Disk

\* The best cluster was found, or there is none.
LEMMA ClusterFound ==
  ASSUME NEW fl \in Disks, NEW f, RamOK(f), f.status = "MEMIF_BUSY_INTERNAL", f.idx = 0, Unseen(f),
         f.useId = 0 => NoneValid(fl),
         f.useId # 0 => Current(fl, f.cluster, f.useId) /\ \E h \in Address : Layout(fl[f.cluster], h)
  PROVE  Ready(fl, JobNotiHandle(JobIntScanClusterDone(f)), NoRequest)
<1>1. CASE f.useId = 0
  <2> DEFINE g == [f EXCEPT !.idx = 0]
             n == Start(g, Erase(0), "FEE_JOB_INT_SCAN_CLUSTER_CLEAR")
  <2>1. JobIntScanClusterDone(f) = n BY <1>1 DEF JobIntScanClusterDone
  <2>2. RamOK(g) /\ g.idx = 0 /\ g.info = f.info /\ g.status = f.status BY DEF RamOK, RamFields
  <2> HIDE DEF g
  <2>3. "FEE_JOB_INT_SCAN_CLUSTER_CLEAR" \in JobType BY DEF JobType
  <2>4. n.job = "FEE_JOB_INT_SCAN_CLUSTER_CLEAR" /\ n.mem = Erase(0) /\ n.idx = 0 /\ n.info = f.info
    BY <2>2, <2>3, StartIs DEF Core
  <2> HIDE DEF n
  <2>5. Scanning(fl, n) BY <1>1, <2>4 DEF Scanning, Unseen
  <2>6. QED BY <2>1, <2>2, <2>3, <2>5, ScanGoesOn DEF n
<1>2. CASE f.useId # 0
  <2> DEFINE g == [f EXCEPT !.hdrAddr = 1, !.dataAddr = FeeClusterLength]
             n == Start(g, Read(g.cluster, g.hdrAddr, 1), "FEE_JOB_INT_SCAN_BLOCK_HDR_GET")
  <2>1. JobIntScanClusterDone(f) = n BY <1>2 DEF JobIntScanClusterDone, JobIntScanBlockHdrRead
  <2>2. /\ RamOK(g) /\ g.hdrAddr = 1 /\ g.dataAddr = FeeClusterLength /\ g.info = f.info
        /\ g.status = f.status /\ g.cluster = f.cluster /\ g.useId = f.useId
    <3>1. 1 \in Address /\ FeeClusterLength \in 0 .. FeeClusterLength BY Lengths
    <3>2. QED BY <3>1 DEF RamOK, RamFields
  <2> HIDE DEF g
  <2>3. "FEE_JOB_INT_SCAN_BLOCK_HDR_GET" \in JobType BY DEF JobType
  <2>4. /\ n.job = "FEE_JOB_INT_SCAN_BLOCK_HDR_GET" /\ n.mem = Read(n.cluster, n.hdrAddr, 1)
        /\ n.cluster = f.cluster /\ n.useId = f.useId /\ n.hdrAddr = 1 /\ n.dataAddr = FeeClusterLength
        /\ n.info = f.info
    BY <2>2, <2>3, StartIs DEF Core
  <2> HIDE DEF n
  <2>5. Unseen(n) BY <2>4 DEF Unseen
  <2>6. \A b \in Block : Known(fl, n, b) /\ n.info[b].status # "FEE_BLOCK_INCONSISTENT"
    BY <2>4, <2>5, FirstHeader
  <2>7. Low(fl[n.cluster], n.hdrAddr, n.dataAddr) BY <2>4, FirstLow
  <2>8. \E h \in Address : Layout(fl[n.cluster], h) /\ n.hdrAddr \in 1 .. h
    BY <1>2, <2>4, Lengths DEF Layout
  <2>9. Current(fl, n.cluster, n.useId) BY <1>2, <2>4
  <2>10. Scanning(fl, n) BY <2>4, <2>6, <2>7, <2>8, <2>9 DEF Scanning
  <2>11. QED BY <2>1, <2>2, <2>3, <2>10, ScanGoesOn DEF n
<1>3. QED BY <1>1, <1>2

LEMMA EndOfClusterHdr ==
  ASSUME NEW fl, NEW f, ScanBusy(fl, f), f.job = "FEE_JOB_INT_SCAN_CLUSTER_HDR_GET"
  PROVE  Ready(fl, JobNotiHandle(JobIntScanClusterHdrGet(Cleared(f), <<fl[f.idx][0]>>)), NoRequest)
<1> DEFINE f0 == Cleared(f)
           k == fl[f.idx]
           newer == ValidCluster(k) /\ k[0].use > f.useId
           g == IF newer THEN [f0 EXCEPT !.useId = k[0].use, !.cluster = f.idx] ELSE f0
<1>1. /\ fl \in Disks /\ RamOK(f) /\ f.status = "MEMIF_BUSY_INTERNAL" /\ Disk(fl) /\ Unseen(f) /\ SeenClusters(fl, f)
  BY ScanningIs DEF ScanBusy
<1>2. /\ RamOK(f0) /\ Core(f, f0) /\ f0.status = f.status /\ f0.idx = f.idx BY <1>1, ClearedIs
<1>3. f.idx \in Cluster /\ f.idx \in 0 .. ClusterCount - 1 /\ ClusterCount \in Nat /\ ClusterCount > 1 /\ 0 \in Cluster
  BY <1>1, Numbers DEF RamOK
<1>4. k \in Contents /\ (newer => k[0].use \in Nat) BY <1>1, <1>3, ValidHeader DEF Disks
<1> HIDE DEF f0, k
<1>5. /\ RamOK(g) /\ g.status = f.status /\ g.info = f.info
      /\ IF newer THEN g.useId = k[0].use /\ g.cluster = f.idx ELSE g.useId = f.useId /\ g.cluster = f.cluster
  <2>1. CASE newer
    <3> DEFINE use == k[0].use
    <3>1. g = [f0 EXCEPT !.useId = use, !.cluster = f.idx] /\ use \in Nat BY <1>4, <2>1
    <3> HIDE DEF use
    <3>2. RamOK(g) /\ g.status = f0.status /\ g.info = f0.info /\ g.useId = use /\ g.cluster = f.idx
      BY <1>2, <1>3, <3>1 DEF RamOK, RamFields
    <3>3. QED BY <1>2, <2>1, <3>2 DEF use, Core
  <2>2. CASE ~ newer BY <1>2, <2>2 DEF Core
  <2>3. QED BY <2>1, <2>2
<1> DEFINE next == IF f.idx + 1 = ClusterCount THEN JobIntScanClusterDone([g EXCEPT !.idx = 0])
                   ELSE JobIntScanClusterHdrRead([g EXCEPT !.idx = f.idx + 1])
<1>6. JobIntScanClusterHdrGet(f0, <<k[0]>>) = next
  BY <1>2 DEF Core, JobIntScanClusterHdrGet, ValidCluster
<1>7. /\ \A d \in 0 .. f.idx : ValidCluster(fl[d]) => fl[d][0].use <= g.useId
      /\ g.useId # 0 => ValidCluster(fl[g.cluster]) /\ fl[g.cluster][0].use = g.useId
      /\ g.useId \in Nat /\ g.cluster \in Cluster
  <2> HIDE DEF g
  <2>1. QED BY <1>1, <1>5, SeenMore DEF k
<1> HIDE DEF g
<1>8. CASE f.idx + 1 = ClusterCount
  <2> DEFINE n == [g EXCEPT !.idx = 0]
  <2>1. RamOK(n) /\ n.idx = 0 /\ n.info = f.info /\ n.status = f.status /\ n.useId = g.useId /\ n.cluster = g.cluster
    BY <1>3, <1>5 DEF RamOK, RamFields
  <2> HIDE DEF n
  <2>2. Unseen(n) BY <1>1, <2>1 DEF Unseen
  <2>3. \A d \in Cluster : ValidCluster(fl[d]) => fl[d][0].use <= g.useId
    BY <1>3, <1>7, <1>8, Numbers
  <2>4. /\ g.useId = 0 => NoneValid(fl)
        /\ g.useId # 0 => Current(fl, g.cluster, g.useId) /\ \E h \in Address : Layout(fl[g.cluster], h)
    BY <1>1, <1>7, <2>3, SeenAll
  <2>5. Ready(fl, JobNotiHandle(JobIntScanClusterDone(n)), NoRequest)
    BY <1>1, <2>1, <2>2, <2>4, ClusterFound
  <2>6. QED BY <1>6, <1>8, <2>5 DEF n, f0, k
<1>9. CASE f.idx + 1 # ClusterCount
  <2> DEFINE i == f.idx + 1
             h == [g EXCEPT !.idx = i]
             n == Start(h, Read(h.idx, 0, 1), "FEE_JOB_INT_SCAN_CLUSTER_HDR_GET")
  <2>1. i \in Cluster /\ i - 1 = f.idx BY <1>3, <1>9, Numbers
  <2>2. next = n BY <1>9 DEF JobIntScanClusterHdrRead
  <2> HIDE DEF i
  <2>3. RamOK(h) /\ h.idx = i /\ h.info = f.info /\ h.status = f.status /\ h.useId = g.useId /\ h.cluster = g.cluster
    BY <1>5, <2>1 DEF RamOK, RamFields
  <2> HIDE DEF h
  <2>4. "FEE_JOB_INT_SCAN_CLUSTER_HDR_GET" \in JobType BY DEF JobType
  <2>5. /\ n.job = "FEE_JOB_INT_SCAN_CLUSTER_HDR_GET" /\ n.mem = Read(n.idx, 0, 1) /\ n.idx = i
        /\ n.info = f.info /\ n.useId = g.useId /\ n.cluster = g.cluster
    BY <2>3, <2>4, StartIs DEF Core
  <2> HIDE DEF n
  <2>6. SeenClusters(fl, n) /\ Unseen(n) BY <1>1, <1>7, <2>1, <2>5 DEF SeenClusters, Unseen
  <2>7. Scanning(fl, n) BY <1>1, <2>5, <2>6 DEF Scanning
  <2>8. QED BY <1>1, <1>6, <2>2, <2>3, <2>4, <2>7, ScanGoesOn DEF n, f0, k
<1>10. QED BY <1>8, <1>9

LEMMA NoBlankValid ==
  ASSUME NEW k, k[0] \in {Blank, Torn}
  PROVE  ~ ValidCluster(k)
BY DEF ValidCluster, UnpackClusterHdr, Blank, Torn

LEMMA EndOfScanErase ==
  ASSUME NEW fl, NEW f, ScanBusy(fl, f), f.job = "FEE_JOB_INT_SCAN_CLUSTER_CLEAR", NEW fl2 \in Disks,
         Others(fl, fl2, 0), \A a \in Address : fl2[0][a] = Blank
  PROVE  Ready(fl2, JobNotiHandle(JobIntScanClusterClear(Cleared(f))), NoRequest)
<1> DEFINE f0 == Cleared(f)
           n == Start(f0, Program(f0.idx, 0, <<ClusterHdr(1, "set")>>), "FEE_JOB_INT_SCAN_CLUSTER_CLEAR_DONE")
<1>1. /\ fl \in Disks /\ RamOK(f) /\ f.status = "MEMIF_BUSY_INTERNAL" /\ f.idx = 0 /\ NoneValid(fl) /\ Unseen(f)
  BY ScanningIs DEF ScanBusy
<1>2. /\ RamOK(f0) /\ Core(f, f0) /\ f0.status = f.status /\ f0.idx = f.idx BY <1>1, ClearedIs
<1> HIDE DEF f0
<1>3. JobIntScanClusterClear(f0) = n BY DEF JobIntScanClusterClear
<1>4. "FEE_JOB_INT_SCAN_CLUSTER_CLEAR_DONE" \in JobType BY DEF JobType
<1>5. /\ n.job = "FEE_JOB_INT_SCAN_CLUSTER_CLEAR_DONE" /\ n.mem = Program(0, 0, <<ClusterHdr(1, "set")>>)
      /\ n.idx = 0 /\ n.info = f.info
  BY <1>1, <1>2, <1>4, StartIs DEF Core
<1> HIDE DEF n
<1>6. NoneValid(fl2) BY <1>1, Lengths, NoBlankValid DEF NoneValid, Others
<1>7. Scanning(fl2, n) BY <1>1, <1>5, <1>6 DEF Scanning, Unseen
<1>8. QED BY <1>1, <1>2, <1>3, <1>4, <1>7, ScanGoesOn DEF n, f0

LEMMA EndOfFormat ==
  ASSUME NEW fl, NEW f, ScanBusy(fl, f), f.job = "FEE_JOB_INT_SCAN_CLUSTER_CLEAR_DONE", NEW fl2,
         CellSet(fl, fl2, 0, 0, ClusterHdr(1, "set"))
  PROVE  Ready(fl2, JobNotiHandle(JobIntScanClusterClearDone(Cleared(f))), NoRequest)
<1> DEFINE f0 == Cleared(f)
           g == [f0 EXCEPT !.cluster = f0.idx, !.useId = 1, !.hdrAddr = 1, !.dataAddr = FeeClusterLength]
           n == End(g, "MEMIF_JOB_OK")
           e == Idled(n)
<1>1. /\ fl \in Disks /\ RamOK(f) /\ f.status = "MEMIF_BUSY_INTERNAL" /\ f.idx = 0 /\ NoneValid(fl) /\ Unseen(f)
      /\ \A a \in Address : fl[0][a] = Blank
  BY ScanningIs DEF ScanBusy
<1>2. /\ RamOK(f0) /\ Core(f, f0) /\ f0.status = f.status /\ f0.idx = f.idx /\ f0.mem = NoAccess
  BY <1>1, ClearedIs
<1> HIDE DEF f0
<1>3. /\ RamOK(g) /\ g.info = f0.info /\ g.cluster = f0.idx /\ g.useId = 1 /\ g.hdrAddr = 1
      /\ g.dataAddr = FeeClusterLength /\ g.mem = f0.mem
  <2>1. 1 \in Address /\ FeeClusterLength \in 0 .. FeeClusterLength /\ 1 \in Nat BY Lengths
  <2>2. QED BY <1>2, <2>1 DEF RamOK, RamFields
<1>4. JobIntScanClusterClearDone(f0) = n BY DEF JobIntScanClusterClearDone
<1> HIDE DEF g
<1>5. RamOK(n) /\ Core(g, n) /\ n.result = "MEMIF_JOB_OK" /\ n.mem = g.mem
  BY <1>3, EndIs DEF Results
<1> HIDE DEF n
<1>6. JobNotiHandle(n) = e BY <1>5, NotiIs
<1>7. RamOK(e) /\ Core(n, e) /\ e.status = "MEMIF_IDLE" /\ e.result = n.result /\ e.mem = n.mem
  BY <1>5, IdledIs
<1> HIDE DEF e
<1>8. /\ e.cluster = 0 /\ e.useId = 1 /\ e.hdrAddr = 1 /\ e.dataAddr = FeeClusterLength /\ e.info = f.info
  BY <1>1, <1>2, <1>3, <1>5, <1>7 DEF Core
<1>9. fl2 \in Disks /\ 0 \in Cluster /\ fl2[0] \in Contents BY Numbers DEF CellSet, Disks
<1>10. Current(fl2, 0, 1)
  BY <1>1, <1>9 DEF CellSet, ClusterHdr, ValidCluster, UnpackClusterHdr, Others, NoneValid, Current
<1>11. Layout(fl2[0], 1) /\ Low(fl2[0], 1, FeeClusterLength)
  BY <1>1, <1>9, Lengths, ErasedLayout DEF CellSet
<1>12. \A b \in Block : Known(fl2, e, b) BY <1>1, <1>8, FirstHeader DEF Unseen
<1>13. Running(fl2, e) BY <1>8, <1>10, <1>11, <1>12 DEF Running
<1>14. RequestOK(NoRequest) BY DEF RequestOK
<1>15. QED BY <1>2, <1>3, <1>4, <1>5, <1>6, <1>7, <1>9, <1>13, <1>14 DEF Ready, f0

(* What NoteRecord makes of the table: the record is noted unless the block  *)
(* has a valid one and this one is not.                                      *)
RecordNoted(f, g, hdr, s) ==
  LET b == hdr.block
      replaces == f.info[b].status # "FEE_BLOCK_VALID" \/ s = "FEE_BLOCK_VALID"
  IN  /\ RamOK(g)
      /\ g.status = f.status /\ g.cluster = f.cluster /\ g.useId = f.useId /\ g.hdrAddr = f.hdrAddr
      /\ g.dataAddr = hdr.addr
      /\ \A x \in Block : x # b => g.info[x] = f.info[x]
      /\ g.info[b] = IF replaces THEN [status |-> s, cluster |-> f.cluster, dataAddr |-> hdr.addr,
                                       validHdr |-> f.hdrAddr]
                     ELSE f.info[b]

LEMMA NoteRecordIs ==
  ASSUME NEW f, RamOK(f), NEW hdr, hdr.block \in Block, hdr.addr \in Address, Plausible(f, hdr),
         NEW s \in BlockStatuses
  PROVE  RecordNoted(f, NoteRecord(f, hdr, s), hdr, s)
<1> DEFINE b == hdr.block
           addr == hdr.addr
           replaces == f.info[b].status # "FEE_BLOCK_VALID" \/ s = "FEE_BLOCK_VALID"
           rec == [status |-> s, cluster |-> f.cluster, dataAddr |-> addr, validHdr |-> f.hdrAddr]
           info == IF replaces THEN [f.info EXCEPT ![b] = rec] ELSE f.info
           g == NoteRecord(f, hdr, s)
<1>1. DOMAIN f = RamFields /\ f = [x \in RamFields |-> f[x]] /\ f.info \in [Block -> Infos]
  BY DEF RamOK
<1>2. g = [f EXCEPT !.info = info, !.dataAddr = addr] BY <1>1 DEF NoteRecord, RamFields
<1>3. info \in [Block -> Infos] BY <1>1 DEF Infos, BlockStatuses, RamOK
<1>4. /\ \A x \in Block : x # b => info[x] = f.info[x]
      /\ info[b] = IF replaces THEN rec ELSE f.info[b]
  BY <1>1
<1>5. addr \in 0 .. FeeClusterLength BY Lengths
<1> HIDE DEF info, g
<1>6. /\ DOMAIN g = RamFields /\ g.info = info /\ g.dataAddr = addr
      /\ \A x \in RamFields : x \notin {"info", "dataAddr"} => g[x] = f[x]
  BY <1>1, <1>2 DEF RamFields
<1>7. g = [x \in RamFields |-> g[x]] BY <1>1, <1>2
<1>8. /\ g.status = f.status /\ g.job = f.job /\ g.result = f.result /\ g.block = f.block
      /\ g.data = f.data /\ g.idx = f.idx /\ g.swap = f.swap
      /\ g.cluster = f.cluster /\ g.useId = f.useId /\ g.hdrAddr = f.hdrAddr
  BY <1>6 DEF RamFields
<1>9. RamOK(g) BY <1>3, <1>5, <1>6, <1>7, <1>8 DEF RamOK
<1>10. QED BY <1>4, <1>6, <1>8, <1>9 DEF RecordNoted, g

\* The scan of the headers goes on behind this one.
LEMMA NextHeader ==
  ASSUME NEW fl \in Disks, NEW f, RamOK(f), f.status = "MEMIF_BUSY_INTERNAL", NEW h \in Address,
         Current(fl, f.cluster, f.useId), Layout(fl[f.cluster], h), f.hdrAddr \in 1 .. h - 1,
         Low(fl[f.cluster], f.hdrAddr + 1, f.dataAddr),
         \A b \in Block : f.info[b].status # "FEE_BLOCK_INCONSISTENT",
         \A b \in Block : f.info[b].status = "FEE_BLOCK_VALID" =>
           KnownValid(fl[f.cluster], [f EXCEPT !.hdrAddr = f.hdrAddr + 1], b),
         \A b \in Block : f.info[b].status = "FEE_BLOCK_INVALID" =>
           \A a \in 1 .. f.hdrAddr : ~ IsValid(fl[f.cluster], a, b)
  PROVE  Ready(fl, JobNotiHandle(JobIntScanBlockHdrRead([f EXCEPT !.hdrAddr = f.hdrAddr + 1])), NoRequest)
<1> DEFINE p == f.hdrAddr + 1
           g == [f EXCEPT !.hdrAddr = p]
           n == Start(g, Read(g.cluster, g.hdrAddr, 1), "FEE_JOB_INT_SCAN_BLOCK_HDR_GET")
<1>1. p \in Address /\ p \in Nat /\ p \in 1 .. h /\ f.hdrAddr = p - 1 BY Lengths
<1>2. /\ RamOK(g) /\ g.hdrAddr = p /\ g.dataAddr = f.dataAddr /\ g.info = f.info
      /\ g.status = f.status /\ g.cluster = f.cluster /\ g.useId = f.useId
  <2> HIDE DEF p
  <2>1. QED BY <1>1 DEF RamOK, RamFields
<1>3. JobIntScanBlockHdrRead(g) = n BY DEF JobIntScanBlockHdrRead
<1>4. \A b \in Block : f.info[b].status = "FEE_BLOCK_VALID" => KnownValid(fl[f.cluster], g, b)
  OBVIOUS
<1> HIDE DEF g, p
<1>5. "FEE_JOB_INT_SCAN_BLOCK_HDR_GET" \in JobType BY DEF JobType
<1>6. /\ n.job = "FEE_JOB_INT_SCAN_BLOCK_HDR_GET" /\ n.mem = Read(n.cluster, n.hdrAddr, 1)
      /\ n.cluster = f.cluster /\ n.useId = f.useId /\ n.hdrAddr = p /\ n.dataAddr = f.dataAddr
      /\ n.info = f.info
  BY <1>2, <1>5, StartIs DEF Core
<1> HIDE DEF n
<1>7. Low(fl[n.cluster], n.hdrAddr, n.dataAddr) BY <1>6 DEF p
<1>8. ASSUME NEW b \in Block
      PROVE  Known(fl, n, b) /\ n.info[b].status # "FEE_BLOCK_INCONSISTENT"
  BY <1>1, <1>2, <1>4, <1>6 DEF KnownValid, KnownInvalid, Known
<1>9. Scanning(fl, n) BY <1>1, <1>6, <1>7, <1>8 DEF Scanning
<1>10. Ready(fl, JobNotiHandle(n), NoRequest) BY <1>2, <1>5, <1>9, ScanGoesOn DEF n
<1>11. QED BY <1>3, <1>10 DEF g, p

LEMMA LayoutEnd ==
  ASSUME NEW k, NEW h, Layout(k, h)
  PROVE  h \in Address /\ h \in Nat /\ k[h] = Blank
BY Lengths DEF Layout

\* The scan has read the first erased header.
LEMMA ScanEnds ==
  ASSUME NEW fl \in Disks, NEW f, RamOK(f), f.mem = NoAccess,
         Running(fl, f), f.status # "MEMIF_BUSY"
  PROVE  Ready(fl, JobNotiHandle(End(f, "MEMIF_JOB_OK")), NoRequest)
<1> DEFINE n == End(f, "MEMIF_JOB_OK")
           e == Idled(n)
<1>1. RamOK(n) /\ Core(f, n) /\ n.result = "MEMIF_JOB_OK" /\ n.mem = f.mem BY EndIs DEF Results
<1> HIDE DEF n
<1>2. JobNotiHandle(n) = e BY <1>1, NotiIs
<1>3. RamOK(e) /\ Core(n, e) /\ e.status = "MEMIF_IDLE" /\ e.result = n.result /\ e.mem = n.mem
  BY <1>1, IdledIs
<1> HIDE DEF e
<1>4. Running(fl, e) BY <1>1, <1>3, NotAtDone, IdleRuns DEF Core, NoneAtDone
<1>5. RequestOK(NoRequest) BY DEF RequestOK
<1>6. QED BY <1>1, <1>2, <1>3, <1>4, <1>5 DEF Ready, n

\* The header behind those that were seen leaves room for the data.
LEMMA SeenPlausible ==
  ASSUME NEW k \in Contents, NEW h, Layout(k, h), NEW p \in 1 .. h - 1, NEW d, Low(k, p, d), IsHeader(k, p)
  PROVE  /\ k[p].block \in Block /\ k[p].addr \in Address
         /\ k[p].addr <= d - FeeBlockSize[k[p].block] /\ k[p].addr >= p + 2
         /\ Low(k, p + 1, k[p].addr)
<1> DEFINE b == k[p].block
           addr == k[p].addr
           size == FeeBlockSize[b]
<1>1. /\ p \in Nat /\ h \in Nat /\ p < h /\ b \in Block /\ addr \in Address /\ addr \in Nat /\ size \in Nat /\ size >= 1
      /\ addr >= p + 2 /\ addr + size <= FeeClusterLength /\ addr > h
  BY HeaderIs
<1>2. d \in Nat /\ d <= FeeClusterLength /\ FeeClusterLength \in Nat BY <1>1, Lengths DEF Low
<1>3. ASSUME NEW a \in 1 .. p - 1, IsHeader(k, a)
      PROVE  addr + size <= k[a].addr /\ k[a].addr \in Nat
  BY <1>1, <1>3, HeaderIs DEF Layout
<1> HIDE DEF b, size
<1>4. addr + size <= d BY <1>1, <1>3 DEF Low
<1>5. Low(k, p + 1, addr) BY <1>1, <1>3, Lengths, SMTT(30) DEF Low
<1>6. QED BY <1>1, <1>2, <1>4, <1>5 DEF b, size

\* A header that is no record changes nothing.
LEMMA SkipsTorn ==
  ASSUME NEW k \in Contents, NEW h, Layout(k, h), NEW p \in 1 .. h - 1, NEW d, Low(k, p, d), ~ IsHeader(k, p)
  PROVE  Low(k, p + 1, d)
<1>1. p \in Nat /\ h \in Nat /\ p < h /\ h < FeeClusterLength /\ FeeClusterLength \in Nat
  BY Lengths DEF Layout
<1>2. d \in p + 1 + 1 .. FeeClusterLength
  <2>1. d \in p + 1 .. FeeClusterLength BY DEF Low
  <2>2. CASE d = FeeClusterLength BY <1>1, <2>2
  <2>3. CASE \E a \in 1 .. p - 1 : IsHeader(k, a) /\ k[a].addr = d
    <3>1. PICK a \in 1 .. p - 1 : IsHeader(k, a) /\ k[a].addr = d BY <2>3
    <3>2. a \in 1 .. h - 1 BY <1>1
    <3>3. d > h BY <3>1, <3>2 DEF Layout
    <3>4. QED BY <1>1, <2>1, <3>3
  <2>4. QED BY <2>2, <2>3 DEF Low
<1>3. \A a \in 1 .. p + 1 - 1 : a = p \/ a \in 1 .. p - 1 BY <1>1
<1>4. \A a \in 1 .. p - 1 : a \in 1 .. p + 1 - 1 BY <1>1, SMTT(30)
<1>5. QED BY <1>2, <1>3, <1>4 DEF Low

\* A record whose header is scanned is noted, or stays behind an older valid one.
LEMMA ScanRecord ==
  ASSUME NEW fl \in Disks, NEW f, RamOK(f), f.status = "MEMIF_BUSY_INTERNAL", NEW h \in Address,
         Current(fl, f.cluster, f.useId), Layout(fl[f.cluster], h), f.hdrAddr \in 1 .. h - 1,
         Low(fl[f.cluster], f.hdrAddr, f.dataAddr),
         \A b \in Block : Known(fl, f, b) /\ f.info[b].status # "FEE_BLOCK_INCONSISTENT",
         IsHeader(fl[f.cluster], f.hdrAddr), NEW s,
         s = IF fl[f.cluster][f.hdrAddr].valid = "set" /\ fl[f.cluster][f.hdrAddr].invalid = "erased"
             THEN "FEE_BLOCK_VALID" ELSE "FEE_BLOCK_INVALID"
  PROVE  LET g == NoteRecord(f, fl[f.cluster][f.hdrAddr], s)
         IN  Ready(fl, JobNotiHandle(JobIntScanBlockHdrRead([g EXCEPT !.hdrAddr = f.hdrAddr + 1])), NoRequest)
<1> DEFINE k == fl[f.cluster]
           p == f.hdrAddr
           b == k[p].block
           addr == k[p].addr
           g == NoteRecord(f, k[p], s)
           replaces == f.info[b].status # "FEE_BLOCK_VALID" \/ s = "FEE_BLOCK_VALID"
<1>1. f.cluster \in Cluster /\ k \in Contents /\ p \in Nat /\ h \in Nat /\ p < h
  BY Lengths DEF Current, Disks, Layout
<1>2. /\ b \in Block /\ addr \in Address /\ addr <= f.dataAddr - FeeBlockSize[b] /\ addr >= p + 2
      /\ Low(k, p + 1, addr)
  BY <1>1, SeenPlausible
<1>3. s \in BlockStatuses /\ (s = "FEE_BLOCK_VALID" <=> IsValid(k, p, b)) /\ s # "FEE_BLOCK_INCONSISTENT"
  BY DEF BlockStatuses, IsValid, IsRecord
<1> DEFINE hdr == k[p]
<1>4. Plausible(f, hdr) /\ hdr.block = b /\ hdr.addr = addr BY <1>2, SMTT(30) DEF Plausible
<1>5. /\ RamOK(g)
      /\ g.status = f.status /\ g.cluster = f.cluster /\ g.useId = f.useId /\ g.hdrAddr = f.hdrAddr
      /\ g.dataAddr = addr
      /\ \A x \in Block : x # b => g.info[x] = f.info[x]
      /\ g.info[b] = IF replaces THEN [status |-> s, cluster |-> f.cluster, dataAddr |-> addr, validHdr |-> p]
                     ELSE f.info[b]
  <2> HIDE DEF hdr, b, addr
  <2>1. hdr.block \in Block /\ hdr.addr \in Address BY <1>2, <1>4
  <2>2. g = NoteRecord(f, hdr, s) BY DEF hdr
  <2>3. RecordNoted(f, NoteRecord(f, hdr, s), hdr, s) BY <1>3, <1>4, <2>1, NoteRecordIs
  <2>4. RecordNoted(f, g, hdr, s) BY <2>2, <2>3
  <2> HIDE DEF g
  <2>5. QED BY <1>4, <2>4, Zenon DEF RecordNoted
<1>6. \A x \in Block : x # b => ~ IsRecord(k, p, x) BY DEF IsRecord
<1> HIDE DEF g, k, p, b, addr
<1> DEFINE n == [g EXCEPT !.hdrAddr = g.hdrAddr + 1]
<1>7. n.hdrAddr = p + 1 /\ n.info = g.info /\ n.cluster = g.cluster BY <1>5 DEF RamOK, p, RamFields
<1> HIDE DEF n
<1>8. \A a \in 1 .. p : a = p \/ a \in 1 .. p - 1 BY <1>1
<1>9. ASSUME NEW x \in Block
      PROVE  /\ g.info[x].status # "FEE_BLOCK_INCONSISTENT"
             /\ g.info[x].status = "FEE_BLOCK_VALID" => KnownValid(k, n, x)
             /\ g.info[x].status = "FEE_BLOCK_INVALID" => \A a \in 1 .. p : ~ IsValid(k, a, x)
  <2>1. /\ f.info[x].status # "FEE_BLOCK_INCONSISTENT"
        /\ f.info[x].status = "FEE_BLOCK_VALID" => KnownValid(k, f, x)
        /\ f.info[x].status = "FEE_BLOCK_INVALID" => KnownInvalid(k, f, x)
        /\ f.info[x].status \in BlockStatuses
    BY DEF RamOK, Known, Infos, BlockStatuses, k
  <2>2. CASE g.info[x] = f.info[x] /\ ~ IsValid(k, p, x)
    <3>1. f.info[x].status = "FEE_BLOCK_VALID" => KnownValid(k, n, x)
      <4>1. p + 1 - 1 = p /\ n.cluster = f.cluster /\ f.hdrAddr = p BY <1>1, <1>5, <1>7 DEF p
      <4>2. SUFFICES ASSUME f.info[x].status = "FEE_BLOCK_VALID"
                     PROVE  KnownValid(k, n, x)
        OBVIOUS
      <4> DEFINE i == f.info[x]
      <4>3. /\ i.cluster = f.cluster /\ i.validHdr \in 1 .. p - 1
            /\ IsValid(k, i.validHdr, x) /\ k[i.validHdr].addr = i.dataAddr
            /\ \A a \in i.validHdr + 1 .. p - 1 : ~ IsValid(k, a, x)
        BY <2>1, <4>1, <4>2 DEF KnownValid
      <4>4. n.info[x] = i BY <1>7, <2>2
      <4> HIDE DEF i
      <4>5. i.validHdr \in 1 .. p /\ \A a \in i.validHdr + 1 .. p : a = p \/ a \in i.validHdr + 1 .. p - 1
        BY <1>1, <4>3
      <4>6. \A a \in i.validHdr + 1 .. p : ~ IsValid(k, a, x) BY <2>2, <4>3, <4>5
      <4>7. QED BY <1>7, <4>1, <4>3, <4>4, <4>5, <4>6 DEF KnownValid
    <3>2. f.info[x].status = "FEE_BLOCK_INVALID" => \A a \in 1 .. p : ~ IsValid(k, a, x)
      BY <1>8, <2>1, <2>2 DEF KnownInvalid, p
    <3>3. QED BY <2>1, <2>2, <3>1, <3>2
  <2>3. CASE x # b BY <1>5, <1>6, <2>2, <2>3 DEF IsValid
  <2>4. CASE x = b /\ ~ replaces BY <1>3, <1>5, <2>2, <2>4
  <2>5. CASE x = b /\ replaces /\ s = "FEE_BLOCK_VALID"
    BY <1>1, <1>3, <1>5, <1>7, <2>5 DEF addr, p, KnownValid
  <2>6. CASE x = b /\ replaces /\ s = "FEE_BLOCK_INVALID"
    BY <1>3, <1>5, <1>8, <2>1, <2>6 DEF BlockStatuses, KnownInvalid, p
  <2>7. QED BY <1>3, <2>3, <2>4, <2>5, <2>6 DEF BlockStatuses
<1>10. Ready(fl, JobNotiHandle(JobIntScanBlockHdrRead(n)), NoRequest)
  BY <1>2, <1>5, <1>9, NextHeader DEF n, k, p
<1>11. n = [g EXCEPT !.hdrAddr = f.hdrAddr + 1] BY <1>5 DEF n
<1>12. QED BY <1>10, <1>11 DEF g, k, p

LEMMA EndOfBlockHdr ==
  ASSUME NEW fl, NEW f, ScanBusy(fl, f), f.job = "FEE_JOB_INT_SCAN_BLOCK_HDR_GET"
  PROVE  Ready(fl, JobNotiHandle(JobIntScanBlockHdrGet(Cleared(f), <<fl[f.cluster][f.hdrAddr]>>)), NoRequest)
<1> DEFINE f0 == Cleared(f)
           k == fl[f.cluster]
           p == f.hdrAddr
           cell == k[p]
<1>1. /\ fl \in Disks /\ RamOK(f) /\ f.status = "MEMIF_BUSY_INTERNAL"
      /\ Current(fl, f.cluster, f.useId)
      /\ \E h \in Address : Layout(k, h) /\ p \in 1 .. h
      /\ Low(k, p, f.dataAddr)
      /\ \A b \in Block : Known(fl, f, b) /\ f.info[b].status # "FEE_BLOCK_INCONSISTENT"
  BY ScanningIs DEF ScanBusy
<1>2. /\ RamOK(f0) /\ Core(f, f0) /\ f0.status = f.status /\ f0.mem = NoAccess BY <1>1, ClearedIs
<1> HIDE DEF f0
<1>3. /\ f0.cluster = f.cluster /\ f0.useId = f.useId /\ f0.hdrAddr = p /\ f0.dataAddr = f.dataAddr /\ f0.info = f.info
  BY <1>2 DEF Core
<1>4. PICK h \in Address : Layout(k, h) /\ p \in 1 .. h BY <1>1
<1>5. f.cluster \in Cluster /\ k \in Contents /\ h \in Nat /\ p \in Nat /\ h <= FeeClusterLength - 1 /\ FeeClusterLength \in Nat
  BY <1>1, <1>4, Lengths DEF Current, Disks
<1>6. \A b \in Block : Known(fl, f0, b) /\ f0.info[b].status # "FEE_BLOCK_INCONSISTENT"
  BY <1>1, <1>2, <1>3 DEF Writing, Known, KnownValid, KnownInvalid
<1> DEFINE buffer == <<cell>>
<1>7. buffer # <<>> /\ buffer[1] = cell OBVIOUS
<1>8. CASE p = h
  <2>1. cell = Blank BY <1>4, <1>8, LayoutEnd
  <2>2. UnpackBlockHdr(buffer) = "FEE_BLOCK_HEADER_BLANK" BY <1>7, <2>1 DEF UnpackBlockHdr, Blank
  <2>3. JobIntScanBlockHdrGet(f0, buffer) = End(f0, "MEMIF_JOB_OK")
    BY <2>2 DEF JobIntScanBlockHdrGet
  <2>4. Running(fl, f0) BY <1>1, <1>3, <1>4, <1>6, <1>8 DEF Running
  <2>5. f0.status # "MEMIF_BUSY" BY <1>1, <1>2
  <2>6. Ready(fl, JobNotiHandle(End(f0, "MEMIF_JOB_OK")), NoRequest)
    BY <1>1, <1>2, <2>4, <2>5, ScanEnds
  <2>7. QED BY <2>3, <2>6 DEF f0
<1>9. CASE p # h
  <2>1. p \in 1 .. h - 1 /\ p + 1 < FeeClusterLength BY <1>4, <1>5, <1>9
  <2>2. cell.kind \in {"block", "torn"} /\ cell \in Cell
    BY <1>4, <1>5, <2>1, Lengths DEF Layout, Contents
  <2>3. cell # Blank BY <2>2 DEF Blank
  <2>4. /\ f0.status = "MEMIF_BUSY_INTERNAL" /\ f0.hdrAddr \in 1 .. h - 1
        /\ Current(fl, f0.cluster, f0.useId) /\ Layout(fl[f0.cluster], h) /\ Low(fl[f0.cluster], f0.hdrAddr, f0.dataAddr)
    BY <1>1, <1>2, <1>3, <1>4, <2>1
  <2>5. CASE cell.kind = "block"
    <3> DEFINE s == IF cell.valid = "set" /\ cell.invalid = "erased" THEN "FEE_BLOCK_VALID" ELSE "FEE_BLOCK_INVALID"
    <3>1. UnpackBlockHdr(buffer) = s BY <1>7, <2>3, <2>5 DEF UnpackBlockHdr
    <3>2. s \notin {"FEE_BLOCK_HEADER_INVALID", "FEE_BLOCK_HEADER_BLANK"} OBVIOUS
    <3>3. JobIntScanBlockHdrGet(f0, buffer) = JobIntScanBlockHdrRead([NoteRecord(f0, cell, s) EXCEPT !.hdrAddr = f0.hdrAddr + 1])
      BY <1>7, <3>1, <3>2 DEF JobIntScanBlockHdrGet
    <3>4. IsHeader(fl[f0.cluster], f0.hdrAddr) /\ cell = fl[f0.cluster][f0.hdrAddr]
      BY <1>3, <2>5 DEF IsHeader
    <3> HIDE DEF buffer
    <3>5. Ready(fl, JobNotiHandle(JobIntScanBlockHdrRead([NoteRecord(f0, cell, s) EXCEPT !.hdrAddr = f0.hdrAddr + 1])), NoRequest)
      <4>1. s = IF fl[f0.cluster][f0.hdrAddr].valid = "set" /\ fl[f0.cluster][f0.hdrAddr].invalid = "erased"
                THEN "FEE_BLOCK_VALID" ELSE "FEE_BLOCK_INVALID"
        BY <3>4
      <4> HIDE DEF s
      <4>2. LET g == NoteRecord(f0, fl[f0.cluster][f0.hdrAddr], s)
            IN  Ready(fl, JobNotiHandle(JobIntScanBlockHdrRead([g EXCEPT !.hdrAddr = f0.hdrAddr + 1])), NoRequest)
        BY <1>1, <1>2, <1>6, <2>4, <3>4, <4>1, ScanRecord
      <4>3. QED BY <3>4, <4>2
    <3>6. QED BY <3>3, <3>5 DEF f0, buffer
  <2>6. CASE cell.kind = "torn"
    <3> DEFINE n == [f0 EXCEPT !.hdrAddr = f0.hdrAddr + 1]
    <3>1. UnpackBlockHdr(buffer) = "FEE_BLOCK_HEADER_INVALID" BY <1>7, <2>3, <2>6 DEF UnpackBlockHdr
    <3>2. ~ (f0.hdrAddr + 1 >= FeeClusterLength) BY <1>3, <1>5, <2>1
    <3>3. JobIntScanBlockHdrGet(f0, buffer) = JobIntScanBlockHdrRead(n)
      BY <3>1, <3>2 DEF JobIntScanBlockHdrGet
    <3>4. n.hdrAddr = p + 1 /\ n.info = f0.info /\ n.cluster = f0.cluster
      BY <1>2, <1>3 DEF RamOK, RamFields
    <3> HIDE DEF n
    <3>5. ~ IsHeader(fl[f0.cluster], f0.hdrAddr) /\ \A x : ~ IsValid(k, p, x)
      BY <1>3, <2>6 DEF IsHeader, IsValid, IsRecord
    <3>6. Low(fl[f0.cluster], f0.hdrAddr + 1, f0.dataAddr) BY <1>3, <1>5, <2>4, <3>5, SkipsTorn
    <3>7. ASSUME NEW x \in Block, f0.info[x].status = "FEE_BLOCK_VALID"
          PROVE  KnownValid(fl[f0.cluster], n, x)
      <4> DEFINE i == f0.info[x]
      <4>1. /\ i.cluster = f0.cluster /\ i.validHdr \in 1 .. p - 1
            /\ IsValid(k, i.validHdr, x) /\ k[i.validHdr].addr = i.dataAddr
            /\ \A a \in i.validHdr + 1 .. p - 1 : ~ IsValid(k, a, x)
        BY <1>3, <1>6, <3>7 DEF Known, KnownValid
      <4>2. n.info[x] = i BY <3>4
      <4> HIDE DEF i
      <4>3. i.validHdr \in 1 .. p + 1 - 1 /\ \A a \in i.validHdr + 1 .. p + 1 - 1 : a = p \/ a \in i.validHdr + 1 .. p - 1
        BY <1>5, <4>1
      <4>4. \A a \in i.validHdr + 1 .. p + 1 - 1 : ~ IsValid(k, a, x) BY <3>5, <4>1, <4>3
      <4>5. k = fl[f0.cluster] BY <1>3
      <4>6. KnownValid(k, n, x) BY <1>5, <3>4, <4>1, <4>2, <4>3, <4>4 DEF KnownValid
      <4>7. QED BY <4>5, <4>6
    <3>8. ASSUME NEW x \in Block, f0.info[x].status = "FEE_BLOCK_INVALID", NEW a \in 1 .. f0.hdrAddr
          PROVE  ~ IsValid(fl[f0.cluster], a, x)
      BY <1>3, <1>5, <1>6, <3>5, <3>8 DEF Known, KnownInvalid
    <3>9. Ready(fl, JobNotiHandle(JobIntScanBlockHdrRead(n)), NoRequest)
      <4>1. \A x \in Block : f0.info[x].status # "FEE_BLOCK_INCONSISTENT" BY <1>6
      <4>2. \A x \in Block : f0.info[x].status = "FEE_BLOCK_VALID" =>
               KnownValid(fl[f0.cluster], [f0 EXCEPT !.hdrAddr = f0.hdrAddr + 1], x)
        BY <3>7 DEF n
      <4>3. \A x \in Block : f0.info[x].status = "FEE_BLOCK_INVALID" =>
               \A a \in 1 .. f0.hdrAddr : ~ IsValid(fl[f0.cluster], a, x)
        BY <3>8
      <4>4. Ready(fl, JobNotiHandle(JobIntScanBlockHdrRead([f0 EXCEPT !.hdrAddr = f0.hdrAddr + 1])), NoRequest)
        <5> HIDE DEF k, p, cell, buffer
        <5>1. fl \in Disks /\ RamOK(f0) BY <1>1, <1>2
        <5>2. QED BY <2>4, <3>6, <4>1, <4>2, <4>3, <5>1, NextHeader
      <4>5. QED BY <4>4 DEF n
    <3>10. QED BY <3>3, <3>9 DEF f0
  <2>7. QED BY <2>2, <2>5, <2>6
<1>10. QED BY <1>8, <1>9

-----------------------------------------------------------------------------
(* A flash request of a swap has ended. *)

\* The plan of a swap depends on the blocks, the cluster and the use ID only.
SamePlan(f, g) == g.info = f.info /\ g.swap.cluster = f.swap.cluster /\ g.useId = f.useId

LEMMA PlanSame ==
  ASSUME NEW f, NEW g, SamePlan(f, g)
  PROVE  /\ Carried(g) = Carried(f)
         /\ \A n : Place(g, n) = Place(f, n) /\ Room(g, n) = Room(f, n)
         /\ \A b : Takes(g, b) <=> Takes(f, b)
         /\ \A fl, n : Part(fl, f, n) => Part(fl, g, n)
         /\ \A fl, b : Half(fl, f, b) => Half(fl, g, b)
         /\ \A fl, b : Same(fl, f, b) => Same(fl, g, b)
         /\ \A fl, b : Source(fl, g, b) = Source(fl, f, b)
         /\ \A b : ProgramHeader(g, b) = ProgramHeader(f, b)
<1>1. /\ Carried(g) = Carried(f)
      /\ \A n : Place(g, n) = Place(f, n) /\ Room(g, n) = Room(f, n)
      /\ \A b : Takes(g, b) <=> Takes(f, b)
  BY CarriedSame DEF SamePlan
<1>2. g.info = f.info /\ g.swap.cluster = f.swap.cluster /\ g.useId = f.useId BY DEF SamePlan
<1>3. \A fl, b : Same(fl, f, b) => Same(fl, g, b) BY <1>1, <1>2 DEF Same
<1>4. \A fl, b, flag : Header(fl, f, b, flag) => Header(fl, g, b, flag) BY <1>1, <1>2 DEF Header
<1>5. \A fl, n : Copied(fl, f, n) => Copied(fl, g, n) BY <1>1, <1>2, <1>3, <1>4 DEF Copied
<1>6. \A fl, n : Opened(fl, f, n) => Opened(fl, g, n) BY <1>1, <1>2 DEF Opened
<1>7. \A fl, n : Part(fl, f, n) => Part(fl, g, n) BY <1>5, <1>6 DEF Part
<1>8. \A fl, b : Half(fl, f, b) => Half(fl, g, b) BY <1>4, <1>5, <1>6 DEF Half
<1>9. \A fl, b : Source(fl, g, b) = Source(fl, f, b) BY <1>2 DEF Source
<1>10. \A b : ProgramHeader(g, b) = ProgramHeader(f, b) BY <1>1, <1>2 DEF ProgramHeader
<1>11. QED BY <1>1, <1>3, <1>7, <1>8, <1>9, <1>10

\* Where a swap takes the data of block b from.
LEMMA CarriedIs ==
  ASSUME NEW fl \in Disks, NEW f, RamOK(f), Running(fl, f), NEW b \in Carried(f), ~ AtDone(f, b)
  PROVE  LET i == f.info[b]
         IN  /\ b \in Block /\ FeeBlockSize[b] \in Nat /\ FeeBlockSize[b] >= 1
             /\ i.cluster = f.cluster /\ i.dataAddr \in Nat
             /\ i.dataAddr + FeeBlockSize[b] <= FeeClusterLength
             /\ i.status = "FEE_BLOCK_VALID" => Whole(fl[f.cluster], i.dataAddr, b)
             /\ i.status # "FEE_BLOCK_VALID" =>
                  Empty(fl[f.cluster], i.dataAddr, b) /\ i.status = "FEE_BLOCK_INCONSISTENT" /\ b \in FeeImmediateData
<1> DEFINE i == f.info[b]
           k == fl[f.cluster]
           h == f.hdrAddr
<1>1. b \in Block /\ (i.status = "FEE_BLOCK_VALID" \/ (i.status = "FEE_BLOCK_INCONSISTENT" /\ b \in FeeImmediateData))
  BY DEF Carried
<1>2. k \in Contents /\ Layout(k, h) /\ Known(fl, f, b) BY <1>1, RunningIs
<1>3. FeeBlockSize[b] \in Nat /\ FeeBlockSize[b] >= 1 BY <1>1, Numbers
<1>4. CASE i.status = "FEE_BLOCK_VALID"
  BY <1>1, <1>2, <1>3, <1>4, HeaderIs DEF Known, KnownValid, IsValid, IsRecord
<1>5. CASE i.status = "FEE_BLOCK_INCONSISTENT" /\ b \in FeeImmediateData
  BY <1>1, <1>2, <1>3, <1>5, HeaderIs DEF Known, KnownKept, IsRecord, AtDone
<1>6. QED BY <1>1, <1>4, <1>5

\* The state of a swap.
LEMMA SwapIs ==
  ASSUME NEW fl, NEW f, NEW req, Busy(fl, f, req), Serving(fl, f, req), f.job \in SwapJobs
  PROVE  /\ fl \in Disks /\ RamOK(f) /\ Running(fl, f) /\ Swapping(fl, f)
         /\ f.cluster \in Cluster /\ f.swap.cluster \in Cluster \ {f.cluster} /\ fl[f.swap.cluster] \in Contents
         /\ f.swap \in Swaps /\ f.useId \in Nat /\ f.swap.preJob = req.job
         /\ \/ req.job = "FEE_JOB_WRITE" /\ f.block \notin FeeImmediateData
            \/ req.job = "FEE_JOB_ERASE_IMMEDIATE" /\ f.block \in FeeImmediateData
         /\ NoneAtDone(f)
BY BusyIs, ServingIs, NextCluster, NotAtDone DEF SwapJobs, RamOK, Disks

\* The next flash request of a swap.
LEMMA SwapGoesOn ==
  ASSUME NEW fl, NEW f, NEW req, Busy(fl, f, req), NEW m, NEW job \in SwapJobs, NoneAtDone(f),
         f.swap.preJob = req.job, f.swap.cluster = (f.cluster + 1) % ClusterCount,
         \/ req.job = "FEE_JOB_WRITE" /\ f.block \notin FeeImmediateData
         \/ req.job = "FEE_JOB_ERASE_IMMEDIATE" /\ f.block \in FeeImmediateData,
         Swapping(fl, Start(f, m, job))
  PROVE  Ready(fl, JobNotiHandle(Start(f, m, job)), req)
<1> DEFINE g == Start(f, m, job)
<1>1. job \in JobType \ {"FEE_JOB_WRITE_DONE"} /\ job # "FEE_JOB_WRITE_VALIDATE"
  BY DEF SwapJobs, JobType
<1>2. Busy(fl, g, req) /\ JobNotiHandle(g) = g BY <1>1, Started
<1>3. RamOK(f) BY DEF Busy
<1>4. g.swap = f.swap /\ g.block = f.block /\ g.cluster = f.cluster BY <1>1, <1>3, StartIs DEF Core
<1> HIDE DEF g
<1>5. Serving(fl, g, req) BY <1>4 DEF Serving, g
<1>6. QED BY <1>2, <1>5 DEF Ready, Busy, g

\* The running cluster stays what it is while the other one is written.
LEMMA BusyElsewhere ==
  ASSUME NEW fl, NEW f, NEW req, NEW fl2, Busy(fl, f, req), Serving(fl, f, req), f.job \in SwapJobs,
         Elsewhere(fl, fl2, f.swap.cluster)
  PROVE  Busy(fl2, f, req) /\ Busy(fl2, Cleared(f), req) /\ Disk(fl2) /\ fl2[f.cluster] = fl[f.cluster]
BY SwapIs, ElsewhereKept, RunningIs, ClearedBusy DEF Elsewhere, Busy, Others

LEMMA PlaceRises ==
  ASSUME NEW f, NEW n \in 0 .. FeeBlockSum, NEW m \in n .. FeeBlockSum
  PROVE  Place(f, n) <= Place(f, m) /\ Room(f, m) <= Room(f, n)
<1> DEFINE s == Carried(f)
<1>1. HeadersBelow(s)[n] <= HeadersBelow(s)[m] /\ DataBelow(s)[n] <= DataBelow(s)[m] BY BelowRises
<1>2. m \in 0 .. FeeBlockSum BY Numbers
<1>3. HeadersBelow(s)[n] \in Nat /\ DataBelow(s)[n] \in Nat /\ HeadersBelow(s)[m] \in Nat /\ DataBelow(s)[m] \in Nat
  BY <1>2, RoomForAll
<1> HIDE DEF s
<1>4. QED BY <1>1, <1>3, Lengths DEF Place, Room, s

\* The places of two blocks, one below the other.
LEMMA PlacesApart ==
  ASSUME NEW f, NEW x \in Carried(f), NEW n \in 0 .. FeeBlockSum, x < n
  PROVE  /\ Place(f, x) < Place(f, n) /\ Place(f, x) >= 1 /\ Place(f, x) \in Address /\ Place(f, x) \in Nat
         /\ Room(f, n) <= Room(f, x + 1) /\ Room(f, x + 1) + FeeBlockSize[x] <= FeeClusterLength
         /\ Place(f, n) + 3 <= Room(f, n) /\ Room(f, n) \in Nat /\ Room(f, x + 1) \in Nat /\ Place(f, n) \in Nat
         /\ FeeBlockSize[x] \in Nat /\ Room(f, x + 1) \in Address
<1>1. x \in Block BY DEF Carried
<1>2. x \in 0 .. FeeBlockSum /\ x + 1 \in 0 .. FeeBlockSum /\ n \in x + 1 .. FeeBlockSum /\ FeeBlockSize[x] \in Nat /\ FeeBlockSize[x] >= 1
  BY <1>1, Numbers
<1>3. Place(f, x + 1) = Place(f, x) + 1 /\ Room(f, x + 1) = Room(f, x) - FeeBlockSize[x]
  BY <1>1, PlaceIs
<1>4. Place(f, x + 1) <= Place(f, n) /\ Room(f, n) <= Room(f, x + 1) BY <1>2, PlaceRises
<1>5. /\ Place(f, x) \in Nat /\ Place(f, x) >= 1 /\ Place(f, x) \in Address /\ Room(f, x) \in Nat /\ Room(f, x) <= FeeClusterLength
      /\ Place(f, n) \in Nat /\ Room(f, n) \in Nat /\ Place(f, n) + 3 <= Room(f, n) /\ Room(f, x + 1) \in Nat
  BY <1>2, PlaceIs
<1>6. QED BY <1>2, <1>3, <1>4, <1>5, Lengths, SMTT(30)

\* What was copied stays while other cells of the new cluster are written.
LEMMA CopiedKept ==
  ASSUME NEW fl \in Disks, NEW fl2, NEW f, RamOK(f), Running(fl, f), NoneAtDone(f),
         f.swap.cluster # f.cluster, Others(fl, fl2, f.swap.cluster), NEW n \in 0 .. FeeBlockSum,
         Copied(fl, f, n),
         \A a \in 1 .. Place(f, n) - 1 : fl2[f.swap.cluster][a] = fl[f.swap.cluster][a],
         \A a \in Room(f, n) .. FeeClusterLength - 1 : fl2[f.swap.cluster][a] = fl[f.swap.cluster][a]
  PROVE  Copied(fl2, f, n)
<1> DEFINE c == f.swap.cluster
<1>1. SUFFICES ASSUME NEW x \in Carried(f), x < n
               PROVE  /\ Header(fl2, f, x, IF f.info[x].status = "FEE_BLOCK_VALID" THEN "set" ELSE "erased")
                      /\ Same(fl2, f, x)
  BY DEF Copied
<1>2. /\ Header(fl, f, x, IF f.info[x].status = "FEE_BLOCK_VALID" THEN "set" ELSE "erased")
      /\ Same(fl, f, x)
  BY <1>1 DEF Copied
<1>3. /\ Place(f, x) < Place(f, n) /\ Place(f, x) >= 1 /\ Place(f, x) \in Nat /\ Place(f, n) \in Nat
      /\ Room(f, n) <= Room(f, x + 1) /\ Room(f, x + 1) + FeeBlockSize[x] <= FeeClusterLength
      /\ Room(f, n) \in Nat /\ Room(f, x + 1) \in Nat /\ FeeBlockSize[x] \in Nat
  BY <1>1, PlacesApart
<1>4. Place(f, x) \in 1 .. Place(f, n) - 1 BY <1>3
<1>5. fl2[c][Place(f, x)] = fl[c][Place(f, x)] BY <1>4
<1>6. Header(fl2, f, x, IF f.info[x].status = "FEE_BLOCK_VALID" THEN "set" ELSE "erased")
  BY <1>2, <1>5 DEF Header
<1>7. f.info[x].cluster = f.cluster /\ f.cluster \in Cluster
  BY CarriedIs, RunningIs DEF Carried, NoneAtDone
<1>8. fl2[f.cluster] = fl[f.cluster] BY <1>7 DEF Others
<1>9. ASSUME NEW i \in 1 .. FeeBlockSize[x]
      PROVE  fl2[c][Room(f, x + 1) + i - 1] = fl[c][Room(f, x + 1) + i - 1]
  <2>1. Room(f, x + 1) + i - 1 \in Room(f, n) .. FeeClusterLength - 1 BY <1>3, Lengths
  <2>2. QED BY <2>1
<1>10. Same(fl2, f, x) BY <1>2, <1>7, <1>8, <1>9 DEF Same
<1>11. QED BY <1>6, <1>10

\* A block more was copied.
LEMMA HalfDone ==
  ASSUME NEW fl, NEW f, NEW b \in Carried(f), Half(fl, f, b), Same(fl, f, b), ~ Takes(f, b)
  PROVE  Part(fl, f, b + 1)
BY Numbers DEF Carried, Takes, Copied, Half, Part

\* The new cluster is written to in a way that a start would not see.
LEMMA WrittenElsewhere ==
  ASSUME NEW fl \in Disks, NEW fl2 \in Disks, NEW c \in Cluster, Others(fl, fl2, c),
         ~ ValidCluster(fl2[c]),
         \A a \in Address : \/ fl2[c][a] = fl[c][a]
                            \/ fl2[c][a].kind # "block"
                            \/ fl2[c][a].invalid = "erased"
  PROVE  Elsewhere(fl, fl2, c)
BY DEF Elsewhere, IsHeader

LEMMA Unsealed ==
  ASSUME NEW k, NEW u, k[0] = ClusterHdr(u, "erased")
  PROVE  ~ ValidCluster(k)
BY DEF ValidCluster, UnpackClusterHdr, ClusterHdr

\* The header of the new cluster is written, without its valid flag.
LEMMA Opening ==
  ASSUME NEW fl \in Disks, NEW fl2, NEW f, RamOK(f), f.swap.cluster \in Cluster,
         \A a \in Address : fl[f.swap.cluster][a] = Blank,
         CellSet(fl, fl2, f.swap.cluster, 0, ClusterHdr(f.useId + 1, "erased"))
  PROVE  Part(fl2, f, 0) /\ Elsewhere(fl, fl2, f.swap.cluster)
<1> DEFINE c == f.swap.cluster
           k == fl2[c]
<1>1. k \in Contents /\ k[0] = ClusterHdr(f.useId + 1, "erased") /\ Others(fl, fl2, c) /\ fl2 \in Disks
  BY DEF CellSet, Disks
<1>2. \A a \in Address \ {0} : k[a] = Blank BY DEF CellSet
<1>3. Layout(k, 1) /\ Low(k, 1, FeeClusterLength) BY <1>1, <1>2, Lengths, ErasedLayout
<1>4. Place(f, 0) = 1 /\ Room(f, 0) = FeeClusterLength BY PlaceIs
<1>5. Opened(fl2, f, 0) BY <1>1, <1>3, <1>4 DEF Opened
<1>6. Copied(fl2, f, 0) BY Numbers DEF Carried, Copied
<1>7. Elsewhere(fl, fl2, c) BY <1>1, <1>2, Unsealed, WrittenElsewhere DEF ClusterHdr, Blank
<1>8. QED BY <1>5, <1>6, <1>7 DEF Part

\* What a swap relies on while it copies block b.
Copying(fl, f, b) ==
  /\ fl \in Disks /\ RamOK(f) /\ Running(fl, f) /\ NoneAtDone(f)
  /\ f.swap.cluster \in Cluster \ {f.cluster} /\ f.cluster \in Cluster
  /\ b \in Carried(f)

LEMMA CopyingIs ==
  ASSUME NEW fl, NEW f, NEW b, Copying(fl, f, b)
  PROVE  LET k == fl[f.swap.cluster]
             p == Place(f, b)
             d == Room(f, b + 1)
         IN  /\ k \in Contents /\ b \in Block /\ b \in 0 .. FeeBlockSum /\ b + 1 \in 0 .. FeeBlockSum
             /\ p \in Nat /\ p >= 1 /\ p \in Address /\ Place(f, b + 1) = p + 1
             /\ d \in Nat /\ d \in Address /\ p + 4 <= d
             /\ FeeBlockSize[b] \in Nat /\ FeeBlockSize[b] >= 1
             /\ Room(f, b) = d + FeeBlockSize[b] /\ Room(f, b) <= FeeClusterLength /\ Room(f, b) \in Nat
             /\ f.swap.cluster \in Cluster /\ f.swap.cluster # f.cluster
<1>1. b \in Carried(f) /\ b \in Block BY DEF Copying, Carried
<1>2. b \in 0 .. FeeBlockSum /\ b + 1 \in 0 .. FeeBlockSum /\ FeeBlockSize[b] \in Nat /\ FeeBlockSize[b] >= 1
  BY <1>1, Numbers
<1>3. Place(f, b + 1) = Place(f, b) + 1 /\ Room(f, b + 1) = Room(f, b) - FeeBlockSize[b]
  BY <1>1, PlaceIs
<1>4. /\ Place(f, b) \in Nat /\ Place(f, b) >= 1 /\ Place(f, b) \in Address /\ Room(f, b) \in Nat /\ Room(f, b) <= FeeClusterLength
      /\ Room(f, b + 1) \in Nat /\ Place(f, b + 1) + 3 <= Room(f, b + 1)
  BY <1>2, PlaceIs
<1>5. Room(f, b + 1) \in Address BY <1>2, <1>3, <1>4, Lengths
<1>6. QED BY <1>1, <1>2, <1>3, <1>4, <1>5 DEF Copying, Disks

LEMMA OpenedIs ==
  ASSUME NEW fl, NEW f, NEW n, Opened(fl, f, n)
  PROVE  LET k == fl[f.swap.cluster]
         IN  /\ k[0] = ClusterHdr(f.useId + 1, "erased") /\ ~ ValidCluster(k)
             /\ Layout(k, Place(f, n)) /\ Low(k, Place(f, n), Room(f, n))
             /\ \A a \in 1 .. Place(f, n) - 1 : \E b \in Carried(f) : b < n /\ a = Place(f, b)
BY Unsealed DEF Opened

\* The header of block b is written.
LEMMA Heading ==
  ASSUME NEW fl, NEW f, NEW b, Copying(fl, f, b), Part(fl, f, b), NEW fl2,
         CellSet(fl, fl2, f.swap.cluster, Place(f, b), BlockHdr(b, Room(f, b + 1)))
  PROVE  /\ Half(fl2, f, b) /\ Empty(fl2[f.swap.cluster], Room(f, b + 1), b)
         /\ Elsewhere(fl, fl2, f.swap.cluster)
<1> DEFINE c == f.swap.cluster
           k == fl[c]
           kk == fl2[c]
           p == Place(f, b)
           d == Room(f, b + 1)
           size == FeeBlockSize[b]
<1>1. /\ k \in Contents /\ b \in Block /\ b \in 0 .. FeeBlockSum
      /\ p \in Nat /\ p >= 1 /\ p \in Address /\ Place(f, b + 1) = p + 1
      /\ d \in Nat /\ d \in Address /\ p + 4 <= d /\ size \in Nat /\ size >= 1
      /\ Room(f, b) = d + size /\ Room(f, b) <= FeeClusterLength /\ c \in Cluster /\ c # f.cluster
  BY CopyingIs
<1>2. /\ k[0] = ClusterHdr(f.useId + 1, "erased") /\ Layout(k, p) /\ Low(k, p, Room(f, b))
      /\ \A a \in 1 .. p - 1 : \E x \in Carried(f) : x < b /\ a = Place(f, x)
      /\ Copied(fl, f, b)
  BY DEF Part, Opened
<1>3. /\ fl2 \in Disks /\ Others(fl, fl2, c) /\ kk \in Contents /\ kk[p] = BlockHdr(b, d)
      /\ \A a \in Address \ {p} : kk[a] = k[a]
  BY <1>1 DEF CellSet, Disks
<1>4. /\ fl \in Disks /\ RamOK(f) /\ Running(fl, f) /\ NoneAtDone(f) /\ b \in Carried(f)
  BY DEF Copying
<1> HIDE DEF c, k, kk, p, d, size
<1>5. \A x \in 1 .. FeeClusterLength - 1 : x # p => kk[x] = k[x] BY <1>3, Lengths
<1>6. Layout(kk, p + 1) /\ Low(kk, p + 1, d) BY <1>1, <1>2, <1>3, <1>5, AppendHeader DEF size
<1>7. kk[0] = ClusterHdr(f.useId + 1, "erased") BY <1>1, <1>2, <1>3, Lengths
<1>8. \A a \in 1 .. p + 1 - 1 : \E x \in Carried(f) : x < b + 1 /\ a = Place(f, x)
  <2>1. SUFFICES ASSUME NEW a \in 1 .. p + 1 - 1
                 PROVE  \E x \in Carried(f) : x < b + 1 /\ a = Place(f, x)
    OBVIOUS
  <2>2. CASE a = p BY <1>1, <1>4, <2>2, Numbers DEF p
  <2>3. CASE a \in 1 .. p - 1
    <3>1. PICK x \in Carried(f) : x < b /\ a = Place(f, x) BY <1>2, <2>3
    <3>2. x \in Block BY DEF Carried
    <3>3. x < b + 1 BY <1>1, <3>1, <3>2, Numbers
    <3>4. QED BY <3>1, <3>3
  <2>4. QED BY <1>1, <2>2, <2>3
<1>9. Opened(fl2, f, b + 1) BY <1>1, <1>6, <1>7, <1>8 DEF Opened, c, kk, d
<1>10. Copied(fl2, f, b)
  <2>1. \A a \in 1 .. p - 1 : kk[a] = k[a] BY <1>1, <1>5, Lengths
  <2>2. \A a \in Room(f, b) .. FeeClusterLength - 1 : kk[a] = k[a] BY <1>1, <1>5, Lengths
  <2>3. QED BY <1>1, <1>2, <1>3, <1>4, <2>1, <2>2, CopiedKept DEF c, k, kk, p
<1>11. Header(fl2, f, b, "erased") BY <1>3 DEF Header, BlockHdr, c, kk, p, d
<1>12. Empty(kk, d, b)
  <2>1. \A x \in p .. Room(f, b) - 1 : k[x] = Blank BY <1>1, <1>2, GapIsBlank
  <2>2. ASSUME NEW i \in 1 .. size
        PROVE  kk[d + i - 1] = Blank
    <3>1. d + i - 1 \in p .. Room(f, b) - 1 /\ d + i - 1 \in 1 .. FeeClusterLength - 1 /\ d + i - 1 # p
      BY <1>1, Lengths
    <3>2. QED BY <1>5, <2>1, <3>1
  <2>3. QED BY <2>2 DEF Empty, size
<1>13. Elsewhere(fl, fl2, c)
  BY <1>1, <1>3, <1>4, <1>7, Unsealed, WrittenElsewhere DEF BlockHdr, k, kk
<1>14. QED BY <1>9, <1>10, <1>11, <1>12, <1>13 DEF Half, c, d, kk

\* A block of immediate data that was erased takes nothing along but room.
LEMMA HeadingDone ==
  ASSUME NEW fl, NEW f, NEW b, Copying(fl, f, b), ~ Takes(f, b), Half(fl, f, b),
         Empty(fl[f.swap.cluster], Room(f, b + 1), b)
  PROVE  Part(fl, f, b + 1)
BY CarriedIs, HalfDone DEF Copying, Carried, Takes, NoneAtDone, Same, Empty

\* The data of block b were read before, and are written.
LEMMA Copies ==
  ASSUME NEW fl, NEW f, NEW b, Copying(fl, f, b), Takes(f, b), Half(fl, f, b),
         Empty(fl[f.swap.cluster], Room(f, b + 1), b), NEW fl2,
         RangePart(fl, fl2, f.swap.cluster, Room(f, b + 1), Source(fl, f, b), FeeBlockSize[b])
  PROVE  /\ Elsewhere(fl, fl2, f.swap.cluster)
         /\ Half(fl2, f, b)
         /\ RangeSet(fl, fl2, f.swap.cluster, Room(f, b + 1), Source(fl, f, b), FeeBlockSize[b]) => Same(fl2, f, b)
<1> DEFINE c == f.swap.cluster
           k == fl[c]
           kk == fl2[c]
           p == Place(f, b)
           d == Room(f, b + 1)
           size == FeeBlockSize[b]
           from == f.info[b].dataAddr
<1>1. /\ k \in Contents /\ b \in Block /\ b \in 0 .. FeeBlockSum
      /\ p \in Nat /\ p >= 1 /\ p \in Address /\ Place(f, b + 1) = p + 1
      /\ d \in Nat /\ d \in Address /\ p + 4 <= d /\ size \in Nat /\ size >= 1
      /\ Room(f, b) = d + size /\ Room(f, b) <= FeeClusterLength /\ c \in Cluster /\ c # f.cluster
  BY CopyingIs
<1>2. /\ k[0] = ClusterHdr(f.useId + 1, "erased") /\ Layout(k, p + 1) /\ Low(k, p + 1, d)
      /\ \A a \in 1 .. p + 1 - 1 : \E x \in Carried(f) : x < b + 1 /\ a = Place(f, x)
      /\ Copied(fl, f, b)
      /\ k[p] = [kind |-> "block", block |-> b, addr |-> d, valid |-> "erased", invalid |-> "erased"]
  BY <1>1 DEF Half, Opened, Header
<1>3. /\ fl \in Disks /\ RamOK(f) /\ Running(fl, f) /\ NoneAtDone(f) /\ b \in Carried(f) /\ f.cluster \in Cluster
  BY DEF Copying
<1>4. /\ f.info[b].cluster = f.cluster /\ from \in Nat /\ from + size <= FeeClusterLength
      /\ Whole(fl[f.cluster], from, b)
  BY <1>1, <1>3, CarriedIs DEF Takes, NoneAtDone
<1>5. /\ fl2 \in Disks /\ Others(fl, fl2, c) /\ kk \in Contents /\ fl2[f.cluster] = fl[f.cluster]
      /\ \A a \in Address : a \notin d .. d + size - 1 => kk[a] = k[a]
      /\ \A a \in Address : a \in d .. d + size - 1 => kk[a] \in {k[a], Source(fl, f, b)[a - d + 1], Torn}
  BY <1>1, <1>3 DEF RangePart, Disks, Others
<1>6. /\ \A i \in 1 .. size : Source(fl, f, b)[i] = fl[f.cluster][from + i - 1]
      /\ \A i \in 1 .. size : Source(fl, f, b)[i].kind = "data"
  <2>1. \A i \in 1 .. size : Source(fl, f, b)[i] = fl[f.cluster][from + i - 1] BY <1>4 DEF Source
  <2>2. PICK v \in Value : Holds(fl[f.cluster], from, b, v) BY <1>4 DEF Whole
  <2>3. ASSUME NEW i \in 1 .. size
        PROVE  Source(fl, f, b)[i].kind = "data"
    <3>1. fl[f.cluster][from + i - 1] = [kind |-> "data", value |-> v, part |-> i] BY <2>2 DEF Holds
    <3>2. QED BY <2>1, <3>1
  <2>4. QED BY <2>1, <2>3
<1>7. \A i \in 1 .. size : k[d + i - 1] = Blank BY DEF Empty
<1> HIDE DEF c, k, kk, p, d, size, from
<1>8. ASSUME NEW a \in Address, a \in d .. d + size - 1
      PROVE  kk[a].kind \in {"blank", "torn", "data"}
  <2>1. a - d + 1 \in 1 .. size /\ d + (a - d + 1) - 1 = a BY <1>1, <1>8, Lengths
  <2>2. k[a] = Blank BY <1>7, <2>1
  <2>3. Source(fl, f, b)[a - d + 1].kind = "data" BY <1>6, <2>1
  <2>4. kk[a] \in {k[a], Source(fl, f, b)[a - d + 1], Torn} BY <1>5, <1>8
  <2>5. QED BY <2>2, <2>3, <2>4 DEF Blank, Torn
<1>9. kk[0] = k[0] /\ kk[p] = k[p] /\ \A a \in 1 .. p : kk[a] = k[a] BY <1>1, <1>5, Lengths
<1>10. Layout(kk, p + 1) /\ SameHeads(k, kk, p + 1)
  <2>1. p \in 1 .. p + 1 - 1 /\ IsHeader(k, p) /\ k[p].valid = "erased" /\ k[p].addr = d /\ k[p].block = b
    BY <1>1, <1>2 DEF IsHeader
  <2>2. \A x \in 1 .. FeeClusterLength - 1 :
           \/ kk[x] = k[x]
           \/ x \in d .. d + size - 1 /\ kk[x].kind \in {"blank", "torn", "data"}
    BY <1>5, <1>8, Lengths
  <2>3. \A x \in 1 .. FeeClusterLength - 1 :
           \/ kk[x] = k[x]
           \/ /\ x \in k[p].addr .. k[p].addr + FeeBlockSize[k[p].block] - 1
              /\ kk[x].kind \in {"blank", "torn", "data"}
    BY <2>1, <2>2 DEF size
  <2>4. QED BY <1>1, <1>2, <1>5, <2>1, <2>3, FillData
<1>11. Low(kk, p + 1, d) BY <1>2, <1>10, SameLow
<1>12. Opened(fl2, f, b + 1) BY <1>1, <1>2, <1>9, <1>10, <1>11 DEF Opened, c, kk, d
<1>13. Copied(fl2, f, b)
  <2>1. \A a \in 1 .. p - 1 : kk[a] = k[a] BY <1>1, <1>9
  <2>2. \A a \in Room(f, b) .. FeeClusterLength - 1 : kk[a] = k[a] BY <1>1, <1>5, Lengths
  <2>3. QED BY <1>1, <1>2, <1>3, <1>5, <2>1, <2>2, CopiedKept DEF c, k, kk, p
<1>14. Header(fl2, f, b, "erased") BY <1>2, <1>9 DEF Header, c, kk, p, d
<1>15. Elsewhere(fl, fl2, c)
  <2>1. ~ ValidCluster(kk) BY <1>2, <1>9, Unsealed
  <2>2. \A a \in Address : kk[a] = k[a] \/ kk[a].kind # "block" BY <1>5, <1>8
  <2>3. QED BY <1>1, <1>3, <1>5, <2>1, <2>2, WrittenElsewhere DEF k, kk
<1>16. ASSUME RangeSet(fl, fl2, c, d, Source(fl, f, b), size)
       PROVE  Same(fl2, f, b)
  <2>1. ASSUME NEW i \in 1 .. size
        PROVE  kk[d + i - 1] = fl2[f.cluster][from + i - 1]
    <3> DEFINE a == d + i - 1
    <3>1. a \in Address /\ a \in d .. d + size - 1 /\ a - d + 1 = i BY <1>1, Lengths
    <3> HIDE DEF a
    <3>2. kk[a] = Source(fl, f, b)[a - d + 1] BY <1>16, <3>1 DEF RangeSet, kk
    <3>3. QED BY <1>5, <1>6, <3>1, <3>2 DEF a
  <2>2. QED BY <1>4, <2>1 DEF Same, c, kk, d, size, from
<1>17. QED BY <1>12, <1>13, <1>14, <1>15, <1>16 DEF Half, c, d, size

\* The valid flag of the copied block b is set.
LEMMA Sealing ==
  ASSUME NEW fl, NEW f, NEW b, Copying(fl, f, b), Takes(f, b), Half(fl, f, b), Same(fl, f, b), NEW fl2,
         CellSet(fl, fl2, f.swap.cluster, Place(f, b), [fl[f.swap.cluster][Place(f, b)] EXCEPT !.valid = "set"])
  PROVE  Part(fl2, f, b + 1) /\ Elsewhere(fl, fl2, f.swap.cluster)
<1> DEFINE c == f.swap.cluster
           k == fl[c]
           kk == fl2[c]
           p == Place(f, b)
           d == Room(f, b + 1)
           size == FeeBlockSize[b]
           from == f.info[b].dataAddr
<1>1. /\ k \in Contents /\ b \in Block /\ b \in 0 .. FeeBlockSum
      /\ p \in Nat /\ p >= 1 /\ p \in Address /\ Place(f, b + 1) = p + 1
      /\ d \in Nat /\ d \in Address /\ p + 4 <= d /\ size \in Nat /\ size >= 1
      /\ Room(f, b) = d + size /\ Room(f, b) <= FeeClusterLength /\ c \in Cluster /\ c # f.cluster
  BY CopyingIs
<1>2. /\ k[0] = ClusterHdr(f.useId + 1, "erased") /\ Layout(k, p + 1) /\ Low(k, p + 1, d)
      /\ \A a \in 1 .. p + 1 - 1 : \E x \in Carried(f) : x < b + 1 /\ a = Place(f, x)
      /\ Copied(fl, f, b)
      /\ k[p] = [kind |-> "block", block |-> b, addr |-> d, valid |-> "erased", invalid |-> "erased"]
  BY <1>1 DEF Half, Opened, Header
<1>3. /\ fl \in Disks /\ RamOK(f) /\ Running(fl, f) /\ NoneAtDone(f) /\ b \in Carried(f) /\ f.cluster \in Cluster
  BY DEF Copying
<1>4. /\ f.info[b].cluster = f.cluster /\ from \in Nat /\ from + size <= FeeClusterLength
      /\ Whole(fl[f.cluster], from, b) /\ f.info[b].status = "FEE_BLOCK_VALID"
  BY <1>1, <1>3, CarriedIs DEF Takes, NoneAtDone
<1>5. kk[p] = [k[p] EXCEPT !.valid = "set"] BY DEF CellSet
<1>6. kk[p] = [kind |-> "block", block |-> b, addr |-> d, valid |-> "set", invalid |-> "erased"]
  BY <1>2, <1>5
<1>7. /\ fl2 \in Disks /\ Others(fl, fl2, c) /\ kk \in Contents /\ fl2[f.cluster] = fl[f.cluster]
      /\ \A a \in Address \ {p} : kk[a] = k[a]
  BY <1>1, <1>3 DEF CellSet, Disks, Others
<1>8. \A i \in 1 .. size : k[d + i - 1] = fl[f.cluster][from + i - 1] BY <1>4 DEF Same
<1> HIDE DEF c, k, kk, p, d, size, from
<1>9. \A x \in 1 .. FeeClusterLength - 1 : x # p => kk[x] = k[x] BY <1>7, Lengths
<1>10. kk[0] = ClusterHdr(f.useId + 1, "erased") BY <1>1, <1>2, <1>7, Lengths, SMTT(30)
<1>11. SameHeads(k, kk, p + 1) BY <1>1, <1>2, <1>6, <1>7, Lengths, SMTT(30) DEF SameHeads
<1>12. Layout(kk, p + 1)
  <2>1. \A x \in p + 1 .. FeeClusterLength - 1 : kk[x] = k[x] BY <1>1, <1>9, Lengths
  <2>2. Whole(k, d, b)
    <3>1. PICK v \in Value : Holds(fl[f.cluster], from, b, v) BY <1>4 DEF Whole
    <3>2. \A i \in 1 .. size : k[d + i - 1] = [kind |-> "data", value |-> v, part |-> i]
      BY <1>8, <3>1 DEF Holds, size
    <3>3. QED BY <3>2 DEF Whole, Holds, size
  <2>3. ASSUME NEW a \in 1 .. p + 1 - 1, IsHeader(k, a), kk[a].valid = "set"
        PROVE  Whole(k, k[a].addr, k[a].block)
    <3>1. CASE a = p BY <1>2, <2>2, <3>1
    <3>2. CASE a # p
      <4>1. a \in Address \ {p} BY <1>1, <3>2, Lengths
      <4>2. k[a].valid = "set" BY <1>7, <2>3, <4>1
      <4>3. QED BY <1>1, <1>2, <2>3, <4>2, HeaderIs
    <3>3. QED BY <3>1, <3>2
  <2>4. QED BY <1>1, <1>2, <1>7, <1>11, <2>1, <2>3, FlagHeaders
<1>13. Low(kk, p + 1, d) BY <1>2, <1>11, SameLow
<1>14. Opened(fl2, f, b + 1) BY <1>1, <1>2, <1>10, <1>12, <1>13 DEF Opened, c, kk, d
<1>15. Copied(fl2, f, b)
  <2>1. \A a \in 1 .. p - 1 : kk[a] = k[a] BY <1>1, <1>9, Lengths
  <2>2. \A a \in Room(f, b) .. FeeClusterLength - 1 : kk[a] = k[a] BY <1>1, <1>9, Lengths
  <2>3. QED BY <1>1, <1>2, <1>3, <1>7, <2>1, <2>2, CopiedKept DEF c, k, kk, p
<1>16. Header(fl2, f, b, "set") BY <1>6 DEF Header, c, kk, p, d
<1>17. Same(fl2, f, b)
  <2>1. ASSUME NEW i \in 1 .. size
        PROVE  kk[d + i - 1] = fl2[f.cluster][from + i - 1]
    <3>1. d + i - 1 \in 1 .. FeeClusterLength - 1 /\ d + i - 1 # p BY <1>1, Lengths
    <3>2. QED BY <1>7, <1>8, <1>9, <3>1
  <2>2. QED BY <1>4, <2>1 DEF Same, c, kk, d, size, from
<1>18. Copied(fl2, f, b + 1)
  <2>1. \A x \in Carried(f) : x < b + 1 => x < b \/ x = b
    <3>1. \A x \in Carried(f) : x \in Nat BY Numbers DEF Carried
    <3>2. b \in Nat BY <1>1, Numbers
    <3>3. QED BY <3>1, <3>2
  <2>2. QED BY <1>4, <1>15, <1>16, <1>17, <2>1 DEF Copied
<1>19. Elsewhere(fl, fl2, c) BY <1>1, <1>3, <1>6, <1>7, <1>10, Unsealed, WrittenElsewhere DEF k, kk
<1>20. QED BY <1>14, <1>18, <1>19 DEF Part, c

-----------------------------------------------------------------------------
SwapAt(f, n, d, h) == [f EXCEPT !.swap.block = n, !.swap.dataAddr = d, !.swap.hdrAddr = h]

LEMMA SwapAtIs ==
  ASSUME NEW f, RamOK(f), NEW n \in 0 .. FeeBlockSum, NEW d \in 0 .. FeeClusterLength, NEW h \in Address
  PROVE  LET g == SwapAt(f, n, d, h)
         IN  /\ RamOK(g) /\ Core(f, g)
             /\ g.status = f.status /\ g.job = f.job /\ g.result = f.result /\ g.block = f.block
             /\ g.data = f.data /\ g.idx = f.idx /\ g.mem = f.mem
             /\ g.swap = [cluster |-> f.swap.cluster, block |-> n, dataAddr |-> d, hdrAddr |-> h,
                          preJob |-> f.swap.preJob]
<1> DEFINE s == [cluster |-> f.swap.cluster, block |-> n, dataAddr |-> d, hdrAddr |-> h, preJob |-> f.swap.preJob]
           g == SwapAt(f, n, d, h)
<1>1. DOMAIN f = RamFields /\ f = [x \in RamFields |-> f[x]] /\ f.swap \in Swaps BY DEF RamOK
<1> DEFINE was == f.swap
           now == [was EXCEPT !.block = n, !.dataAddr = d, !.hdrAddr = h]
<1>2. DOMAIN was = {"cluster", "block", "dataAddr", "hdrAddr", "preJob"} BY <1>1 DEF Swaps
<1>3. now = s
  <2> HIDE DEF was
  <2>1. /\ DOMAIN now = DOMAIN was /\ now = [x \in DOMAIN now |-> now[x]]
        /\ now.cluster = was.cluster /\ now.block = n /\ now.dataAddr = d /\ now.hdrAddr = h
        /\ now.preJob = was.preJob
    BY <1>2
  <2> HIDE DEF now
  <2>2. QED BY <1>2, <2>1 DEF was
<1>4. g = [f EXCEPT !.swap = now] BY <1>1 DEF SwapAt, RamFields
<1> HIDE DEF now
<1>5. s \in Swaps BY <1>1 DEF Swaps
<1> HIDE DEF s, g
<1>6. g = [f EXCEPT !.swap = s] BY <1>3, <1>4
<1>7. g.swap = s /\ RamOK(g) /\ Core(f, g)
      /\ g.status = f.status /\ g.job = f.job /\ g.result = f.result /\ g.block = f.block
      /\ g.data = f.data /\ g.idx = f.idx /\ g.mem = f.mem
  BY <1>5, <1>6 DEF RamOK, RamFields, Core
<1>8. QED BY <1>7 DEF s, g

\* Blocks that are not taken along need no place.
LEMMA PartSkips ==
  ASSUME NEW fl, NEW f, NEW n \in 0 .. FeeBlockSum, NEW m \in n .. FeeBlockSum,
         \A b \in Carried(f) : b < n \/ b >= m
  PROVE  /\ Place(f, m) = Place(f, n) /\ Room(f, m) = Room(f, n)
         /\ Part(fl, f, n) => Part(fl, f, m)
<1>1. n \in Nat /\ m \in Nat /\ n <= m /\ m <= FeeBlockSum /\ FeeBlockSum \in Nat BY Numbers
<1>2. \A b \in n .. m - 1 : b \notin Carried(f) BY <1>1
<1>3. Place(f, m) = Place(f, n) /\ Room(f, m) = Room(f, n) BY <1>2, BelowSkips DEF Place, Room
<1>4. \A b \in Carried(f) : b \in Nat BY Numbers DEF Carried
<1>5. \A b \in Carried(f) : b < n <=> b < m BY <1>1, <1>4
<1>6. Opened(fl, f, n) => Opened(fl, f, m) BY <1>3, <1>5 DEF Opened
<1>7. Copied(fl, f, n) => Copied(fl, f, m) BY <1>5 DEF Copied
<1>8. QED BY <1>3, <1>6, <1>7 DEF Part

SwapReq(f, req) ==
  /\ f.swap.preJob = req.job /\ f.swap.cluster = (f.cluster + 1) % ClusterCount
  /\ \/ req.job = "FEE_JOB_WRITE" /\ f.block \notin FeeImmediateData
     \/ req.job = "FEE_JOB_ERASE_IMMEDIATE" /\ f.block \in FeeImmediateData

\* Fee programs the header of the next block, or the valid flag of the cluster.
LEMMA NextBlock ==
  ASSUME NEW fl, NEW f, NEW req, Busy(fl, f, req), SwapReq(f, req), NoneAtDone(f),
         f.swap.block \in 0 .. FeeBlockSum, At(f, f.swap.block), Part(fl, f, f.swap.block)
  PROVE  Ready(fl, JobNotiHandle(JobIntSwapBlock(f)), req)
<1> DEFINE n == f.swap.block
           rest == {b \in Carried(f) : b >= n}
           c == f.swap.cluster
<1>1. RamOK(f) /\ Busy(fl, f, req) /\ n \in Nat /\ n <= FeeBlockSum /\ FeeBlockSum \in Nat
  BY Numbers DEF Busy
<1>2. \A b \in Carried(f) : b \in Block /\ b \in Nat /\ b < FeeBlockSum BY Numbers DEF Carried
<1>3. f.swap.hdrAddr = Place(f, n) /\ f.swap.dataAddr = Room(f, n) BY DEF At
<1>4. CASE rest = {}
  <2> DEFINE g == Start(f, SetFlag(c, 0, "valid"), "FEE_JOB_INT_SWAP_CLUSTER_VLD_DONE")
  <2>1. JobIntSwapBlock(f) = g BY <1>4 DEF JobIntSwapBlock, JobIntSwapClusterVld
  <2>2. Part(fl, f, FeeBlockSum) BY <1>1, <1>2, <1>4, PartSkips
  <2>3. "FEE_JOB_INT_SWAP_CLUSTER_VLD_DONE" \in JobType /\ "FEE_JOB_INT_SWAP_CLUSTER_VLD_DONE" \in SwapJobs
    BY DEF JobType, SwapJobs
  <2>4. g.job = "FEE_JOB_INT_SWAP_CLUSTER_VLD_DONE" /\ g.mem = SetFlag(c, 0, "valid") /\ g.swap = f.swap /\ SamePlan(f, g)
    BY <1>1, <2>3, StartIs DEF Core, SamePlan
  <2> HIDE DEF g
  <2>5. Part(fl, g, FeeBlockSum) BY <2>2, <2>4, PlanSame
  <2>6. Swapping(fl, g) BY <2>4, <2>5 DEF Swapping
  <2>7. Ready(fl, JobNotiHandle(g), req) BY <2>3, <2>6, SwapGoesOn DEF g, SwapReq
  <2>8. QED BY <2>1, <2>7
<1>5. CASE rest # {}
  <2> DEFINE b == Min(rest)
             addr == f.swap.dataAddr - FeeBlockSize[b]
             h == f.swap.hdrAddr + 1
             valid == f.info[b].status = "FEE_BLOCK_VALID"
             m == IF valid THEN b ELSE b + 1
             s == SwapAt(f, m, addr, h)
             mem == Program(c, f.swap.hdrAddr, <<BlockHdr(b, addr)>>)
             job == IF valid THEN "FEE_JOB_INT_SWAP_DATA_READ" ELSE "FEE_JOB_INT_SWAP_BLOCK"
             g == Start(s, mem, job)
  <2>1. JobIntSwapBlock(f) = g BY <1>5 DEF JobIntSwapBlock, SwapAt
  <2>2. b \in rest /\ \A x \in rest : b <= x BY <1>2, <1>5, MinIs
  <2> HIDE DEF b
  <2>3. /\ b \in Carried(f) /\ b \in Block /\ b >= n /\ b \in 0 .. FeeBlockSum /\ b + 1 \in 0 .. FeeBlockSum
        /\ b \in n .. FeeBlockSum
    BY <1>1, <1>2, <2>2, Numbers
  <2>4. Place(f, b) = Place(f, n) /\ Room(f, b) = Room(f, n) /\ Part(fl, f, b)
    BY <1>1, <1>2, <2>2, <2>3, PartSkips
  <2>5. Place(f, b + 1) = h /\ Room(f, b + 1) = addr BY <1>3, <2>3, <2>4, PlaceIs
  <2>6. h \in Address /\ addr \in 0 .. FeeClusterLength BY <2>3, <2>5, PlaceIs, Lengths
  <2>7. m \in 0 .. FeeBlockSum BY <2>3
  <2> HIDE DEF h, addr, m, valid
  <2>8. /\ RamOK(s) /\ Core(f, s)
        /\ s.status = f.status /\ s.job = f.job /\ s.result = f.result /\ s.block = f.block
        /\ s.data = f.data /\ s.mem = f.mem
        /\ s.swap = [cluster |-> f.swap.cluster, block |-> m, dataAddr |-> addr, hdrAddr |-> h,
                     preJob |-> f.swap.preJob]
    BY <1>1, <2>6, <2>7, SwapAtIs
  <2> HIDE DEF s
  <2>9. job \in JobType /\ job \in SwapJobs BY DEF JobType, SwapJobs
  <2>10. g.job = job /\ g.mem = mem /\ g.swap = s.swap /\ SamePlan(f, g)
    BY <2>8, <2>9, StartIs DEF Core, SamePlan
  <2>11. NoneAtDone(s) /\ Busy(fl, s, req) /\ SwapReq(s, req)
    BY <1>1, <2>8, RamKept DEF AtDone, Writing, Busy, NoneAtDone, SwapReq, Core
  <2> HIDE DEF g, job
  <2>12. /\ Part(fl, g, b) /\ b \in Carried(g) /\ (Takes(g, b) <=> Takes(f, b))
         /\ Place(g, b + 1) = Place(f, b + 1) /\ Room(g, b + 1) = Room(f, b + 1) /\ ProgramHeader(g, b) = ProgramHeader(f, b)
    BY <2>3, <2>4, <2>10, PlanSame
  <2>13. At(g, b + 1) /\ g.mem = ProgramHeader(g, b) /\ g.swap.block = m /\ g.swap.cluster = c
    BY <1>3, <2>4, <2>5, <2>8, <2>10, <2>12 DEF ProgramHeader, At
  <2>14. Swapping(fl, g)
    <3>1. CASE valid
      <4>1. Takes(g, b) /\ m = b /\ g.job = "FEE_JOB_INT_SWAP_DATA_READ"
        BY <2>3, <2>10, <2>12, <3>1 DEF Takes, valid, m, job
      <4>2. QED BY <2>12, <2>13, <4>1 DEF Swapping
    <3>2. CASE ~ valid BY <2>10, <2>12, <2>13, <3>2 DEF Takes, valid, m, job, Swapping
    <3>3. QED BY <3>1, <3>2
  <2>15. Ready(fl, JobNotiHandle(g), req) BY <2>9, <2>11, <2>14, SwapGoesOn DEF g, SwapReq
  <2>16. QED BY <2>1, <2>15 DEF g, job, s, h, addr, m, valid, b
<1>6. QED BY <1>4, <1>5

LEMMA SwappingIs ==
  ASSUME NEW fl, NEW f, Swapping(fl, f)
  PROVE  LET c == f.swap.cluster
             n == f.swap.block
         IN  /\ f.job = "FEE_JOB_INT_SWAP_CLUSTER_CLEAR" => f.mem = Erase(c) /\ At(f, 0) /\ n = 0
             /\ f.job = "FEE_JOB_INT_SWAP_BLOCK" =>
                  /\ At(f, n)
                  /\ \/ /\ n = 0 /\ f.mem = Program(c, 0, <<ClusterHdr(f.useId + 1, "erased")>>)
                        /\ \A a \in Address : fl[c][a] = Blank
                     \/ \E b \in Carried(f) \ {x \in Block : Takes(f, x)} :
                          n = b + 1 /\ f.mem = ProgramHeader(f, b) /\ Part(fl, f, b)
                     \/ \E b \in Carried(f) :
                          /\ Takes(f, b) /\ n = b + 1 /\ f.mem = SetFlag(c, Place(f, b), "valid")
                          /\ Half(fl, f, b) /\ Same(fl, f, b)
             /\ f.job = "FEE_JOB_INT_SWAP_DATA_READ" =>
                  Takes(f, n) /\ At(f, n + 1) /\ f.mem = ProgramHeader(f, n) /\ Part(fl, f, n)
             /\ f.job = "FEE_JOB_INT_SWAP_DATA_WRITE" =>
                  /\ Takes(f, n) /\ At(f, n + 1)
                  /\ f.mem = Read(f.info[n].cluster, f.info[n].dataAddr, FeeBlockSize[n])
                  /\ Half(fl, f, n) /\ Empty(fl[c], Room(f, n + 1), n)
             /\ f.job = "FEE_JOB_INT_SWAP_BLOCK_VLD" =>
                  /\ Takes(f, n) /\ At(f, n + 1)
                  /\ f.mem = Program(c, Room(f, n + 1), Source(fl, f, n))
                  /\ Half(fl, f, n) /\ Empty(fl[c], Room(f, n + 1), n)
             /\ f.job = "FEE_JOB_INT_SWAP_CLUSTER_VLD_DONE" =>
                  f.mem = SetFlag(c, 0, "valid") /\ Part(fl, f, FeeBlockSum)
BY DEF Swapping

\* The RAM after a flash request of a swap, and the plan it goes on with.
SwapLeft(fl, f, g, req) ==
  /\ RamOK(g) /\ Busy(fl, g, req) /\ SwapReq(g, req) /\ NoneAtDone(g) /\ SamePlan(f, g) /\ g.swap = f.swap
  /\ g.cluster = f.cluster

LEMMA SwapLeaves ==
  ASSUME NEW fl, NEW f, NEW req, NEW fl2, Busy(fl, f, req), Serving(fl, f, req), f.job \in SwapJobs,
         Elsewhere(fl, fl2, f.swap.cluster)
  PROVE  SwapLeft(fl2, f, Cleared(f), req)
<1> DEFINE g == Cleared(f)
<1>1. Busy(fl2, g, req) /\ RamOK(f) /\ f.status = "MEMIF_BUSY" BY BusyElsewhere, BusyIs
<1>2. /\ RamOK(g) /\ Core(f, g) /\ g.job = f.job /\ g.block = f.block /\ g.swap = f.swap
  BY <1>1, ClearedIs
<1>3. SwapReq(f, req) BY ServingIs DEF SwapReq
<1> HIDE DEF g
<1>4. NoneAtDone(g) BY <1>2, NotAtDone DEF SwapJobs
<1>5. SamePlan(f, g) /\ SwapReq(g, req) /\ g.cluster = f.cluster
  BY <1>2, <1>3 DEF SamePlan, Core, SwapReq
<1>6. QED BY <1>1, <1>2, <1>4, <1>5 DEF SwapLeft, g

LEMMA SameElsewhere ==
  ASSUME NEW fl \in Disks, NEW c
  PROVE  Elsewhere(fl, fl, c)
BY DEF Elsewhere, Others

\* The block to be copied next.
LEMMA SwapCopies ==
  ASSUME NEW fl, NEW f, NEW req, Busy(fl, f, req), Serving(fl, f, req), f.job \in SwapJobs,
         NEW b \in Carried(f)
  PROVE  Copying(fl, f, b) /\ b \in Block /\ b + 1 \in 0 .. FeeBlockSum /\ b \in 0 .. FeeBlockSum
BY Numbers, SwapIs DEF Carried, Copying

\* What a power loss leaves of the erase, and of the whole of it.
LEMMA SwapErase ==
  ASSUME NEW fl, NEW f, NEW req, Busy(fl, f, req), Serving(fl, f, req), f.job \in SwapJobs,
         NEW fl2 \in Disks, Others(fl, fl2, f.swap.cluster),
         fl2[f.swap.cluster][0] \in {fl[f.swap.cluster][0], Blank, Torn},
         \A a \in Address \ {0} : fl2[f.swap.cluster][a] \in {Blank, Torn}
  PROVE  Elsewhere(fl, fl2, f.swap.cluster)
<1> DEFINE k == fl2[f.swap.cluster]
<1>1. ValidCluster(k) => k[0] = fl[f.swap.cluster][0] BY NoBlankValid
<1>2. \A a \in Address : IsHeader(k, a) => a = 0 BY DEF IsHeader, Blank, Torn
<1>3. IsHeader(k, 0) => k[0] = fl[f.swap.cluster][0] BY DEF IsHeader, Blank, Torn
<1>4. QED BY <1>1, <1>2, <1>3 DEF Elsewhere

LEMMA EndOfSwapErase ==
  ASSUME NEW fl, NEW f, NEW req, NEW fl2, Busy(fl, f, req), Serving(fl, f, req),
         f.job = "FEE_JOB_INT_SWAP_CLUSTER_CLEAR", Elsewhere(fl, fl2, f.swap.cluster),
         \A a \in Address : fl2[f.swap.cluster][a] = Blank
  PROVE  Ready(fl2, JobNotiHandle(JobIntSwapClusterClear(Cleared(f))), req)
<1> DEFINE f0 == Cleared(f)
           c == f0.swap.cluster
           mem == Program(c, 0, <<ClusterHdr(f0.useId + 1, "erased")>>)
           g == Start(f0, mem, "FEE_JOB_INT_SWAP_BLOCK")
<1>1. f.job \in SwapJobs /\ "FEE_JOB_INT_SWAP_BLOCK" \in SwapJobs /\ "FEE_JOB_INT_SWAP_BLOCK" \in JobType
  BY DEF SwapJobs, JobType
<1>2. At(f, 0) /\ f.swap.block = 0 BY <1>1, SwapIs, SwappingIs
<1>3. SwapLeft(fl2, f, f0, req) BY <1>1, SwapLeaves
<1> HIDE DEF f0
<1>4. g.job = "FEE_JOB_INT_SWAP_BLOCK" /\ g.mem = mem /\ g.swap = f0.swap /\ SamePlan(f0, g)
  BY <1>1, <1>3, StartIs DEF SwapLeft, Core, SamePlan
<1>5. JobIntSwapClusterClear(f0) = g BY DEF JobIntSwapClusterClear
<1> HIDE DEF g
<1>6. g.swap = f.swap /\ g.useId = f0.useId /\ SamePlan(f, g) BY <1>3, <1>4 DEF SwapLeft, SamePlan
<1>7. At(g, 0) BY <1>2, <1>6, PlanSame DEF At
<1>8. Swapping(fl2, g) BY <1>2, <1>4, <1>6, <1>7 DEF Swapping
<1>9. Ready(fl2, JobNotiHandle(g), req) BY <1>1, <1>3, <1>8, SwapGoesOn DEF g, SwapLeft, SwapReq
<1>10. QED BY <1>5, <1>9 DEF f0

LEMMA EndOfSwapBlock ==
  ASSUME NEW fl, NEW f, NEW req, NEW fl2, Busy(fl, f, req), Serving(fl, f, req),
         f.job = "FEE_JOB_INT_SWAP_BLOCK", Elsewhere(fl, fl2, f.swap.cluster), Part(fl2, f, f.swap.block)
  PROVE  Ready(fl2, JobNotiHandle(JobIntSwapBlock(Cleared(f))), req)
<1> DEFINE f0 == Cleared(f)
           n == f.swap.block
<1>1. f.job \in SwapJobs BY DEF SwapJobs
<1>2. At(f, n) /\ n \in 0 .. FeeBlockSum BY <1>1, SwapIs, SwappingIs DEF Swaps
<1>3. SwapLeft(fl2, f, f0, req) BY <1>1, SwapLeaves
<1> HIDE DEF f0
<1>4. f0.swap = f.swap /\ SamePlan(f, f0) BY <1>3 DEF SwapLeft
<1>5. At(f0, n) /\ Part(fl2, f0, n) BY <1>2, <1>4, PlanSame DEF At
<1>6. Ready(fl2, JobNotiHandle(JobIntSwapBlock(f0)), req)
  BY <1>2, <1>3, <1>4, <1>5, NextBlock DEF SwapLeft
<1>7. QED BY <1>6 DEF f0

LEMMA EndOfSwapHeader ==
  ASSUME NEW fl, NEW f, NEW req, NEW fl2, Busy(fl, f, req), Serving(fl, f, req),
         f.job = "FEE_JOB_INT_SWAP_DATA_READ", Elsewhere(fl, fl2, f.swap.cluster), Half(fl2, f, f.swap.block),
         Empty(fl2[f.swap.cluster], Room(f, f.swap.block + 1), f.swap.block)
  PROVE  Ready(fl2, JobNotiHandle(JobIntSwapDataRead(Cleared(f))), req)
<1> DEFINE f0 == Cleared(f)
           n == f0.swap.block
           mem == Read(f0.info[n].cluster, f0.info[n].dataAddr, FeeBlockSize[n])
           g == Start(f0, mem, "FEE_JOB_INT_SWAP_DATA_WRITE")
<1>1. f.job \in SwapJobs /\ "FEE_JOB_INT_SWAP_DATA_WRITE" \in SwapJobs /\ "FEE_JOB_INT_SWAP_DATA_WRITE" \in JobType
  BY DEF SwapJobs, JobType
<1>2. Takes(f, f.swap.block) /\ At(f, f.swap.block + 1) BY <1>1, SwapIs, SwappingIs
<1>3. SwapLeft(fl2, f, f0, req) BY <1>1, SwapLeaves
<1> HIDE DEF f0
<1>4. JobIntSwapDataRead(f0) = g BY DEF JobIntSwapDataRead
<1>5. g.job = "FEE_JOB_INT_SWAP_DATA_WRITE" /\ g.mem = mem /\ g.swap = f0.swap /\ SamePlan(f0, g)
  BY <1>1, <1>3, StartIs DEF SwapLeft, Core, SamePlan
<1> HIDE DEF g
<1>6. g.swap = f.swap /\ f0.swap = f.swap /\ f0.info = g.info /\ SamePlan(f, g)
  BY <1>3, <1>5 DEF SwapLeft, SamePlan
<1>7. /\ At(g, n + 1) /\ Takes(g, n) /\ Half(fl2, g, n) /\ Empty(fl2[g.swap.cluster], Room(g, n + 1), n)
      /\ g.swap.block = n
  BY <1>2, <1>6, PlanSame DEF At
<1>8. Swapping(fl2, g) BY <1>5, <1>6, <1>7 DEF Swapping
<1>9. Ready(fl2, JobNotiHandle(g), req) BY <1>1, <1>3, <1>8, SwapGoesOn DEF g, SwapLeft, SwapReq
<1>10. QED BY <1>4, <1>9 DEF f0

LEMMA EndOfSwapRead ==
  ASSUME NEW fl, NEW f, NEW req, Busy(fl, f, req), Serving(fl, f, req),
         f.job = "FEE_JOB_INT_SWAP_DATA_WRITE"
  PROVE  Ready(fl, JobNotiHandle(JobIntSwapDataWrite(Cleared(f), Source(fl, f, f.swap.block))), req)
<1> DEFINE f0 == Cleared(f)
           n == f0.swap.block
           mem == Program(f0.swap.cluster, f0.swap.dataAddr, Source(fl, f, f.swap.block))
           g == Start(f0, mem, "FEE_JOB_INT_SWAP_BLOCK_VLD")
<1>1. f.job \in SwapJobs /\ "FEE_JOB_INT_SWAP_BLOCK_VLD" \in SwapJobs /\ "FEE_JOB_INT_SWAP_BLOCK_VLD" \in JobType
  BY DEF SwapJobs, JobType
<1>2. /\ Takes(f, f.swap.block) /\ At(f, f.swap.block + 1) /\ Half(fl, f, f.swap.block)
      /\ Empty(fl[f.swap.cluster], Room(f, f.swap.block + 1), f.swap.block)
  BY <1>1, SwapIs, SwappingIs
<1>3. SwapLeft(fl, f, f0, req) BY <1>1, SwapIs, SameElsewhere, SwapLeaves
<1> HIDE DEF f0
<1>4. JobIntSwapDataWrite(f0, Source(fl, f, f.swap.block)) = g BY DEF JobIntSwapDataWrite
<1>5. g.job = "FEE_JOB_INT_SWAP_BLOCK_VLD" /\ g.mem = mem /\ g.swap = f0.swap /\ SamePlan(f0, g)
  BY <1>1, <1>3, StartIs DEF SwapLeft, Core, SamePlan
<1> HIDE DEF g
<1>6. g.swap = f.swap /\ f0.swap = f.swap /\ SamePlan(f, g) BY <1>3, <1>5 DEF SwapLeft, SamePlan
<1>7. /\ At(g, n + 1) /\ Takes(g, n) /\ Half(fl, g, n) /\ Empty(fl[g.swap.cluster], Room(g, n + 1), n)
      /\ g.swap.block = n /\ f0.swap.dataAddr = Room(g, n + 1) /\ Source(fl, f, n) = Source(fl, g, n)
  BY <1>2, <1>6, PlanSame DEF At
<1>8. Swapping(fl, g) BY <1>5, <1>6, <1>7 DEF Swapping
<1>9. Ready(fl, JobNotiHandle(g), req) BY <1>1, <1>3, <1>8, SwapGoesOn DEF g, SwapLeft, SwapReq
<1>10. QED BY <1>4, <1>9 DEF f0

SwapNext(f, n) == [f EXCEPT !.swap.block = n]

LEMMA SwapNextIs ==
  ASSUME NEW f, RamOK(f), NEW n \in 0 .. FeeBlockSum
  PROVE  LET g == SwapNext(f, n)
         IN  /\ RamOK(g) /\ Core(f, g)
             /\ g.status = f.status /\ g.job = f.job /\ g.result = f.result /\ g.block = f.block
             /\ g.data = f.data /\ g.idx = f.idx /\ g.mem = f.mem
             /\ g.swap = [cluster |-> f.swap.cluster, block |-> n, dataAddr |-> f.swap.dataAddr,
                          hdrAddr |-> f.swap.hdrAddr, preJob |-> f.swap.preJob]
<1> DEFINE s == [cluster |-> f.swap.cluster, block |-> n, dataAddr |-> f.swap.dataAddr,
                 hdrAddr |-> f.swap.hdrAddr, preJob |-> f.swap.preJob]
           g == SwapNext(f, n)
<1>1. DOMAIN f = RamFields /\ f = [x \in RamFields |-> f[x]] /\ f.swap \in Swaps BY DEF RamOK
<1> DEFINE was == f.swap
           now == [was EXCEPT !.block = n]
<1>2. DOMAIN was = {"cluster", "block", "dataAddr", "hdrAddr", "preJob"} BY <1>1 DEF Swaps
<1>3. now = s
  <2> HIDE DEF was
  <2>1. /\ DOMAIN now = DOMAIN was /\ now = [x \in DOMAIN now |-> now[x]]
        /\ now.cluster = was.cluster /\ now.block = n /\ now.dataAddr = was.dataAddr /\ now.hdrAddr = was.hdrAddr
        /\ now.preJob = was.preJob
    BY <1>2
  <2> HIDE DEF now
  <2>2. QED BY <1>2, <2>1 DEF was
<1>4. g = [f EXCEPT !.swap = now] BY <1>1 DEF SwapNext, RamFields
<1> HIDE DEF now
<1>5. s \in Swaps BY <1>1 DEF Swaps
<1> HIDE DEF s, g
<1>6. g = [f EXCEPT !.swap = s] BY <1>3, <1>4
<1>7. g.swap = s /\ RamOK(g) /\ Core(f, g)
      /\ g.status = f.status /\ g.job = f.job /\ g.result = f.result /\ g.block = f.block
      /\ g.data = f.data /\ g.idx = f.idx /\ g.mem = f.mem
  BY <1>5, <1>6 DEF RamOK, RamFields, Core
<1>8. QED BY <1>7 DEF s, g

LEMMA EndOfSwapData ==
  ASSUME NEW fl, NEW f, NEW req, NEW fl2, Busy(fl, f, req), Serving(fl, f, req),
         f.job = "FEE_JOB_INT_SWAP_BLOCK_VLD", Elsewhere(fl, fl2, f.swap.cluster),
         Half(fl2, f, f.swap.block), Same(fl2, f, f.swap.block)
  PROVE  Ready(fl2, JobNotiHandle(JobIntSwapBlockVldWrite(Cleared(f))), req)
<1> DEFINE f0 == Cleared(f)
           n == f.swap.block
           s == SwapNext(f0, n + 1)
           mem == SetFlag(f.swap.cluster, f.swap.hdrAddr - 1, "valid")
           g == Start(s, mem, "FEE_JOB_INT_SWAP_BLOCK")
<1>1. f.job \in SwapJobs /\ "FEE_JOB_INT_SWAP_BLOCK" \in SwapJobs /\ "FEE_JOB_INT_SWAP_BLOCK" \in JobType
  BY DEF SwapJobs, JobType
<1>2. Takes(f, n) /\ At(f, n + 1) BY <1>1, SwapIs, SwappingIs
<1>3. SwapLeft(fl2, f, f0, req) BY <1>1, SwapLeaves
<1> HIDE DEF f0
<1>4. f0.swap = f.swap BY <1>3 DEF SwapLeft
<1>5. JobIntSwapBlockVldWrite(f0) = g BY <1>4 DEF JobIntSwapBlockVldWrite, SwapNext
<1>6. n \in Block /\ n \in Nat /\ n + 1 \in 0 .. FeeBlockSum /\ n \in Carried(f)
  BY <1>2, Numbers DEF Takes, Carried
<1>7. f.swap.hdrAddr = Place(f, n) + 1 /\ Place(f, n) \in Nat BY <1>2, <1>6, PlaceIs, Numbers DEF At
<1>8. mem = SetFlag(f.swap.cluster, Place(f, n), "valid") BY <1>7
<1> HIDE DEF mem
<1>9. /\ RamOK(s) /\ Core(f0, s)
      /\ s.status = f0.status /\ s.job = f0.job /\ s.result = f0.result /\ s.block = f0.block
      /\ s.data = f0.data /\ s.mem = f0.mem
      /\ s.swap = [cluster |-> f.swap.cluster, block |-> n + 1, dataAddr |-> f.swap.dataAddr,
                   hdrAddr |-> f.swap.hdrAddr, preJob |-> f.swap.preJob]
  BY <1>3, <1>4, <1>6, SwapNextIs DEF SwapLeft
<1> HIDE DEF s
<1>10. g.job = "FEE_JOB_INT_SWAP_BLOCK" /\ g.mem = mem /\ g.swap = s.swap /\ SamePlan(s, g)
  BY <1>1, <1>9, StartIs DEF Core, SamePlan
<1>11. NoneAtDone(s) /\ Busy(fl2, s, req) /\ SwapReq(s, req)
  <2>1. \A x \in Block : (AtDone(f0, x) => AtDone(s, x)) /\ (Writing(s, x) => Writing(f0, x)) /\ (AtDone(s, x) => AtDone(f0, x))
    BY <1>9 DEF AtDone, Writing
  <2>2. Running(fl2, f0) /\ RamOK(f0) BY <1>3 DEF SwapLeft, Busy
  <2>3. Running(fl2, s) BY <1>9, <2>1, <2>2, RamKept
  <2>4. Busy(fl2, s, req) BY <1>3, <1>9, <2>3 DEF Busy, SwapLeft
  <2>5. NoneAtDone(s) BY <1>3, <2>1 DEF NoneAtDone, SwapLeft
  <2>6. SwapReq(s, req) BY <1>3, <1>4, <1>9 DEF SwapReq, Core, SwapLeft
  <2>7. QED BY <2>3, <2>4, <2>5, <2>6
<1> HIDE DEF g
<1>12. SamePlan(f, g) /\ g.swap.cluster = f.swap.cluster /\ g.swap.block = n + 1
       /\ g.swap.hdrAddr = f.swap.hdrAddr /\ g.swap.dataAddr = f.swap.dataAddr
  BY <1>3, <1>9, <1>10 DEF SamePlan, SwapLeft, Core
<1>13. /\ n \in Carried(g) /\ Takes(g, n) /\ Place(g, n) = Place(f, n) /\ Place(g, n + 1) = Place(f, n + 1)
       /\ Room(g, n + 1) = Room(f, n + 1) /\ Half(fl2, g, n) /\ Same(fl2, g, n)
  BY <1>2, <1>6, <1>12, PlanSame
<1>14. At(g, n + 1) BY <1>2, <1>12, <1>13 DEF At
<1>15. Swapping(fl2, g) BY <1>8, <1>10, <1>12, <1>13, <1>14 DEF Swapping
<1>16. Ready(fl2, JobNotiHandle(g), req) BY <1>1, <1>11, <1>15, SwapGoesOn DEF g, SwapReq
<1>17. QED BY <1>5, <1>16 DEF f0

\* Where the blocks are after a swap.
MovedInfo(f) ==
  [b \in Block |->
     IF b \in Carried(f)
     THEN [f.info[b] EXCEPT !.cluster = f.swap.cluster,
                            !.dataAddr = FeeClusterLength - DataBelow(Carried(f))[b + 1],
                            !.validHdr = HeadersBelow(Carried(f))[b] + 1]
     ELSE f.info[b]]

Moved(f) ==
  [f EXCEPT !.info = MovedInfo(f), !.cluster = f.swap.cluster, !.useId = f.useId + 1,
            !.dataAddr = FeeClusterLength - DataBelow(Carried(f))[FeeBlockSum],
            !.hdrAddr = 1 + HeadersBelow(Carried(f))[FeeBlockSum],
            !.job = f.swap.preJob]

LEMMA SwapDoneIs ==
  ASSUME NEW f
  PROVE  JobIntSwapClusterVldDone(f) =
           IF Moved(f).job = "FEE_JOB_WRITE" THEN JobWrite(Moved(f)) ELSE JobEraseImmediate(Moved(f))
BY DEF JobIntSwapClusterVldDone, Moved, MovedInfo

LEMMA MovedInfoIs ==
  ASSUME NEW f, RamOK(f)
  PROVE  /\ MovedInfo(f) \in [Block -> Infos]
         /\ \A b \in Carried(f) :
              MovedInfo(f)[b] = [status |-> f.info[b].status, cluster |-> f.swap.cluster,
                                 dataAddr |-> Room(f, b + 1), validHdr |-> Place(f, b)]
         /\ \A b \in Block \ Carried(f) : MovedInfo(f)[b] = f.info[b]
<1>1. f.info \in [Block -> Infos] /\ f.swap.cluster \in Cluster BY DEF RamOK, Swaps
<1>2. ASSUME NEW b \in Carried(f)
      PROVE  /\ b \in Block /\ MovedInfo(f)[b] \in Infos
             /\ MovedInfo(f)[b] = [status |-> f.info[b].status, cluster |-> f.swap.cluster,
                                   dataAddr |-> Room(f, b + 1), validHdr |-> Place(f, b)]
  <2> DEFINE i == f.info[b]
             d == FeeClusterLength - DataBelow(Carried(f))[b + 1]
             h == HeadersBelow(Carried(f))[b] + 1
             c == f.swap.cluster
  <2>1. b \in Block /\ b + 1 \in 0 .. FeeBlockSum /\ b < b + 1 BY Numbers DEF Carried
  <2>2. Room(f, b + 1) \in Address /\ Place(f, b) \in Address BY <2>1, PlacesApart
  <2>3. d = Room(f, b + 1) /\ h = Place(f, b) BY DEF Room, Place
  <2>4. i \in Infos BY <1>1, <2>1
  <2>5. MovedInfo(f)[b] = [i EXCEPT !.cluster = c, !.dataAddr = d, !.validHdr = h]
    BY <2>1 DEF MovedInfo
  <2> HIDE DEF i, d, h, c
  <2>6. [i EXCEPT !.cluster = c, !.dataAddr = d, !.validHdr = h]
          = [status |-> i.status, cluster |-> c, dataAddr |-> d, validHdr |-> h]
    <3> DEFINE now == [i EXCEPT !.cluster = c, !.dataAddr = d, !.validHdr = h]
    <3>1. DOMAIN i = {"status", "cluster", "dataAddr", "validHdr"} BY <2>4 DEF Infos
    <3>2. /\ DOMAIN now = DOMAIN i /\ now = [x \in DOMAIN now |-> now[x]]
          /\ now.status = i.status /\ now.cluster = c /\ now.dataAddr = d /\ now.validHdr = h
      BY <3>1
    <3> HIDE DEF now
    <3>3. now = [status |-> i.status, cluster |-> c, dataAddr |-> d, validHdr |-> h] BY <3>1, <3>2
    <3>4. QED BY <3>3 DEF now
  <2>7. [status |-> i.status, cluster |-> c, dataAddr |-> d, validHdr |-> h] \in Infos
    BY <1>1, <2>2, <2>3, <2>4 DEF Infos, c
  <2>8. QED BY <2>1, <2>3, <2>5, <2>6, <2>7 DEF i, c
<1>3. \A b \in Block \ Carried(f) : MovedInfo(f)[b] = f.info[b] BY DEF MovedInfo
<1>4. \A b \in Block : MovedInfo(f)[b] \in Infos BY <1>1, <1>2, <1>3
<1>5. MovedInfo(f) = [b \in Block |-> MovedInfo(f)[b]] BY DEF MovedInfo
<1>6. MovedInfo(f) \in [Block -> Infos] BY <1>4, <1>5
<1>7. QED BY <1>2, <1>3, <1>6

LEMMA MovedIs ==
  ASSUME NEW f, RamOK(f)
  PROVE  LET g == Moved(f)
         IN  /\ RamOK(g)
             /\ g.status = f.status /\ g.job = f.swap.preJob /\ g.result = f.result /\ g.block = f.block
             /\ g.data = f.data /\ g.idx = f.idx /\ g.swap = f.swap /\ g.mem = f.mem
             /\ g.cluster = f.swap.cluster /\ g.useId = f.useId + 1
             /\ g.dataAddr = Room(f, FeeBlockSum) /\ g.hdrAddr = Place(f, FeeBlockSum)
             /\ g.info = MovedInfo(f)
<1> DEFINE d == FeeClusterLength - DataBelow(Carried(f))[FeeBlockSum]
           h == 1 + HeadersBelow(Carried(f))[FeeBlockSum]
           u == f.useId + 1
           c == f.swap.cluster
           j == f.swap.preJob
           i == MovedInfo(f)
           g == [f EXCEPT !.info = i, !.cluster = c, !.useId = u, !.dataAddr = d, !.hdrAddr = h, !.job = j]
<1>1. Moved(f) = g BY DEF Moved
<1>2. FeeBlockSum \in 0 .. FeeBlockSum BY Numbers
<1>3. d = Room(f, FeeBlockSum) /\ h = Place(f, FeeBlockSum) BY <1>2, BelowIs DEF Room, Place
<1>4. d \in 0 .. FeeClusterLength /\ h \in Address BY <1>2, <1>3, PlaceIs, Lengths
<1>5. f.swap \in Swaps /\ f.useId \in Nat BY DEF RamOK
<1>6. u \in Nat /\ c \in Cluster /\ j \in JobType BY <1>5 DEF Swaps
<1>7. i \in [Block -> Infos] BY MovedInfoIs
<1> HIDE DEF d, h, u, c, j, i
<1>8. /\ RamOK(g)
      /\ g.status = f.status /\ g.job = j /\ g.result = f.result /\ g.block = f.block
      /\ g.data = f.data /\ g.idx = f.idx /\ g.swap = f.swap /\ g.mem = f.mem
      /\ g.cluster = c /\ g.useId = u /\ g.dataAddr = d /\ g.hdrAddr = h /\ g.info = i
  BY <1>4, <1>6, <1>7 DEF RamOK, RamFields
<1> HIDE DEF g
<1>9. QED BY <1>1, <1>3, <1>8 DEF u, c, j, i

\* A cluster that holds all the carried blocks holds nothing else.
LEMMA OnlyCarried ==
  ASSUME NEW fl, NEW f, Part(fl, f, FeeBlockSum)
  PROVE  LET k == fl[f.swap.cluster]
             h == Place(f, FeeBlockSum)
         IN  /\ \A b \in Carried(f) :
                  /\ b \in Block /\ Place(f, b) \in 1 .. h - 1 /\ Place(f, b) \in Nat
                  /\ k[Place(f, b)] = [kind |-> "block", block |-> b, addr |-> Room(f, b + 1),
                                       valid |-> IF f.info[b].status = "FEE_BLOCK_VALID" THEN "set" ELSE "erased",
                                       invalid |-> "erased"]
                  /\ Same(fl, f, b)
             /\ \A b : \A a \in 1 .. h - 1 : IsRecord(k, a, b) =>
                  b \in Carried(f) /\ a = Place(f, b) /\ k[a].invalid = "erased"
<1> DEFINE k == fl[f.swap.cluster]
           h == Place(f, FeeBlockSum)
<1>1. Opened(fl, f, FeeBlockSum) /\ Copied(fl, f, FeeBlockSum) BY DEF Part
<1>2. ASSUME NEW b \in Carried(f)
      PROVE  /\ b \in Block /\ Place(f, b) \in 1 .. h - 1 /\ Place(f, b) \in Nat
             /\ k[Place(f, b)] = [kind |-> "block", block |-> b, addr |-> Room(f, b + 1),
                                  valid |-> IF f.info[b].status = "FEE_BLOCK_VALID" THEN "set" ELSE "erased",
                                  invalid |-> "erased"]
             /\ Same(fl, f, b)
  BY <1>1, Numbers, PlacesApart DEF Carried, Copied, Header
<1>3. ASSUME NEW a \in 1 .. h - 1, NEW b, IsRecord(k, a, b)
      PROVE  b \in Carried(f) /\ a = Place(f, b) /\ k[a].invalid = "erased"
  <2>1. PICK x \in Carried(f) : a = Place(f, x) BY <1>1, OpenedIs
  <2>2. k[a].block = x /\ k[a].invalid = "erased"
    <3> DEFINE flag == IF f.info[x].status = "FEE_BLOCK_VALID" THEN "set" ELSE "erased"
    <3>1. k[a] = [kind |-> "block", block |-> x, addr |-> Room(f, x + 1), valid |-> flag, invalid |-> "erased"]
      BY <1>2, <2>1
    <3> HIDE DEF k, flag
    <3>2. QED BY <3>1
  <2>3. k[a].block = b BY <1>3 DEF IsRecord
  <2>4. QED BY <2>1, <2>2, <2>3
<1>4. QED BY <1>2, <1>3

\* The new cluster with its valid flag set is the current one.
LEMMA MovedCurrent ==
  ASSUME NEW fl \in Disks, NEW fl2, NEW c \in Cluster, NEW d \in Cluster, c # d, NEW u, Current(fl, c, u),
         CellSet(fl, fl2, d, 0, ClusterHdr(u + 1, "set"))
  PROVE  Current(fl2, d, u + 1)
BY ValidHeader DEF Disks, Current, CellSet, ClusterHdr, ValidCluster, UnpackClusterHdr, Others

\* The state of a swap before its last request ends, and what that request does.
Sealed(fl, fl2, f) ==
  /\ fl \in Disks /\ RamOK(f) /\ Running(fl, f) /\ NoneAtDone(f)
  /\ f.cluster \in Cluster /\ f.swap.cluster \in Cluster /\ f.swap.cluster # f.cluster
  /\ Part(fl, f, FeeBlockSum)
  /\ CellSet(fl, fl2, f.swap.cluster, 0, ClusterHdr(f.useId + 1, "set"))

LEMMA SealedCells ==
  ASSUME NEW fl, NEW fl2, NEW f, Sealed(fl, fl2, f)
  PROVE  LET k == fl[f.swap.cluster]
             kk == fl2[f.swap.cluster]
             h == Place(f, FeeBlockSum)
         IN  /\ k \in Contents /\ kk \in Contents
             /\ \A a \in 1 .. FeeClusterLength - 1 : kk[a] = k[a]
             /\ h \in Nat /\ h >= 1 /\ h \in Address
             /\ Layout(kk, h) /\ Low(kk, h, Room(f, FeeBlockSum))
             /\ Current(fl2, f.swap.cluster, f.useId + 1)
<1> DEFINE k == fl[f.swap.cluster]
           kk == fl2[f.swap.cluster]
           h == Place(f, FeeBlockSum)
<1>1. k \in Contents /\ kk \in Contents BY DEF Sealed, CellSet, Disks
<1>2. \A a \in 1 .. FeeClusterLength - 1 : kk[a] = k[a] BY Lengths DEF Sealed, CellSet
<1>3. h \in Nat /\ h >= 1 /\ h \in Address
  <2>1. FeeBlockSum \in 0 .. FeeBlockSum BY Numbers
  <2>2. QED BY <2>1, PlaceIs
<1>4. Layout(k, h) /\ Low(k, h, Room(f, FeeBlockSum)) BY OpenedIs DEF Sealed, Part
<1>5. h < FeeClusterLength BY <1>3, Lengths
<1>6. Current(fl2, f.swap.cluster, f.useId + 1) BY MovedCurrent DEF Sealed, Running
<1> HIDE DEF k, kk, h
<1>7. \A a \in 1 .. h - 1 : a \in 1 .. FeeClusterLength - 1 BY <1>3, <1>5, Lengths
<1>8. \A a \in h .. FeeClusterLength - 1 : a \in 1 .. FeeClusterLength - 1 BY <1>3, Lengths
<1>9. SameHeads(k, kk, h) BY <1>2, <1>7 DEF SameHeads
<1>10. Low(kk, h, Room(f, FeeBlockSum)) BY <1>4, <1>9, SameLow
<1>11. \A a \in 1 .. h - 1 : IsHeader(k, a) /\ kk[a].valid = "set" => Whole(k, k[a].addr, k[a].block)
  BY <1>2, <1>4, <1>7 DEF Layout
<1>12. Layout(kk, h) BY <1>1, <1>2, <1>4, <1>8, <1>9, <1>11, FlagHeaders
<1>13. QED BY <1>1, <1>2, <1>3, <1>6, <1>10, <1>12 DEF k, kk, h

LEMMA SealedRecords ==
  ASSUME NEW fl, NEW fl2, NEW f, Sealed(fl, fl2, f)
  PROVE  LET kk == fl2[f.swap.cluster]
             h == Place(f, FeeBlockSum)
         IN  /\ \A b \in Carried(f) :
                  /\ b \in Block /\ Place(f, b) \in 1 .. h - 1 /\ Place(f, b) \in Nat
                  /\ kk[Place(f, b)] = [kind |-> "block", block |-> b, addr |-> Room(f, b + 1),
                                       valid |-> IF f.info[b].status = "FEE_BLOCK_VALID" THEN "set" ELSE "erased",
                                       invalid |-> "erased"]
                  /\ \A i \in 1 .. FeeBlockSize[b] :
                       kk[Room(f, b + 1) + i - 1] = fl[f.cluster][f.info[b].dataAddr + i - 1]
             /\ \A b : \A a \in Address : IsRecord(kk, a, b) =>
                  b \in Carried(f) /\ a = Place(f, b) /\ kk[a].invalid = "erased"
<1> DEFINE k == fl[f.swap.cluster]
           kk == fl2[f.swap.cluster]
           h == Place(f, FeeBlockSum)
<1>1. /\ k \in Contents /\ kk \in Contents
      /\ \A a \in 1 .. FeeClusterLength - 1 : kk[a] = k[a]
      /\ h \in Nat /\ h >= 1 /\ h \in Address /\ Layout(kk, h)
  BY SealedCells
<1>2. h < FeeClusterLength BY <1>1, Lengths
<1>3. kk[0].kind = "cluster" BY DEF Sealed, CellSet, ClusterHdr
<1>4. Part(fl, f, FeeBlockSum) BY DEF Sealed
<1>5. ASSUME NEW b \in Carried(f)
      PROVE  /\ b \in Block /\ Place(f, b) \in 1 .. h - 1 /\ Place(f, b) \in Nat
             /\ kk[Place(f, b)] = [kind |-> "block", block |-> b, addr |-> Room(f, b + 1),
                                  valid |-> IF f.info[b].status = "FEE_BLOCK_VALID" THEN "set" ELSE "erased",
                                  invalid |-> "erased"]
             /\ \A i \in 1 .. FeeBlockSize[b] :
                  kk[Room(f, b + 1) + i - 1] = fl[f.cluster][f.info[b].dataAddr + i - 1]
  <2>1. /\ b \in Block /\ Place(f, b) \in 1 .. h - 1 /\ Place(f, b) \in Nat
        /\ k[Place(f, b)] = [kind |-> "block", block |-> b, addr |-> Room(f, b + 1),
                             valid |-> IF f.info[b].status = "FEE_BLOCK_VALID" THEN "set" ELSE "erased",
                             invalid |-> "erased"]
        /\ Same(fl, f, b)
    BY <1>4, OnlyCarried
  <2>2. kk[Place(f, b)] = k[Place(f, b)]
    <3> HIDE DEF k, kk, h
    <3>1. Place(f, b) \in 1 .. FeeClusterLength - 1 BY <1>1, <1>2, <2>1, Lengths
    <3>2. QED BY <1>1, <3>1
  <2>3. f.info[b].cluster = f.cluster BY CarriedIs DEF Sealed, NoneAtDone, Carried
  <2>4. ASSUME NEW i \in 1 .. FeeBlockSize[b]
        PROVE  kk[Room(f, b + 1) + i - 1] = fl[f.cluster][f.info[b].dataAddr + i - 1]
    <3>1. FeeBlockSum \in 0 .. FeeBlockSum /\ b < FeeBlockSum BY <2>1, Numbers
    <3>2. /\ Room(f, b + 1) \in Nat /\ Room(f, b + 1) + FeeBlockSize[b] <= FeeClusterLength /\ FeeBlockSize[b] \in Nat
          /\ Room(f, FeeBlockSum) <= Room(f, b + 1) /\ Place(f, FeeBlockSum) + 3 <= Room(f, FeeBlockSum)
          /\ Room(f, FeeBlockSum) \in Nat
      BY <3>1, PlacesApart
    <3>3. Room(f, b + 1) + i - 1 \in 1 .. FeeClusterLength - 1 BY <1>1, <3>2, Lengths
    <3>4. kk[Room(f, b + 1) + i - 1] = k[Room(f, b + 1) + i - 1] BY <1>1, <3>3
    <3>5. QED BY <2>1, <2>3, <3>4 DEF Same
  <2>5. QED BY <2>1, <2>2, <2>4
<1>6. ASSUME NEW b, NEW a \in Address, IsRecord(kk, a, b)
      PROVE  b \in Carried(f) /\ a = Place(f, b) /\ kk[a].invalid = "erased"
  <2> HIDE DEF k, kk, h
  <2>1. a # 0 BY <1>3, <1>6 DEF IsRecord, IsHeader
  <2>2. a < h BY <1>1, <1>6, Lengths DEF Layout, IsRecord, IsHeader
  <2>3. a \in 1 .. h - 1 /\ a \in 1 .. FeeClusterLength - 1 BY <1>1, <2>1, <2>2, Lengths
  <2>4. kk[a] = k[a] BY <1>1, <2>3
  <2>5. IsRecord(k, a, b) BY <1>6, <2>4 DEF IsRecord, IsHeader
  <2>6. b \in Carried(f) /\ a = Place(f, b) /\ k[a].invalid = "erased"
    BY <1>4, <2>3, <2>5, OnlyCarried DEF k, h
  <2>7. QED BY <2>4, <2>6
<1>7. QED BY <1>5, <1>6

LEMMA MovedKnown ==
  ASSUME NEW fl, NEW fl2, NEW f, NEW g, Sealed(fl, fl2, f), NEW b \in Block,
         g.cluster = f.swap.cluster, g.hdrAddr = Place(f, FeeBlockSum), g.info = MovedInfo(f),
         \A x \in Block : ~ Writing(g, x)
  PROVE  Known(fl2, g, b)
<1> DEFINE c == f.swap.cluster
           kk == fl2[c]
           h == Place(f, FeeBlockSum)
           i == MovedInfo(f)[b]
           s == f.info[b].status
<1>1. RamOK(f) /\ Running(fl, f) /\ c \in Cluster /\ NoneAtDone(f) /\ fl \in Disks /\ Known(fl, f, b)
  BY DEF Sealed, Running
<1>2. /\ h \in Nat /\ h >= 1 /\ h \in Address /\ h < FeeClusterLength
      /\ \A a \in 1 .. h - 1 : a \in Address /\ a \in Nat
  <2>1. h \in Nat /\ h >= 1 /\ h \in Address BY SealedCells
  <2> HIDE DEF h
  <2>2. QED BY <2>1, Lengths
<1>4. \A a \in 1 .. h - 1 : IsRecord(kk, a, b) => b \in Carried(f) /\ a = Place(f, b)
  BY <1>2, SealedRecords
<1>5. i.status = s
  <2>1. CASE b \in Carried(f)
    <3>1. i = [status |-> s, cluster |-> c, dataAddr |-> Room(f, b + 1), validHdr |-> Place(f, b)]
      BY <1>1, <2>1, MovedInfoIs
    <3> HIDE DEF i
    <3>2. QED BY <3>1
  <2>2. CASE b \notin Carried(f) BY <1>1, <2>2, MovedInfoIs
  <2>3. QED BY <2>1, <2>2
<1>6. CASE b \in Carried(f)
  <2> DEFINE p == Place(f, b)
             flag == IF s = "FEE_BLOCK_VALID" THEN "set" ELSE "erased"
  <2>1. i = [status |-> s, cluster |-> c, dataAddr |-> Room(f, b + 1), validHdr |-> p]
    BY <1>1, <1>6, MovedInfoIs
  <2>2. /\ p \in 1 .. h - 1 /\ p \in Nat
        /\ kk[p] = [kind |-> "block", block |-> b, addr |-> Room(f, b + 1), valid |-> flag, invalid |-> "erased"]
        /\ \A j \in 1 .. FeeBlockSize[b] :
             kk[Room(f, b + 1) + j - 1] = fl[f.cluster][f.info[b].dataAddr + j - 1]
    BY <1>6, SealedRecords
  <2>3. \A a \in p + 1 .. h - 1 : ~ IsRecord(kk, a, b)
    <3>1. \A a \in p + 1 .. h - 1 : a \in 1 .. h - 1 /\ a # p
      <4> HIDE DEF p, h
      <4>1. QED BY <1>2, <2>2
    <3>2. QED BY <1>4, <3>1
  <2> HIDE DEF p, h, kk, c, i, flag
  <2>4. /\ IsRecord(kk, p, b) /\ kk[p].addr = i.dataAddr /\ kk[p].valid = flag /\ kk[p].invalid = "erased"
        /\ i.cluster = c /\ i.validHdr = p
    BY <2>1, <2>2 DEF IsRecord, IsHeader
  <2>5. g.cluster = c /\ g.hdrAddr = h /\ g.info[b] = i /\ fl2[g.cluster] = kk BY DEF c, h, i, kk
  <2>6. s = "FEE_BLOCK_VALID" => KnownValid(kk, g, b)
    BY <2>2, <2>3, <2>4, <2>5 DEF flag, KnownValid, IsValid
  <2>7. s # "FEE_BLOCK_INVALID" BY <1>6 DEF Carried
  <2>8. s = "FEE_BLOCK_INCONSISTENT" => KnownKept(kk, g, b)
    <3>1. SUFFICES ASSUME s = "FEE_BLOCK_INCONSISTENT" PROVE KnownKept(kk, g, b) OBVIOUS
    <3>2. Empty(fl[f.cluster], f.info[b].dataAddr, b) BY <1>1, <1>6, <3>1, CarriedIs DEF NoneAtDone
    <3>3. Empty(kk, i.dataAddr, b) BY <2>1, <2>2, <3>2 DEF Empty
    <3>4. flag = "erased" BY <3>1 DEF flag
    <3>5. QED BY <2>2, <2>3, <2>4, <2>5, <3>3, <3>4 DEF KnownKept
  <2>9. NotInvalidated(fl2, g, b) BY <2>4, <2>5 DEF NotInvalidated
  <2>10. g.info[b].cluster = g.cluster BY <2>4, <2>5
  <2>11. QED BY <1>5, <2>5, <2>6, <2>7, <2>8, <2>9, <2>10 DEF Known
<1>7. CASE b \notin Carried(f)
  <2>1. i = f.info[b] /\ g.info[b] = f.info[b] BY <1>1, <1>7, MovedInfoIs
  <2>2. \A a \in 1 .. h - 1 : ~ IsRecord(kk, a, b) BY <1>4, <1>7
  <2>3. KnownInvalid(kk, g, b) BY <2>2 DEF KnownInvalid, IsValid
  <2>4. s # "FEE_BLOCK_VALID" /\ ~ (s = "FEE_BLOCK_INCONSISTENT" /\ b \in FeeImmediateData)
    BY <1>7 DEF Carried
  <2>5. s = "FEE_BLOCK_INCONSISTENT" => NotInvalidated(fl2, g, b)
    <3>1. SUFFICES ASSUME s = "FEE_BLOCK_INCONSISTENT" PROVE NotInvalidated(fl2, g, b) OBVIOUS
    <3>2. NotInvalidated(fl, f, b) BY <1>1, <3>1 DEF Known
    <3>3. f.info[b].cluster \in Cluster /\ f.info[b].validHdr \in Address BY <1>1 DEF RamOK, Infos
    <3>4. CASE f.info[b].cluster = c BY <1>7, <2>1, <3>3, <3>4, SealedRecords DEF NotInvalidated
    <3>5. CASE f.info[b].cluster # c
      BY <2>1, <3>2, <3>3, <3>5 DEF Sealed, CellSet, Others, NotInvalidated
    <3>6. QED BY <3>4, <3>5
  <2>6. fl2[g.cluster] = kk OBVIOUS
  <2> HIDE DEF kk, c, h
  <2>7. QED BY <2>1, <2>3, <2>4, <2>5, <2>6 DEF Known
<1>8. QED BY <1>6, <1>7

LEMMA MovedRuns ==
  ASSUME NEW fl, NEW fl2, NEW f, NEW g, Sealed(fl, fl2, f),
         g.cluster = f.swap.cluster, g.hdrAddr = Place(f, FeeBlockSum), g.info = MovedInfo(f),
         g.useId = f.useId + 1, g.dataAddr = Room(f, FeeBlockSum),
         \A x \in Block : ~ Writing(g, x)
  PROVE  Running(fl2, g)
BY MovedKnown, SealedCells DEF Running

LEMMA EndOfSwap ==
  ASSUME NEW fl, NEW f, NEW req, NEW fl2, Busy(fl, f, req), Serving(fl, f, req),
         f.job = "FEE_JOB_INT_SWAP_CLUSTER_VLD_DONE",
         CellSet(fl, fl2, f.swap.cluster, 0, ClusterHdr(f.useId + 1, "set"))
  PROVE  /\ Ready(fl2, JobNotiHandle(JobIntSwapClusterVldDone(Cleared(f))), req)
         /\ Disk(fl2)
<1> DEFINE f0 == Cleared(f)
           g == Moved(f0)
           next == IF req.job = "FEE_JOB_WRITE" THEN "FEE_JOB_WRITE_DATA" ELSE "FEE_JOB_ERASE_IMMEDIATE_DONE"
<1>1. f.job \in SwapJobs BY DEF SwapJobs
<1>2. /\ fl \in Disks /\ RamOK(f) /\ Running(fl, f) /\ Swapping(fl, f)
      /\ f.cluster \in Cluster /\ f.swap.cluster \in Cluster \ {f.cluster}
      /\ f.swap.preJob = req.job /\ NoneAtDone(f)
      /\ \/ req.job = "FEE_JOB_WRITE" /\ f.block \notin FeeImmediateData
         \/ req.job = "FEE_JOB_ERASE_IMMEDIATE" /\ f.block \in FeeImmediateData
  BY <1>1, SwapIs
<1>3. Part(fl, f, FeeBlockSum) BY <1>2, SwappingIs
<1>4. Sealed(fl, fl2, f) BY <1>2, <1>3 DEF Sealed
<1>5. /\ RamOK(f0) /\ Core(f, f0) /\ f0.status = f.status /\ f0.job = f.job /\ f0.result = f.result /\ f0.block = f.block
      /\ f0.data = f.data /\ f0.swap = f.swap /\ f0.mem = NoAccess
  BY <1>2, ClearedIs
<1> HIDE DEF f0
<1>6. SamePlan(f, f0) /\ f0.useId = f.useId BY <1>5 DEF SamePlan, Core
<1>7. Sealed(fl, fl2, f0)
  <2>1. Running(fl, f0) BY <1>2, <1>5, RamKept DEF AtDone, Writing
  <2>2. NoneAtDone(f0) BY <1>5, NotAtDone
  <2>3. Part(fl, f0, FeeBlockSum) BY <1>3, <1>6, PlanSame
  <2>4. QED BY <1>4, <1>5, <1>6, <2>1, <2>2, <2>3 DEF Sealed, Core
<1>8. /\ RamOK(g)
      /\ g.status = f0.status /\ g.job = req.job /\ g.result = f0.result /\ g.block = f0.block
      /\ g.data = f0.data /\ g.swap = f0.swap /\ g.mem = f0.mem
      /\ g.cluster = f0.swap.cluster /\ g.useId = f0.useId + 1
      /\ g.dataAddr = Room(f0, FeeBlockSum) /\ g.hdrAddr = Place(f0, FeeBlockSum)
      /\ g.info = MovedInfo(f0)
  BY <1>2, <1>5, MovedIs
<1> HIDE DEF g
<1>9. NoneAtDone(g) /\ \A x \in Block : ~ Writing(g, x)
  BY <1>2, <1>8 DEF NoneAtDone, AtDone, Writing
<1>10. Running(fl2, g) BY <1>7, <1>8, <1>9, MovedRuns
<1>11. fl2 \in Disks BY DEF CellSet
<1>12. Busy(fl2, g, req) BY <1>5, <1>8, <1>10, <1>11 DEF Busy
<1>13. Ready(fl2, JobNotiHandle(JobWriteHdr(g, next)), req)
  BY <1>2, <1>5, <1>8, <1>9, <1>12, HeaderServes
<1>14. JobIntSwapClusterVldDone(f0) = JobWriteHdr(g, next)
  BY <1>2, <1>5, <1>8, SwapDoneIs DEF g, JobWrite, JobEraseImmediate
<1>15. Disk(fl2) BY <1>8, <1>10, DiskOf DEF RamOK
<1>16. QED BY <1>13, <1>14, <1>15 DEF f0

-----------------------------------------------------------------------------
(* What a flash request finds, and whatever becomes of it. *)

\* What a read hands to the job that follows it.
Buffer(m) == IF m.op = "read" THEN CellsAt(m.cluster, m.at, m.length) ELSE <<>>

LEMMA BufferIs ==
  ASSUME NEW c, NEW at, NEW n
  PROVE  Buffer(Read(c, at, n)) = CellsAt(c, at, n)
BY DEF Buffer, Read

LEMMA OneCell ==
  ASSUME NEW c, NEW at \in Nat
  PROVE  Buffer(Read(c, at, 1)) = <<flash[c][at]>>
<1> DEFINE s == CellsAt(c, at, 1)
           x == flash[c][at]
<1>1. \A i \in 1 .. 1 : i = 1 /\ at + i - 1 = at OBVIOUS
<1>2. s = [i \in 1 .. 1 |-> x] BY <1>1 DEF CellsAt
<1> HIDE DEF x
<1>3. [i \in 1 .. 1 |-> x] = <<x>> OBVIOUS
<1>4. QED BY <1>2, <1>3, BufferIs DEF x

\* ProgramsErasedOnly of a flash request.
Fresh(m) ==
  LET cell(i) == flash[m.cluster][m.at + i]
  IN  CASE m.op = "program" -> \A i \in 0 .. Len(m.cells) - 1 : cell(i) = Blank
        [] m.op = "flag" -> /\ m.flag \in DOMAIN cell(0)
                            /\ cell(0)[m.flag] = "erased"
        [] OTHER -> TRUE

LEMMA FreshMany ==
  ASSUME NEW c, NEW at \in Nat, NEW n \in Nat, at + n <= FeeClusterLength,
         NEW cells \in [1 .. n -> Cell],
         \A a \in Address : a \in at .. at + n - 1 => flash[c][a] = Blank
  PROVE  Fresh(Program(c, at, cells))
<1> DEFINE m == Program(c, at, cells)
<1>1. m.op = "program" /\ m.cluster = c /\ m.at = at /\ m.cells = cells BY DEF Program
<1>2. Len(cells) = n OBVIOUS
<1>3. \A i \in 0 .. n - 1 : at + i \in Address /\ at + i \in at .. at + n - 1 BY Lengths
<1>4. \A i \in 0 .. n - 1 : flash[c][at + i] = Blank BY <1>3
<1> HIDE DEF m
<1>5. Fresh(m) BY <1>1, <1>2, <1>4 DEF Fresh
<1>6. QED BY <1>5 DEF m

LEMMA FreshOne ==
  ASSUME NEW c, NEW at \in Address, NEW cell \in Cell, flash[c][at] = Blank
  PROVE  Fresh(Program(c, at, <<cell>>))
<1>1. at \in Nat /\ at + 1 <= FeeClusterLength BY Lengths
<1>2. <<cell>> \in [1 .. 1 -> Cell] OBVIOUS
<1>3. \A a \in Address : a \in at .. at + 1 - 1 => flash[c][a] = Blank BY <1>1, Lengths
<1>4. QED BY <1>1, <1>2, <1>3, FreshMany

LEMMA FreshFlag ==
  ASSUME NEW c, NEW at \in Nat, NEW flag, flag \in DOMAIN flash[c][at], flash[c][at][flag] = "erased"
  PROVE  Fresh(SetFlag(c, at, flag))
BY DEF Fresh, SetFlag

LEMMA FreshElse ==
  ASSUME NEW m, m = NoAccess \/ (\E c : m = Erase(c)) \/ (\E c, at, n : m = Read(c, at, n))
  PROVE  Fresh(m)
BY DEF Fresh, NoAccess, Erase, Read

LEMMA HeaderProgrammed ==
  ASSUME NEW f, NEW b, Copying(flash, f, b), Part(flash, f, b)
  PROVE  LET m == ProgramHeader(f, b)
             c == f.swap.cluster
         IN  /\ Fresh(m) /\ Completed(m) \in Interrupted(m)
             /\ Half(Completed(m), f, b) /\ Empty(Completed(m)[c], Room(f, b + 1), b)
             /\ \A fl2 \in Interrupted(m) : Elsewhere(flash, fl2, c)
<1> DEFINE c == f.swap.cluster
           p == Place(f, b)
           cell == BlockHdr(b, Room(f, b + 1))
           m == Program(c, p, <<cell>>)
<1>1. /\ flash \in Disks /\ c \in Cluster /\ flash[c] \in Contents /\ p \in Address /\ p \in Nat /\ p >= 1 /\ b \in Block
      /\ Room(f, b + 1) \in Address /\ p < Room(f, b)
      /\ Room(f, b) \in Nat
  BY CopyingIs, Lengths DEF Copying
<1>2. cell \in Cell BY <1>1, CellsAre
<1>3. /\ flash[c][0] = ClusterHdr(f.useId + 1, "erased")
      /\ Layout(flash[c], p) /\ Low(flash[c], p, Room(f, b))
  BY OpenedIs DEF Part
<1>4. flash[c][p] = Blank BY <1>1, <1>3, GapIsBlank
<1> HIDE DEF c, p, cell
<1>5. /\ CellSet(flash, Completed(m), c, p, cell)
      /\ \A fl2 \in Interrupted(m) :
           fl2 = flash \/ CellSet(flash, fl2, c, p, cell) \/ CellSet(flash, fl2, c, p, Torn)
  BY <1>1, <1>2, <1>4, ProgramOne
<1>6. Fresh(m) BY <1>1, <1>2, <1>4, FreshOne
<1>7. ASSUME NEW fl2, CellSet(flash, fl2, c, p, cell)
      PROVE  Half(fl2, f, b) /\ Empty(fl2[c], Room(f, b + 1), b) /\ Elsewhere(flash, fl2, c)
  BY <1>7, Heading DEF c, p, cell
<1>8. ASSUME NEW fl2, CellSet(flash, fl2, c, p, Torn)
      PROVE  Elsewhere(flash, fl2, c)
  BY <1>1, <1>3, <1>8, Lengths, Unsealed, WrittenElsewhere DEF CellSet, Torn
<1>9. Elsewhere(flash, flash, c) BY <1>1, SameElsewhere
<1>10. Completed(m) \in Interrupted(m) BY DEF Interrupted
<1>11. \A fl2 \in Interrupted(m) : Elsewhere(flash, fl2, c) BY <1>5, <1>7, <1>8, <1>9
<1>12. m = ProgramHeader(f, b) BY DEF ProgramHeader, c, p, cell
<1> HIDE DEF m
<1>13. Half(Completed(m), f, b) /\ Empty(Completed(m)[c], Room(f, b + 1), b) BY <1>5, <1>7
<1>14. QED BY <1>6, <1>10, <1>11, <1>12, <1>13 DEF c

LEMMA OpeningProgrammed ==
  ASSUME NEW f, flash \in Disks, RamOK(f), f.swap.cluster \in Cluster,
         \A a \in Address : flash[f.swap.cluster][a] = Blank
  PROVE  LET m == Program(f.swap.cluster, 0, <<ClusterHdr(f.useId + 1, "erased")>>)
         IN  /\ Fresh(m) /\ Completed(m) \in Interrupted(m)
             /\ Part(Completed(m), f, 0)
             /\ \A fl2 \in Interrupted(m) : Elsewhere(flash, fl2, f.swap.cluster)
<1> DEFINE c == f.swap.cluster
           cell == ClusterHdr(f.useId + 1, "erased")
           m == Program(c, 0, <<cell>>)
<1>1. 0 \in Address /\ flash[c][0] = Blank BY Lengths
<1>2. cell \in Cell BY CellsAre DEF RamOK, Flag
<1> HIDE DEF cell
<1>3. /\ CellSet(flash, Completed(m), c, 0, cell)
      /\ \A fl2 \in Interrupted(m) :
           fl2 = flash \/ CellSet(flash, fl2, c, 0, cell) \/ CellSet(flash, fl2, c, 0, Torn)
  BY <1>1, <1>2, ProgramOne
<1>4. Fresh(m) BY <1>1, <1>2, FreshOne
<1>5. ASSUME NEW fl2, CellSet(flash, fl2, c, 0, cell)
      PROVE  Part(fl2, f, 0) /\ Elsewhere(flash, fl2, c)
  BY <1>5, Opening DEF cell
<1>6. ASSUME NEW fl2, CellSet(flash, fl2, c, 0, Torn)
      PROVE  Elsewhere(flash, fl2, c)
  BY <1>6, NoBlankValid, WrittenElsewhere DEF CellSet, Torn
<1>7. Elsewhere(flash, flash, c) BY SameElsewhere
<1>8. Completed(m) \in Interrupted(m) BY DEF Interrupted
<1> HIDE DEF m
<1>9. \A fl2 \in Interrupted(m) : Elsewhere(flash, fl2, c) BY <1>3, <1>5, <1>6, <1>7
<1>10. Part(Completed(m), f, 0) BY <1>3, <1>5
<1>11. QED BY <1>4, <1>8, <1>9, <1>10 DEF m, cell

LEMMA SealProgrammed ==
  ASSUME NEW f, NEW b, Copying(flash, f, b), Takes(f, b), Half(flash, f, b), Same(flash, f, b)
  PROVE  LET m == SetFlag(f.swap.cluster, Place(f, b), "valid")
         IN  /\ Fresh(m) /\ Completed(m) \in Interrupted(m)
             /\ Part(Completed(m), f, b + 1)
             /\ \A fl2 \in Interrupted(m) : Elsewhere(flash, fl2, f.swap.cluster)
<1> DEFINE c == f.swap.cluster
           p == Place(f, b)
           hdr == flash[c][p]
           cell == [hdr EXCEPT !.valid = "set"]
           m == SetFlag(c, p, "valid")
<1>1. /\ flash \in Disks /\ c \in Cluster /\ p \in Address /\ p \in Nat /\ b \in Block
      /\ Room(f, b + 1) \in Address
  BY CopyingIs DEF Copying
<1>2. hdr = [kind |-> "block", block |-> b, addr |-> Room(f, b + 1), valid |-> "erased", invalid |-> "erased"]
  BY DEF Half, Header
<1>3. "valid" \in DOMAIN hdr /\ hdr.valid = "erased"
  <2> HIDE DEF hdr
  <2>1. QED BY <1>2
<1>4. cell = [kind |-> "block", block |-> b, addr |-> Room(f, b + 1), valid |-> "set", invalid |-> "erased"]
  <2> HIDE DEF hdr
  <2>1. QED BY <1>2
<1>5. cell \in Cell
  <2>1. "set" \in Flag /\ "erased" \in Flag BY DEF Flag
  <2> HIDE DEF cell
  <2>2. QED BY <1>1, <1>4, <2>1, CellsAre
<1>6. CellSet(flash, Completed(m), c, p, cell) /\ Interrupted(m) = {flash, Completed(m)}
  BY <1>1, <1>3, <1>5, FlagOne
<1>7. Fresh(m) BY <1>1, <1>3, FreshFlag
<1>8. Part(Completed(m), f, b + 1) /\ Elsewhere(flash, Completed(m), c) BY <1>6, Sealing
<1>9. Elsewhere(flash, flash, c) BY <1>1, SameElsewhere
<1> HIDE DEF m
<1>10. QED BY <1>6, <1>7, <1>8, <1>9 DEF m

LEMMA CopyProgrammed ==
  ASSUME NEW f, NEW b, Copying(flash, f, b), Takes(f, b), Half(flash, f, b),
         Empty(flash[f.swap.cluster], Room(f, b + 1), b)
  PROVE  LET m == Program(f.swap.cluster, Room(f, b + 1), Source(flash, f, b))
         IN  /\ Fresh(m) /\ Completed(m) \in Interrupted(m)
             /\ Half(Completed(m), f, b) /\ Same(Completed(m), f, b)
             /\ \A fl2 \in Interrupted(m) : Elsewhere(flash, fl2, f.swap.cluster)
<1> DEFINE c == f.swap.cluster
           d == Room(f, b + 1)
           n == FeeBlockSize[b]
           cells == Source(flash, f, b)
           m == Program(c, d, cells)
<1>1. /\ flash \in Disks /\ c \in Cluster /\ d \in Address /\ d \in Nat /\ b \in Block
      /\ n \in Nat /\ d + n <= FeeClusterLength
  BY CopyingIs DEF Copying
<1>2. cells \in [1 .. n -> Cell]
  <2>1. /\ f.info[b].cluster = f.cluster /\ f.info[b].dataAddr \in Nat
        /\ f.info[b].dataAddr + n <= FeeClusterLength
    BY CarriedIs DEF Copying, NoneAtDone, Carried
  <2>2. flash[f.cluster] \in [Address -> Cell] BY DEF Copying, Disks, Contents
  <2>3. \A i \in 1 .. n : f.info[b].dataAddr + i - 1 \in Address BY <1>1, <2>1, Lengths
  <2>4. \A i \in 1 .. n : flash[f.info[b].cluster][f.info[b].dataAddr + i - 1] \in Cell
    BY <2>1, <2>2, <2>3
  <2>5. QED BY <2>4 DEF Source
<1>3. \A a \in Address : a \in d .. d + n - 1 => flash[c][a] = Blank
  <2>1. ASSUME NEW a \in Address, a \in d .. d + n - 1
        PROVE  flash[c][a] = Blank
    <3>1. a \in Nat BY Lengths
    <3>2. a - d + 1 \in 1 .. n /\ d + (a - d + 1) - 1 = a BY <1>1, <2>1, <3>1
    <3>3. QED BY <3>2 DEF Empty
  <2>2. QED BY <2>1
<1> HIDE DEF c, d, n, cells
<1>4. /\ RangeSet(flash, Completed(m), c, d, cells, n)
      /\ \A fl2 \in Interrupted(m) : RangePart(flash, fl2, c, d, cells, n)
  BY <1>1, <1>2, <1>3, ProgramMany
<1>5. Fresh(m) BY <1>1, <1>2, <1>3, FreshMany
<1>6. Completed(m) \in Interrupted(m) BY DEF Interrupted
<1> HIDE DEF m
<1>7. ASSUME NEW fl2 \in Interrupted(m)
      PROVE  /\ Elsewhere(flash, fl2, c) /\ Half(fl2, f, b)
             /\ RangeSet(flash, fl2, c, d, cells, n) => Same(fl2, f, b)
  BY <1>4, Copies DEF c, d, cells, n
<1>8. QED BY <1>4, <1>5, <1>6, <1>7 DEF c, d, cells, n, m

\* What becomes of a flash request: it ends, or something stops it.
Outcome(f, req) ==
  /\ Fresh(f.mem)
  /\ f.mem # NoAccess =>
       Ready(Completed(f.mem), MemHwAbJobEndHandle(Cleared(f), Buffer(f.mem)), req)
  /\ \A fl2 \in Interrupted(f.mem) : fl2 \in Disks /\ Disk(fl2)

LEMMA ElsewhereIs ==
  ASSUME NEW fl, NEW f, NEW req, Busy(fl, f, req), Serving(fl, f, req), f.job \in SwapJobs,
         NEW S, \A fl2 \in S : Elsewhere(fl, fl2, f.swap.cluster)
  PROVE  \A fl2 \in S : fl2 \in Disks /\ Disk(fl2) /\ Running(fl2, f)
BY BusyElsewhere DEF Busy

LEMMA ClearedJob ==
  ASSUME NEW f, RamOK(f)
  PROVE  Cleared(f).job = f.job
BY ClearedIs

LEMMA SwapEraseOutcome ==
  ASSUME NEW f, NEW req, Busy(flash, f, req), Serving(flash, f, req), f.job = "FEE_JOB_INT_SWAP_CLUSTER_CLEAR"
  PROVE  Outcome(f, req) /\ \A fl2 \in Interrupted(f.mem) : Running(fl2, f)
<1> DEFINE c == f.swap.cluster
           m == Erase(c)
<1>1. f.job \in SwapJobs BY DEF SwapJobs
<1>2. f.mem = m /\ RamOK(f) /\ flash \in Disks /\ c \in Cluster BY <1>1, SwapIs, SwappingIs
<1>3. /\ Completed(m) \in Disks /\ Others(flash, Completed(m), c)
      /\ \A a \in Address : Completed(m)[c][a] = Blank
      /\ \A fl2 \in Interrupted(m) :
           \/ fl2 = flash
           \/ /\ fl2 \in Disks /\ Others(flash, fl2, c)
              /\ fl2[c][0] \in {flash[c][0], Blank, Torn}
              /\ \A a \in Address \ {0} : fl2[c][a] \in {Blank, Torn}
  BY <1>2, EraseOne
<1>4. Completed(m) \in Interrupted(m) BY DEF Interrupted
<1>5. Fresh(m) BY FreshElse
<1> HIDE DEF m
<1>6. ASSUME NEW fl2 \in Interrupted(m)
      PROVE  Elsewhere(flash, fl2, c)
  BY <1>1, <1>2, <1>3, SameElsewhere, SwapErase
<1>7. Ready(Completed(m), MemHwAbJobEndHandle(Cleared(f), Buffer(m)), req)
  BY <1>2, <1>3, <1>4, <1>6, EndOfSwapErase, ClearedJob DEF MemHwAbJobEndHandle, JobSchedule
<1>8. \A fl2 \in Interrupted(m) : fl2 \in Disks /\ Disk(fl2) /\ Running(fl2, f)
  BY <1>1, <1>6, ElsewhereIs
<1>9. QED BY <1>2, <1>5, <1>7, <1>8 DEF Outcome

LEMMA CopyingOn ==
  ASSUME NEW fl, NEW f, NEW req, NEW fl2, NEW b, Busy(fl, f, req), Serving(fl, f, req), f.job \in SwapJobs,
         Copying(fl, f, b), Elsewhere(fl, fl2, f.swap.cluster)
  PROVE  Copying(fl2, f, b)
BY BusyElsewhere DEF Copying, Busy

LEMMA SwapBlockOutcome ==
  ASSUME NEW f, NEW req, Busy(flash, f, req), Serving(flash, f, req), f.job = "FEE_JOB_INT_SWAP_BLOCK"
  PROVE  Outcome(f, req) /\ \A fl2 \in Interrupted(f.mem) : Running(fl2, f)
<1> DEFINE c == f.swap.cluster
           n == f.swap.block
           m == f.mem
<1>1. f.job \in SwapJobs BY DEF SwapJobs
<1>2. RamOK(f) /\ flash \in Disks /\ c \in Cluster BY <1>1, SwapIs
<1>3. \/ /\ n = 0 /\ m = Program(c, 0, <<ClusterHdr(f.useId + 1, "erased")>>)
         /\ \A a \in Address : flash[c][a] = Blank
      \/ \E b \in Carried(f) \ {x \in Block : Takes(f, x)} :
           n = b + 1 /\ m = ProgramHeader(f, b) /\ Part(flash, f, b)
      \/ \E b \in Carried(f) :
           /\ Takes(f, b) /\ n = b + 1 /\ m = SetFlag(c, Place(f, b), "valid")
           /\ Half(flash, f, b) /\ Same(flash, f, b)
  BY <1>1, SwapIs, SwappingIs
<1>4. /\ Fresh(m) /\ Completed(m) \in Interrupted(m)
      /\ Part(Completed(m), f, n)
      /\ \A fl2 \in Interrupted(m) : Elsewhere(flash, fl2, c)
  BY <1>1, <1>2, <1>3, OpeningProgrammed, SwapCopies, HeaderProgrammed, CopyingOn, HeadingDone, SealProgrammed
<1> HIDE DEF m
<1>5. Ready(Completed(m), MemHwAbJobEndHandle(Cleared(f), Buffer(m)), req)
  BY <1>2, <1>4, EndOfSwapBlock, ClearedJob DEF MemHwAbJobEndHandle, JobSchedule
<1>6. \A fl2 \in Interrupted(m) : fl2 \in Disks /\ Disk(fl2) /\ Running(fl2, f)
  BY <1>1, <1>4, ElsewhereIs
<1>7. QED BY <1>4, <1>5, <1>6 DEF Outcome, m

LEMMA SwapHeaderOutcome ==
  ASSUME NEW f, NEW req, Busy(flash, f, req), Serving(flash, f, req), f.job = "FEE_JOB_INT_SWAP_DATA_READ"
  PROVE  Outcome(f, req) /\ \A fl2 \in Interrupted(f.mem) : Running(fl2, f)
<1> DEFINE c == f.swap.cluster
           n == f.swap.block
           m == f.mem
<1>1. f.job \in SwapJobs BY DEF SwapJobs
<1>2. RamOK(f) /\ Takes(f, n) /\ m = ProgramHeader(f, n) /\ Part(flash, f, n)
  BY <1>1, SwapIs, SwappingIs
<1>3. Copying(flash, f, n) BY <1>1, <1>2, SwapCopies DEF Takes
<1>4. /\ Fresh(m) /\ Completed(m) \in Interrupted(m)
      /\ Half(Completed(m), f, n) /\ Empty(Completed(m)[c], Room(f, n + 1), n)
      /\ \A fl2 \in Interrupted(m) : Elsewhere(flash, fl2, c)
  BY <1>2, <1>3, HeaderProgrammed
<1> HIDE DEF m
<1>5. Ready(Completed(m), MemHwAbJobEndHandle(Cleared(f), Buffer(m)), req)
  BY <1>2, <1>4, EndOfSwapHeader, ClearedJob DEF MemHwAbJobEndHandle, JobSchedule
<1>6. \A fl2 \in Interrupted(m) : fl2 \in Disks /\ Disk(fl2) /\ Running(fl2, f)
  BY <1>1, <1>4, ElsewhereIs
<1>7. QED BY <1>4, <1>5, <1>6 DEF Outcome, m

LEMMA SwapReadOutcome ==
  ASSUME NEW f, NEW req, Busy(flash, f, req), Serving(flash, f, req), f.job = "FEE_JOB_INT_SWAP_DATA_WRITE"
  PROVE  Outcome(f, req) /\ \A fl2 \in Interrupted(f.mem) : Running(fl2, f)
<1> DEFINE n == f.swap.block
           m == f.mem
<1>1. f.job \in SwapJobs BY DEF SwapJobs
<1>2. RamOK(f) /\ m = Read(f.info[n].cluster, f.info[n].dataAddr, FeeBlockSize[n])
  BY <1>1, SwapIs, SwappingIs
<1>3. Buffer(m) = Source(flash, f, n)
  <2>1. CellsAt(f.info[n].cluster, f.info[n].dataAddr, FeeBlockSize[n]) = Source(flash, f, n)
    BY DEF CellsAt, Source
  <2> HIDE DEF n
  <2>2. QED BY <1>2, <2>1, BufferIs
<1>4. Completed(m) = flash /\ Interrupted(m) = {flash} BY <1>2, ReadOrNone
<1>5. Fresh(m) BY <1>2, FreshElse
<1> HIDE DEF m
<1>6. Ready(Completed(m), MemHwAbJobEndHandle(Cleared(f), Buffer(m)), req)
  BY <1>2, <1>3, <1>4, EndOfSwapRead, ClearedJob DEF MemHwAbJobEndHandle, JobSchedule
<1>7. flash \in Disks /\ Running(flash, f) /\ Disk(flash) BY RunningIs DEF Busy
<1>8. QED BY <1>4, <1>5, <1>6, <1>7 DEF Outcome, m

LEMMA SwapDataOutcome ==
  ASSUME NEW f, NEW req, Busy(flash, f, req), Serving(flash, f, req), f.job = "FEE_JOB_INT_SWAP_BLOCK_VLD"
  PROVE  Outcome(f, req) /\ \A fl2 \in Interrupted(f.mem) : Running(fl2, f)
<1> DEFINE c == f.swap.cluster
           n == f.swap.block
           m == f.mem
<1>1. f.job \in SwapJobs BY DEF SwapJobs
<1>2. /\ RamOK(f) /\ Takes(f, n) /\ m = Program(c, Room(f, n + 1), Source(flash, f, n))
      /\ Half(flash, f, n) /\ Empty(flash[c], Room(f, n + 1), n)
  <2>1. RamOK(f) /\ Swapping(flash, f) BY <1>1, SwapIs
  <2>2. QED BY <2>1, SwappingIs
<1>3. Copying(flash, f, n) BY <1>1, <1>2, SwapCopies DEF Takes
<1>4. /\ Fresh(m) /\ Completed(m) \in Interrupted(m)
      /\ Half(Completed(m), f, n) /\ Same(Completed(m), f, n)
      /\ \A fl2 \in Interrupted(m) : Elsewhere(flash, fl2, c)
  BY <1>2, <1>3, CopyProgrammed
<1> HIDE DEF m
<1>5. Ready(Completed(m), MemHwAbJobEndHandle(Cleared(f), Buffer(m)), req)
  BY <1>2, <1>4, EndOfSwapData, ClearedJob DEF MemHwAbJobEndHandle, JobSchedule
<1>6. \A fl2 \in Interrupted(m) : fl2 \in Disks /\ Disk(fl2) /\ Running(fl2, f)
  BY <1>1, <1>4, ElsewhereIs
<1>7. QED BY <1>4, <1>5, <1>6 DEF Outcome, m

LEMMA SwapEndProgrammed ==
  ASSUME NEW f, NEW req, Busy(flash, f, req), Serving(flash, f, req), f.job = "FEE_JOB_INT_SWAP_CLUSTER_VLD_DONE"
  PROVE  /\ Fresh(f.mem) /\ Interrupted(f.mem) = {flash, Completed(f.mem)}
         /\ CellSet(flash, Completed(f.mem), f.swap.cluster, 0, ClusterHdr(f.useId + 1, "set"))
         /\ Sealed(flash, Completed(f.mem), f)
<1> DEFINE c == f.swap.cluster
           m == SetFlag(c, 0, "valid")
           hdr == flash[c][0]
           cell == [hdr EXCEPT !.valid = "set"]
<1>1. f.job \in SwapJobs BY DEF SwapJobs
<1>2. /\ RamOK(f) /\ f.mem = m /\ Part(flash, f, FeeBlockSum) /\ flash \in Disks /\ c \in Cluster
      /\ f.useId \in Nat
  BY <1>1, SwapIs, SwappingIs
<1>3. hdr = [kind |-> "cluster", use |-> f.useId + 1, valid |-> "erased"]
  BY <1>2, OpenedIs DEF Part, ClusterHdr
<1>4. "valid" \in DOMAIN hdr /\ hdr.valid = "erased"
  <2> HIDE DEF hdr
  <2>1. QED BY <1>3
<1>5. cell = ClusterHdr(f.useId + 1, "set")
  <2> HIDE DEF hdr
  <2>1. QED BY <1>3 DEF ClusterHdr
<1>6. cell \in Cell
  <2>1. "set" \in Flag /\ f.useId + 1 \in Nat BY <1>2 DEF Flag
  <2> HIDE DEF cell
  <2>2. QED BY <1>5, <2>1, CellsAre
<1>7. 0 \in Address /\ 0 \in Nat BY Lengths
<1>8. CellSet(flash, Completed(m), c, 0, cell) /\ Interrupted(m) = {flash, Completed(m)}
  BY <1>2, <1>4, <1>6, <1>7, FlagOne
<1>9. Fresh(m) BY <1>4, <1>7, FreshFlag
<1> HIDE DEF cell, m
<1>10. Sealed(flash, Completed(m), f) BY <1>1, <1>2, <1>5, <1>8, SwapIs DEF Sealed
<1>11. QED BY <1>2, <1>5, <1>8, <1>9, <1>10

LEMMA SwapEndOutcome ==
  ASSUME NEW f, NEW req, Busy(flash, f, req), Serving(flash, f, req), f.job = "FEE_JOB_INT_SWAP_CLUSTER_VLD_DONE"
  PROVE  Outcome(f, req)
<1> DEFINE m == f.mem
<1>1. /\ Fresh(m) /\ Interrupted(m) = {flash, Completed(m)}
      /\ CellSet(flash, Completed(m), f.swap.cluster, 0, ClusterHdr(f.useId + 1, "set"))
  BY SwapEndProgrammed
<1> HIDE DEF m
<1>2. Ready(Completed(m), JobNotiHandle(JobIntSwapClusterVldDone(Cleared(f))), req) /\ Disk(Completed(m))
  BY <1>1, EndOfSwap
<1>3. Cleared(f).job = "FEE_JOB_INT_SWAP_CLUSTER_VLD_DONE" BY ClearedJob DEF Busy
<1>4. MemHwAbJobEndHandle(Cleared(f), Buffer(m)) = JobNotiHandle(JobIntSwapClusterVldDone(Cleared(f)))
  BY <1>3 DEF MemHwAbJobEndHandle, JobSchedule
<1>5. flash \in Disks /\ Disk(flash) BY RunningIs DEF Busy
<1>6. Completed(m) \in Disks BY <1>1 DEF CellSet
<1>7. QED BY <1>1, <1>2, <1>4, <1>5, <1>6 DEF Outcome, m

LEMMA SwapOutcome ==
  ASSUME NEW f, NEW req, Busy(flash, f, req), Serving(flash, f, req), f.job \in SwapJobs
  PROVE  /\ Outcome(f, req)
         /\ f.job # "FEE_JOB_INT_SWAP_CLUSTER_VLD_DONE" => \A fl2 \in Interrupted(f.mem) : Running(fl2, f)
BY SwapEraseOutcome, SwapBlockOutcome, SwapHeaderOutcome, SwapReadOutcome, SwapDataOutcome, SwapEndOutcome
   DEF SwapJobs

LEMMA ScanningDisk ==
  ASSUME NEW fl, NEW f, RamOK(f), Scanning(fl, f)
  PROVE  Disk(fl)
BY ScanningIs DEF Disk, Current

LEMMA ReadyDisk ==
  ASSUME NEW fl, NEW g, NEW req, Ready(fl, g, req)
  PROVE  fl \in Disks /\ Disk(fl)
BY ScanningDisk, DiskOf DEF Ready, Busy, RamOK

LEMMA ReadOutcome ==
  ASSUME NEW f, NEW req, Busy(flash, f, req), Serving(flash, f, req), f.job = "FEE_JOB_NONE"
  PROVE  Outcome(f, req) /\ \A fl2 \in Interrupted(f.mem) : Running(fl2, f)
<1> DEFINE m == f.mem
           b == f.block
<1>1. m = Read(f.info[b].cluster, f.info[b].dataAddr, FeeBlockSize[b]) BY ServingIs
<1>2. Completed(m) = flash /\ Interrupted(m) = {flash} BY <1>1, ReadOrNone
<1>3. Fresh(m) BY <1>1, FreshElse
<1> HIDE DEF m
<1>4. Cleared(f).job = "FEE_JOB_NONE" BY ClearedJob DEF Busy
<1>5. MemHwAbJobEndHandle(Cleared(f), Buffer(m)) = EndRead(f)
  BY <1>4 DEF MemHwAbJobEndHandle, EndRead
<1>6. Ready(flash, EndRead(f), req) BY EndOfRead
<1>7. flash \in Disks /\ Running(flash, f) /\ Disk(flash) BY RunningIs DEF Busy
<1>8. QED BY <1>2, <1>3, <1>5, <1>6, <1>7 DEF Outcome, m

LEMMA WaitingOutcome ==
  ASSUME NEW f, NEW req, Busy(flash, f, req), f.mem = NoAccess
  PROVE  Outcome(f, req) /\ \A fl2 \in Interrupted(f.mem) : Running(fl2, f)
BY ReadOrNone, FreshElse, RunningIs DEF Busy, Outcome

LEMMA HeaderOutcome ==
  ASSUME NEW f, NEW req, Busy(flash, f, req), Serving(flash, f, req),
         f.job \in {"FEE_JOB_WRITE_DATA", "FEE_JOB_ERASE_IMMEDIATE_DONE"}
  PROVE  Outcome(f, req)
<1> DEFINE c == f.cluster
           p == f.hdrAddr
           cell == BlockHdr(f.block, f.dataAddr - FeeBlockSize[f.block])
           m == Program(c, p, <<cell>>)
           g == MemHwAbJobEndHandle(Cleared(f), Buffer(m))
<1>1. HeaderPending(f) BY ServingIs
<1>2. f.mem = m /\ c \in Cluster /\ p \in Address /\ cell \in Cell /\ flash[c][p] = Blank /\ p + 1 < f.dataAddr
  BY <1>1, HeaderPendingIs
<1>3. flash \in Disks /\ RamOK(f) /\ Running(flash, f) /\ Disk(flash) BY RunningIs DEF Busy
<1> HIDE DEF cell
<1>4. /\ CellSet(flash, Completed(m), c, p, cell)
      /\ \A fl2 \in Interrupted(m) :
           fl2 = flash \/ CellSet(flash, fl2, c, p, cell) \/ CellSet(flash, fl2, c, p, Torn)
  BY <1>2, <1>3, ProgramOne
<1>5. Fresh(m) BY <1>2, FreshOne
<1> HIDE DEF m
<1>6. Cleared(f).job = f.job BY <1>3, ClearedJob
<1>7. ASSUME NEW fl2, CellSet(flash, fl2, c, p, cell)
      PROVE  Ready(fl2, g, req)
  BY <1>6, <1>7, EndOfHeader, EndOfErase DEF cell, MemHwAbJobEndHandle, JobSchedule
<1> HIDE DEF g
<1>8. Ready(Completed(m), g, req) BY <1>4, <1>7
<1>9. ASSUME NEW fl2 \in Interrupted(m)
      PROVE  fl2 \in Disks /\ Disk(fl2)
  BY <1>2, <1>3, <1>4, <1>7, ReadyDisk, AppendCut DEF CellSet
<1>10. QED BY <1>2, <1>5, <1>8, <1>9 DEF Outcome, g

LEMMA DataOutcome ==
  ASSUME NEW f, NEW req, Busy(flash, f, req), Serving(flash, f, req), f.job = "FEE_JOB_WRITE_VALIDATE"
  PROVE  Outcome(f, req)
<1> DEFINE b == f.block
           c == f.info[b].cluster
           d == f.info[b].dataAddr
           n == FeeBlockSize[b]
           cells == DataCells(f.data, n)
           m == Program(c, d, cells)
           g == MemHwAbJobEndHandle(Cleared(f), Buffer(m))
<1>1. /\ f.mem = m /\ Writing(f, b) /\ f.info[b].status = "FEE_BLOCK_INCONSISTENT" /\ f.data \in Value
      /\ c \in Cluster /\ d \in Address /\ d \in Nat /\ n \in Nat /\ d + n <= FeeClusterLength
      /\ cells \in [1 .. n -> Cell]
      /\ \A a \in Address : a \in d .. d + n - 1 => flash[c][a] = Blank
  BY DataPendingIs
<1>2. flash \in Disks /\ RamOK(f) /\ Running(flash, f) /\ b \in Block BY BusyIs
<1>3. /\ RangeSet(flash, Completed(m), c, d, cells, n)
      /\ \A fl2 \in Interrupted(m) : RangePart(flash, fl2, c, d, cells, n)
  <2> HIDE DEF cells, c, d, n
  <2>1. QED BY <1>1, <1>2, ProgramMany
<1>4. Fresh(m)
  <2> HIDE DEF cells, c, d, n
  <2>1. QED BY <1>1, FreshMany
<1>5. Completed(m) \in Interrupted(m) BY DEF Interrupted
<1>6. \A x \in Block : ~ AtDone(f, x) BY NotAtDone DEF NoneAtDone
<1>7. \A fl2 \in Interrupted(m) : fl2 \in Disks /\ Disk(fl2)
  <2>1. ASSUME NEW fl2 \in Interrupted(m)
        PROVE  fl2 \in Disks /\ Disk(fl2)
    <3> HIDE DEF m
    <3>1. RangePart(flash, fl2, c, d, cells, n) BY <1>3
    <3>2. Disk(fl2) BY <1>1, <1>2, <1>6, <3>1, Filled
    <3>3. QED BY <3>1, <3>2 DEF RangePart
  <2>2. QED BY <2>1
<1>8. Ready(Completed(m), g, req)
  <2> HIDE DEF m
  <2>1. RangePart(flash, Completed(m), c, d, cells, n) BY <1>3, <1>5
  <2>2. Ready(Completed(m), JobNotiHandle(JobWriteValidate(Cleared(f))), req)
    BY <1>3, <2>1, EndOfData
  <2>3. Cleared(f).job = "FEE_JOB_WRITE_VALIDATE" BY <1>2, ClearedJob
  <2>4. g = JobNotiHandle(JobWriteValidate(Cleared(f))) BY <2>3 DEF MemHwAbJobEndHandle, JobSchedule
  <2>5. QED BY <2>2, <2>4
<1> HIDE DEF m, g
<1>9. QED BY <1>1, <1>4, <1>7, <1>8 DEF Outcome, g

LEMMA ValidOutcome ==
  ASSUME NEW f, NEW req, Busy(flash, f, req), Serving(flash, f, req), f.job = "FEE_JOB_WRITE_DONE"
  PROVE  /\ Outcome(f, req) /\ Interrupted(f.mem) = {flash, Completed(f.mem)}
         /\ GetsValid(flash, Completed(f.mem), f, f.block)
<1> DEFINE b == f.block
           c == f.info[b].cluster
           p == f.info[b].validHdr
           hdr == flash[c][p]
           cell == [hdr EXCEPT !.valid = "set"]
           m == SetFlag(c, p, "valid")
           g == MemHwAbJobEndHandle(Cleared(f), Buffer(m))
<1>1. /\ f.mem = m /\ c \in Cluster /\ p \in Address /\ cell \in Cell
      /\ hdr = [kind |-> "block", block |-> b, addr |-> hdr.addr, valid |-> "erased", invalid |-> "erased"]
  BY ValidPendingIs, Zenon
<1>2. flash \in Disks /\ RamOK(f) /\ Disk(flash) BY RunningIs DEF Busy
<1>3. "valid" \in DOMAIN hdr /\ hdr.valid = "erased"
  <2> HIDE DEF hdr
  <2>1. QED BY <1>1
<1>4. p \in Nat
  <2>1. p \in Address BY <1>1, Zenon
  <2> HIDE DEF p
  <2>2. QED BY <2>1, Lengths
<1>5. CellSet(flash, Completed(m), c, p, cell) /\ Interrupted(m) = {flash, Completed(m)}
  <2> HIDE DEF c, p
  <2>1. QED BY <1>1, <1>2, <1>3, FlagOne
<1>6. Fresh(m) BY <1>3, <1>4, FreshFlag, SMTT(30)
<1> HIDE DEF m
<1>7. GetsValid(flash, Completed(m), f, b) BY <1>5 DEF GetsValid
<1>8. Ready(Completed(m), g, req)
  BY <1>2, <1>7, EndOfValidate, ClearedJob DEF MemHwAbJobEndHandle, JobSchedule
<1> HIDE DEF g
<1>9. Completed(m) \in Disks /\ Disk(Completed(m)) BY <1>8, ReadyDisk
<1>10. Outcome(f, req) BY <1>1, <1>2, <1>5, <1>6, <1>8, <1>9, Zenon DEF Outcome, g
<1>11. QED BY <1>1, <1>5, <1>7, <1>10, Zenon

LEMMA InvalidOutcome ==
  ASSUME NEW f, NEW req, Busy(flash, f, req), Serving(flash, f, req), f.job = "FEE_JOB_INVAL_BLOCK_DONE"
  PROVE  /\ Outcome(f, req) /\ Interrupted(f.mem) = {flash, Completed(f.mem)}
         /\ GetsInvalid(flash, Completed(f.mem), f, f.block)
<1> DEFINE b == f.block
           c == f.info[b].cluster
           p == f.info[b].validHdr
           hdr == flash[c][p]
           cell == [hdr EXCEPT !.invalid = "set"]
           m == SetFlag(c, p, "invalid")
           g == MemHwAbJobEndHandle(Cleared(f), Buffer(m))
<1>1. f.mem = m /\ f.info[b].status # "FEE_BLOCK_INVALID" /\ Own(flash, f, b) BY ServingIs
<1>2. flash \in Disks /\ RamOK(f) /\ Running(flash, f) /\ Disk(flash) /\ b \in Block
  BY RunningIs, BusyIs
<1>3. /\ c \in Cluster /\ p \in Address /\ hdr.addr \in Address /\ hdr.valid \in Flag
      /\ hdr = [kind |-> "block", block |-> b, addr |-> hdr.addr, valid |-> hdr.valid, invalid |-> "erased"]
  BY <1>1, <1>2, OwnIs, Zenon
<1>4. /\ "invalid" \in DOMAIN hdr /\ hdr.invalid = "erased"
      /\ cell = [kind |-> "block", block |-> b, addr |-> hdr.addr, valid |-> hdr.valid, invalid |-> "set"]
  <2> HIDE DEF hdr
  <2>1. QED BY <1>3
<1>5. cell \in Cell
  <2>1. "set" \in Flag BY DEF Flag
  <2> HIDE DEF cell, hdr
  <2>2. QED BY <1>2, <1>3, <1>4, <2>1, CellsAre
<1>6. p \in Nat
  <2>1. p \in Address BY <1>3
  <2> HIDE DEF p
  <2>2. QED BY <2>1, Lengths
<1>7. CellSet(flash, Completed(m), c, p, cell) /\ Interrupted(m) = {flash, Completed(m)}
  <2> HIDE DEF c, p
  <2>1. QED BY <1>2, <1>3, <1>4, <1>5, FlagOne
<1>8. Fresh(m) BY <1>4, <1>6, FreshFlag, ZenonT(30)
<1> HIDE DEF m
<1>9. GetsInvalid(flash, Completed(m), f, b) BY <1>7 DEF GetsInvalid
<1>10. Ready(Completed(m), g, req)
  BY <1>2, <1>9, EndOfInvalidate, ClearedJob DEF MemHwAbJobEndHandle, JobSchedule
<1> HIDE DEF g
<1>11. Completed(m) \in Disks /\ Disk(Completed(m)) BY <1>10, ReadyDisk, SMTT(30)
<1>12. Outcome(f, req) BY <1>1, <1>2, <1>7, <1>8, <1>10, <1>11, Zenon DEF Outcome, g
<1>13. QED BY <1>1, <1>7, <1>9, <1>12, Zenon

\* Jobs during which Fee_Cancel leaves a flash that Fee still knows.
Cancelable(job) ==
  job \notin {"FEE_JOB_WRITE_DATA", "FEE_JOB_WRITE_VALIDATE", "FEE_JOB_WRITE_DONE", "FEE_JOB_INVAL_BLOCK_DONE",
              "FEE_JOB_ERASE_IMMEDIATE_DONE", "FEE_JOB_INT_SWAP_CLUSTER_VLD_DONE"}

LEMMA BusyOutcome ==
  ASSUME NEW f, NEW req, Busy(flash, f, req), Serving(flash, f, req)
  PROVE  /\ Outcome(f, req)
         /\ Cancelable(f.job) => \A fl2 \in Interrupted(f.mem) : Running(fl2, f)
BY ServingIs, SwapOutcome, WaitingOutcome, ReadOutcome, HeaderOutcome, DataOutcome, ValidOutcome,
   InvalidOutcome DEF Cancelable

LEMMA NoneStays ==
  ASSUME NEW fl, NEW fl2, NEW c, NoneValid(fl), Others(fl, fl2, c), fl2[c][0] \in {fl[c][0], Blank, Torn}
  PROVE  NoneValid(fl2)
BY NoBlankValid DEF NoneValid, ValidCluster, Others

LEMMA ClusterHdrOutcome ==
  ASSUME NEW f, ScanBusy(flash, f), f.job = "FEE_JOB_INT_SCAN_CLUSTER_HDR_GET"
  PROVE  Outcome(f, NoRequest)
<1> DEFINE m == f.mem
<1>1. m = Read(f.idx, 0, 1) /\ Disk(flash) /\ RamOK(f) /\ flash \in Disks BY ScanningIs DEF ScanBusy
<1>2. Completed(m) = flash /\ Interrupted(m) = {flash} /\ Fresh(m) BY <1>1, ReadOrNone, FreshElse
<1>3. Buffer(m) = <<flash[f.idx][0]>> BY <1>1, OneCell
<1> HIDE DEF m
<1>4. Ready(flash, JobNotiHandle(JobIntScanClusterHdrGet(Cleared(f), <<flash[f.idx][0]>>)), NoRequest)
  BY EndOfClusterHdr
<1>5. Cleared(f).job = "FEE_JOB_INT_SCAN_CLUSTER_HDR_GET" BY <1>1, ClearedJob
<1>6. MemHwAbJobEndHandle(Cleared(f), Buffer(m)) = JobNotiHandle(JobIntScanClusterHdrGet(Cleared(f), Buffer(m)))
  BY <1>5 DEF MemHwAbJobEndHandle, JobSchedule
<1>7. QED BY <1>1, <1>2, <1>3, <1>4, <1>6 DEF Outcome, m

LEMMA BlockHdrOutcome ==
  ASSUME NEW f, ScanBusy(flash, f), f.job = "FEE_JOB_INT_SCAN_BLOCK_HDR_GET"
  PROVE  Outcome(f, NoRequest)
<1> DEFINE m == f.mem
<1>1. m = Read(f.cluster, f.hdrAddr, 1) /\ Disk(flash) /\ RamOK(f) /\ flash \in Disks
  BY ScanningIs, ScanningDisk DEF ScanBusy
<1>2. Completed(m) = flash /\ Interrupted(m) = {flash} /\ Fresh(m) BY <1>1, ReadOrNone, FreshElse
<1>3. f.hdrAddr \in Nat BY <1>1, Lengths DEF RamOK
<1>4. Buffer(m) = <<flash[f.cluster][f.hdrAddr]>> BY <1>1, <1>3, OneCell
<1> HIDE DEF m
<1>5. Ready(flash, JobNotiHandle(JobIntScanBlockHdrGet(Cleared(f), <<flash[f.cluster][f.hdrAddr]>>)), NoRequest)
  BY EndOfBlockHdr
<1>6. Cleared(f).job = "FEE_JOB_INT_SCAN_BLOCK_HDR_GET" BY <1>1, ClearedJob
<1>7. MemHwAbJobEndHandle(Cleared(f), Buffer(m)) = JobNotiHandle(JobIntScanBlockHdrGet(Cleared(f), Buffer(m)))
  BY <1>6 DEF MemHwAbJobEndHandle, JobSchedule
<1>8. QED BY <1>1, <1>2, <1>4, <1>5, <1>7 DEF Outcome, m

LEMMA ScanEraseOutcome ==
  ASSUME NEW f, ScanBusy(flash, f), f.job = "FEE_JOB_INT_SCAN_CLUSTER_CLEAR"
  PROVE  Outcome(f, NoRequest)
<1> DEFINE m == Erase(0)
           g == MemHwAbJobEndHandle(Cleared(f), Buffer(m))
<1>1. f.mem = m /\ NoneValid(flash) /\ RamOK(f) /\ flash \in Disks /\ 0 \in Cluster
  BY ScanningIs, Numbers DEF ScanBusy
<1>2. /\ Completed(m) \in Disks /\ Others(flash, Completed(m), 0)
      /\ \A a \in Address : Completed(m)[0][a] = Blank
      /\ \A fl2 \in Interrupted(m) :
           \/ fl2 = flash
           \/ /\ fl2 \in Disks /\ Others(flash, fl2, 0)
              /\ fl2[0][0] \in {flash[0][0], Blank, Torn}
              /\ \A a \in Address \ {0} : fl2[0][a] \in {Blank, Torn}
  BY <1>1, EraseOne
<1>3. Fresh(m) BY FreshElse
<1> HIDE DEF m
<1>4. Ready(Completed(m), g, NoRequest)
  BY <1>1, <1>2, EndOfScanErase, ClearedJob DEF MemHwAbJobEndHandle, JobSchedule
<1> HIDE DEF g
<1>5. ASSUME NEW fl2 \in Interrupted(m)
      PROVE  fl2 \in Disks /\ Disk(fl2)
  BY <1>1, <1>2, NoneStays DEF Disk
<1>6. QED BY <1>1, <1>3, <1>4, <1>5 DEF Outcome, g

LEMMA FormatOutcome ==
  ASSUME NEW f, ScanBusy(flash, f), f.job = "FEE_JOB_INT_SCAN_CLUSTER_CLEAR_DONE"
  PROVE  Outcome(f, NoRequest)
<1> DEFINE cell == ClusterHdr(1, "set")
           m == Program(0, 0, <<cell>>)
           g == MemHwAbJobEndHandle(Cleared(f), Buffer(m))
<1>1. /\ f.mem = m /\ NoneValid(flash) /\ RamOK(f) /\ flash \in Disks /\ 0 \in Cluster
      /\ \A a \in Address : flash[0][a] = Blank
  BY ScanningIs, Numbers DEF ScanBusy
<1>2. 0 \in Address BY Lengths
<1>3. cell \in Cell BY CellsAre DEF Flag
<1> HIDE DEF cell
<1>4. /\ CellSet(flash, Completed(m), 0, 0, cell)
      /\ \A fl2 \in Interrupted(m) :
           fl2 = flash \/ CellSet(flash, fl2, 0, 0, cell) \/ CellSet(flash, fl2, 0, 0, Torn)
  BY <1>1, <1>2, <1>3, ProgramOne
<1>5. Fresh(m) BY <1>1, <1>2, <1>3, FreshOne
<1> HIDE DEF m
<1>6. ASSUME NEW fl2, CellSet(flash, fl2, 0, 0, cell)
      PROVE  Ready(fl2, g, NoRequest)
  BY <1>1, <1>6, EndOfFormat, ClearedJob DEF cell, MemHwAbJobEndHandle, JobSchedule
<1> HIDE DEF g
<1>7. ASSUME NEW fl2 \in Interrupted(m)
      PROVE  fl2 \in Disks /\ Disk(fl2)
  BY <1>1, <1>4, <1>6, ReadyDisk, NoneStays DEF Disk, CellSet
<1>8. Ready(Completed(m), g, NoRequest) BY <1>4, <1>6
<1>9. QED BY <1>1, <1>5, <1>7, <1>8 DEF Outcome, g

LEMMA ScanOutcome ==
  ASSUME NEW f, ScanBusy(flash, f)
  PROVE  Outcome(f, NoRequest)
BY ScanningIs, ReadOrNone, FreshElse, ClusterHdrOutcome, BlockHdrOutcome, ScanEraseOutcome, FormatOutcome DEF
   ScanBusy, Outcome

LEMMA AnyOutcome ==
  ASSUME NEW f, NEW req, FeeInv(flash, f, req)
  PROVE  Outcome(f, req)
<1>1. flash \in Disks /\ RamOK(f) BY DEF FeeInv, Disks
<1>2. CASE f.status \in {"MEMIF_UNINIT", "MEMIF_IDLE"}
  BY <1>1, <1>2, ReadOrNone, FreshElse, DiskOf DEF FeeInv, RamOK, Outcome
<1>3. CASE f.status = "MEMIF_BUSY_INTERNAL" BY <1>1, <1>3, ScanOutcome DEF FeeInv, ScanBusy
<1>4. CASE f.status = "MEMIF_BUSY" BY <1>1, <1>4, BusyOutcome DEF FeeInv, Busy
<1>5. QED BY <1>2, <1>3, <1>4 DEF FeeInv

LEMMA Stopped ==
  ASSUME NEW fl \in Disks, NEW f, NEW g, NEW req, RamOK(f), RequestOK(req), Running(fl, f), NoneAtDone(f),
         RamOK(g), Core(f, g), g.status = "MEMIF_IDLE", g.mem = NoAccess, g.result # "MEMIF_JOB_PENDING"
  PROVE  Ready(fl, g, req)
BY IdleRuns DEF NoneAtDone, Ready

Failed(f) ==
  [Cleared(f) EXCEPT !.result = "MEMIF_JOB_FAILED",
                     !.status = IF Cleared(f).status = "MEMIF_BUSY_INTERNAL" THEN "MEMIF_UNINIT" ELSE "MEMIF_IDLE"]

LEMMA FailedIs ==
  ASSUME NEW f, RamOK(f)
  PROVE  LET g == Failed(f)
         IN  /\ RamOK(g) /\ Core(f, g) /\ g.result = "MEMIF_JOB_FAILED" /\ g.mem = NoAccess
             /\ g.status = IF f.status = "MEMIF_BUSY_INTERNAL" THEN "MEMIF_UNINIT" ELSE "MEMIF_IDLE"
<1> DEFINE f0 == Cleared(f)
           s == IF f.status = "MEMIF_BUSY_INTERNAL" THEN "MEMIF_UNINIT" ELSE "MEMIF_IDLE"
           g == [f0 EXCEPT !.result = "MEMIF_JOB_FAILED", !.status = s]
<1>1. RamOK(f0) /\ Core(f, f0) /\ f0.status = f.status /\ f0.mem = NoAccess BY ClearedIs
<1>2. g = Failed(f) BY <1>1 DEF Failed
<1>3. s \in Statuses /\ "MEMIF_JOB_FAILED" \in Results BY DEF Statuses, Results
<1> HIDE DEF f0, s
<1>4. /\ RamOK(g) /\ Core(f0, g) /\ g.result = "MEMIF_JOB_FAILED" /\ g.mem = f0.mem /\ g.status = s
  BY <1>1, <1>3 DEF RamOK, RamFields, Core
<1> HIDE DEF g
<1>5. QED BY <1>1, <1>2, <1>4 DEF s, Core

LEMMA ErrorReady ==
  ASSUME NEW fl, NEW f, NEW req, FeeInv(fl, f, req), f.mem # NoAccess,
         f.job \notin {"FEE_JOB_WRITE_DONE", "FEE_JOB_INT_SCAN_CLUSTER_HDR_GET", "FEE_JOB_INT_SCAN_BLOCK_HDR_GET"}
  PROVE  Ready(fl, MemHwAbJobErrorHandle(Cleared(f)), req) /\ MemHwAbJobErrorHandle(Cleared(f)) = Failed(f)
<1> DEFINE g == Failed(f)
<1>1. fl \in Disks /\ RamOK(f) /\ RequestOK(req) BY DEF FeeInv, Disks
<1>2. Cleared(f).job = f.job BY <1>1, ClearedJob
<1>3. MemHwAbJobErrorHandle(Cleared(f)) = g BY <1>2 DEF MemHwAbJobErrorHandle, Failed
<1>4. /\ RamOK(g) /\ Core(f, g) /\ g.result = "MEMIF_JOB_FAILED" /\ g.mem = NoAccess
      /\ g.status = IF f.status = "MEMIF_BUSY_INTERNAL" THEN "MEMIF_UNINIT" ELSE "MEMIF_IDLE"
  BY <1>1, FailedIs
<1> HIDE DEF g
<1>5. f.status \in {"MEMIF_BUSY_INTERNAL", "MEMIF_BUSY"} BY DEF FeeInv
<1>6. CASE f.status = "MEMIF_BUSY_INTERNAL"
  <2>1. Scanning(fl, f) /\ req = NoRequest BY <1>6 DEF FeeInv
  <2>2. Disk(fl) BY <1>1, <2>1, ScanningDisk
  <2>3. f.job \in {"FEE_JOB_INT_SCAN", "FEE_JOB_INT_SCAN_CLUSTER_CLEAR", "FEE_JOB_INT_SCAN_CLUSTER_CLEAR_DONE"}
    BY <2>1, ScanningIs
  <2>4. Unseen(f) BY <2>1, <2>3, ScanningIs
  <2>5. \A b \in Block : g.info[b].status # "FEE_BLOCK_INCONSISTENT" BY <1>4, <2>4 DEF Unseen, Core
  <2>6. QED BY <1>1, <1>3, <1>4, <1>6, <2>1, <2>2, <2>5 DEF Ready, g
<1>7. CASE f.status = "MEMIF_BUSY" BY <1>1, <1>3, <1>4, <1>7, NotAtDone, Stopped DEF FeeInv, g
<1>8. QED BY <1>5, <1>6, <1>7

Canceled(f) ==
  [f EXCEPT !.job = "FEE_JOB_NONE", !.result = "MEMIF_JOB_CANCELED", !.status = "MEMIF_IDLE", !.mem = NoAccess]

LEMMA CanceledIs ==
  ASSUME NEW f, RamOK(f)
  PROVE  LET g == Canceled(f)
         IN  /\ RamOK(g) /\ Core(f, g) /\ g.result = "MEMIF_JOB_CANCELED" /\ g.mem = NoAccess
             /\ g.status = "MEMIF_IDLE"
BY DEF JobType, Results, Statuses, Canceled, RamOK, RamFields, Core

LEMMA CancelReady ==
  ASSUME NEW f, NEW req, NEW fl2, FeeInv(flash, f, req), f.status = "MEMIF_BUSY", Cancelable(f.job),
         fl2 \in Interrupted(f.mem)
  PROVE  Ready(fl2, Canceled(f), req)
BY BusyOutcome, NotAtDone, CanceledIs, Stopped DEF FeeInv, Busy, Disks, Outcome, Cancelable

-----------------------------------------------------------------------------
(* Every step keeps the invariant. *)

LEMMA DataRead ==
  ASSUME NEW c, NEW addr, NEW b \in Block, NEW v \in Value, Holds(flash[c], addr, b, v)
  PROVE  DataAt(c, addr, b) = v
<1> DEFINE n == FeeBlockSize[b]
           cells == CellsAt(c, addr, n)
<1>1. n \in Nat /\ n >= 1 BY Numbers
<1>2. cells = DataCells(v, n) BY DEF CellsAt, DataCells, Holds
<1> HIDE DEF n, cells
<1>3. DataCells(v, n) \in [1 .. n -> [kind : {"data"}, value : {v}, part : Nat]] /\ 1 \in 1 .. n
  BY <1>1 DEF DataCells
<1>4. Len(cells) = n /\ cells[1].kind = "data" /\ cells[1].value = v BY <1>1, <1>2, <1>3
<1>5. ValueOf(cells) = v BY <1>2, <1>4 DEF ValueOf
<1>6. QED BY <1>5 DEF DataAt, cells, n

LEMMA KnownWhole ==
  ASSUME NEW fl \in Disks, NEW f, RamOK(f), Running(fl, f), NEW b \in Block, ~ AtDone(f, b),
         f.info[b].status = "FEE_BLOCK_VALID"
  PROVE  /\ f.info[b].cluster = f.cluster
         /\ \E v \in Value : Holds(fl[f.cluster], f.info[b].dataAddr, b, v)
BY CarriedIs DEF Carried, Whole

\* A read hands out the value of a whole record.
LEMMA ReadAnswer ==
  ASSUME NEW f, NEW req, Busy(flash, f, req), Serving(flash, f, req), f.job = "FEE_JOB_NONE"
  PROVE  ValueOf(Buffer(f.mem)) \in Value
<1> DEFINE b == f.block
           i == f.info[b]
<1>1. f.mem = Read(i.cluster, i.dataAddr, FeeBlockSize[b]) /\ i.status = "FEE_BLOCK_VALID"
  BY ServingIs
<1>2. flash \in Disks /\ RamOK(f) /\ Running(flash, f) /\ b \in Block BY BusyIs
<1>3. ~ AtDone(f, b) BY <1>2, NotAtDone DEF NoneAtDone
<1>4. i.cluster = f.cluster /\ \E v \in Value : Holds(flash[f.cluster], i.dataAddr, b, v)
  BY <1>1, <1>2, <1>3, KnownWhole
<1>5. DataAt(i.cluster, i.dataAddr, b) \in Value BY <1>2, <1>4, DataRead
<1>6. Buffer(f.mem) = CellsAt(i.cluster, i.dataAddr, FeeBlockSize[b])
  <2> HIDE DEF i, b
  <2>1. QED BY <1>1, BufferIs
<1>7. QED BY <1>5, <1>6 DEF DataAt

LEMMA ReadNotOK ==
  ASSUME NEW fl, NEW f, NEW req, Busy(fl, f, req), f.job = "FEE_JOB_READ"
  PROVE  JobNotiHandle(JobRead(f)).result # "MEMIF_JOB_OK"
<1> DEFINE i == f.info[f.block]
           m == Read(i.cluster, i.dataAddr, FeeBlockSize[f.block])
<1>1. RamOK(f) /\ f.status = "MEMIF_BUSY" BY DEF Busy
<1>2. CASE i.status = "FEE_BLOCK_VALID"
  <2> DEFINE g == Start(f, m, "FEE_JOB_NONE")
  <2>1. JobRead(f) = g BY <1>2 DEF JobRead
  <2>2. g.result = "MEMIF_JOB_PENDING" BY <1>1, StartIs DEF JobType
  <2> HIDE DEF g
  <2>3. QED BY <2>1, <2>2, NotiIs
<1>3. CASE i.status # "FEE_BLOCK_VALID"
  <2>1. PICK r \in {"MEMIF_BLOCK_INVALID", "MEMIF_BLOCK_INCONSISTENT"} : JobRead(f) = End(f, r)
    BY <1>3 DEF JobRead
  <2> DEFINE g == End(f, r)
  <2>2. r \in Results BY DEF Results
  <2>3. RamOK(g) /\ g.result = r /\ g.status = "MEMIF_BUSY" BY <1>1, <2>2, EndIs
  <2> HIDE DEF g
  <2>4. JobNotiHandle(g) = Idled(g) /\ Idled(g).result = r BY <2>3, NotiIs, IdledIs
  <2>5. QED BY <2>1, <2>4 DEF g
<1>4. QED BY <1>2, <1>3

\* The end of a step.
LEMMA Answers ==
  ASSUME NEW g, NEW buffer, Becomes(g, buffer), Ready(flash', g, request), AnswerOK,
         request # NoRequest /\ request.job = "FEE_JOB_READ" /\ g.result = "MEMIF_JOB_OK" => ValueOf(buffer) \in Value
  PROVE  Inv'
<1>1. fee' = NextRam(g, request) /\ request' = NextRequest(g, request)
  BY DEF Becomes, NextRam, NextRequest, Settled
<1>2. FeeInv(flash', fee', request')
  <2> DEFINE fl == flash'
             f2 == fee'
             r2 == request'
             req == request
  <2>1. Ready(fl, g, req) /\ f2 = NextRam(g, req) /\ r2 = NextRequest(g, req) BY <1>1
  <2> HIDE DEF fl, f2, r2, req
  <2>2. FeeInv(fl, f2, r2) BY <2>1, ReadyBecomes
  <2>3. QED BY <2>2 DEF fl, f2, r2
<1>3. AnswerOK' BY DEF Becomes, AnswerOK
<1>4. QED BY <1>2, <1>3 DEF Inv

LEMMA Reading ==
  ASSUME NEW fl, NEW f, NEW req, FeeInv(fl, f, req), req # NoRequest, req.job = "FEE_JOB_READ"
  PROVE  /\ Busy(fl, f, req) /\ Serving(fl, f, req)
         /\ \/ f.job = "FEE_JOB_READ" /\ f.mem = NoAccess
            \/ f.job = "FEE_JOB_NONE"
BY ServingIs DEF FeeInv, Busy, Disks

LEMMA JobEndKeeps ==
  ASSUME Inv, JobEndNotification
  PROVE  Inv'
<1> DEFINE buffer == Buffer(fee.mem)
           g == MemHwAbJobEndHandle(Cleared(fee), buffer)
<1>1. fee.mem # NoAccess /\ flash' = Completed(fee.mem) /\ Becomes(g, buffer)
  BY DEF JobEndNotification, Buffer, Cleared
<1>2. FeeInv(flash, fee, request) /\ AnswerOK BY DEF Inv
<1>3. Ready(flash', g, request) BY <1>1, <1>2, AnyOutcome DEF Outcome
<1>4. request # NoRequest /\ request.job = "FEE_JOB_READ" => ValueOf(buffer) \in Value
  BY <1>1, <1>2, Reading, ReadAnswer
<1> HIDE DEF g, buffer
<1>5. QED BY <1>1, <1>2, <1>3, <1>4, Answers

LEMMA MainKeeps ==
  ASSUME Inv, MainFunction
  PROVE  Inv'
<1> DEFINE g == JobNotiHandle(Dispatch(fee))
<1>1. /\ fee.status # "MEMIF_UNINIT" /\ fee.result = "MEMIF_JOB_PENDING" /\ fee.job \in StartingJobs
      /\ flash' = flash /\ Becomes(g, <<>>)
  BY DEF MainFunction
<1>2. FeeInv(flash, fee, request) /\ AnswerOK BY DEF Inv
<1>3. Ready(flash', g, request) BY <1>1, <1>2, MainReady
<1>4. ~ (request # NoRequest /\ request.job = "FEE_JOB_READ" /\ g.result = "MEMIF_JOB_OK")
  BY <1>1, <1>2, Reading, ReadNotOK DEF StartingJobs, Dispatch
<1> HIDE DEF g
<1>5. QED BY <1>1, <1>2, <1>3, <1>4, Answers

LEMMA ErrorKeeps ==
  ASSUME Inv, JobErrorNotification, Spared
  PROVE  Inv'
<1> DEFINE g == MemHwAbJobErrorHandle(Cleared(fee))
<1>1. fee.mem # NoAccess /\ fee.job \in FailingJobs /\ flash' = flash /\ Becomes(g, <<>>)
  BY DEF JobErrorNotification, Cleared
<1>2. FeeInv(flash, fee, request) /\ AnswerOK BY DEF Inv
<1>3. fee.job \notin {"FEE_JOB_WRITE_DONE", "FEE_JOB_INT_SCAN_CLUSTER_HDR_GET", "FEE_JOB_INT_SCAN_BLOCK_HDR_GET"}
  BY <1>1 DEF Spared
<1>4. Ready(flash', g, request) /\ g = Failed(fee) BY <1>1, <1>2, <1>3, ErrorReady
<1>5. g.result # "MEMIF_JOB_OK" BY <1>2, <1>4, FailedIs DEF FeeInv
<1> HIDE DEF g
<1>6. QED BY <1>1, <1>2, <1>4, <1>5, Answers

LEMMA CancelKeeps ==
  ASSUME Inv, FeeCancel, Spared
  PROVE  Inv'
<1> DEFINE g == Canceled(fee)
<1>1. /\ fee.status = "MEMIF_BUSY" /\ fee.job \in CancelledJobs /\ flash' \in Interrupted(fee.mem)
      /\ Becomes(g, <<>>)
  BY DEF FeeCancel, Canceled
<1>2. FeeInv(flash, fee, request) /\ AnswerOK BY DEF Inv
<1>3. Cancelable(fee.job) BY <1>1 DEF Spared, Cancelable
<1>4. Ready(flash', g, request) BY <1>1, <1>2, <1>3, CancelReady
<1>5. g.result # "MEMIF_JOB_OK" BY <1>2, CanceledIs DEF FeeInv
<1> HIDE DEF g
<1>6. QED BY <1>1, <1>2, <1>4, <1>5, Answers

\* The RAM as a request leaves it.
Asked(f, job, b, v) ==
  [f EXCEPT !.status = "MEMIF_BUSY", !.job = job, !.result = "MEMIF_JOB_PENDING", !.block = b, !.data = v]

LEMMA AskedIs ==
  ASSUME NEW f, RamOK(f), NEW job \in JobType, NEW b \in Block, NEW v \in Value \cup {Nothing}
  PROVE  LET g == Asked(f, job, b, v)
         IN  /\ RamOK(g) /\ Core(f, g)
             /\ g.status = "MEMIF_BUSY" /\ g.job = job /\ g.result = "MEMIF_JOB_PENDING" /\ g.block = b
             /\ g.data = v /\ g.mem = f.mem
BY DEF Results, Statuses, Asked, RamOK, RamFields, Core

LEMMA InitialIs ==
  /\ RamOK(InitialRam) /\ RamOK(Off)
  /\ InitialRam.status = "MEMIF_BUSY_INTERNAL" /\ InitialRam.job = "FEE_JOB_INT_SCAN"
  /\ InitialRam.result = "MEMIF_JOB_PENDING" /\ InitialRam.mem = NoAccess /\ InitialRam.useId = 0
  /\ Off.status = "MEMIF_UNINIT" /\ Off.mem = NoAccess
  /\ \A b \in Block : InitialRam.info[b].status = "FEE_BLOCK_INVALID" /\ Off.info[b].status = "FEE_BLOCK_INVALID"
<1> DEFINE info == [b \in Block |-> Unwritten]
<1>1. NoSwap \in Swaps /\ 0 \in Block /\ 0 \in Cluster /\ 0 \in Address /\ 0 \in 0 .. FeeClusterLength /\ 0 \in Nat
  BY Numbers DEF NoSwap, Swaps, JobType
<1>2. Unwritten \in Infos /\ Unwritten.status = "FEE_BLOCK_INVALID" BY <1>1 DEF Unwritten, Infos
<1>3. info \in [Block -> Infos] /\ \A b \in Block : info[b].status = "FEE_BLOCK_INVALID" BY <1>2
<1>4. InitialRam =
        [status |-> "MEMIF_BUSY_INTERNAL", job |-> "FEE_JOB_INT_SCAN", result |-> "MEMIF_JOB_PENDING",
         block |-> 0, data |-> Nothing, info |-> info,
         cluster |-> 0, useId |-> 0, hdrAddr |-> 0, dataAddr |-> 0, idx |-> 0,
         swap |-> NoSwap, mem |-> NoAccess]
  BY DEF InitialRam
<1> HIDE DEF info
<1>5. RamOK(InitialRam)
  BY <1>1, <1>3, <1>4 DEF JobType, StartingJobs, Results, Statuses, RamOK, RamFields
<1>6. /\ InitialRam.status = "MEMIF_BUSY_INTERNAL" /\ InitialRam.job = "FEE_JOB_INT_SCAN"
      /\ InitialRam.result = "MEMIF_JOB_PENDING" /\ InitialRam.mem = NoAccess /\ InitialRam.useId = 0
      /\ InitialRam.info = info
  BY <1>4
<1>7. /\ RamOK(Off) /\ Off.status = "MEMIF_UNINIT" /\ Off.mem = NoAccess /\ Off.info = info
  <2>1. "FEE_JOB_NONE" \in JobType /\ "MEMIF_JOB_FAILED" \in Results /\ "MEMIF_UNINIT" \in Statuses
    BY DEF JobType, Results, Statuses
  <2> DEFINE f == InitialRam
  <2>2. RamOK(f) /\ f.mem = NoAccess /\ f.info = info BY <1>5, <1>6
  <2>3. Off = [f EXCEPT !.status = "MEMIF_UNINIT", !.job = "FEE_JOB_NONE", !.result = "MEMIF_JOB_FAILED"]
    BY DEF Off
  <2> HIDE DEF f
  <2>4. QED BY <2>1, <2>2, <2>3 DEF RamOK, RamFields
<1>8. QED BY <1>3, <1>5, <1>6, <1>7

LEMMA NothingAsked == RequestOK(NoRequest)
BY DEF RequestOK

LEMMA PowerLossKeeps ==
  ASSUME Inv, PowerLoss
  PROVE  Inv'
<1>1. flash' \in Interrupted(fee.mem) /\ fee' = Off /\ request' = NoRequest /\ answer' = NoAnswer
  BY DEF PowerLoss
<1>2. flash' \in Disks /\ Disk(flash') BY <1>1, AnyOutcome DEF Inv, Outcome
<1>3. AnswerOK' BY <1>1 DEF AnswerOK, NoAnswer
<1> DEFINE fl == flash'
           f == fee'
<1>4. f = Off BY <1>1
<1> HIDE DEF fl, f
<1>5. FeeInv(fl, f, NoRequest) BY <1>2, <1>4, InitialIs, NothingAsked DEF FeeInv, Disks, fl
<1>6. QED BY <1>1, <1>3, <1>5 DEF Inv, fl, f

LEMMA FeeInitKeeps ==
  ASSUME Inv, FeeInit
  PROVE  Inv'
<1>1. fee.status = "MEMIF_UNINIT" /\ fee' = InitialRam /\ flash' = flash /\ request' = request /\ answer' = answer
  BY DEF FeeInit
<1>2. flash \in Disks /\ Disk(flash) /\ request = NoRequest BY <1>1 DEF Inv, FeeInv, Disks
<1>3. AnswerOK' BY <1>1 DEF AnswerOK, Inv
<1> DEFINE fl == flash'
           f == fee'
<1>4. f = InitialRam /\ fl = flash BY <1>1
<1> HIDE DEF fl, f
<1>5. Scanning(fl, f) BY <1>2, <1>4, InitialIs DEF Scanning, Unseen
<1>6. FeeInv(fl, f, NoRequest) BY <1>2, <1>4, <1>5, InitialIs, NothingAsked DEF FeeInv, Disks
<1>7. QED BY <1>1, <1>2, <1>3, <1>6 DEF Inv, fl, f

LEMMA Accepted ==
  ASSUME Inv, NEW job, NEW b \in Block, NEW v, Request(job, b, v),
         \/ job = "FEE_JOB_WRITE" /\ v \in Value
         \/ job \in {"FEE_JOB_READ", "FEE_JOB_INVAL_BLOCK", "FEE_JOB_ERASE_IMMEDIATE"} /\ v = Nothing,
         job = "FEE_JOB_INVAL_BLOCK" => Own(flash, fee, b),
         job = "FEE_JOB_ERASE_IMMEDIATE" => b \in FeeImmediateData
  PROVE  Inv'
<1> DEFINE g == Asked(fee, job, b, v)
           req == [job |-> job, block |-> b, value |-> v]
<1>1. /\ fee.status = "MEMIF_IDLE" /\ fee' = g /\ request' = req /\ answer' = NoAnswer /\ flash' = flash
  BY DEF Request, Asked
<1>2. FeeInv(flash, fee, request) BY DEF Inv
<1>3. flash \in Disks /\ RamOK(fee) /\ fee.mem = NoAccess /\ Running(flash, fee)
  BY <1>1, <1>2 DEF FeeInv, Disks
<1>4. job \in JobType /\ v \in Value \cup {Nothing} BY DEF JobType, StartingJobs
<1>5. /\ RamOK(g) /\ Core(fee, g)
      /\ g.status = "MEMIF_BUSY" /\ g.job = job /\ g.result = "MEMIF_JOB_PENDING" /\ g.block = b
      /\ g.data = v /\ g.mem = NoAccess
  BY <1>3, <1>4, AskedIs
<1>6. req.job = job /\ req.block = b /\ req.value = v /\ req = [job |-> req.job, block |-> req.block, value |-> req.value]
  OBVIOUS
<1>7. req # NoRequest BY <1>6 DEF NoRequest
<1> HIDE DEF g, req
<1>8. RequestOK(req) BY <1>6 DEF RequestOK
<1>9. Running(flash, g) BY <1>1, <1>3, <1>5, RamKept DEF AtDone, Writing
<1>10. Serving(flash, g, req) BY <1>5, <1>6, OwnSame DEF Serving
<1>11. FeeInv(flash, g, req) BY <1>3, <1>5, <1>6, <1>7, <1>8, <1>9, <1>10 DEF FeeInv, Disks
<1>12. AnswerOK' BY <1>1 DEF AnswerOK, NoAnswer
<1>13. QED BY <1>1, <1>11, <1>12 DEF Inv

LEMMA RequestKeeps ==
  ASSUME Inv, Spared, NEW b \in Block,
         \/ FeeRead(b)
         \/ FeeInvalidateBlock(b)
         \/ FeeEraseImmediateBlock(b)
         \/ \E v \in Written[b] : FeeWrite(b, v)
  PROVE  Inv'
<1>1. CASE FeeRead(b) BY <1>1, Accepted DEF FeeRead
<1>2. CASE FeeInvalidateBlock(b)
  <2>1. Own(flash, fee, b)
    BY <1>2, Zenon DEF FeeInvalidateBlock, ClearlyItsOwn, Spared, Own, IsRecord, IsHeader, IsValid, IsValidRecord
  <2>2. QED BY <1>2, <2>1, Accepted DEF FeeInvalidateBlock
<1>3. CASE FeeEraseImmediateBlock(b) BY <1>3, Accepted DEF FeeEraseImmediateBlock
<1>4. CASE \E v \in Written[b] : FeeWrite(b, v)
  <2>1. PICK v \in Written[b] : FeeWrite(b, v) BY <1>4
  <2>2. v \in Value BY FeeConstants
  <2>3. QED BY <2>1, <2>2, Accepted DEF FeeWrite
<1>5. QED BY <1>1, <1>2, <1>3, <1>4

LEMMA InvKept ==
  ASSUME Inv, [Next]_feeVars, Spared
  PROVE  Inv'
<1>1. CASE FeeInit BY <1>1, FeeInitKeeps
<1>2. ASSUME NEW b \in Block,
             \/ FeeRead(b)
             \/ FeeInvalidateBlock(b)
             \/ FeeEraseImmediateBlock(b)
             \/ \E v \in Written[b] : FeeWrite(b, v)
      PROVE  Inv'
  BY <1>2, RequestKeeps
<1>3. CASE FeeCancel BY <1>3, CancelKeeps
<1>4. CASE MainFunction BY <1>4, MainKeeps
<1>5. CASE JobEndNotification BY <1>5, JobEndKeeps
<1>6. CASE JobErrorNotification BY <1>6, ErrorKeeps
<1>7. CASE PowerLoss BY <1>7, PowerLossKeeps
<1>8. CASE UNCHANGED feeVars BY <1>8 DEF feeVars, Inv, AnswerOK
<1>9. QED BY <1>1, <1>2, <1>3, <1>4, <1>5, <1>6, <1>7, <1>8 DEF Next

-----------------------------------------------------------------------------
(* The first states. *)

LEMMA AllHeaders == \A n \in 0 .. FeeBlockSum : HeadersBelow(Block)[n] = n
<1> DEFINE H == HeadersBelow(Block)
           S == {n \in 0 .. FeeBlockSum : H[n] = n}
<1>1. FeeBlockSum \in Nat /\ Block = 0 .. FeeBlockSum - 1 BY Numbers
<1>2. H[0] = 0 /\ \A b \in Block : H[b + 1] = H[b] + 1 BY BelowIs
<1> HIDE DEF H
<1>3. 0 \in S BY <1>1, <1>2
<1>4. ASSUME NEW k \in 0 .. FeeBlockSum - 1, k \in S
      PROVE  k + 1 \in S
  BY <1>1, <1>2, <1>4
<1> HIDE DEF S
<1>5. 0 .. FeeBlockSum \subseteq S BY <1>1, <1>3, <1>4, UpTo
<1>6. QED BY <1>5 DEF S, H

\* Where the data of block b begin when every block is there.
DataFrom(b) == FeeClusterLength - DataBelow(Block)[b + 1]

LEMMA DataFromIs ==
  /\ \A b \in Block :
       /\ DataFrom(b) \in Nat /\ FeeBlockSum + 4 <= DataFrom(b)
       /\ DataFrom(b) + FeeBlockSize[b] <= FeeClusterLength
       /\ FeeBlockSize[b] \in Nat /\ FeeBlockSize[b] >= 1
  /\ \A b, e \in Block : b < e => DataFrom(e) + FeeBlockSize[e] <= DataFrom(b)
  /\ DataFrom(0) + FeeBlockSize[0] = FeeClusterLength
  /\ \A b \in Block : b > 0 => b - 1 \in Block /\ DataFrom(b) + FeeBlockSize[b] = DataFrom(b - 1)
<1> DEFINE D == DataBelow(Block)
           H == HeadersBelow(Block)
<1>1. /\ FeeBlockSum \in Nat \ {0} /\ Block = 0 .. FeeBlockSum - 1
      /\ FeeClusterLength \in Nat /\ \A b \in Block : FeeBlockSize[b] \in Nat /\ FeeBlockSize[b] >= 1
  BY Numbers
<1>2. D \in [0 .. FeeBlockSum -> Nat] /\ D[0] = 0 /\ \A b \in Block : D[b + 1] = D[b] + FeeBlockSize[b]
  BY BelowIs
<1>3. FeeBlockSum + D[FeeBlockSum] + 4 <= FeeClusterLength
  <2>1. FeeBlockSum \in 0 .. FeeBlockSum BY <1>1
  <2>2. H[FeeBlockSum] = FeeBlockSum BY <2>1, AllHeaders
  <2>3. H[FeeBlockSum] + D[FeeBlockSum] + 4 <= FeeClusterLength BY <2>1, RoomForAll
  <2> HIDE DEF H, D
  <2>4. QED BY <2>2, <2>3
<1>4. \A m \in 0 .. FeeBlockSum : \A n \in 0 .. m : D[n] <= D[m]
  <2>1. TAKE m \in 0 .. FeeBlockSum
  <2>2. TAKE n \in 0 .. m
  <2>3. n \in 0 .. FeeBlockSum /\ m \in n .. FeeBlockSum BY <1>1
  <2>4. QED BY <2>3, BelowRises
<1>5. \A b \in Block : DataFrom(b) = FeeClusterLength - D[b + 1] BY DEF DataFrom
<1> HIDE DEF D, H
<1>6. ASSUME NEW b \in Block
      PROVE  /\ DataFrom(b) \in Nat /\ FeeBlockSum + 4 <= DataFrom(b)
             /\ DataFrom(b) + FeeBlockSize[b] <= FeeClusterLength
  <2>1. b + 1 \in 0 .. FeeBlockSum /\ b \in 0 .. FeeBlockSum /\ FeeBlockSum \in 0 .. FeeBlockSum
        /\ b + 1 \in 0 .. FeeBlockSum
    BY <1>1
  <2>2. D[b + 1] <= D[FeeBlockSum] /\ D[b + 1] \in Nat /\ D[b] \in Nat /\ D[FeeBlockSum] \in Nat
    BY <1>2, <1>4, <2>1
  <2>3. DataFrom(b) = FeeClusterLength - D[b + 1] /\ D[b + 1] = D[b] + FeeBlockSize[b]
        /\ FeeBlockSize[b] \in Nat /\ FeeClusterLength \in Nat /\ FeeBlockSum \in Nat
    BY <1>1, <1>2, <1>5
  <2>4. QED BY <1>3, <2>2, <2>3
<1>7. ASSUME NEW b \in Block, NEW e \in Block, b < e
      PROVE  DataFrom(e) + FeeBlockSize[e] <= DataFrom(b)
  <2>1. e \in 0 .. FeeBlockSum /\ b + 1 \in 0 .. e /\ b + 1 \in 0 .. FeeBlockSum BY <1>1, <1>7
  <2>2. D[b + 1] <= D[e] /\ D[b + 1] \in Nat /\ D[e] \in Nat BY <1>2, <1>4, <2>1
  <2>3. DataFrom(e) = FeeClusterLength - D[e + 1] /\ DataFrom(b) = FeeClusterLength - D[b + 1]
    BY <1>5
  <2>4. D[e + 1] = D[e] + FeeBlockSize[e] /\ FeeBlockSize[e] \in Nat /\ FeeClusterLength \in Nat
    BY <1>1, <1>2
  <2>5. QED BY <2>2, <2>3, <2>4
<1>8. ASSUME NEW b \in Block, b > 0
      PROVE  b - 1 \in Block /\ DataFrom(b) + FeeBlockSize[b] = DataFrom(b - 1)
  <2>1. b - 1 \in Block /\ (b - 1) + 1 = b /\ b \in 0 .. FeeBlockSum BY <1>1, <1>8
  <2>2. D[b] \in Nat BY <1>2, <2>1
  <2>3. DataFrom(b - 1) = FeeClusterLength - D[b] BY <1>5, <2>1
  <2>4. DataFrom(b) = FeeClusterLength - D[b + 1] /\ D[b + 1] = D[b] + FeeBlockSize[b]
        /\ FeeBlockSize[b] \in Nat /\ FeeClusterLength \in Nat
    BY <1>1, <1>2, <1>5
  <2>5. QED BY <2>1, <2>2, <2>3, <2>4
<1>9. DataFrom(0) + FeeBlockSize[0] = FeeClusterLength BY <1>1, <1>2, <1>5
<1>10. QED BY <1>1, <1>6, <1>7, <1>8, <1>9

\* The block whose data cell a holds.
LEMMA DataOf ==
  ASSUME NEW a \in Address, DataFrom(FeeBlockSum - 1) <= a
  PROVE  LET b == Min({c \in Block : a >= DataFrom(c)})
         IN  b \in Block /\ a - DataFrom(b) + 1 \in 1 .. FeeBlockSize[b]
<1> DEFINE T == {c \in Block : a >= DataFrom(c)}
           b == Min(T)
<1>1. FeeBlockSum \in Nat \ {0} /\ Block = 0 .. FeeBlockSum - 1 /\ a \in Nat /\ a < FeeClusterLength
  BY Numbers, Lengths
<1>2. FeeBlockSum - 1 \in T /\ T \in SUBSET Nat BY <1>1, DataFromIs
<1>3. b \in T /\ \A y \in T : b <= y BY <1>2, MinIs
<1>4. b \in Block /\ a >= DataFrom(b) BY <1>3
<1>5. \A c \in Block : c < b => ~ (a >= DataFrom(c)) BY <1>1, <1>3
<1> HIDE DEF T, b
<1>6. DataFrom(b) \in Nat /\ FeeBlockSize[b] \in Nat BY <1>4, DataFromIs
<1>7. a < DataFrom(b) + FeeBlockSize[b] BY <1>1, <1>4, <1>5, DataFromIs
<1>8. a - DataFrom(b) + 1 \in 1 .. FeeBlockSize[b] BY <1>1, <1>4, <1>6, <1>7
<1>9. QED BY <1>4, <1>8 DEF b, T

LEMMA DataOfIs ==
  ASSUME NEW e \in Block, NEW i \in 1 .. FeeBlockSize[e]
  PROVE  LET a == DataFrom(e) + i - 1
         IN  /\ a \in Address /\ FeeBlockSum < a /\ DataFrom(FeeBlockSum - 1) <= a
             /\ Min({c \in Block : a >= DataFrom(c)}) = e
             /\ a - DataFrom(e) + 1 = i
<1> DEFINE a == DataFrom(e) + i - 1
           b == Min({c \in Block : a >= DataFrom(c)})
<1>1. FeeBlockSum \in Nat \ {0} /\ Block = 0 .. FeeBlockSum - 1 BY Numbers
<1>2. /\ DataFrom(e) \in Nat /\ FeeBlockSum + 4 <= DataFrom(e)
      /\ DataFrom(e) + FeeBlockSize[e] <= FeeClusterLength /\ FeeBlockSize[e] \in Nat
  BY DataFromIs
<1>3. a \in Address /\ FeeBlockSum < a /\ a \in Nat /\ a >= DataFrom(e) /\ a < DataFrom(e) + FeeBlockSize[e]
      /\ a - DataFrom(e) + 1 = i
  BY <1>1, <1>2, Lengths, SMTT(30)
<1>4. DataFrom(FeeBlockSum - 1) <= a
  <2>1. FeeBlockSum - 1 \in Block BY <1>1
  <2>2. DataFrom(FeeBlockSum - 1) \in Nat BY <2>1, DataFromIs
  <2>3. CASE e = FeeBlockSum - 1 BY <1>3, <2>3
  <2>4. CASE e # FeeBlockSum - 1
    <3>1. e < FeeBlockSum - 1 BY <1>1, <2>4
    <3>2. DataFrom(FeeBlockSum - 1) + FeeBlockSize[FeeBlockSum - 1] <= DataFrom(e) /\ FeeBlockSize[FeeBlockSum - 1] \in Nat
      BY <2>1, <3>1, DataFromIs
    <3>3. QED BY <1>2, <1>3, <2>2, <3>2
  <2>5. QED BY <2>3, <2>4
<1> HIDE DEF a
<1>5. b \in Block /\ a - DataFrom(b) + 1 \in 1 .. FeeBlockSize[b] BY <1>3, <1>4, DataOf
<1> HIDE DEF b
<1>6. DataFrom(b) \in Nat /\ FeeBlockSize[b] \in Nat /\ DataFrom(b) <= a /\ a < DataFrom(b) + FeeBlockSize[b]
  BY <1>3, <1>5, DataFromIs
<1>7. b = e
  <2>1. ~ (b < e) BY <1>2, <1>3, <1>5, <1>6, DataFromIs
  <2>2. ~ (e < b) BY <1>2, <1>3, <1>5, <1>6, DataFromIs
  <2>3. QED BY <1>1, <1>5, <2>1, <2>2
<1>8. QED BY <1>3, <1>4, <1>7 DEF a, b

HeldHeader(b) ==
  [kind |-> "block", block |-> b, addr |-> DataFrom(b), valid |-> "set", invalid |-> "erased"]

\* The cells of a flash that holds these values.
LEMMA HeldCells ==
  ASSUME NEW values \in [Block -> Value]
  PROVE  LET fl == Holding(values)
         IN  /\ fl = [c \in Cluster |-> fl[c]] /\ DOMAIN fl = Cluster
             /\ \A c \in Cluster : DOMAIN fl[c] = Address /\ fl[c] = [a \in Address |-> fl[c][a]]
             /\ \A c \in Cluster \ {0} : \A a \in Address : fl[c][a] = Blank
             /\ fl[0][0] = ClusterHdr(1, "set")
             /\ \A b \in Block : fl[0][b + 1] = HeldHeader(b)
             /\ \A a \in Address : FeeBlockSum < a /\ a < DataFrom(FeeBlockSum - 1) => fl[0][a] = Blank
             /\ \A b \in Block : \A i \in 1 .. FeeBlockSize[b] :
                  fl[0][DataFrom(b) + i - 1] = [kind |-> "data", value |-> values[b], part |-> i]
             /\ \A a \in Address : a >= DataFrom(FeeBlockSum - 1) =>
                  \E b \in Block : \E i \in 1 .. FeeBlockSize[b] :
                    fl[0][a] = [kind |-> "data", value |-> values[b], part |-> i]
<1> DEFINE of(a) == Min({c \in Block : a >= DataFrom(c)})
           cell(a) ==
             IF a = 0 THEN ClusterHdr(1, "set")
             ELSE IF a <= FeeBlockSum THEN [BlockHdr(a - 1, DataFrom(a - 1)) EXCEPT !.valid = "set"]
             ELSE IF a < DataFrom(FeeBlockSum - 1) THEN Blank
             ELSE DataCells(values[of(a)], FeeBlockSize[of(a)])[a - DataFrom(of(a)) + 1]
           fl == Holding(values)
<1>1. fl = [c \in Cluster |-> [a \in Address |-> IF c = 0 THEN cell(a) ELSE Blank]]
  BY DEF Holding, DataFrom
<1>2. /\ FeeBlockSum \in Nat \ {0} /\ Block = 0 .. FeeBlockSum - 1 /\ 0 \in Cluster
      /\ FeeClusterLength \in Nat /\ FeeClusterLength > 2 /\ Address = 0 .. FeeClusterLength - 1
      /\ FeeBlockSum - 1 \in Block /\ 0 \in Address
  BY Numbers
<1> HIDE DEF fl
<1>3. /\ fl = [c \in Cluster |-> fl[c]] /\ DOMAIN fl = Cluster
      /\ \A c \in Cluster : DOMAIN fl[c] = Address /\ fl[c] = [a \in Address |-> fl[c][a]]
      /\ \A c \in Cluster \ {0} : \A a \in Address : fl[c][a] = Blank
      /\ \A a \in Address : fl[0][a] = cell(a)
  <2> HIDE DEF cell
  <2>1. QED BY <1>1, <1>2
<1>4. cell(0) = ClusterHdr(1, "set") OBVIOUS
<1>5. ASSUME NEW b \in Block
      PROVE  fl[0][b + 1] = HeldHeader(b)
  <2>1. b + 1 \in Nat /\ b + 1 # 0 /\ b + 1 <= FeeBlockSum /\ (b + 1) - 1 = b BY <1>2
  <2>2. b + 1 \in Address
    <3>1. DataFrom(b) \in Nat /\ FeeBlockSum + 4 <= DataFrom(b) /\ DataFrom(b) + FeeBlockSize[b] <= FeeClusterLength
          /\ FeeBlockSize[b] \in Nat
      BY DataFromIs
    <3>2. QED BY <1>2, <2>1, <3>1
  <2>3. cell(b + 1) = [BlockHdr(b, DataFrom(b)) EXCEPT !.valid = "set"] BY <2>1
  <2>4. [BlockHdr(b, DataFrom(b)) EXCEPT !.valid = "set"] = HeldHeader(b)
    BY DEF BlockHdr, HeldHeader
  <2> HIDE DEF cell
  <2>5. QED BY <1>3, <2>2, <2>3, <2>4
<1>6. ASSUME NEW a \in Address, FeeBlockSum < a, a < DataFrom(FeeBlockSum - 1)
      PROVE  fl[0][a] = Blank
  <2>1. ~ (a = 0) /\ ~ (a <= FeeBlockSum) BY <1>2, <1>6
  <2>2. cell(a) = Blank BY <1>6, <2>1
  <2> HIDE DEF cell
  <2>3. QED BY <1>3, <2>2
<1>7. DataFrom(FeeBlockSum - 1) \in Nat /\ FeeBlockSum + 4 <= DataFrom(FeeBlockSum - 1)
  BY <1>2, DataFromIs
<1>8. ASSUME NEW a \in Address, a >= DataFrom(FeeBlockSum - 1)
      PROVE  /\ of(a) \in Block /\ a - DataFrom(of(a)) + 1 \in 1 .. FeeBlockSize[of(a)]
             /\ fl[0][a] = [kind |-> "data", value |-> values[of(a)], part |-> a - DataFrom(of(a)) + 1]
  <2>1. of(a) \in Block /\ a - DataFrom(of(a)) + 1 \in 1 .. FeeBlockSize[of(a)]
    BY <1>2, <1>7, <1>8, DataOf
  <2>2. ~ (a = 0) /\ ~ (a <= FeeBlockSum) /\ ~ (a < DataFrom(FeeBlockSum - 1)) BY <1>2, <1>7, <1>8
  <2> HIDE DEF of
  <2>3. cell(a) = DataCells(values[of(a)], FeeBlockSize[of(a)])[a - DataFrom(of(a)) + 1] BY <2>2
  <2> HIDE DEF cell
  <2>4. DataCells(values[of(a)], FeeBlockSize[of(a)])[a - DataFrom(of(a)) + 1] =
          [kind |-> "data", value |-> values[of(a)], part |-> a - DataFrom(of(a)) + 1]
    BY <2>1 DEF DataCells
  <2>5. QED BY <1>3, <2>1, <2>3, <2>4
<1>9. ASSUME NEW b \in Block, NEW i \in 1 .. FeeBlockSize[b]
      PROVE  fl[0][DataFrom(b) + i - 1] = [kind |-> "data", value |-> values[b], part |-> i]
  <2> DEFINE a == DataFrom(b) + i - 1
  <2>1. a \in Address /\ DataFrom(FeeBlockSum - 1) <= a /\ of(a) = b /\ a - DataFrom(b) + 1 = i
    BY DataOfIs
  <2> HIDE DEF a, of
  <2>2. a >= DataFrom(FeeBlockSum - 1) BY <1>2, <1>7, <2>1
  <2>3. fl[0][a] = [kind |-> "data", value |-> values[of(a)], part |-> a - DataFrom(of(a)) + 1]
    BY <1>8, <2>1, <2>2
  <2>4. QED BY <2>1, <2>3 DEF a
<1>10. fl[0][0] = ClusterHdr(1, "set")
  <2> HIDE DEF cell
  <2>1. QED BY <1>2, <1>3, <1>4
<1> HIDE DEF cell, of
<1>11. QED BY <1>3, <1>5, <1>6, <1>8, <1>9, <1>10, ZenonT(30) DEF fl

LEMMA HeldLayout ==
  ASSUME NEW values \in [Block -> Value]
  PROVE  /\ Holding(values) \in Disks
         /\ Layout(Holding(values)[0], FeeBlockSum + 1)
         /\ Current(Holding(values), 0, 1)
<1> DEFINE fl == Holding(values)
           k == fl[0]
           h == FeeBlockSum + 1
<1>1. /\ FeeBlockSum \in Nat \ {0} /\ Block = 0 .. FeeBlockSum - 1 /\ 0 \in Cluster
      /\ FeeClusterLength \in Nat /\ FeeClusterLength > 2 /\ Address = 0 .. FeeClusterLength - 1
      /\ FeeBlockSum - 1 \in Block /\ 0 \in Address
  BY Numbers
<1>2. /\ fl = [c \in Cluster |-> fl[c]]
      /\ \A c \in Cluster : fl[c] = [a \in Address |-> fl[c][a]]
      /\ \A c \in Cluster \ {0} : \A a \in Address : fl[c][a] = Blank
      /\ k[0] = ClusterHdr(1, "set")
      /\ \A b \in Block : k[b + 1] = HeldHeader(b)
      /\ \A a \in Address : FeeBlockSum < a /\ a < DataFrom(FeeBlockSum - 1) => k[a] = Blank
      /\ \A b \in Block : \A i \in 1 .. FeeBlockSize[b] :
           k[DataFrom(b) + i - 1] = [kind |-> "data", value |-> values[b], part |-> i]
      /\ \A a \in Address : a >= DataFrom(FeeBlockSum - 1) =>
           \E b \in Block : \E i \in 1 .. FeeBlockSize[b] :
             k[a] = [kind |-> "data", value |-> values[b], part |-> i]
  BY HeldCells
<1> HIDE DEF fl
<1>3. \A b \in Block :
        /\ DataFrom(b) \in Nat /\ FeeBlockSum + 4 <= DataFrom(b)
        /\ DataFrom(b) + FeeBlockSize[b] <= FeeClusterLength
        /\ FeeBlockSize[b] \in Nat /\ FeeBlockSize[b] >= 1
  BY DataFromIs
<1>4. \A b, e \in Block : b < e => DataFrom(e) + FeeBlockSize[e] <= DataFrom(b) BY DataFromIs
<1>5. \A a \in 1 .. h - 1 : a - 1 \in Block /\ (a - 1) + 1 = a BY <1>1
<1>6. \A a \in 1 .. h - 1 : a - 1 \in Block /\ k[a] = HeldHeader(a - 1) BY <1>2, <1>5
<1>7. \A b : HeldHeader(b).kind = "block" /\ HeldHeader(b).block = b /\ HeldHeader(b).addr = DataFrom(b)
             /\ HeldHeader(b).valid = "set"
  BY DEF HeldHeader
<1>8. DataFrom(FeeBlockSum - 1) \in Nat /\ FeeBlockSum + 4 <= DataFrom(FeeBlockSum - 1)
      /\ DataFrom(FeeBlockSum - 1) < FeeClusterLength
  BY <1>1, <1>3
<1>9. fl \in Disks
  <2>1. ASSUME NEW c \in Cluster, NEW a \in Address
        PROVE  fl[c][a] \in Cell
    <3>1. CASE c # 0 BY <1>2, <3>1, CellsAre
    <3>2. CASE c = 0 /\ a = 0 BY <1>2, <3>2, CellsAre DEF Flag
    <3>3. CASE c = 0 /\ a # 0 /\ a <= FeeBlockSum
      <4>1. a \in 1 .. h - 1 BY <1>1, <3>3
      <4>2. a - 1 \in Block /\ DataFrom(a - 1) \in Nat /\ DataFrom(a - 1) + FeeBlockSize[a - 1] <= FeeClusterLength
            /\ FeeBlockSize[a - 1] \in Nat /\ FeeBlockSize[a - 1] >= 1
        BY <1>3, <1>5, <4>1
      <4>3. DataFrom(a - 1) \in Address BY <4>2, Lengths
      <4>4. k[a] = HeldHeader(a - 1) BY <1>6, <4>1
      <4>5. HeldHeader(a - 1) \in Cell BY <4>2, <4>3, CellsAre DEF HeldHeader, Flag
      <4>6. QED BY <3>3, <4>4, <4>5
    <3>4. CASE c = 0 /\ FeeBlockSum < a /\ a < DataFrom(FeeBlockSum - 1) BY <1>2, <3>4, CellsAre
    <3>5. CASE c = 0 /\ a >= DataFrom(FeeBlockSum - 1)
      <4>1. PICK b \in Block : \E i \in 1 .. FeeBlockSize[b] :
              k[a] = [kind |-> "data", value |-> values[b], part |-> i]
        BY <1>2, <3>5
      <4>2. PICK i \in 1 .. FeeBlockSize[b] : k[a] = [kind |-> "data", value |-> values[b], part |-> i]
        BY <4>1
      <4>3. values[b] \in Value /\ i \in Nat BY <1>3
      <4>4. QED BY <3>5, <4>2, <4>3, CellsAre
    <3>6. QED BY <1>1, <1>8, <3>1, <3>2, <3>3, <3>4, <3>5
  <2>2. QED BY <1>2, <2>1 DEF Disks, Contents
<1>10. ASSUME NEW c \in Cluster \ {0}
       PROVE  ~ ValidCluster(fl[c])
  <2>1. fl[c][0] = Blank BY <1>1, <1>2
  <2>2. QED BY <2>1 DEF ValidCluster, UnpackClusterHdr, Blank
<1>11. ValidCluster(k) /\ k[0].use = 1 BY <1>2 DEF ValidCluster, UnpackClusterHdr, ClusterHdr
<1>12. Current(fl, 0, 1) BY <1>1, <1>10, <1>11 DEF Current
<1>13. Layout(k, h)
  <2>1. h \in 1 .. FeeClusterLength - 1 BY <1>1, <1>8
  <2>2. \A a \in 1 .. h - 1 : IsHeader(k, a) /\ k[a].kind \in {"block", "torn"}
    <3> HIDE DEF h
    <3>1. QED BY <1>6, <1>7 DEF IsHeader
  <2>3. ASSUME NEW a \in 1 .. h - 1
        PROVE  /\ k[a].addr > h /\ k[a].addr >= a + 2
               /\ k[a].addr + FeeBlockSize[k[a].block] <= FeeClusterLength
               /\ Whole(k, k[a].addr, k[a].block)
    <3> DEFINE b == a - 1
    <3>1. b \in Block /\ k[a].addr = DataFrom(b) /\ k[a].block = b BY <1>6, <1>7
    <3>2. DataFrom(b) \in Nat /\ FeeBlockSum + 4 <= DataFrom(b) /\ DataFrom(b) + FeeBlockSize[b] <= FeeClusterLength
      BY <1>3, <3>1
    <3>3. DataFrom(b) > h /\ DataFrom(b) >= a + 2 BY <1>1, <3>2
    <3> HIDE DEF b
    <3>4. Holds(k, DataFrom(b), b, values[b]) /\ values[b] \in Value BY <1>2, <3>1 DEF Holds
    <3>5. QED BY <3>1, <3>2, <3>3, <3>4 DEF Whole
  <2>4. ASSUME NEW a \in 1 .. h - 1, NEW e \in 1 .. h - 1, a < e
        PROVE  k[e].addr + FeeBlockSize[k[e].block] <= k[a].addr
    BY <1>1, <1>4, <1>5, <1>6, <1>7, <2>4
  <2>5. ASSUME NEW x \in h .. FeeClusterLength - 1
        PROVE  /\ k[x].kind \in {"blank", "torn", "data"}
               /\ (\A a \in 1 .. h - 1 : IsHeader(k, a) => x < k[a].addr) => k[x] = Blank
    <3>1. x \in Address /\ FeeBlockSum < x BY <1>1
    <3>2. CASE x < DataFrom(FeeBlockSum - 1) BY <1>2, <3>1, <3>2 DEF Blank
    <3>3. CASE x >= DataFrom(FeeBlockSum - 1)
      <4>1. k[x].kind = "data"
        <5>1. PICK b \in Block : \E i \in 1 .. FeeBlockSize[b] :
                k[x] = [kind |-> "data", value |-> values[b], part |-> i]
          BY <1>2, <3>1, <3>3
        <5>2. QED BY <5>1
      <4>2. FeeBlockSum \in 1 .. h - 1 /\ IsHeader(k, FeeBlockSum) /\ k[FeeBlockSum].addr = DataFrom(FeeBlockSum - 1)
        <5>1. FeeBlockSum \in 1 .. h - 1 BY <1>1
        <5> HIDE DEF h
        <5>2. IsHeader(k, FeeBlockSum) BY <2>2, <5>1
        <5>3. k[FeeBlockSum] = HeldHeader(FeeBlockSum - 1) BY <1>6, <5>1
        <5>4. QED BY <1>7, <5>1, <5>2, <5>3
      <4>3. ~ (x < k[FeeBlockSum].addr) BY <1>1, <1>8, <3>3, <4>2
      <4>4. QED
        <5> HIDE DEF h
        <5>1. QED BY <4>1, <4>2, <4>3
    <3>4. QED BY <1>1, <1>8, <3>2, <3>3
  <2> HIDE DEF h
  <2>6. QED BY <2>1, <2>2, <2>3, <2>4, <2>5 DEF Layout
<1>14. QED BY <1>9, <1>12, <1>13 DEF fl

LEMMA InvInit ==
  ASSUME Init
  PROVE  Inv
<1> DEFINE blank == [c \in Cluster |-> [a \in Address |-> Blank]]
<1>1. /\ flash \in {blank} \cup {Holding(d) : d \in Delivered}
      /\ fee = Off /\ request = NoRequest /\ answer = NoAnswer
  BY DEF Init
<1>2. flash \in Disks /\ Disk(flash)
  <2>1. CASE flash = blank
    <3>1. Blank \in Cell /\ 0 \in Address BY CellsAre, Numbers
    <3>2. flash \in Disks /\ \A c \in Cluster : flash[c][0] = Blank
      BY <2>1, <3>1 DEF Disks, Contents
    <3>3. NoneValid(flash) BY <3>2 DEF NoneValid, ValidCluster, UnpackClusterHdr, Blank
    <3>4. QED BY <3>2, <3>3 DEF Disk
  <2>2. CASE \E d \in Delivered : flash = Holding(d)
    <3>1. PICK d \in Delivered : flash = Holding(d) BY <2>2
    <3>2. d \in [Block -> Value] BY FeeConstants
    <3>3. flash \in Disks /\ Layout(flash[0], FeeBlockSum + 1) /\ Current(flash, 0, 1)
      BY <3>1, <3>2, HeldLayout
    <3>4. 0 \in Cluster /\ FeeBlockSum + 1 \in Address BY <3>3, Numbers DEF Layout
    <3>5. flash[0][0].use = 1 BY <3>3 DEF Current
    <3>6. QED BY <3>3, <3>4, <3>5 DEF Disk
  <2>3. QED BY <1>1, <2>1, <2>2
<1>3. AnswerOK BY <1>1 DEF AnswerOK, NoAnswer
<1> DEFINE f == fee
<1>4. f = Off BY <1>1
<1> HIDE DEF f
<1>5. FeeInv(flash, f, NoRequest) BY <1>2, <1>4, InitialIs, NothingAsked DEF FeeInv, Disks
<1>6. QED BY <1>1, <1>3, <1>5 DEF Inv, f

-----------------------------------------------------------------------------
(* What is stored. *)

\* What is stored, for any contents of the flash.
NewestIn(fl) ==
  {c \in Cluster : /\ UnpackClusterHdr(fl[c][0])
                   /\ \A d \in Cluster : UnpackClusterHdr(fl[d][0]) => fl[d][0].use <= fl[c][0].use}
LatestIn(fl, b) ==
  {r \in NewestIn(fl) \X Address : /\ IsValid(fl[r[1]], r[2], b)
                                   /\ \A e \in r[2] + 1 .. FeeClusterLength - 1 : ~ IsValid(fl[r[1]], e, b)}
CellsIn(fl, c, at, n) == [i \in 1 .. n |-> fl[c][at + i - 1]]
DataIn(fl, c, addr, b) == ValueOf(CellsIn(fl, c, addr, FeeBlockSize[b]))
StoredIn(fl) ==
  [b \in Block |-> IF LatestIn(fl, b) = {} THEN Nothing
                   ELSE CHOOSE v \in {DataIn(fl, r[1], fl[r[1]][r[2]].addr, b) : r \in LatestIn(fl, b)} : TRUE]

LEMMA StoredIs ==
  /\ Stored = StoredIn(flash) /\ Stored' = StoredIn(flash')
  /\ \A c, addr, b : DataAt(c, addr, b) = DataIn(flash, c, addr, b)
<1>1. \A c, a, b : IsValidRecord(c, a, b) <=> IsValid(flash[c], a, b)
  BY DEF IsValidRecord, IsValid, IsRecord, IsHeader
<1>2. Newest = NewestIn(flash) BY DEF Newest, NewestIn, IsValidCluster
<1>3. \A b : LatestRecord(b) = LatestIn(flash, b) BY <1>1, <1>2 DEF LatestRecord, LatestIn
<1>4. \A c, addr, b : DataAt(c, addr, b) = DataIn(flash, c, addr, b)
  BY DEF DataAt, DataIn, CellsAt, CellsIn
<1>5. Stored = StoredIn(flash) BY <1>3, <1>4 DEF Stored, StoredIn
<1>6. \A c, a, b : IsValidRecord(c, a, b)' <=> IsValid(flash'[c], a, b)
  BY DEF IsValidRecord, IsValid, IsRecord, IsHeader
<1>7. Newest' = NewestIn(flash') BY DEF Newest, NewestIn, IsValidCluster
<1>8. \A b : LatestRecord(b)' = LatestIn(flash', b) BY <1>6, <1>7 DEF LatestRecord, LatestIn
<1>9. \A c, addr, b : DataAt(c, addr, b)' = DataIn(flash', c, addr, b)
  BY DEF DataAt, DataIn, CellsAt, CellsIn
<1>10. Stored' = StoredIn(flash') BY <1>8, <1>9 DEF Stored, StoredIn
<1>11. QED BY <1>4, <1>5, <1>10

LEMMA HeldIn ==
  ASSUME NEW fl, NEW c, NEW addr, NEW b \in Block, NEW v \in Value, Holds(fl[c], addr, b, v)
  PROVE  DataIn(fl, c, addr, b) = v
<1> DEFINE n == FeeBlockSize[b]
           cells == CellsIn(fl, c, addr, n)
<1>1. n \in Nat /\ n >= 1 BY Numbers
<1>2. cells = DataCells(v, n) BY DEF CellsIn, DataCells, Holds
<1> HIDE DEF n, cells
<1>3. DataCells(v, n) \in [1 .. n -> [kind : {"data"}, value : {v}, part : Nat]] /\ 1 \in 1 .. n
  BY <1>1 DEF DataCells
<1>4. Len(cells) = n /\ cells[1].kind = "data" /\ cells[1].value = v BY <1>1, <1>2, <1>3
<1>5. ValueOf(cells) = v BY <1>2, <1>4 DEF ValueOf
<1>6. QED BY <1>5 DEF DataIn, cells, n

LEMMA OneNewest ==
  ASSUME NEW fl \in Disks, NEW c, NEW u, Current(fl, c, u)
  PROVE  NewestIn(fl) = {c}
BY ValidHeader DEF Current, Disks, ValidCluster, NewestIn

\* Beyond the headers there is no record.
LEMMA OnlyBelow ==
  ASSUME NEW fl \in Disks, NEW c, NEW u, Current(fl, c, u), NEW h, Layout(fl[c], h), NEW a \in Address, NEW b,
         IsRecord(fl[c], a, b)
  PROVE  a \in 1 .. h - 1
BY LayoutEnd, Lengths DEF Current, ValidCluster, UnpackClusterHdr, IsRecord, IsHeader, Layout

LEMMA StoredValid ==
  ASSUME NEW fl \in Disks, NEW c, NEW u, Current(fl, c, u), NEW h, Layout(fl[c], h),
         NEW b \in Block, NEW a \in 1 .. h - 1, IsValid(fl[c], a, b),
         \A e \in a + 1 .. h - 1 : ~ IsValid(fl[c], e, b),
         NEW v \in Value, Holds(fl[c], fl[c][a].addr, b, v)
  PROVE  StoredIn(fl)[b] = v
<1>1. NewestIn(fl) = {c} BY OneNewest
<1>2. \A e \in Address : IsValid(fl[c], e, b) => e \in 1 .. h - 1 BY OnlyBelow DEF IsValid
<1>3. h \in Nat /\ h < FeeClusterLength /\ FeeClusterLength \in Nat /\ Address = 0 .. FeeClusterLength - 1
  BY LayoutEnd, Lengths DEF Layout
<1>4. a \in Address /\ \A e \in a + 1 .. FeeClusterLength - 1 : ~ IsValid(fl[c], e, b) BY <1>2, <1>3
<1>5. \A e \in Address : IsValid(fl[c], e, b) /\ (\A x \in e + 1 .. FeeClusterLength - 1 : ~ IsValid(fl[c], x, b)) => e = a
  BY <1>3, <1>4
<1> DEFINE r == <<c, a>>
<1>6. LatestIn(fl, b) = {r}
  <2>1. \A x \in {c} \X Address : x = <<x[1], x[2]>> /\ x[1] = c /\ x[2] \in Address OBVIOUS
  <2>2. r \in {c} \X Address /\ r[1] = c /\ r[2] = a BY <1>4
  <2> HIDE DEF r
  <2>3. r \in LatestIn(fl, b) BY <1>1, <1>4, <2>2 DEF LatestIn
  <2>4. ASSUME NEW x \in LatestIn(fl, b)
        PROVE  x = r
    BY <1>1, <1>5, <2>1 DEF LatestIn, r
  <2>5. QED BY <2>3, <2>4
<1>7. {DataIn(fl, x[1], fl[x[1]][x[2]].addr, b) : x \in {r}} = {v}
  <2>1. DataIn(fl, c, fl[c][a].addr, b) = v BY HeldIn
  <2>2. r[1] = c /\ r[2] = a OBVIOUS
  <2> HIDE DEF r
  <2>3. QED BY <2>1, <2>2
<1> HIDE DEF r
<1>8. StoredIn(fl)[b] = CHOOSE w \in {v} : TRUE BY <1>6, <1>7 DEF StoredIn
<1>9. QED BY <1>8

LEMMA StoredNothing ==
  ASSUME NEW fl \in Disks, NEW c, NEW u, Current(fl, c, u), NEW h, Layout(fl[c], h),
         NEW b \in Block, \A a \in 1 .. h - 1 : ~ IsValid(fl[c], a, b)
  PROVE  StoredIn(fl)[b] = Nothing
<1>1. NewestIn(fl) = {c} BY OneNewest
<1>2. \A e \in Address : ~ IsValid(fl[c], e, b) BY OnlyBelow DEF IsValid
<1>3. LatestIn(fl, b) = {} BY <1>1, <1>2 DEF LatestIn
<1>4. QED BY <1>3 DEF StoredIn

LEMMA StoredNone ==
  ASSUME NEW fl, NoneValid(fl), NEW b \in Block
  PROVE  StoredIn(fl)[b] = Nothing
BY DEF NewestIn, NoneValid, ValidCluster, LatestIn, StoredIn

\* What is stored of the blocks Fee knows.
LEMMA KnownStored ==
  ASSUME NEW fl \in Disks, NEW f, RamOK(f), Running(fl, f), NEW b \in Block, ~ AtDone(f, b)
  PROVE  /\ f.info[b].status = "FEE_BLOCK_VALID" =>
              /\ StoredIn(fl)[b] \in Value
              /\ DataIn(fl, f.info[b].cluster, f.info[b].dataAddr, b) = StoredIn(fl)[b]
         /\ f.info[b].status = "FEE_BLOCK_INVALID" => StoredIn(fl)[b] = Nothing
<1> DEFINE i == f.info[b]
           k == fl[f.cluster]
<1>1. Current(fl, f.cluster, f.useId) /\ Layout(k, f.hdrAddr) /\ Known(fl, f, b) BY RunningIs
<1>2. CASE i.status = "FEE_BLOCK_VALID"
  <2>1. KnownValid(k, f, b) BY <1>1, <1>2 DEF Known
  <2>2. /\ i.cluster = f.cluster /\ i.validHdr \in 1 .. f.hdrAddr - 1
        /\ IsValid(k, i.validHdr, b) /\ k[i.validHdr].addr = i.dataAddr
        /\ \A a \in i.validHdr + 1 .. f.hdrAddr - 1 : ~ IsValid(k, a, b)
    BY <2>1 DEF KnownValid
  <2>3. PICK v \in Value : Holds(k, i.dataAddr, b, v) BY <1>2, KnownWhole
  <2> HIDE DEF i
  <2>4. StoredIn(fl)[b] = v BY <1>1, <2>2, <2>3, StoredValid
  <2>5. DataIn(fl, f.cluster, i.dataAddr, b) = v BY <2>3, HeldIn
  <2>6. QED BY <1>2, <2>2, <2>4, <2>5 DEF i
<1>3. CASE i.status = "FEE_BLOCK_INVALID" BY <1>1, <1>3, StoredNothing DEF Known, KnownInvalid
<1>4. QED BY <1>2, <1>3

LEMMA InvKnows ==
  ASSUME Inv
  PROVE  KnowsWhatIsStored
BY KnownStored, StoredIs DEF KnowsWhatIsStored, Inv, FeeInv, Disks, AtDone, Writing

LEMMA MemCluster ==
  ASSUME NEW fl, NEW f, NEW req, FeeInv(fl, f, req), f.mem # NoAccess
  PROVE  f.mem.cluster \in Cluster
<1>1. RamOK(f) /\ f.cluster \in Cluster /\ f.idx \in Cluster /\ f.swap.cluster \in Cluster /\ 0 \in Cluster
  <2>1. RamOK(f) BY DEF FeeInv
  <2>2. f.cluster \in Cluster /\ f.idx \in Cluster /\ f.swap \in Swaps BY <2>1 DEF RamOK
  <2>3. f.swap.cluster \in Cluster BY <2>2 DEF Swaps
  <2>4. 0 \in Cluster BY Numbers
  <2>5. QED BY <2>1, <2>2, <2>3, <2>4
<1>2. \A b \in Block : f.info[b].cluster \in Cluster BY <1>1 DEF RamOK, Infos
<1>3. /\ \A c : Erase(c).cluster = c
      /\ \A c, at, n : Read(c, at, n).cluster = c
      /\ \A c, at, cells : Program(c, at, cells).cluster = c
      /\ \A c, at, flag : SetFlag(c, at, flag).cluster = c
  BY DEF Erase, Read, Program, SetFlag
<1>4. CASE f.status = "MEMIF_BUSY_INTERNAL" BY <1>1, <1>3, <1>4, ScanningIs DEF FeeInv
<1>5. CASE f.status = "MEMIF_BUSY"
  <2>1. Busy(fl, f, req) /\ Serving(fl, f, req) BY <1>5 DEF FeeInv, Busy, Disks
  <2>2. f.block \in Block BY <2>1, BusyIs
  <2>3. CASE f.job \in SwapJobs
    <3>1. Swapping(fl, f) BY <2>1, <2>3, ServingIs
    <3> DEFINE c == f.swap.cluster
               n == f.swap.block
    <3>2. \/ f.mem = Erase(c)
          \/ \E at, cells : f.mem = Program(c, at, cells)
          \/ \E at, flag : f.mem = SetFlag(c, at, flag)
          \/ \E at, m : f.mem = Read(f.info[n].cluster, at, m) /\ Takes(f, n)
      BY <3>1 DEF Swapping, ProgramHeader
    <3>3. Takes(f, n) => n \in Block BY DEF Takes, Carried
    <3>4. QED BY <1>1, <1>2, <1>3, <3>2, <3>3
  <2>4. CASE f.job \notin SwapJobs
    <3>1. \/ \E at, n : f.mem = Read(f.info[f.block].cluster, at, n)
          \/ \E at, cells : f.mem = Program(f.info[f.block].cluster, at, cells)
          \/ \E at, flag : f.mem = SetFlag(f.info[f.block].cluster, at, flag)
          \/ HeaderPending(f)
      <4> DEFINE b == f.block
                 i == f.info[b]
      <4>1. /\ f.job \in {"FEE_JOB_NONE", "FEE_JOB_WRITE_DATA", "FEE_JOB_ERASE_IMMEDIATE_DONE",
                          "FEE_JOB_WRITE_VALIDATE", "FEE_JOB_WRITE_DONE", "FEE_JOB_INVAL_BLOCK_DONE"}
            /\ f.job = "FEE_JOB_NONE" => f.mem = Read(i.cluster, i.dataAddr, FeeBlockSize[b])
            /\ f.job \in {"FEE_JOB_WRITE_DATA", "FEE_JOB_ERASE_IMMEDIATE_DONE"} => HeaderPending(f)
            /\ f.job = "FEE_JOB_WRITE_VALIDATE" =>
                 f.mem = Program(i.cluster, i.dataAddr, DataCells(f.data, FeeBlockSize[b]))
            /\ f.job = "FEE_JOB_WRITE_DONE" => f.mem = SetFlag(i.cluster, i.validHdr, "valid")
            /\ f.job = "FEE_JOB_INVAL_BLOCK_DONE" => f.mem = SetFlag(i.cluster, i.validHdr, "invalid")
        BY <2>1, <2>4, ServingIs
      <4> HIDE DEF i
      <4>2. \/ \E at, n : f.mem = Read(i.cluster, at, n)
            \/ \E at, cells : f.mem = Program(i.cluster, at, cells)
            \/ \E at, flag : f.mem = SetFlag(i.cluster, at, flag)
            \/ HeaderPending(f)
        BY <4>1
      <4>3. QED BY <4>2 DEF i
    <3>2. QED BY <1>1, <1>2, <1>3, <2>2, <3>1 DEF HeaderPending
  <2>5. QED BY <2>3, <2>4
<1>6. QED BY <1>4, <1>5 DEF FeeInv

LEMMA InvTypes ==
  ASSUME Inv
  PROVE  FeeTypeOK
<1>1. FeeInv(flash, fee, request) /\ AnswerOK BY DEF Inv
<1>2. RamOK(fee) /\ RequestOK(request) BY <1>1 DEF FeeInv
<1>3. /\ fee.status \in Statuses /\ fee.job \in JobType
      /\ fee.block \in Block /\ fee.data \in Value \cup {Nothing}
      /\ fee.info \in [Block -> Infos]
      /\ fee.cluster \in Cluster /\ fee.useId \in Nat
      /\ fee.hdrAddr \in Address /\ fee.dataAddr \in 0 .. FeeClusterLength
      /\ fee.idx \in Cluster /\ fee.swap \in Swaps
  BY <1>2 DEF RamOK
<1>4. fee.swap.cluster \in Cluster BY <1>3 DEF Swaps
<1>5. \A b \in Block :
        /\ fee.info[b].status \in {"FEE_BLOCK_VALID", "FEE_BLOCK_INVALID", "FEE_BLOCK_INCONSISTENT"}
        /\ fee.info[b].dataAddr \in Address
        /\ fee.info[b].validHdr \in Address
  BY <1>3 DEF Infos
<1>6. fee.mem # NoAccess => fee.mem.cluster \in Cluster BY <1>1, MemCluster
<1>7. request # NoRequest => request.block \in Block BY <1>2 DEF RequestOK
<1>8. QED BY <1>1, <1>3, <1>4, <1>5, <1>6, <1>7 DEF FeeTypeOK, AnswerOK, Statuses

(* The inductive invariant holds in every state: FeeInit, the scan, the       *)
(* requests of NvM, Fee_MainFunction, the ends of flash requests, their       *)
(* errors, Fee_Cancel and a power loss all keep it.                           *)
THEOREM FeeInvHolds ==
  ASSUME Spared
  PROVE  Spec => []Inv
<1>1. Init => Inv BY InvInit
<1>2. Inv /\ [Next]_feeVars => Inv' BY InvKept
<1>3. QED BY <1>1, <1>2, PTL DEF Spec

(* What an idle Fee has in RAM of a block it takes for valid or invalid is    *)
(* what a start would find in the flash, after swaps, cancelled requests and  *)
(* failed ones, too.                                                          *)
THEOREM KnowsTheFlash ==
  ASSUME Spared
  PROVE  Spec => []FeeInvariant
<1>1. Inv => FeeInvariant BY InvTypes, InvKnows DEF FeeInvariant
<1>2. QED BY <1>1, FeeInvHolds, PTL

(* The flash driver is never asked to program a cell that was programmed      *)
(* since the last erase, nor to set a flag twice: the addresses that Fee      *)
(* counts in RAM stay clear of headers and data, those that a power loss cut  *)
(* off included.                                                              *)
THEOREM NeverProgramsTwice ==
  ASSUME Spared
  PROVE  Spec => []ProgramsErasedOnly
<1>1. Inv => ProgramsErasedOnly BY AnyOutcome DEF Inv, Outcome, Fresh, ProgramsErasedOnly
<1>2. QED BY <1>1, FeeInvHolds, PTL

-----------------------------------------------------------------------------
(* What a flash request may do to what is stored. *)

\* What is stored of a block whose valid records stay what they are.
LEMMA StoredKept ==
  ASSUME NEW fl \in Disks, NEW fl2 \in Disks, NEW c, NEW u, Current(fl, c, u), Current(fl2, c, u), NEW x \in Block,
         \A a \in Address : IsValid(fl2[c], a, x) <=> IsValid(fl[c], a, x),
         \A a \in Address : IsValid(fl[c], a, x) =>
           /\ fl2[c][a].addr = fl[c][a].addr
           /\ \A i \in 1 .. FeeBlockSize[x] : fl2[c][fl[c][a].addr + i - 1] = fl[c][fl[c][a].addr + i - 1]
  PROVE  StoredIn(fl2)[x] = StoredIn(fl)[x]
<1>1. NewestIn(fl) = {c} /\ NewestIn(fl2) = {c} BY OneNewest
<1>2. \A r \in {c} \X Address : r[1] = c /\ r[2] \in Address OBVIOUS
<1>3. \A a \in Address : \A e \in a + 1 .. FeeClusterLength - 1 : e \in Address BY Lengths
<1>4. LatestIn(fl2, x) = LatestIn(fl, x) /\ LatestIn(fl, x) \subseteq {c} \X Address
  BY <1>1, <1>2, <1>3 DEF LatestIn
<1>5. ASSUME NEW r \in LatestIn(fl, x)
      PROVE  DataIn(fl2, r[1], fl2[r[1]][r[2]].addr, x) = DataIn(fl, r[1], fl[r[1]][r[2]].addr, x)
  <2>1. r[1] = c /\ r[2] \in Address BY <1>2, <1>4
  <2>2. IsValid(fl[c], r[2], x) BY <2>1 DEF LatestIn
  <2> DEFINE a == r[2]
             addr == fl[c][a].addr
  <2>3. fl2[c][a].addr = addr /\ \A i \in 1 .. FeeBlockSize[x] : fl2[c][addr + i - 1] = fl[c][addr + i - 1]
    BY <2>1, <2>2
  <2> HIDE DEF addr
  <2>4. CellsIn(fl2, c, addr, FeeBlockSize[x]) = CellsIn(fl, c, addr, FeeBlockSize[x])
    BY <2>3 DEF CellsIn
  <2>5. QED BY <2>1, <2>3, <2>4 DEF DataIn, addr
<1>6. {DataIn(fl2, r[1], fl2[r[1]][r[2]].addr, x) : r \in LatestIn(fl2, x)} =
        {DataIn(fl, r[1], fl[r[1]][r[2]].addr, x) : r \in LatestIn(fl, x)}
  <2> DEFINE S == LatestIn(fl, x)
             D2(r) == DataIn(fl2, r[1], fl2[r[1]][r[2]].addr, x)
             D(r) == DataIn(fl, r[1], fl[r[1]][r[2]].addr, x)
  <2>1. LatestIn(fl2, x) = S /\ \A r \in S : D2(r) = D(r) BY <1>4, <1>5
  <2> HIDE DEF S, D, D2
  <2>2. {D2(r) : r \in S} = {D(r) : r \in S} BY <2>1
  <2>3. QED BY <2>1, <2>2 DEF D, D2, S
<1>7. QED BY <1>4, <1>6 DEF StoredIn

StoresSame(fl, fl2) == \A x \in Block : StoredIn(fl2)[x] = StoredIn(fl)[x]

\* The cells of a valid record lie above the headers.
LEMMA ValidRecord ==
  ASSUME NEW fl \in Disks, NEW c \in Cluster, NEW u, Current(fl, c, u), NEW h, Layout(fl[c], h), NEW a \in Address,
         NEW x \in Block, IsValid(fl[c], a, x)
  PROVE  /\ a \in 1 .. h - 1 /\ fl[c][a].addr \in Nat /\ fl[c][a].addr > h
         /\ IsHeader(fl[c], a) /\ fl[c][a].block = x /\ fl[c][a].valid = "set"
         /\ \A i \in 1 .. FeeBlockSize[x] :
              fl[c][a].addr + i - 1 \in Address /\ fl[c][a].addr + i - 1 > h
<1>1. IsRecord(fl[c], a, x) /\ IsHeader(fl[c], a) /\ fl[c][a].block = x /\ fl[c][a].valid = "set"
  BY DEF IsValid, IsRecord
<1>2. a \in 1 .. h - 1 BY <1>1, OnlyBelow
<1>3. fl[c] \in Contents BY DEF Disks
<1> DEFINE addr == fl[c][a].addr
<1>4. /\ addr \in Nat /\ addr > h /\ h \in Nat
      /\ FeeBlockSize[x] \in Nat /\ addr + FeeBlockSize[x] <= FeeClusterLength
  BY <1>1, <1>2, <1>3, HeaderIs
<1> HIDE DEF addr
<1>5. \A i \in 1 .. FeeBlockSize[x] : addr + i - 1 \in Address /\ addr + i - 1 > h BY <1>4, Lengths
<1>6. QED BY <1>1, <1>2, <1>4, <1>5 DEF addr

\* A new header without its valid flag, whole or torn.
LEMMA HeaderStores ==
  ASSUME NEW fl \in Disks, NEW fl2, NEW f, RamOK(f), Running(fl, f), NEW cell, cell.kind = "block" => cell.valid = "erased",
         CellSet(fl, fl2, f.cluster, f.hdrAddr, cell), fl[f.cluster][f.hdrAddr] = Blank
  PROVE  StoresSame(fl, fl2)
<1> DEFINE c == f.cluster
           h == f.hdrAddr
<1>1. /\ c \in Cluster /\ h \in Nat /\ h >= 1 /\ h \in Address /\ Layout(fl[c], h) /\ Current(fl, c, f.useId)
  BY RunningIs
<1>2. fl2 \in Disks /\ Others(fl, fl2, c) /\ fl2[c][h] = cell /\ \A a \in Address \ {h} : fl2[c][a] = fl[c][a]
  BY DEF CellSet
<1>3. fl[c][h] = Blank OBVIOUS
<1> HIDE DEF c, h
<1>4. Current(fl2, c, f.useId) BY <1>1, <1>2, Lengths, CurrentKept
<1>5. \A x : ~ IsValid(fl2[c], h, x) /\ ~ IsValid(fl[c], h, x)
  BY <1>2, <1>3 DEF IsValid, IsRecord, IsHeader, Blank
<1>6. ASSUME NEW x \in Block
      PROVE  StoredIn(fl2)[x] = StoredIn(fl)[x]
  <2>1. \A a \in Address : IsValid(fl2[c], a, x) <=> IsValid(fl[c], a, x)
    BY <1>2, <1>5 DEF IsValid, IsRecord, IsHeader
  <2>2. ASSUME NEW a \in Address, IsValid(fl[c], a, x)
        PROVE  /\ fl2[c][a].addr = fl[c][a].addr
               /\ \A i \in 1 .. FeeBlockSize[x] : fl2[c][fl[c][a].addr + i - 1] = fl[c][fl[c][a].addr + i - 1]
    <3> DEFINE addr == fl[c][a].addr
    <3>1. a # h BY <1>5, <2>2
    <3>2. \A i \in 1 .. FeeBlockSize[x] : addr + i - 1 \in Address /\ addr + i - 1 > h
      BY <1>1, <2>2, ValidRecord
    <3>3. fl2[c][a].addr = addr BY <1>2, <3>1
    <3> HIDE DEF addr
    <3>4. \A i \in 1 .. FeeBlockSize[x] : addr + i - 1 # h BY <1>1, <3>2, Lengths
    <3>5. QED BY <1>2, <3>2, <3>3, <3>4 DEF addr
  <2>3. QED BY <1>1, <1>2, <1>4, <2>1, <2>2, StoredKept
<1>7. QED BY <1>6 DEF StoresSame

\* The data of a record that is not valid yet, all or a part of them.
LEMMA DataStores ==
  ASSUME NEW fl \in Disks, NEW fl2, NEW f, RamOK(f), Running(fl, f), NEW b \in Block, NEW v \in Value,
         f.info[b].status = "FEE_BLOCK_INCONSISTENT", b \in FeeImmediateData \/ Writing(f, b),
         RangePart(fl, fl2, f.info[b].cluster, f.info[b].dataAddr, DataCells(v, FeeBlockSize[b]), FeeBlockSize[b])
  PROVE  StoresSame(fl, fl2)
<1> DEFINE c == f.cluster
           h == f.hdrAddr
           k == fl[c]
           i == f.info[b]
           e == i.validHdr
           Landed == i.dataAddr .. i.dataAddr + FeeBlockSize[b] - 1
<1>1. /\ c \in Cluster /\ k \in Contents /\ h \in Nat /\ h >= 1 /\ h \in Address /\ Layout(k, h)
      /\ Current(fl, c, f.useId) /\ Known(fl, f, b)
  BY RunningIs
<1>2. KnownKept(k, f, b) BY <1>1 DEF Known
<1>3. /\ i.cluster = c /\ e \in 1 .. h - 1 /\ IsRecord(k, e, b) /\ k[e].addr = i.dataAddr /\ k[e].valid = "erased"
  BY <1>2 DEF KnownKept
<1>4. IsHeader(k, e) /\ k[e].block = b BY <1>3 DEF IsRecord
<1>5. /\ fl2 \in Disks /\ Others(fl, fl2, c)
      /\ \A a \in Address : a \notin Landed => fl2[c][a] = k[a]
  BY <1>3 DEF RangePart
<1>6. i.dataAddr \in Nat /\ i.dataAddr > h
  <2> HIDE DEF i, k, h
  <2>1. k[e].addr \in Nat /\ k[e].addr > h BY <1>1, <1>3, <1>4, HeaderIs
  <2>2. QED BY <1>3, <2>1
<1>7. ASSUME NEW a \in Address, NEW x \in Block, IsValid(k, a, x)
      PROVE  \A j \in 1 .. FeeBlockSize[x] : k[a].addr + j - 1 \in Address /\ k[a].addr + j - 1 \notin Landed
  <2>1. a \in 1 .. h - 1 /\ IsHeader(k, a) /\ k[a].block = x /\ k[a].valid = "set"
    <3>1. IsValid(fl[c], a, x) /\ Layout(fl[c], h) /\ Current(fl, c, f.useId) /\ c \in Cluster
      BY <1>1, <1>7
    <3> HIDE DEF h, c
    <3>2. a \in 1 .. h - 1 /\ IsHeader(fl[c], a) /\ fl[c][a].block = x /\ fl[c][a].valid = "set"
      BY <3>1, ValidRecord
    <3>3. QED BY <3>2
  <2>2. a # e BY <1>3, <2>1
  <2> DEFINE Taken == k[e].addr .. k[e].addr + FeeBlockSize[k[e].block] - 1
  <2>3. \A j \in 1 .. FeeBlockSize[x] : k[a].addr + j - 1 \notin Taken /\ k[a].addr + j - 1 \in Address
    <3> HIDE DEF k, h, e
    <3>1. ASSUME NEW j \in 1 .. FeeBlockSize[k[a].block]
          PROVE  k[a].addr + j - 1 \notin Taken /\ k[a].addr + j - 1 \in Address
      BY <1>1, <1>3, <1>4, <2>1, <2>2, Disjoint
    <3>2. QED BY <2>1, <3>1
  <2>4. Taken = Landed BY <1>3, <1>4
  <2> HIDE DEF Taken, Landed
  <2>5. QED BY <2>3, <2>4
<1>8. \A a \in 0 .. h - 1 : a \in Address /\ a \notin Landed
  <2> DEFINE d == i.dataAddr
  <2>1. d \in Nat /\ d > h BY <1>6
  <2> HIDE DEF d
  <2>2. QED BY <1>1, <2>1, Lengths DEF d
<1> HIDE DEF Landed, k, i, e
<1>9. \A a \in 0 .. h - 1 : fl2[c][a] = k[a] BY <1>5, <1>8
<1>10. Current(fl2, c, f.useId) BY <1>1, <1>5, <1>9, CurrentKept DEF k
<1>11. \A a \in Address : a \in Landed => a \in h .. FeeClusterLength - 1
  <2> DEFINE d == i.dataAddr
  <2>1. d \in Nat /\ d > h BY <1>6
  <2> HIDE DEF d
  <2>2. QED BY <1>1, <2>1, Lengths DEF d, Landed
<1>12. ASSUME NEW a \in Address, NEW x, a \in Landed
       PROVE  ~ IsValid(k, a, x) /\ ~ IsValid(fl2[c], a, x)
  <2>2. a \in Landed BY <1>12
  <2>3. k[a].kind # "block" BY <1>1, <1>11, <2>2 DEF Layout
  <2>4. fl2[c][a].kind # "block"
    <3>1. a \in f.info[b].dataAddr .. f.info[b].dataAddr + FeeBlockSize[b] - 1 /\ f.info[b].cluster = c
      BY <1>3, <2>2 DEF Landed, i
    <3> DEFINE j == a - f.info[b].dataAddr + 1
    <3>2. fl2[c][a] \in {k[a], DataCells(v, FeeBlockSize[b])[j], Torn} BY <3>1 DEF RangePart, k
    <3>3. j \in 1 .. FeeBlockSize[b]
      <4> DEFINE d == f.info[b].dataAddr
                 s == FeeBlockSize[b]
      <4>1. d \in Nat /\ s \in Nat /\ a \in d .. d + s - 1 BY <1>6, <3>1, Numbers DEF i
      <4> HIDE DEF d, s
      <4>2. QED BY <4>1, Lengths DEF d, s
    <3> HIDE DEF j
    <3>4. QED BY <2>3, <3>2, <3>3 DEF DataCells, Torn
  <2>5. QED BY <2>3, <2>4 DEF IsValid, IsRecord, IsHeader
<1>13. ASSUME NEW x \in Block
       PROVE  StoredIn(fl2)[x] = StoredIn(fl)[x]
  <2>1. \A a \in Address : IsValid(fl2[c], a, x) <=> IsValid(k, a, x)
    BY <1>5, <1>12 DEF IsValid, IsRecord, IsHeader
  <2>2. ASSUME NEW a \in Address, IsValid(k, a, x)
        PROVE  /\ fl2[c][a].addr = k[a].addr
               /\ \A j \in 1 .. FeeBlockSize[x] : fl2[c][k[a].addr + j - 1] = k[k[a].addr + j - 1]
    BY <1>5, <1>7, <1>12, <2>2
  <2>3. QED BY <1>1, <1>5, <1>10, <2>1, <2>2, StoredKept DEF k
<1>14. QED BY <1>13 DEF StoresSame

\* An interrupted request leaves the other clusters alone.
LEMMA Untouched ==
  ASSUME flash \in Disks, NEW m, NEW c \in Cluster, m # NoAccess => m.cluster # c,
         NEW fl2 \in Interrupted(m),
         m = NoAccess \/ m.op \in {"erase", "read", "program", "flag"}
  PROVE  fl2[c] = flash[c]
<1>1. DOMAIN flash = Cluster /\ flash = [x \in Cluster |-> flash[x]] BY DEF Disks
<1>2. CASE m = NoAccess BY <1>2, ReadOrNone
<1>3. CASE m # NoAccess
  <2>1. m.cluster # c BY <1>3
  <2>2. \A x : [flash EXCEPT ![m.cluster] = x][c] = flash[c] BY <1>1, <2>1
  <2>3. \A n : Programmed(m, n)[c] = flash[c] /\ DOMAIN Programmed(m, n) = Cluster
    BY <1>1, <2>1 DEF Programmed
  <2>5. Flagged(m)[c] = flash[c] BY <1>1, <2>1 DEF Flagged
  <2>6. Completed(m)[c] = flash[c] BY <1>1, <2>2, <2>3, <2>5 DEF Completed
  <2>7. CASE m.op = "program"
    <3>1. \/ fl2 \in {flash, Completed(m)}
          \/ \E n \in 0 .. Len(m.cells) : fl2 = Programmed(m, n)
          \/ \E n \in 0 .. Len(m.cells) - 1 : fl2 = [Programmed(m, n) EXCEPT ![m.cluster][m.at + n] = Torn]
      BY <2>7 DEF Interrupted
    <3>2. \A n : [Programmed(m, n) EXCEPT ![m.cluster][m.at + n] = Torn][c] = flash[c] BY <2>1, <2>3
    <3>3. QED BY <2>3, <2>6, <3>1, <3>2
  <2>8. CASE m.op = "erase"
    <3>1. \/ fl2 \in {flash, Completed(m)}
          \/ \E x : fl2 = [flash EXCEPT ![m.cluster] = x]
      BY <2>8 DEF Interrupted
    <3>2. QED BY <2>2, <2>6, <3>1
  <2>9. CASE m.op \notin {"program", "erase"} BY <2>6, <2>9 DEF Interrupted
  <2>10. QED BY <2>7, <2>8, <2>9
<1>4. QED BY <1>2, <1>3

\* The cluster in use stays what it is.
LEMMA StoresElsewhere ==
  ASSUME NEW fl \in Disks, NEW fl2 \in Disks, NEW f, RamOK(f), Running(fl, f), Running(fl2, f),
         fl2[f.cluster] = fl[f.cluster]
  PROVE  StoresSame(fl, fl2)
BY StoredKept DEF Running, StoresSame

\* A flag of a header of b is set: nothing changes for the other blocks.
LEMMA FlagStores ==
  ASSUME NEW fl \in Disks, NEW fl2, NEW c \in Cluster, NEW u, Current(fl, c, u), Current(fl2, c, u),
         NEW h, Layout(fl[c], h), NEW d \in Cluster, NEW e \in Address, NEW cell, NEW b, NEW x \in Block \ {b},
         CellSet(fl, fl2, d, e, cell), IsRecord(fl[d], e, b), cell.block = b
  PROVE  StoredIn(fl2)[x] = StoredIn(fl)[x]
<1>1. fl2 \in Disks /\ Others(fl, fl2, d) /\ fl2[d][e] = cell /\ \A a \in Address \ {e} : fl2[d][a] = fl[d][a]
  BY DEF CellSet
<1>2. CASE d # c BY <1>1, <1>2, StoredKept DEF Others
<1>3. CASE d = c
  <2>1. ~ IsValid(fl[c], e, x) /\ ~ IsValid(fl2[c], e, x) BY <1>1, <1>3 DEF IsValid, IsRecord
  <2>2. \A a \in Address : IsValid(fl2[c], a, x) <=> IsValid(fl[c], a, x)
    BY <1>1, <1>3, <2>1 DEF IsValid, IsRecord, IsHeader
  <2>3. ASSUME NEW a \in Address, IsValid(fl[c], a, x)
        PROVE  /\ fl2[c][a].addr = fl[c][a].addr
               /\ \A i \in 1 .. FeeBlockSize[x] : fl2[c][fl[c][a].addr + i - 1] = fl[c][fl[c][a].addr + i - 1]
    <3> DEFINE addr == fl[c][a].addr
    <3>1. a # e BY <2>1, <2>3
    <3>2. fl2[c][a].addr = addr BY <1>1, <1>3, <3>1
    <3>3. \A i \in 1 .. FeeBlockSize[x] : addr + i - 1 \in Address /\ addr + i - 1 > h
      BY <2>3, ValidRecord
    <3>4. e \in 1 .. h - 1 BY <1>3, OnlyBelow
    <3>5. h \in Nat BY LayoutEnd
    <3> HIDE DEF addr
    <3>6. \A i \in 1 .. FeeBlockSize[x] : addr + i - 1 # e BY <3>3, <3>4, <3>5, Lengths
    <3>7. QED BY <1>1, <1>3, <3>2, <3>3, <3>6 DEF addr
  <2>4. QED BY <1>1, <2>2, <2>3, StoredKept
<1>4. QED BY <1>2, <1>3

\* The valid flag is set: the block holds what the request writes.
LEMMA ValidStores ==
  ASSUME NEW fl, NEW f, NEW req, Busy(fl, f, req), Serving(fl, f, req), NEW fl2,
         f.job = "FEE_JOB_WRITE_DONE",
         GetsValid(fl, fl2, f, f.block)
  PROVE  /\ \A x \in Block \ {f.block} : StoredIn(fl2)[x] = StoredIn(fl)[x]
         /\ StoredIn(fl2)[f.block] = f.data
<1> DEFINE b == f.block
           i == f.info[b]
           c == i.cluster
           e == i.validHdr
           hdr == fl[c][e]
           cell == [hdr EXCEPT !.valid = "set"]
<1>1. /\ fl \in Disks /\ RamOK(f) /\ Running(fl, f) /\ b \in Block
      /\ f.status = "MEMIF_BUSY" /\ f.info[b].status = "FEE_BLOCK_INCONSISTENT"
  BY BusyIs, ValidPendingIs, ZenonT(30)
<1>2. /\ AtDone(f, b) /\ f.data \in Value /\ Holds(fl[c], i.dataAddr, b, f.data)
      /\ c \in Cluster /\ c = f.cluster /\ e \in Address /\ e \in 1 .. f.hdrAddr - 1 /\ hdr.addr = i.dataAddr
      /\ \A a \in e + 1 .. f.hdrAddr - 1 : ~ IsRecord(fl[c], a, b)
      /\ hdr = [kind |-> "block", block |-> b, addr |-> hdr.addr, valid |-> "erased", invalid |-> "erased"]
  BY ValidPendingIs, Zenon
<1>3. CellSet(fl, fl2, c, e, cell) BY Zenon DEF GetsValid
<1> DEFINE g == End(Noted(f, b, "FEE_BLOCK_VALID"), "MEMIF_JOB_OK")
<1>4. Core(Noted(f, b, "FEE_BLOCK_VALID"), g) /\ g.job = "FEE_JOB_NONE" /\ RamOK(g)
  BY <1>1, NotedIs, EndIs DEF BlockStatuses, Results
<1> HIDE DEF g
<1>5. Running(fl2, g) BY <1>1, <1>2, <1>4, Validated DEF Writing
<1>6. g.cluster = f.cluster /\ g.useId = f.useId /\ g.hdrAddr = f.hdrAddr
  BY <1>1, <1>4 DEF RamOK, Core, Noted, RamFields
<1> DEFINE h == f.hdrAddr
           u == f.useId
<1>7. Current(fl, c, u) /\ Layout(fl[c], h) /\ Current(fl2, c, u) /\ Layout(fl2[c], h)
  BY <1>1, <1>2, <1>5, <1>6 DEF Running
<1>8. IsRecord(fl[c], e, b) /\ cell.block = b /\ cell.kind = "block" /\ cell.valid = "set" /\ cell.invalid = "erased"
      /\ cell.addr = i.dataAddr
  <2>1. cell = [kind |-> "block", block |-> b, addr |-> hdr.addr, valid |-> "set", invalid |-> "erased"]
    <3> DEFINE y == hdr.addr
    <3>1. hdr = [kind |-> "block", block |-> b, addr |-> y, valid |-> "erased", invalid |-> "erased"]
      BY <1>2
    <3> HIDE DEF hdr, b, y
    <3>2. cell = [kind |-> "block", block |-> b, addr |-> y, valid |-> "set", invalid |-> "erased"]
      BY <3>1
    <3>3. QED BY <3>2 DEF y
  <2>2. QED BY <1>2, <2>1, Zenon DEF IsRecord, IsHeader
<1>9. /\ fl2 \in Disks /\ fl2[c][e] = cell /\ \A a \in Address \ {e} : fl2[c][a] = fl[c][a]
  BY <1>3, Zenon DEF CellSet
<1>10. h \in Nat /\ h \in Address BY <1>7, LayoutEnd
<1> HIDE DEF cell, hdr, h, u
<1>11. ASSUME NEW x \in Block \ {b}
       PROVE  StoredIn(fl2)[x] = StoredIn(fl)[x]
  <2>1. /\ fl \in Disks /\ c \in Cluster /\ e \in Address /\ CellSet(fl, fl2, c, e, cell)
        /\ IsRecord(fl[c], e, b) /\ cell.block = b /\ x \in Block \ {b}
    BY <1>1, <1>2, <1>3, <1>8
  <2>2. Current(fl, c, u) /\ Layout(fl[c], h) /\ Current(fl2, c, u) BY <1>7
  <2> HIDE DEF c, e, b, i
  <2>3. QED BY <2>1, <2>2, FlagStores
<1>12. IsValid(fl2[c], e, b) /\ \A a \in e + 1 .. h - 1 : ~ IsValid(fl2[c], a, b)
  <2>1. IsValid(fl2[c], e, b) BY <1>8, <1>9 DEF IsValid, IsRecord, IsHeader
  <2>2. \A a \in e + 1 .. h - 1 : a \in Address \ {e} /\ ~ IsRecord(fl[c], a, b)
    <3> HIDE DEF e, c, b
    <3>1. e \in 1 .. h - 1 BY <1>2 DEF h
    <3>2. \A a \in e + 1 .. h - 1 : ~ IsRecord(fl[c], a, b) BY <1>2 DEF h
    <3>3. \A a \in e + 1 .. h - 1 : a \in Address \ {e} BY <1>10, <3>1, Lengths
    <3>4. QED BY <3>2, <3>3
  <2>3. QED BY <1>9, <2>1, <2>2, SMTT(30) DEF IsValid, IsRecord, IsHeader
<1>13. Holds(fl2[c], fl2[c][e].addr, b, f.data)
  <2>1. fl2[c][e].addr = i.dataAddr BY <1>8, <1>9
  <2> DEFINE addr == i.dataAddr
             sz == FeeBlockSize[b]
  <2>2. addr \in Nat /\ addr > h /\ addr + sz <= FeeClusterLength /\ sz \in Nat /\ e \in 1 .. h - 1
    <3>1. fl[c] \in Contents BY <1>1, <1>2 DEF Disks
    <3>2. IsHeader(fl[c], e) /\ fl[c][e].block = b /\ fl[c][e].addr = i.dataAddr /\ e \in 1 .. h - 1
      BY <1>2, <1>8 DEF IsRecord, hdr, h
    <3> HIDE DEF c, e, i
    <3>3. QED BY <1>7, <3>1, <3>2, HeaderIs
  <2> HIDE DEF addr, sz, e, c
  <2>3. \A j \in 1 .. sz : addr + j - 1 \in Address \ {e} BY <1>10, <2>2, Lengths
  <2>4. \A j \in 1 .. sz : fl[c][addr + j - 1] = [kind |-> "data", value |-> f.data, part |-> j]
    BY <1>2 DEF Holds, addr, sz
  <2>5. \A j \in 1 .. sz : fl2[c][addr + j - 1] = [kind |-> "data", value |-> f.data, part |-> j]
    BY <1>9, <2>3, <2>4
  <2>6. QED BY <2>1, <2>5 DEF Holds, addr, sz
<1>14. StoredIn(fl2)[b] = f.data
  <2>1. e \in 1 .. h - 1 BY <1>2 DEF h
  <2> HIDE DEF e, c, b
  <2>2. QED BY <1>1, <1>2, <1>7, <1>9, <1>12, <1>13, <2>1, StoredValid
<1>15. QED BY <1>11, <1>14

\* The flag for invalid is set: the block holds nothing.
LEMMA InvalidStores ==
  ASSUME NEW fl, NEW f, NEW req, Busy(fl, f, req), Serving(fl, f, req), NEW fl2,
         f.job = "FEE_JOB_INVAL_BLOCK_DONE",
         GetsInvalid(fl, fl2, f, f.block)
  PROVE  /\ \A x \in Block \ {f.block} : StoredIn(fl2)[x] = StoredIn(fl)[x]
         /\ StoredIn(fl2)[f.block] = Nothing
<1> DEFINE b == f.block
           i == f.info[b]
           c == i.cluster
           e == i.validHdr
           hdr == fl[c][e]
           cell == [hdr EXCEPT !.invalid = "set"]
<1>1. /\ fl \in Disks /\ RamOK(f) /\ Running(fl, f) /\ b \in Block
      /\ f.status = "MEMIF_BUSY" /\ f.info[b].status # "FEE_BLOCK_INVALID" /\ Own(fl, f, b)
  BY BusyIs, ServingIs
<1>2. /\ c \in Cluster /\ e \in Address
      /\ hdr = [kind |-> "block", block |-> b, addr |-> hdr.addr, valid |-> hdr.valid, invalid |-> "erased"]
  BY <1>1, OwnIs, ZenonT(30)
<1>3. CellSet(fl, fl2, c, e, cell) BY DEF GetsInvalid
<1> DEFINE g == End(Noted(f, b, "FEE_BLOCK_INVALID"), "MEMIF_JOB_OK")
<1>4. Core(Noted(f, b, "FEE_BLOCK_INVALID"), g) /\ g.job = "FEE_JOB_NONE" /\ RamOK(g)
      /\ g.info[b].status = "FEE_BLOCK_INVALID"
  <2>1. RamOK(Noted(f, b, "FEE_BLOCK_INVALID")) BY <1>1, NotedIs DEF BlockStatuses
  <2>2. Core(Noted(f, b, "FEE_BLOCK_INVALID"), g) /\ g.job = "FEE_JOB_NONE" /\ RamOK(g)
    BY <2>1, EndIs DEF Results
  <2>3. g.info = InfoNoted(f.info, b, "FEE_BLOCK_INVALID")
    BY <1>1, <2>2, NotedIs DEF Core, BlockStatuses
  <2>4. f.info \in [Block -> Infos] BY <1>1 DEF RamOK
  <2>5. InfoNoted(f.info, b, "FEE_BLOCK_INVALID")[b].status = "FEE_BLOCK_INVALID"
    BY <1>1, <2>4 DEF InfoNoted, Infos
  <2>6. QED BY <2>2, <2>3, <2>5
<1> HIDE DEF g
<1>5. Running(fl2, g) BY <1>1, <1>4, NotAtDone, Invalidated DEF Writing, NoneAtDone
<1>6. g.cluster = f.cluster /\ g.useId = f.useId /\ g.hdrAddr = f.hdrAddr
  BY <1>1, <1>4 DEF RamOK, Core, Noted, RamFields
<1> DEFINE h == f.hdrAddr
           u == f.useId
           w == f.cluster
<1>7. Current(fl, w, u) /\ Layout(fl[w], h) /\ Current(fl2, w, u) /\ w \in Cluster
  BY <1>1, <1>5, <1>6, RunningIs, SMTT(30) DEF Running
<1>8. IsRecord(fl[c], e, b) /\ cell.block = b
  <2> DEFINE y == hdr.addr
             v == hdr.valid
  <2>1. hdr = [kind |-> "block", block |-> b, addr |-> y, valid |-> v, invalid |-> "erased"] BY <1>2
  <2> HIDE DEF hdr, b, y, v
  <2>2. hdr.kind = "block" /\ hdr.block = b BY <2>1
  <2>3. cell = [kind |-> "block", block |-> b, addr |-> y, valid |-> v, invalid |-> "set"] BY <2>1
  <2>4. QED BY <2>2, <2>3 DEF IsRecord, IsHeader, hdr
<1>9. fl2 \in Disks BY <1>3, Zenon DEF CellSet
<1> HIDE DEF cell, hdr, h, u, w
<1>10. ASSUME NEW x \in Block \ {b}
       PROVE  StoredIn(fl2)[x] = StoredIn(fl)[x]
  <2>1. /\ fl \in Disks /\ c \in Cluster /\ e \in Address /\ CellSet(fl, fl2, c, e, cell)
        /\ IsRecord(fl[c], e, b) /\ cell.block = b /\ x \in Block \ {b}
    BY <1>1, <1>2, <1>3, <1>8
  <2>2. Current(fl, w, u) /\ Layout(fl[w], h) /\ Current(fl2, w, u) /\ w \in Cluster BY <1>7
  <2> HIDE DEF c, e, b, i
  <2>3. QED BY <2>1, <2>2, FlagStores
<1>11. StoredIn(fl2)[b] = Nothing
  <2>1. ~ AtDone(g, b) BY <1>1, <1>4, NotAtDone DEF NoneAtDone
  <2>2. fl2 \in Disks /\ RamOK(g) /\ Running(fl2, g) /\ b \in Block /\ g.info[b].status = "FEE_BLOCK_INVALID"
    BY <1>1, <1>4, <1>5, <1>9
  <2> HIDE DEF b
  <2>3. QED BY <2>1, <2>2, KnownStored
<1>12. QED BY <1>10, <1>11

\* The valid flag of the new cluster is set: what was not taken along is gone, and only that.
LEMMA SealStores ==
  ASSUME NEW fl, NEW fl2, NEW f, Sealed(fl, fl2, f), NEW b \in Block
  PROVE  \/ StoredIn(fl2)[b] = StoredIn(fl)[b]
         \/ f.info[b].status = "FEE_BLOCK_INCONSISTENT" /\ StoredIn(fl2)[b] = Nothing
<1> DEFINE d == f.swap.cluster
           u == f.useId + 1
           kk == fl2[d]
           h == Place(f, FeeBlockSum)
           s == f.info[b].status
<1>1. /\ fl \in Disks /\ RamOK(f) /\ Running(fl, f) /\ ~ AtDone(f, b) /\ d \in Cluster
      /\ fl2 \in Disks
  BY DEF Sealed, CellSet, NoneAtDone
<1>2. Layout(kk, h) /\ Current(fl2, d, u) /\ h \in Nat BY SealedCells
<1>3. /\ \A x \in Carried(f) :
           /\ Place(f, x) \in 1 .. h - 1 /\ Place(f, x) \in Nat
           /\ kk[Place(f, x)] = [kind |-> "block", block |-> x, addr |-> Room(f, x + 1),
                                 valid |-> IF f.info[x].status = "FEE_BLOCK_VALID" THEN "set" ELSE "erased",
                                 invalid |-> "erased"]
           /\ \A i \in 1 .. FeeBlockSize[x] :
                kk[Room(f, x + 1) + i - 1] = fl[f.cluster][f.info[x].dataAddr + i - 1]
      /\ \A x : \A a \in Address : IsRecord(kk, a, x) =>
           x \in Carried(f) /\ a = Place(f, x) /\ kk[a].invalid = "erased"
  BY SealedRecords
<1>4. s \in {"FEE_BLOCK_VALID", "FEE_BLOCK_INVALID", "FEE_BLOCK_INCONSISTENT"}
  BY <1>1 DEF RamOK, Infos
<1>5. \A a \in 1 .. h - 1 : a \in Address
  <2>1. h \in Address BY <1>2, LayoutEnd
  <2> HIDE DEF h
  <2>2. QED BY <2>1, Lengths
<1> HIDE DEF kk, d, u, h
<1>6. CASE s = "FEE_BLOCK_VALID"
  <2> DEFINE a == Place(f, b)
             addr == Room(f, b + 1)
  <2>1. b \in Carried(f) BY <1>6 DEF Carried
  <2>2. PICK v \in Value : Holds(fl[f.cluster], f.info[b].dataAddr, b, v) /\ f.info[b].cluster = f.cluster
    BY <1>1, <1>6, KnownWhole
  <2>3. a \in 1 .. h - 1 BY <1>3, <2>1
  <2>4. kk[a] = [kind |-> "block", block |-> b, addr |-> addr, valid |-> "set", invalid |-> "erased"]
    BY <1>3, <1>6, <2>1
  <2>5. \A i \in 1 .. FeeBlockSize[b] : kk[addr + i - 1] = fl[f.cluster][f.info[b].dataAddr + i - 1]
    BY <1>3, <2>1
  <2>6. \A x \in Address : IsRecord(kk, x, b) => x = a BY <1>3
  <2> HIDE DEF a, addr, s
  <2>7. IsValid(kk, a, b) /\ kk[a].addr = addr BY <2>4 DEF IsValid, IsRecord, IsHeader
  <2>8. \A e \in a + 1 .. h - 1 : ~ IsValid(kk, e, b) BY <1>2, <1>5, <2>3, <2>6 DEF IsValid
  <2>9. Holds(kk, addr, b, v) BY <2>2, <2>5 DEF Holds
  <2>10. StoredIn(fl2)[b] = v BY <1>1, <1>2, <2>3, <2>7, <2>8, <2>9, StoredValid DEF kk
  <2>11. StoredIn(fl)[b] = v BY <1>1, <1>6, <2>2, KnownStored, HeldIn DEF s
  <2>12. QED BY <2>10, <2>11
<1>7. CASE s # "FEE_BLOCK_VALID"
  <2>1. ASSUME NEW a \in 1 .. h - 1, IsValid(kk, a, b)
        PROVE  FALSE
    <3>1. IsRecord(kk, a, b) /\ kk[a].valid = "set" BY <2>1 DEF IsValid
    <3>2. b \in Carried(f) /\ a = Place(f, b) BY <1>3, <1>5, <3>1
    <3>3. kk[a].valid = "erased"
      <4>1. f.info[b].status # "FEE_BLOCK_VALID" BY <1>7 DEF s
      <4>2. kk[Place(f, b)] = [kind |-> "block", block |-> b, addr |-> Room(f, b + 1), valid |-> "erased",
                               invalid |-> "erased"]
        BY <1>3, <3>2, <4>1
      <4>3. QED BY <3>2, <4>2
    <3>4. QED BY <3>1, <3>3
  <2>2. StoredIn(fl2)[b] = Nothing BY <1>1, <1>2, <2>1, StoredNothing DEF kk
  <2>3. s = "FEE_BLOCK_INVALID" => StoredIn(fl)[b] = Nothing BY <1>1, KnownStored
  <2>4. QED BY <1>4, <1>7, <2>2, <2>3
<1>8. QED BY <1>6, <1>7

\* The flash requests of a swap leave the cluster in use alone.
LEMMA SwapTouches ==
  ASSUME NEW f, NEW req, Busy(flash, f, req), Serving(flash, f, req), f.job \in SwapJobs,
         f.job # "FEE_JOB_INT_SWAP_CLUSTER_VLD_DONE", NEW fl2 \in Interrupted(f.mem)
  PROVE  fl2[f.cluster] = flash[f.cluster]
<1>1. /\ flash \in Disks /\ Swapping(flash, f) /\ f.cluster \in Cluster /\ f.swap.cluster # f.cluster
  BY SwapIs
<1> DEFINE c == f.swap.cluster
<1>2. \/ \E x, at, n : f.mem = Read(x, at, n)
      \/ f.mem = Erase(c)
      \/ \E at, cells : f.mem = Program(c, at, cells)
      \/ \E at, flag : f.mem = SetFlag(c, at, flag)
  <2>1. CASE f.job = "FEE_JOB_INT_SWAP_CLUSTER_CLEAR" BY <1>1, <2>1, SwappingIs
  <2>2. CASE f.job = "FEE_JOB_INT_SWAP_BLOCK"
    <3>1. \A b : ProgramHeader(f, b) = Program(c, Place(f, b), <<BlockHdr(b, Room(f, b + 1))>>)
      BY DEF ProgramHeader
    <3>2. \/ f.mem = Program(c, 0, <<ClusterHdr(f.useId + 1, "erased")>>)
          \/ \E b : f.mem = ProgramHeader(f, b)
          \/ \E b : f.mem = SetFlag(c, Place(f, b), "valid")
      BY <1>1, <2>2, SwappingIs
    <3> HIDE DEF c
    <3>3. QED BY <3>1, <3>2
  <2>3. CASE f.job = "FEE_JOB_INT_SWAP_DATA_READ" BY <1>1, <2>3, SwappingIs DEF ProgramHeader
  <2>4. CASE f.job = "FEE_JOB_INT_SWAP_DATA_WRITE"
    <3> DEFINE i == f.info[f.swap.block]
    <3>1. f.mem = Read(i.cluster, i.dataAddr, FeeBlockSize[f.swap.block]) BY <1>1, <2>4, SwappingIs
    <3> HIDE DEF i
    <3>2. QED BY <3>1
  <2>5. CASE f.job = "FEE_JOB_INT_SWAP_BLOCK_VLD"
    <3> DEFINE d == Room(f, f.swap.block + 1)
               e == Source(flash, f, f.swap.block)
    <3>1. f.mem = Program(c, d, e) BY <1>1, <2>5, SwappingIs
    <3> HIDE DEF c, d, e
    <3>2. QED BY <3>1
  <2>6. QED BY <2>1, <2>2, <2>3, <2>4, <2>5 DEF SwapJobs
<1> HIDE DEF c
<1>3. CASE \E x, at, n : f.mem = Read(x, at, n) BY <1>3, ReadOrNone
<1>4. CASE ~ \E x, at, n : f.mem = Read(x, at, n)
  <2>1. /\ Erase(c).op = "erase" /\ Erase(c).cluster = c
        /\ \A at, cells : Program(c, at, cells).op = "program" /\ Program(c, at, cells).cluster = c
        /\ \A at, flag : SetFlag(c, at, flag).op = "flag" /\ SetFlag(c, at, flag).cluster = c
    BY DEF Erase, Program, SetFlag
  <2>2. f.mem.op \in {"erase", "program", "flag"} /\ f.mem.cluster = c BY <1>2, <1>4, <2>1
  <2>3. QED BY <1>1, <2>2, Untouched DEF c
<1>5. QED BY <1>3, <1>4

-----------------------------------------------------------------------------
(* The blocks whose old value may go with the next swap. *)
DoubtIn(f, req) ==
  {b \in Block :
     /\ f.info[b].status = "FEE_BLOCK_INCONSISTENT"
     /\ ~ ( /\ f.job \in {"FEE_JOB_WRITE_VALIDATE", "FEE_JOB_WRITE_DONE"} /\ req # NoRequest
            /\ req.block \notin FeeImmediateData /\ b = req.block)}

SettlesIn(s, s2, D, req) ==
  \A b \in Block :
    \/ s2[b] = s[b]
    \/ req.job = "FEE_JOB_WRITE" /\ req.block = b /\ s2[b] = req.value
    \/ (b \in D \/ (req.job = "FEE_JOB_INVAL_BLOCK" /\ req.block = b)) /\ s2[b] = Nothing

LEMMA SameSettles ==
  ASSUME NEW fl, NEW fl2, NEW D, NEW req, StoresSame(fl, fl2)
  PROVE  SettlesIn(StoredIn(fl), StoredIn(fl2), D, req)
  BY DEF StoresSame, SettlesIn

LEMMA StoresStay ==
  ASSUME NEW fl
  PROVE  StoresSame(fl, fl)
  BY DEF StoresSame

LEMMA SwapSettles ==
  ASSUME NEW f, NEW req, Busy(flash, f, req), Serving(flash, f, req), f.job \in SwapJobs,
         NEW fl2 \in Interrupted(f.mem)
  PROVE  SettlesIn(StoredIn(flash), StoredIn(fl2), DoubtIn(f, req), req)
<1>1. flash \in Disks /\ RamOK(f) /\ Running(flash, f) BY BusyIs
<1>2. CASE f.job = "FEE_JOB_INT_SWAP_CLUSTER_VLD_DONE"
  BY <1>2, SwapEndProgrammed, SameSettles, StoresStay, SealStores DEF DoubtIn, SettlesIn
<1>3. CASE f.job # "FEE_JOB_INT_SWAP_CLUSTER_VLD_DONE"
  BY <1>1, <1>3, SwapOutcome, SwapTouches, StoresElsewhere, SameSettles DEF Outcome
<1>4. QED BY <1>2, <1>3

LEMMA BusySettles ==
  ASSUME NEW f, NEW req, Busy(flash, f, req), Serving(flash, f, req), NEW fl2 \in Interrupted(f.mem)
  PROVE  SettlesIn(StoredIn(flash), StoredIn(fl2), DoubtIn(f, req), req)
<1>1. /\ flash \in Disks /\ RamOK(f) /\ Running(flash, f) /\ f.block = req.block /\ f.data = req.value
      /\ f.block \in Block
  BY BusyIs
<1>2. CASE f.job \in {"FEE_JOB_READ", "FEE_JOB_WRITE", "FEE_JOB_ERASE_IMMEDIATE", "FEE_JOB_INVAL_BLOCK", "FEE_JOB_NONE"}
  BY <1>2, ServingIs, ReadOrNone, SameSettles, StoresStay
<1>3. CASE f.job \in {"FEE_JOB_WRITE_DATA", "FEE_JOB_ERASE_IMMEDIATE_DONE"}
  <2>1. HeaderPending(f) BY <1>3, ServingIs
  <2> DEFINE hdr == BlockHdr(f.block, f.dataAddr - FeeBlockSize[f.block])
  <2>2. /\ f.mem = Program(f.cluster, f.hdrAddr, <<hdr>>) /\ f.cluster \in Cluster /\ f.hdrAddr \in Address
        /\ hdr \in Cell /\ flash[f.cluster][f.hdrAddr] = Blank
    BY <2>1, HeaderPendingIs
  <2>3. hdr.valid = "erased" /\ Torn.kind # "block" BY DEF BlockHdr, Torn
  <2> HIDE DEF hdr
  <2>4. \/ fl2 = flash
        \/ CellSet(flash, fl2, f.cluster, f.hdrAddr, hdr)
        \/ CellSet(flash, fl2, f.cluster, f.hdrAddr, Torn)
    BY <1>1, <2>2, ProgramOne
  <2>5. StoresSame(flash, fl2) BY <1>1, <2>2, <2>3, <2>4, HeaderStores, StoresStay
  <2>6. QED BY <2>5, SameSettles
<1>4. CASE f.job = "FEE_JOB_WRITE_VALIDATE"
  <2> DEFINE b == f.block
             i == f.info[b]
             n == FeeBlockSize[b]
             cells == DataCells(f.data, n)
  <2>1. /\ f.mem = Program(i.cluster, i.dataAddr, cells)
        /\ Writing(f, b) /\ i.status = "FEE_BLOCK_INCONSISTENT" /\ f.data \in Value
        /\ i.cluster \in Cluster /\ i.dataAddr \in Address /\ n \in Nat /\ i.dataAddr + n <= FeeClusterLength
        /\ cells \in [1 .. n -> Cell]
        /\ \A a \in Address : a \in i.dataAddr .. i.dataAddr + n - 1 => flash[i.cluster][a] = Blank
    BY <1>4, DataPendingIs
  <2>2. RangePart(flash, fl2, i.cluster, i.dataAddr, cells, n)
    <3> HIDE DEF cells, n, i
    <3>1. QED BY <1>1, <2>1, ProgramMany
  <2>3. StoresSame(flash, fl2) BY <1>1, <2>1, <2>2, DataStores
  <2>4. QED BY <2>3, SameSettles
<1>5. CASE f.job = "FEE_JOB_WRITE_DONE"
  <2>1. \/ fl2 = flash
        \/ GetsValid(flash, fl2, f, f.block)
    BY <1>5, ValidOutcome
  <2>2. CASE fl2 = flash BY <2>2, SameSettles, StoresStay
  <2>3. CASE fl2 # flash BY <1>1, <1>5, <2>1, <2>3, ValidStores, ServingIs DEF SettlesIn
  <2>4. QED BY <2>2, <2>3
<1>6. CASE f.job = "FEE_JOB_INVAL_BLOCK_DONE"
  BY <1>1, <1>6, InvalidOutcome, SameSettles, StoresStay, InvalidStores, ServingIs DEF SettlesIn
<1>7. QED BY <1>2, <1>3, <1>4, <1>5, <1>6, ServingIs, SwapSettles

LEMMA ScanSettles ==
  ASSUME NEW f, NEW req, ScanBusy(flash, f), NEW fl2 \in Interrupted(f.mem)
  PROVE  SettlesIn(StoredIn(flash), StoredIn(fl2), DoubtIn(f, req), req)
<1>1. flash \in Disks /\ Scanning(flash, f) /\ 0 \in Cluster /\ 0 \in Address /\ ClusterHdr(1, "set") \in Cell
  BY Numbers, CellsAre DEF ScanBusy, Flag
<1>2. CASE f.job \in {"FEE_JOB_INT_SCAN", "FEE_JOB_INT_SCAN_CLUSTER_HDR_GET", "FEE_JOB_INT_SCAN_BLOCK_HDR_GET"}
  BY <1>1, <1>2, ScanningIs, ReadOrNone, SameSettles, StoresStay
<1>3. ASSUME NoneValid(flash), NoneValid(fl2)
      PROVE  StoresSame(flash, fl2)
  BY <1>3, StoredNone DEF StoresSame
<1>4. CASE f.job = "FEE_JOB_INT_SCAN_CLUSTER_CLEAR"
  BY <1>1, <1>3, <1>4, ScanningIs, EraseOne, NoneStays, SameSettles
<1>5. CASE f.job = "FEE_JOB_INT_SCAN_CLUSTER_CLEAR_DONE"
  <2>1. /\ f.mem = Program(0, 0, <<ClusterHdr(1, "set")>>)
        /\ NoneValid(flash) /\ \A a \in Address : flash[0][a] = Blank
    BY <1>1, <1>5, ScanningIs
  <2>2. \/ fl2 = flash
        \/ CellSet(flash, fl2, 0, 0, ClusterHdr(1, "set"))
        \/ CellSet(flash, fl2, 0, 0, Torn)
    BY <1>1, <2>1, ProgramOne
  <2>3. CASE fl2 = flash BY <2>3, SameSettles, StoresStay
  <2>4. CASE CellSet(flash, fl2, 0, 0, Torn) BY <1>3, <2>1, <2>4, NoneStays, SameSettles DEF CellSet
  <2>5. CASE CellSet(flash, fl2, 0, 0, ClusterHdr(1, "set"))
    <3>1. fl2 \in Disks /\ Others(flash, fl2, 0) /\ fl2[0][0] = ClusterHdr(1, "set")
          /\ \A a \in Address \ {0} : fl2[0][a] = Blank
      BY <2>1, <2>5 DEF CellSet
    <3>2. Current(fl2, 0, 1)
      BY <1>1, <2>1, <3>1 DEF Current, ValidCluster, UnpackClusterHdr, ClusterHdr, NoneValid, Others
    <3>3. Layout(fl2[0], 1) BY <1>1, <3>1, Lengths, ErasedLayout DEF Disks
    <3>4. ASSUME NEW b \in Block
          PROVE  StoredIn(fl2)[b] = StoredIn(flash)[b]
      BY <2>1, <3>1, <3>2, <3>3, StoredNone, StoredNothing
    <3>5. QED BY <3>4, SameSettles DEF StoresSame
  <2>6. QED BY <2>2, <2>3, <2>4, <2>5
<1>6. QED BY <1>1, <1>2, <1>4, <1>5, ScanningIs

\* Whatever a request leaves in the flash, only its block and those in doubt change.
LEMMA AllSettle ==
  ASSUME NEW f, NEW req, FeeInv(flash, f, req), NEW fl2 \in Interrupted(f.mem)
  PROVE  SettlesIn(StoredIn(flash), StoredIn(fl2), DoubtIn(f, req), req)
BY BusySettles, ScanSettles, ReadOrNone, SameSettles, StoresStay DEF FeeInv, Busy, Disks, ScanBusy

-----------------------------------------------------------------------------
(* What Fee knows after a step. *)

(* g has what f knows of the blocks. *)
SameInfo(f, g) == DOMAIN g = RamFields /\ g.info = f.info
SameStatus(f, g) == \A x \in Block : g.info[x].status = f.info[x].status

LEMMA StartInfo ==
  ASSUME NEW f, DOMAIN f = RamFields, NEW m, NEW job, NEW result
  PROVE  SameInfo(f, Start(f, m, job)) /\ SameInfo(f, End(f, result)) /\ SameInfo(f, JobNotiHandle(f))
BY DEF SameInfo, Start, End, RamFields, JobNotiHandle

LEMMA SwapInfo ==
  ASSUME NEW f, DOMAIN f = RamFields, NEW s
  PROVE  SameInfo(f, [f EXCEPT !.swap = s])
  BY DEF SameInfo, RamFields

LEMMA SameInfoOn ==
  ASSUME NEW f, NEW g, NEW h, SameInfo(f, g), SameInfo(g, h)
  PROVE  SameInfo(f, h)
  BY DEF SameInfo

LEMMA JobIntSwapInfo ==
  ASSUME NEW f, DOMAIN f = RamFields
  PROVE  SameInfo(f, JobIntSwap(f))
<1> DEFINE c == (f.cluster + 1) % ClusterCount
           s == [cluster |-> c, block |-> 0, dataAddr |-> FeeClusterLength, hdrAddr |-> 1, preJob |-> f.job]
           g == [f EXCEPT !.swap = s]
<1>1. SameInfo(f, g) BY SwapInfo
<1>2. JobIntSwap(f) = Start(g, Erase(c), "FEE_JOB_INT_SWAP_CLUSTER_CLEAR") BY DEF JobIntSwap
<1> HIDE DEF g, c
<1>3. DOMAIN g = RamFields BY <1>1 DEF SameInfo
<1>4. SameInfo(g, Start(g, Erase(c), "FEE_JOB_INT_SWAP_CLUSTER_CLEAR")) BY <1>3, StartInfo
<1>5. QED BY <1>1, <1>2, <1>4, SameInfoOn

LEMMA JobWriteHdrInfo ==
  ASSUME NEW f, DOMAIN f = RamFields, NEW next
  PROVE  SameInfo(f, JobWriteHdr(f, next))
BY JobIntSwapInfo, StartInfo DEF JobWriteHdr

LEMMA JobWriteInfo ==
  ASSUME NEW f, DOMAIN f = RamFields
  PROVE  SameInfo(f, JobWrite(f))
BY JobWriteHdrInfo, StartInfo DEF JobWrite, JobWriteData, SameInfo, RamFields

\* A job that the main function starts leaves the blocks as they are.
LEMMA DispatchInfo ==
  ASSUME NEW f, RamOK(f), f.job \in StartingJobs
  PROVE  SameInfo(f, JobNotiHandle(Dispatch(f)))
<1>0. DOMAIN f = RamFields BY DEF RamOK
<1>1. SameInfo(f, Dispatch(f))
  <2>1. CASE f.job = "FEE_JOB_INT_SCAN"
    <3> DEFINE g == [f EXCEPT !.idx = 0]
    <3>1. SameInfo(f, g) BY <1>0 DEF SameInfo, RamFields
    <3>2. \E m, job : Dispatch(f) = Start(g, m, job)
      BY <2>1 DEF Dispatch, JobInitScan, JobIntScanClusterHdrRead
    <3> HIDE DEF g
    <3>3. DOMAIN g = RamFields BY <3>1 DEF SameInfo
    <3>4. SameInfo(g, Dispatch(f)) BY <3>2, <3>3, StartInfo
    <3>5. QED BY <3>1, <3>4, SameInfoOn
  <2>2. CASE f.job = "FEE_JOB_READ" BY <1>0, <2>2, StartInfo DEF Dispatch, JobRead
  <2>3. CASE f.job = "FEE_JOB_WRITE" BY <1>0, <2>3, JobWriteInfo DEF Dispatch
  <2>4. CASE f.job = "FEE_JOB_INVAL_BLOCK" BY <1>0, <2>4, StartInfo DEF Dispatch, JobInvalBlock
  <2>5. CASE f.job = "FEE_JOB_ERASE_IMMEDIATE"
    BY <1>0, <2>5, JobWriteHdrInfo DEF Dispatch, JobEraseImmediate
  <2>6. QED BY <2>1, <2>2, <2>3, <2>4, <2>5 DEF StartingJobs
<1> DEFINE g == Dispatch(f)
<1> HIDE DEF g
<1>2. SameInfo(f, g) BY <1>1 DEF g
<1>3. DOMAIN g = RamFields BY <1>2 DEF SameInfo
<1>4. SameInfo(f, JobNotiHandle(g)) BY <1>2, <1>3, StartInfo, SameInfoOn
<1>5. QED BY <1>4 DEF g

-----------------------------------------------------------------------------
(* The new RAM is g: the request goes on, or its answer fits. *)
Incons(f) == {b \in Block : f.info[b].status = "FEE_BLOCK_INCONSISTENT"}

FitsIn(s, s2, D, D2, res, val, req) ==
  \/ res \in {"MEMIF_JOB_FAILED", "MEMIF_JOB_CANCELED"}
  \/ /\ res = "MEMIF_JOB_OK"
     /\ req.job = "FEE_JOB_WRITE" => s2[req.block] = req.value /\ req.block \notin D2
     /\ req.job = "FEE_JOB_INVAL_BLOCK" => s2[req.block] = Nothing
     /\ req.job = "FEE_JOB_READ" => val = s[req.block] /\ s[req.block] # Nothing
  \/ /\ req.job = "FEE_JOB_READ"
     /\ \/ res = "MEMIF_BLOCK_INVALID" /\ s[req.block] = Nothing
        \/ res = "MEMIF_BLOCK_INCONSISTENT" /\ req.block \in D

Left(req) == IF req.job \in {"FEE_JOB_WRITE", "FEE_JOB_ERASE_IMMEDIATE"} THEN {req.block} ELSE {}

Proceeds(fl, fl2, f, g, buffer, req) ==
  IF req # NoRequest /\ g.status # "MEMIF_BUSY"
  THEN /\ FitsIn(StoredIn(fl), StoredIn(fl2), DoubtIn(f, req), Incons(g), g.result, ValueOf(buffer), req)
       /\ Incons(g) \subseteq DoubtIn(f, req) \cup Left(req)
  ELSE DoubtIn(g, req) \subseteq DoubtIn(f, req)

LEMMA DoubtStays ==
  ASSUME NEW f, NEW g, NEW req, SameStatus(f, g) \/ SameInfo(f, g),
         f.job \in {"FEE_JOB_WRITE_VALIDATE", "FEE_JOB_WRITE_DONE"} =>
           req = NoRequest \/ g.job \in {"FEE_JOB_WRITE_VALIDATE", "FEE_JOB_WRITE_DONE"}
  PROVE  DoubtIn(g, req) \subseteq DoubtIn(f, req)
  BY DEF DoubtIn, SameStatus, SameInfo

LEMMA Goes ==
  ASSUME NEW fl, NEW fl2, NEW f, NEW g, NEW buffer, NEW req, SameStatus(f, g) \/ SameInfo(f, g),
         f.job \notin {"FEE_JOB_WRITE_VALIDATE", "FEE_JOB_WRITE_DONE"},
         req # NoRequest /\ g.status # "MEMIF_BUSY" =>
           FitsIn(StoredIn(fl), StoredIn(fl2), DoubtIn(f, req), Incons(g), g.result, ValueOf(buffer), req)
  PROVE  Proceeds(fl, fl2, f, g, buffer, req)
BY DoubtStays DEF Incons, DoubtIn, SameStatus, SameInfo, Proceeds

LEMMA EndedIs ==
  ASSUME NEW fl, NEW f, NEW req, Busy(fl, f, req), f.mem = NoAccess, NoneAtDone(f),
         NEW result \in Results \ {"MEMIF_JOB_PENDING"}
  PROVE  /\ JobNotiHandle(End(f, result)).result = result
         /\ SameInfo(f, JobNotiHandle(End(f, result)))
<1> DEFINE e == End(f, result)
<1>1. RamOK(f) /\ DOMAIN f = RamFields BY BusyIs DEF RamOK
<1>2. RamOK(e) /\ e.result = result /\ SameInfo(f, e) /\ DOMAIN e = RamFields
  BY <1>1, EndIs, StartInfo DEF RamOK
<1>3. JobNotiHandle(e) = Idled(e) BY EndsAtOnce
<1> HIDE DEF e
<1>4. JobNotiHandle(e).result = result BY <1>2, <1>3, IdledIs
<1>5. SameInfo(e, JobNotiHandle(e)) BY <1>2, StartInfo
<1>6. SameInfo(f, JobNotiHandle(e)) BY <1>2, <1>5, SameInfoOn
<1>7. QED BY <1>4, <1>6 DEF e

LEMMA StartedIs ==
  ASSUME NEW fl, NEW f, NEW req, Busy(fl, f, req), NEW m, NEW job \in JobType \ {"FEE_JOB_WRITE_DONE"},
         NoneAtDone(f), job = "FEE_JOB_WRITE_VALIDATE" => f.block \in FeeImmediateData
  PROVE  /\ JobNotiHandle(Start(f, m, job)).status = "MEMIF_BUSY"
         /\ SameInfo(f, JobNotiHandle(Start(f, m, job)))
<1> DEFINE s == Start(f, m, job)
<1>1. RamOK(f) /\ DOMAIN f = RamFields BY BusyIs DEF RamOK
<1>2. Busy(fl, s, req) /\ JobNotiHandle(s) = s BY Started
<1>3. SameInfo(f, s) BY <1>1, StartInfo
<1> HIDE DEF s
<1>4. s.status = "MEMIF_BUSY" BY <1>2, BusyIs
<1>5. QED BY <1>2, <1>3, <1>4 DEF s

LEMMA ReadProceeds ==
  ASSUME NEW fl, NEW f, NEW req, Busy(fl, f, req), Serving(fl, f, req), f.job = "FEE_JOB_READ", NEW buffer
  PROVE  Proceeds(fl, fl, f, JobNotiHandle(JobRead(f)), buffer, req)
<1> DEFINE b == f.block
           i == f.info[b]
<1>1. /\ fl \in Disks /\ RamOK(f) /\ Running(fl, f) /\ b = req.block /\ b \in Block /\ req # NoRequest
      /\ i.status \in {"FEE_BLOCK_VALID", "FEE_BLOCK_INVALID", "FEE_BLOCK_INCONSISTENT"}
  BY BusyIs
<1>2. NoneAtDone(f) /\ f.mem = NoAccess /\ req.job = "FEE_JOB_READ" BY NotAtDone, ServingIs
<1>3. CASE i.status = "FEE_BLOCK_VALID"
  <2> DEFINE m == Read(i.cluster, i.dataAddr, FeeBlockSize[b])
  <2>1. JobRead(f) = Start(f, m, "FEE_JOB_NONE") BY <1>3 DEF JobRead
  <2> HIDE DEF m
  <2>2. "FEE_JOB_NONE" \in JobType \ {"FEE_JOB_WRITE_DONE"} BY DEF JobType
  <2>3. /\ JobNotiHandle(Start(f, m, "FEE_JOB_NONE")).status = "MEMIF_BUSY"
        /\ SameInfo(f, JobNotiHandle(Start(f, m, "FEE_JOB_NONE")))
    BY <1>2, <2>2, StartedIs
  <2>4. QED BY <2>1, <2>3, Goes
<1>4. CASE i.status = "FEE_BLOCK_INVALID"
  <2> DEFINE g == JobNotiHandle(End(f, "MEMIF_BLOCK_INVALID"))
  <2>1. JobRead(f) = End(f, "MEMIF_BLOCK_INVALID") BY <1>4 DEF JobRead
  <2>2. g.result = "MEMIF_BLOCK_INVALID" /\ SameInfo(f, g) BY <1>2, EndedIs DEF Results
  <2>3. StoredIn(fl)[b] = Nothing BY <1>1, <1>2, <1>4, KnownStored DEF NoneAtDone
  <2> HIDE DEF g
  <2>4. FitsIn(StoredIn(fl), StoredIn(fl), DoubtIn(f, req), Incons(g), g.result, ValueOf(buffer), req)
    BY <1>1, <1>2, <2>2, <2>3 DEF FitsIn
  <2>5. Proceeds(fl, fl, f, g, buffer, req) BY <2>2, <2>4, Goes
  <2>6. QED BY <2>1, <2>5 DEF g
<1>5. CASE i.status = "FEE_BLOCK_INCONSISTENT"
  <2> DEFINE g == JobNotiHandle(End(f, "MEMIF_BLOCK_INCONSISTENT"))
  <2>1. JobRead(f) = End(f, "MEMIF_BLOCK_INCONSISTENT") BY <1>5 DEF JobRead
  <2>2. g.result = "MEMIF_BLOCK_INCONSISTENT" /\ SameInfo(f, g) BY <1>2, EndedIs DEF Results
  <2>3. b \in DoubtIn(f, req) BY <1>1, <1>5 DEF DoubtIn
  <2> HIDE DEF g
  <2>4. FitsIn(StoredIn(fl), StoredIn(fl), DoubtIn(f, req), Incons(g), g.result, ValueOf(buffer), req)
    BY <1>1, <1>2, <2>2, <2>3 DEF FitsIn
  <2>5. Proceeds(fl, fl, f, g, buffer, req) BY <2>2, <2>4, Goes
  <2>6. QED BY <2>1, <2>5 DEF g
<1>6. QED BY <1>1, <1>3, <1>4, <1>5

LEMMA HeaderProceeds ==
  ASSUME NEW fl, NEW fl2, NEW f, NEW h, NEW req, NEW buffer, Busy(fl2, h, req), NoneAtDone(h), h.job = req.job, NEW next,
         f.job \notin {"FEE_JOB_WRITE_VALIDATE", "FEE_JOB_WRITE_DONE"}, SameStatus(f, h),
         \/ /\ req.job = "FEE_JOB_WRITE" /\ h.block \notin FeeImmediateData /\ next = "FEE_JOB_WRITE_DATA"
         \/ /\ req.job = "FEE_JOB_ERASE_IMMEDIATE" /\ h.block \in FeeImmediateData
            /\ next = "FEE_JOB_ERASE_IMMEDIATE_DONE"
  PROVE  Proceeds(fl, fl2, f, JobNotiHandle(JobWriteHdr(h, next)), buffer, req)
<1> DEFINE g == JobWriteHdr(h, next)
<1>1. JobNotiHandle(g) = g /\ g.status = "MEMIF_BUSY" BY HeaderServes
<1>2. DOMAIN h = RamFields BY BusyIs DEF RamOK
<1>3. SameInfo(h, g) BY <1>2, JobWriteHdrInfo
<1>4. SameStatus(f, g) BY <1>3 DEF SameStatus, SameInfo
<1> HIDE DEF g
<1>5. Proceeds(fl, fl2, f, g, buffer, req) BY <1>1, <1>4, Goes
<1>6. QED BY <1>1, <1>5 DEF g

LEMMA WriteProceeds ==
  ASSUME NEW fl, NEW f, NEW req, Busy(fl, f, req), Serving(fl, f, req), f.job = "FEE_JOB_WRITE", NEW buffer
  PROVE  Proceeds(fl, fl, f, JobNotiHandle(JobWrite(f)), buffer, req)
<1>1. NoneAtDone(f) /\ f.mem = NoAccess /\ req.job = "FEE_JOB_WRITE" /\ RamOK(f) /\ f.status = "MEMIF_BUSY"
      /\ DOMAIN f = RamFields
  BY NotAtDone, ServingIs, BusyIs DEF RamOK
<1>2. CASE f.block \notin FeeImmediateData BY <1>1, <1>2, HeaderProceeds DEF JobWrite, SameStatus
<1>3. CASE f.block \in FeeImmediateData /\ f.info[f.block].status = "FEE_BLOCK_INCONSISTENT"
  <2>1. \E m : JobWrite(f) = Start(f, m, "FEE_JOB_WRITE_VALIDATE")
    BY <1>3 DEF JobWrite, JobWriteData
  <2>2. PICK m : JobWrite(f) = Start(f, m, "FEE_JOB_WRITE_VALIDATE") BY <2>1
  <2>3. "FEE_JOB_WRITE_VALIDATE" \in JobType \ {"FEE_JOB_WRITE_DONE"} BY DEF JobType
  <2>4. /\ JobNotiHandle(Start(f, m, "FEE_JOB_WRITE_VALIDATE")).status = "MEMIF_BUSY"
        /\ SameInfo(f, JobNotiHandle(Start(f, m, "FEE_JOB_WRITE_VALIDATE")))
    BY <1>1, <1>3, <2>3, StartedIs
  <2>5. QED BY <1>1, <2>2, <2>4, Goes
<1>4. CASE f.block \in FeeImmediateData /\ f.info[f.block].status # "FEE_BLOCK_INCONSISTENT"
  <2> DEFINE h == [f EXCEPT !.result = "MEMIF_JOB_FAILED"]
             g == JobNotiHandle(h)
  <2>1. JobWrite(f) = h BY <1>4 DEF JobWrite
  <2>2. RamOK(h) /\ h.result = "MEMIF_JOB_FAILED" /\ h.status = "MEMIF_BUSY" /\ SameInfo(f, h) /\ DOMAIN h = RamFields
    BY <1>1 DEF RamOK, RamFields, Results, SameInfo
  <2> HIDE DEF h
  <2>3. g = Idled(h) BY <2>2, NotiIs
  <2>4. g.result = "MEMIF_JOB_FAILED" BY <2>2, <2>3, IdledIs
  <2>5. SameInfo(f, g) BY <2>2, StartInfo, SameInfoOn
  <2> HIDE DEF g
  <2>6. FitsIn(StoredIn(fl), StoredIn(fl), DoubtIn(f, req), Incons(g), g.result, ValueOf(buffer), req)
    BY <2>4 DEF FitsIn
  <2>7. Proceeds(fl, fl, f, g, buffer, req) BY <1>1, <2>5, <2>6, Goes
  <2>8. QED BY <2>1, <2>7 DEF g
<1>5. QED BY <1>2, <1>3, <1>4

LEMMA InvalidateProceeds ==
  ASSUME NEW fl, NEW f, NEW req, Busy(fl, f, req), Serving(fl, f, req), f.job = "FEE_JOB_INVAL_BLOCK", NEW buffer
  PROVE  Proceeds(fl, fl, f, JobNotiHandle(JobInvalBlock(f)), buffer, req)
<1> DEFINE b == f.block
           i == f.info[b]
<1>1. /\ fl \in Disks /\ RamOK(f) /\ Running(fl, f) /\ b = req.block /\ b \in Block /\ req # NoRequest
  BY BusyIs
<1>2. NoneAtDone(f) /\ f.mem = NoAccess /\ req.job = "FEE_JOB_INVAL_BLOCK" BY NotAtDone, ServingIs
<1>3. CASE i.status # "FEE_BLOCK_INVALID"
  <2> DEFINE m == SetFlag(i.cluster, i.validHdr, "invalid")
  <2>1. JobInvalBlock(f) = Start(f, m, "FEE_JOB_INVAL_BLOCK_DONE") BY <1>3 DEF JobInvalBlock
  <2> HIDE DEF m
  <2>2. "FEE_JOB_INVAL_BLOCK_DONE" \in JobType \ {"FEE_JOB_WRITE_DONE"} BY DEF JobType
  <2>3. /\ JobNotiHandle(Start(f, m, "FEE_JOB_INVAL_BLOCK_DONE")).status = "MEMIF_BUSY"
        /\ SameInfo(f, JobNotiHandle(Start(f, m, "FEE_JOB_INVAL_BLOCK_DONE")))
    BY <1>2, <2>2, StartedIs
  <2>4. QED BY <2>1, <2>3, Goes
<1>4. CASE i.status = "FEE_BLOCK_INVALID"
  <2> DEFINE g == JobNotiHandle(End(f, "MEMIF_JOB_OK"))
  <2>1. JobInvalBlock(f) = End(f, "MEMIF_JOB_OK") BY <1>4 DEF JobInvalBlock
  <2>2. g.result = "MEMIF_JOB_OK" /\ SameInfo(f, g) BY <1>2, EndedIs DEF Results
  <2>3. StoredIn(fl)[b] = Nothing BY <1>1, <1>2, <1>4, KnownStored DEF NoneAtDone
  <2> HIDE DEF g
  <2>4. FitsIn(StoredIn(fl), StoredIn(fl), DoubtIn(f, req), Incons(g), g.result, ValueOf(buffer), req)
    BY <1>1, <1>2, <2>2, <2>3 DEF FitsIn
  <2>5. Proceeds(fl, fl, f, g, buffer, req) BY <2>2, <2>4, Goes
  <2>6. QED BY <2>1, <2>5 DEF g
<1>5. QED BY <1>3, <1>4

\* A job that the main function starts goes on, or its answer fits.
LEMMA MainProceeds ==
  ASSUME NEW fl, NEW f, NEW req, FeeInv(fl, f, req), f.status # "MEMIF_UNINIT",
         f.result = "MEMIF_JOB_PENDING", f.job \in StartingJobs, NEW buffer
  PROVE  Proceeds(fl, fl, f, JobNotiHandle(Dispatch(f)), buffer, req)
<1>1. RamOK(f) BY DEF FeeInv
<1>2. CASE req = NoRequest BY <1>1, <1>2, DispatchInfo, Goes DEF StartingJobs
<1>3. CASE req # NoRequest
  <2>1. Busy(fl, f, req) /\ Serving(fl, f, req) BY <1>3 DEF FeeInv, Busy, Disks
  <2>2. f.job # "FEE_JOB_INT_SCAN" BY <2>1, ServingIs DEF SwapJobs
  <2>3. CASE f.job = "FEE_JOB_READ" BY <2>1, <2>3, ReadProceeds DEF Dispatch
  <2>4. CASE f.job = "FEE_JOB_WRITE" BY <2>1, <2>4, WriteProceeds DEF Dispatch
  <2>5. CASE f.job = "FEE_JOB_INVAL_BLOCK" BY <2>1, <2>5, InvalidateProceeds DEF Dispatch
  <2>6. CASE f.job = "FEE_JOB_ERASE_IMMEDIATE"
    BY <2>1, <2>6, NotAtDone, ServingIs, HeaderProceeds DEF SameStatus, Dispatch, JobEraseImmediate
  <2>7. QED BY <2>2, <2>3, <2>4, <2>5, <2>6 DEF StartingJobs
<1>4. QED BY <1>2, <1>3

LEMMA ClearedInfo ==
  ASSUME NEW f, RamOK(f)
  PROVE  LET h == Cleared(f)
         IN  /\ DOMAIN h = RamFields /\ DOMAIN h.info = Block /\ h.info = f.info /\ h.job = f.job
             /\ h.block = f.block /\ h.status = f.status /\ SameInfo(f, h) /\ RamOK(h)
  BY ClearedIs DEF RamOK, Core, SameInfo

LEMMA TakeInfo ==
  ASSUME NEW f, DOMAIN f = RamFields, DOMAIN f.info = Block, f.block \in Block
  PROVE  LET g == TakeRecord(f)
         IN  /\ DOMAIN g = RamFields
             /\ \A x \in Block \ {f.block} : g.info[x] = f.info[x]
  BY DEF TakeRecord, RamFields

LEMMA NotedInfo ==
  ASSUME NEW f, DOMAIN f = RamFields, DOMAIN f.info = Block, NEW b \in Block, NEW s
  PROVE  LET g == Noted(f, b, s)
         IN  /\ DOMAIN g = RamFields
             /\ \A x \in Block \ {b} : g.info[x] = f.info[x]
             /\ g.info[b] = [f.info[b] EXCEPT !.status = s]
  BY DEF Noted, RamFields

LEMMA StartPending ==
  ASSUME NEW f, DOMAIN f = RamFields, NEW m, NEW job
  PROVE  LET g == Start(f, m, job)
         IN  /\ JobNotiHandle(g) = g /\ g.result = "MEMIF_JOB_PENDING" /\ g.job = job /\ SameInfo(f, g)
<1> DEFINE g == Start(f, m, job)
<1>1. g.result = "MEMIF_JOB_PENDING" /\ g.job = job BY DEF Start, RamFields
<1>2. SameInfo(f, g) BY StartInfo
<1> HIDE DEF g
<1>3. JobNotiHandle(g) = g BY <1>1, NotiIs
<1>4. QED BY <1>1, <1>2, <1>3 DEF g

LEMMA PendingBusy ==
  ASSUME NEW fl, NEW g, NEW req, Ready(fl, g, req), req # NoRequest, g.result = "MEMIF_JOB_PENDING"
  PROVE  g.status = "MEMIF_BUSY"
  BY DEF Ready, Busy

\* The steps of a swap before its last leave the blocks as they are.
LEMMA SwapGoes ==
  ASSUME NEW h, DOMAIN h = RamFields, h.job \in SwapJobs \ {"FEE_JOB_INT_SWAP_CLUSTER_VLD_DONE"}, NEW buffer
  PROVE  \E s, m, job : JobSchedule(h, buffer) = Start(s, m, job) /\ SameInfo(h, s)
<1>0. SameInfo(h, h) BY DEF SameInfo
<1>1. CASE h.job = "FEE_JOB_INT_SWAP_CLUSTER_CLEAR"
  BY <1>0, <1>1 DEF JobSchedule, JobIntSwapClusterClear
<1>2. CASE h.job = "FEE_JOB_INT_SWAP_BLOCK"
  <2> DEFINE b == Min({x \in Carried(h) : x >= h.swap.block})
             n == IF h.info[b].status = "FEE_BLOCK_VALID" THEN b ELSE b + 1
             d == h.swap.dataAddr - FeeBlockSize[b]
             p == h.swap.hdrAddr + 1
             s == [h EXCEPT !.swap.block = n, !.swap.dataAddr = d, !.swap.hdrAddr = p]
  <2>1. JobSchedule(h, buffer) = JobIntSwapBlock(h) BY <1>2 DEF JobSchedule
  <2>2. \/ \E m, job : JobIntSwapBlock(h) = Start(h, m, job)
        \/ \E m, job : JobIntSwapBlock(h) = Start(s, m, job)
    BY DEF JobIntSwapBlock, JobIntSwapClusterVld
  <2>3. SameInfo(h, s)
    <3> HIDE DEF n, d, p
    <3>1. QED BY DEF SameInfo, RamFields
  <2> HIDE DEF s
  <2>4. QED BY <1>0, <2>1, <2>2, <2>3
<1>3. CASE h.job = "FEE_JOB_INT_SWAP_DATA_READ" BY <1>0, <1>3 DEF JobSchedule, JobIntSwapDataRead
<1>4. CASE h.job = "FEE_JOB_INT_SWAP_DATA_WRITE" BY <1>0, <1>4 DEF JobSchedule, JobIntSwapDataWrite
<1>5. CASE h.job = "FEE_JOB_INT_SWAP_BLOCK_VLD"
  <2> DEFINE n == h.swap.block + 1
             s == [h EXCEPT !.swap.block = n]
  <2>1. \E m, job : JobSchedule(h, buffer) = Start(s, m, job)
    BY <1>5 DEF JobSchedule, JobIntSwapBlockVldWrite
  <2>2. SameInfo(h, s)
    <3> HIDE DEF n
    <3>1. QED BY DEF SameInfo, RamFields
  <2> HIDE DEF s
  <2>3. QED BY <2>1, <2>2
<1>6. QED BY <1>1, <1>2, <1>3, <1>4, <1>5 DEF SwapJobs

\* The last one keeps the status of each block.
LEMMA SwapMoves ==
  ASSUME NEW h, RamOK(h), h.job = "FEE_JOB_INT_SWAP_CLUSTER_VLD_DONE", h.swap.preJob = "FEE_JOB_WRITE" => h.block \notin FeeImmediateData,
         NEW buffer
  PROVE  \E s, m, job : JobSchedule(h, buffer) = Start(s, m, job) /\ DOMAIN s = RamFields /\ SameStatus(h, s)
<1> DEFINE g == Moved(h)
<1>1. RamOK(g) /\ g.job = h.swap.preJob /\ g.block = h.block /\ g.info = MovedInfo(h) BY MovedIs
<1>2. JobSchedule(h, buffer) = IF g.job = "FEE_JOB_WRITE" THEN JobWrite(g) ELSE JobEraseImmediate(g)
  BY SwapDoneIs DEF JobSchedule
<1> HIDE DEF g
<1>3. \E next : JobSchedule(h, buffer) = JobWriteHdr(g, next)
  BY <1>1, <1>2 DEF JobWrite, JobEraseImmediate
<1>4. PICK next : JobSchedule(h, buffer) = JobWriteHdr(g, next) BY <1>3
<1>5. SameStatus(h, g)
  <2>1. ASSUME NEW x \in Block
        PROVE  MovedInfo(h)[x].status = h.info[x].status
    <3>1. CASE x \in Carried(h)
      <4>1. MovedInfo(h)[x] = [status |-> h.info[x].status, cluster |-> h.swap.cluster,
                               dataAddr |-> Room(h, x + 1), validHdr |-> Place(h, x)]
        BY <3>1, MovedInfoIs
      <4>2. QED BY <4>1
    <3>2. CASE x \notin Carried(h) BY <3>2, MovedInfoIs
    <3>3. QED BY <3>1, <3>2
  <2>2. QED BY <1>1, <2>1 DEF SameStatus
<1>6. DOMAIN g = RamFields BY <1>1 DEF RamOK
<1> DEFINE c == (g.cluster + 1) % ClusterCount
           w == [cluster |-> c, block |-> 0, dataAddr |-> FeeClusterLength, hdrAddr |-> 1, preJob |-> g.job]
           s == [g EXCEPT !.swap = w]
<1>7. \/ \E m, job : JobWriteHdr(g, next) = Start(s, m, job)
      \/ \E m, job : JobWriteHdr(g, next) = Start(g, m, job)
  BY DEF JobWriteHdr, JobIntSwap
<1> HIDE DEF w
<1>8. DOMAIN s = RamFields /\ SameStatus(h, s) BY <1>5, <1>6, SwapInfo DEF SameStatus, SameInfo
<1> HIDE DEF s
<1>9. QED BY <1>4, <1>5, <1>6, <1>7, <1>8

LEMMA SwapProceeds ==
  ASSUME NEW f, NEW req, Busy(flash, f, req), Serving(flash, f, req), f.job \in SwapJobs, NEW fl2,
         NEW buffer, Ready(fl2, MemHwAbJobEndHandle(Cleared(f), buffer), req), NEW val
  PROVE  Proceeds(flash, fl2, f, MemHwAbJobEndHandle(Cleared(f), buffer), val, req)
<1> DEFINE h == Cleared(f)
           g == MemHwAbJobEndHandle(h, buffer)
<1>1. RamOK(f) /\ req # NoRequest /\ f.block = req.block BY BusyIs
<1>2. /\ RamOK(h) /\ DOMAIN h = RamFields /\ h.info = f.info /\ h.job = f.job /\ h.block = f.block /\ h.swap = f.swap
  BY <1>1, ClearedInfo, ClearedIs
<1>3. f.swap.preJob = req.job
      /\ (req.job = "FEE_JOB_WRITE" => f.block \notin FeeImmediateData)
  BY ServingIs
<1> HIDE DEF h
<1>4. g = JobNotiHandle(JobSchedule(h, buffer)) BY <1>2 DEF MemHwAbJobEndHandle, SwapJobs
<1>5. \E s, m, job : JobSchedule(h, buffer) = Start(s, m, job) /\ DOMAIN s = RamFields /\ SameStatus(h, s)
  <2>1. CASE f.job = "FEE_JOB_INT_SWAP_CLUSTER_VLD_DONE" BY <1>2, <1>3, <2>1, SwapMoves
  <2>2. CASE f.job # "FEE_JOB_INT_SWAP_CLUSTER_VLD_DONE"
    <3>1. PICK s, m, job : JobSchedule(h, buffer) = Start(s, m, job) /\ SameInfo(h, s)
      BY <1>2, <2>2, SwapGoes
    <3>2. DOMAIN s = RamFields /\ SameStatus(h, s) BY <3>1 DEF SameInfo, SameStatus
    <3>3. QED BY <3>1, <3>2
  <2>3. QED BY <2>1, <2>2
<1>6. PICK s, m, job : JobSchedule(h, buffer) = Start(s, m, job) /\ DOMAIN s = RamFields /\ SameStatus(h, s)
  BY <1>5
<1>7. g.result = "MEMIF_JOB_PENDING" /\ SameInfo(s, g) BY <1>4, <1>6, StartPending
<1>8. SameStatus(f, g) BY <1>2, <1>6, <1>7 DEF SameStatus, SameInfo
<1>9. Ready(fl2, g, req) BY DEF h
<1> HIDE DEF g
<1>10. g.status = "MEMIF_BUSY" BY <1>1, <1>7, <1>9, PendingBusy
<1>11. f.job \notin {"FEE_JOB_WRITE_VALIDATE", "FEE_JOB_WRITE_DONE"} BY DEF SwapJobs
<1>12. Proceeds(flash, fl2, f, g, val, req) BY <1>8, <1>10, <1>11, Goes
<1>13. QED BY <1>12 DEF g, h

LEMMA Answered ==
  ASSUME NEW fl, NEW fl2, NEW f, NEW g, NEW buffer, NEW req, req # NoRequest, g.status # "MEMIF_BUSY",
         FitsIn(StoredIn(fl), StoredIn(fl2), DoubtIn(f, req), Incons(g), g.result, ValueOf(buffer), req),
         Incons(g) \subseteq DoubtIn(f, req) \cup Left(req)
  PROVE  Proceeds(fl, fl2, f, g, buffer, req)
  BY DEF Proceeds

LEMMA EndReadProceeds ==
  ASSUME NEW f, NEW req, Busy(flash, f, req), Serving(flash, f, req), f.job = "FEE_JOB_NONE"
  PROVE  Proceeds(flash, flash, f, EndRead(f), Buffer(f.mem), req)
<1> DEFINE b == f.block
           i == f.info[b]
           g == EndRead(f)
<1>1. /\ flash \in Disks /\ RamOK(f) /\ Running(flash, f) /\ b = req.block /\ b \in Block /\ req # NoRequest
  BY BusyIs
<1>2. /\ NoneAtDone(f) /\ req.job = "FEE_JOB_READ" /\ i.status = "FEE_BLOCK_VALID"
      /\ f.mem = Read(i.cluster, i.dataAddr, FeeBlockSize[b])
  BY NotAtDone, ServingIs
<1>3. StoredIn(flash)[b] \in Value /\ DataIn(flash, i.cluster, i.dataAddr, b) = StoredIn(flash)[b]
  BY <1>1, <1>2, KnownStored DEF NoneAtDone
<1>4. ValueOf(Buffer(f.mem)) = StoredIn(flash)[b] BY <1>2, <1>3, BufferIs, StoredIs DEF DataAt
<1>5. StoredIn(flash)[b] # Nothing BY <1>3, FeeConstants
<1>6. g.result = "MEMIF_JOB_OK" /\ SameInfo(f, g)
  BY <1>1 DEF EndRead, Cleared, RamOK, RamFields, SameInfo
<1> HIDE DEF g
<1>7. FitsIn(StoredIn(flash), StoredIn(flash), DoubtIn(f, req), Incons(g), g.result, ValueOf(Buffer(f.mem)), req)
  BY <1>1, <1>2, <1>4, <1>5, <1>6 DEF FitsIn
<1>8. Proceeds(flash, flash, f, g, Buffer(f.mem), req) BY <1>2, <1>6, <1>7, Goes
<1>9. QED BY <1>8 DEF g

LEMMA EndHeaderProceeds ==
  ASSUME NEW f, NEW req, Busy(flash, f, req), Serving(flash, f, req), f.job = "FEE_JOB_WRITE_DATA", NEW fl2,
         NEW buffer, Ready(fl2, MemHwAbJobEndHandle(Cleared(f), buffer), req), NEW val
  PROVE  Proceeds(flash, fl2, f, MemHwAbJobEndHandle(Cleared(f), buffer), val, req)
<1> DEFINE h == Cleared(f)
           t == TakeRecord(h)
           g == MemHwAbJobEndHandle(h, buffer)
<1>1. RamOK(f) /\ req # NoRequest /\ f.block = req.block /\ f.block \in Block /\ f.block \notin FeeImmediateData
  BY BusyIs, ServingIs
<1>2. DOMAIN h = RamFields /\ DOMAIN h.info = Block /\ h.info = f.info /\ h.job = f.job /\ h.block = f.block
  BY <1>1, ClearedInfo
<1> HIDE DEF h
<1>3. DOMAIN t = RamFields /\ \A x \in Block \ {f.block} : t.info[x] = f.info[x]
  BY <1>1, <1>2, TakeInfo
<1>4. g = JobNotiHandle(JobWriteData(h)) BY <1>2 DEF MemHwAbJobEndHandle, JobSchedule
<1>5. \E m : JobWriteData(h) = Start(t, m, "FEE_JOB_WRITE_VALIDATE") BY <1>1, <1>2 DEF JobWriteData
<1> HIDE DEF t
<1>6. g.result = "MEMIF_JOB_PENDING" /\ g.job = "FEE_JOB_WRITE_VALIDATE" /\ SameInfo(t, g)
  BY <1>3, <1>4, <1>5, StartPending
<1>7. Ready(fl2, g, req) BY DEF h
<1> HIDE DEF g
<1>8. g.status = "MEMIF_BUSY" BY <1>1, <1>6, <1>7, PendingBusy
<1>9. \A x \in Block \ {f.block} : g.info[x] = f.info[x] BY <1>3, <1>6 DEF SameInfo
<1>10. DoubtIn(g, req) \subseteq DoubtIn(f, req) BY <1>1, <1>6, <1>9 DEF DoubtIn
<1>11. Proceeds(flash, fl2, f, g, val, req) BY <1>8, <1>10 DEF Proceeds
<1>12. QED BY <1>11 DEF g, h

LEMMA EndEraseProceeds ==
  ASSUME NEW f, NEW req, Busy(flash, f, req), Serving(flash, f, req), f.job = "FEE_JOB_ERASE_IMMEDIATE_DONE", NEW fl2,
         NEW buffer, NEW val
  PROVE  Proceeds(flash, fl2, f, MemHwAbJobEndHandle(Cleared(f), buffer), val, req)
<1> DEFINE h == Cleared(f)
           t == TakeRecord(h)
           e == End(t, "MEMIF_JOB_OK")
           g == MemHwAbJobEndHandle(h, buffer)
<1>1. RamOK(f) /\ req # NoRequest /\ f.block = req.block /\ f.block \in Block /\ req.job = "FEE_JOB_ERASE_IMMEDIATE"
  BY BusyIs, ServingIs
<1>2. DOMAIN h = RamFields /\ DOMAIN h.info = Block /\ h.info = f.info /\ h.job = f.job /\ h.block = f.block
  BY <1>1, ClearedInfo
<1> HIDE DEF h
<1>3. DOMAIN t = RamFields /\ \A x \in Block \ {f.block} : t.info[x] = f.info[x]
  BY <1>1, <1>2, TakeInfo
<1>4. g = JobNotiHandle(e) BY <1>2 DEF MemHwAbJobEndHandle, JobSchedule, JobEraseImmediateDone
<1> HIDE DEF t
<1>5. e.result = "MEMIF_JOB_OK" /\ SameInfo(t, e) /\ DOMAIN e = RamFields
  BY <1>3, StartInfo DEF End, RamFields, SameInfo
<1> HIDE DEF e
<1>6. g = Idled(e) BY <1>4, <1>5, NotiIs
<1>7. g.result = "MEMIF_JOB_OK" /\ g.status = "MEMIF_IDLE" /\ g.info = e.info
  BY <1>5, <1>6 DEF Idled, RamFields
<1> HIDE DEF g
<1>8. \A x \in Block \ {f.block} : g.info[x] = f.info[x] BY <1>3, <1>5, <1>7 DEF SameInfo
<1>9. Incons(g) \subseteq DoubtIn(f, req) \cup Left(req) BY <1>1, <1>8 DEF Incons, DoubtIn, Left
<1>10. FitsIn(StoredIn(flash), StoredIn(fl2), DoubtIn(f, req), Incons(g), g.result, ValueOf(val), req)
  BY <1>1, <1>7 DEF FitsIn
<1>11. Proceeds(flash, fl2, f, g, val, req) BY <1>1, <1>7, <1>9, <1>10, Answered
<1>12. QED BY <1>11 DEF g, h

LEMMA EndDataProceeds ==
  ASSUME NEW f, NEW req, Busy(flash, f, req), Serving(flash, f, req), f.job = "FEE_JOB_WRITE_VALIDATE", NEW fl2,
         NEW buffer, Ready(fl2, MemHwAbJobEndHandle(Cleared(f), buffer), req), NEW val
  PROVE  Proceeds(flash, fl2, f, MemHwAbJobEndHandle(Cleared(f), buffer), val, req)
<1> DEFINE h == Cleared(f)
           g == MemHwAbJobEndHandle(h, buffer)
<1>1. RamOK(f) /\ req # NoRequest BY BusyIs
<1>2. DOMAIN h = RamFields /\ h.info = f.info /\ h.job = f.job BY <1>1, ClearedInfo
<1> HIDE DEF h
<1>3. g = JobNotiHandle(JobWriteValidate(h)) BY <1>2 DEF MemHwAbJobEndHandle, JobSchedule
<1>4. \E m : JobWriteValidate(h) = Start(h, m, "FEE_JOB_WRITE_DONE") BY DEF JobWriteValidate
<1>5. g.result = "MEMIF_JOB_PENDING" /\ g.job = "FEE_JOB_WRITE_DONE" /\ SameInfo(h, g)
  BY <1>2, <1>3, <1>4, StartPending
<1>6. Ready(fl2, g, req) BY DEF h
<1> HIDE DEF g
<1>7. g.status = "MEMIF_BUSY" BY <1>1, <1>5, <1>6, PendingBusy
<1>8. SameInfo(f, g) BY <1>2, <1>5 DEF SameInfo
<1>9. DoubtIn(g, req) \subseteq DoubtIn(f, req) BY <1>5, <1>8, DoubtStays
<1>10. Proceeds(flash, fl2, f, g, val, req) BY <1>7, <1>9 DEF Proceeds
<1>11. QED BY <1>10 DEF g, h

LEMMA NotedEnd ==
  ASSUME NEW f, RamOK(f), f.block \in Block, NEW s \in BlockStatuses
  PROVE  LET g == JobNotiHandle(End(Noted(Cleared(f), f.block, s), "MEMIF_JOB_OK"))
         IN  /\ g.result = "MEMIF_JOB_OK" /\ g.status = "MEMIF_IDLE"
             /\ g.info[f.block].status = s
             /\ \A x \in Block \ {f.block} : g.info[x] = f.info[x]
<1> DEFINE h == Cleared(f)
           v == Noted(h, f.block, s)
           e == End(v, "MEMIF_JOB_OK")
           g == JobNotiHandle(e)
<1>1. DOMAIN h = RamFields /\ DOMAIN h.info = Block /\ h.info = f.info BY ClearedInfo
<1>2. f.info[f.block] \in Infos BY DEF RamOK
<1> HIDE DEF h
<1>3. /\ DOMAIN v = RamFields /\ \A x \in Block \ {f.block} : v.info[x] = f.info[x]
      /\ v.info[f.block] = [f.info[f.block] EXCEPT !.status = s]
  BY <1>1, NotedInfo
<1> HIDE DEF v
<1>4. v.info[f.block].status = s BY <1>2, <1>3 DEF Infos
<1>5. e.result = "MEMIF_JOB_OK" /\ e.info = v.info /\ DOMAIN e = RamFields
  BY <1>3 DEF End, RamFields
<1> HIDE DEF e
<1>6. g = Idled(e) BY <1>5, NotiIs
<1>7. g.result = "MEMIF_JOB_OK" /\ g.status = "MEMIF_IDLE" /\ g.info = v.info
  BY <1>5, <1>6 DEF Idled, RamFields
<1> HIDE DEF g
<1>8. /\ g.result = "MEMIF_JOB_OK" /\ g.status = "MEMIF_IDLE"
      /\ g.info[f.block].status = s
      /\ \A x \in Block \ {f.block} : g.info[x] = f.info[x]
  BY <1>3, <1>4, <1>7
<1>9. QED BY <1>8 DEF g, e, v, h

LEMMA EndValidProceeds ==
  ASSUME NEW f, NEW req, Busy(flash, f, req), Serving(flash, f, req), f.job = "FEE_JOB_WRITE_DONE", NEW fl2,
         GetsValid(flash, fl2, f, f.block),
         NEW buffer, NEW val
  PROVE  Proceeds(flash, fl2, f, MemHwAbJobEndHandle(Cleared(f), buffer), val, req)
<1> DEFINE h == Cleared(f)
           g == MemHwAbJobEndHandle(h, buffer)
<1>0. req.job = "FEE_JOB_WRITE" BY ServingIs
<1>1. RamOK(f) /\ req # NoRequest /\ f.block = req.block /\ f.block \in Block /\ f.data = req.value
  BY BusyIs
<1>2. h.job = f.job /\ h.block = f.block BY <1>1, ClearedInfo
<1> HIDE DEF h
<1>3. g = JobNotiHandle(End(Noted(Cleared(f), f.block, "FEE_BLOCK_VALID"), "MEMIF_JOB_OK"))
  BY <1>2 DEF MemHwAbJobEndHandle, JobSchedule, JobWriteDone, Noted, h
<1> HIDE DEF g
<1>4. /\ g.result = "MEMIF_JOB_OK" /\ g.status = "MEMIF_IDLE"
      /\ g.info[f.block].status = "FEE_BLOCK_VALID"
      /\ \A x \in Block \ {f.block} : g.info[x] = f.info[x]
  BY <1>1, <1>3, NotedEnd DEF BlockStatuses
<1>5. StoredIn(fl2)[f.block] = req.value BY <1>1, ValidStores
<1>6. f.block \notin Incons(g) BY <1>4 DEF Incons
<1>7. Incons(g) \subseteq DoubtIn(f, req) \cup Left(req)
  BY <1>0, <1>1, <1>4 DEF Incons, DoubtIn, Left
<1>8. FitsIn(StoredIn(flash), StoredIn(fl2), DoubtIn(f, req), Incons(g), g.result, ValueOf(val), req)
  BY <1>0, <1>1, <1>4, <1>5, <1>6 DEF FitsIn
<1>9. Proceeds(flash, fl2, f, g, val, req) BY <1>1, <1>4, <1>7, <1>8, Answered
<1>10. QED BY <1>9 DEF g, h

LEMMA EndInvalidProceeds ==
  ASSUME NEW f, NEW req, Busy(flash, f, req), Serving(flash, f, req), f.job = "FEE_JOB_INVAL_BLOCK_DONE", NEW fl2,
         GetsInvalid(flash, fl2, f, f.block),
         NEW buffer, NEW val
  PROVE  Proceeds(flash, fl2, f, MemHwAbJobEndHandle(Cleared(f), buffer), val, req)
<1> DEFINE h == Cleared(f)
           g == MemHwAbJobEndHandle(h, buffer)
<1>0. req.job = "FEE_JOB_INVAL_BLOCK" BY ServingIs
<1>1. RamOK(f) /\ req # NoRequest /\ f.block = req.block /\ f.block \in Block BY BusyIs
<1>2. h.job = f.job /\ h.block = f.block BY <1>1, ClearedInfo
<1> HIDE DEF h
<1>3. g = JobNotiHandle(End(Noted(Cleared(f), f.block, "FEE_BLOCK_INVALID"), "MEMIF_JOB_OK"))
  BY <1>2 DEF MemHwAbJobEndHandle, JobSchedule, JobInvalBlockDone, Noted, h
<1> HIDE DEF g
<1>4. /\ g.result = "MEMIF_JOB_OK" /\ g.status = "MEMIF_IDLE"
      /\ g.info[f.block].status = "FEE_BLOCK_INVALID"
      /\ \A x \in Block \ {f.block} : g.info[x] = f.info[x]
  BY <1>1, <1>3, NotedEnd DEF BlockStatuses
<1>5. StoredIn(fl2)[f.block] = Nothing BY InvalidStores
<1>6. Incons(g) \subseteq DoubtIn(f, req) \cup Left(req)
  BY <1>0, <1>1, <1>4 DEF Incons, DoubtIn, Left
<1>7. FitsIn(StoredIn(flash), StoredIn(fl2), DoubtIn(f, req), Incons(g), g.result, ValueOf(val), req)
  BY <1>0, <1>1, <1>4, <1>5 DEF FitsIn
<1>8. Proceeds(flash, fl2, f, g, val, req) BY <1>1, <1>4, <1>6, <1>7, Answered
<1>9. QED BY <1>8 DEF g, h

LEMMA ScanInfo ==
  ASSUME NEW f, DOMAIN f = RamFields, NEW x, NEW y
  PROVE  /\ SameInfo(f, f)
         /\ SameInfo(f, [f EXCEPT !.idx = x])
         /\ SameInfo(f, [f EXCEPT !.useId = x, !.cluster = y])
         /\ SameInfo(f, [f EXCEPT !.hdrAddr = x])
         /\ SameInfo(f, [f EXCEPT !.hdrAddr = x, !.dataAddr = y])
         /\ SameInfo(f, [f EXCEPT !.dataAddr = x])
         /\ SameInfo(f, [f EXCEPT !.cluster = x, !.useId = 1, !.hdrAddr = 1, !.dataAddr = y])
  BY DEF SameInfo, RamFields

LEMMA ClusterDoneInfo ==
  ASSUME NEW f, DOMAIN f = RamFields
  PROVE  SameInfo(f, JobIntScanClusterDone(f))
<1> DEFINE g == [f EXCEPT !.idx = 0]
           h == [f EXCEPT !.hdrAddr = 1, !.dataAddr = FeeClusterLength]
<1>1. SameInfo(f, g) /\ SameInfo(f, h) BY ScanInfo
<1>2. \/ \E m, job : JobIntScanClusterDone(f) = Start(g, m, job)
      \/ \E m, job : JobIntScanClusterDone(f) = Start(h, m, job)
  BY DEF JobIntScanClusterDone, JobIntScanBlockHdrRead
<1> HIDE DEF g, h
<1>3. DOMAIN g = RamFields /\ DOMAIN h = RamFields BY <1>1 DEF SameInfo
<1>4. SameInfo(g, JobIntScanClusterDone(f)) \/ SameInfo(h, JobIntScanClusterDone(f))
  BY <1>2, <1>3, StartInfo
<1>5. QED BY <1>1, <1>4, SameInfoOn

LEMMA ClusterHdrInfo ==
  ASSUME NEW f, DOMAIN f = RamFields, NEW buffer
  PROVE  SameInfo(f, JobIntScanClusterHdrGet(f, buffer))
<1> DEFINE newer == buffer # <<>> /\ UnpackClusterHdr(buffer[1]) /\ buffer[1].use > f.useId
           use == buffer[1].use
           c == f.idx
           g == IF newer THEN [f EXCEPT !.useId = use, !.cluster = c] ELSE f
           x == [g EXCEPT !.idx = 0]
           n == f.idx + 1
           y == [g EXCEPT !.idx = n]
           r == JobIntScanClusterHdrGet(f, buffer)
<1>1. \/ r = JobIntScanClusterDone(x)
      \/ \E m, job : r = Start(y, m, job)
  BY DEF JobIntScanClusterHdrGet, JobIntScanClusterHdrRead
<1> HIDE DEF newer, use, c, r, n
<1>2. SameInfo(f, g) BY ScanInfo
<1> HIDE DEF g
<1>3. DOMAIN g = RamFields BY <1>2 DEF SameInfo
<1>4. SameInfo(g, x) /\ SameInfo(g, y) BY <1>3, ScanInfo
<1> HIDE DEF x, y
<1>5. DOMAIN x = RamFields /\ DOMAIN y = RamFields /\ SameInfo(f, x) /\ SameInfo(f, y)
  BY <1>2, <1>4, SameInfoOn DEF SameInfo
<1>6. SameInfo(x, r) \/ SameInfo(y, r) BY <1>1, <1>5, ClusterDoneInfo, StartInfo
<1>7. SameInfo(f, r) BY <1>5, <1>6, SameInfoOn
<1>8. QED BY <1>7 DEF r

Fewer(f, g) == DOMAIN g = RamFields /\ Incons(g) \subseteq Incons(f)

LEMMA FewerOn ==
  ASSUME NEW f, NEW g, NEW h, Fewer(f, g), SameInfo(g, h)
  PROVE  Fewer(f, h)
  BY DEF Fewer, SameInfo, Incons

LEMMA NoteFewer ==
  ASSUME NEW f, DOMAIN f = RamFields, DOMAIN f.info = Block, NEW hdr, NEW s, s # "FEE_BLOCK_INCONSISTENT"
  PROVE  Fewer(f, NoteRecord(f, hdr, s))
<1> DEFINE i == [status |-> s, cluster |-> f.cluster, dataAddr |-> hdr.addr, validHdr |-> f.hdrAddr]
           a == hdr.addr
           b == hdr.block
           g == [f EXCEPT !.dataAddr = a]
           h == [g EXCEPT !.info[b] = i]
<1>1. NoteRecord(f, hdr, s) \in {f, g, h} BY DEF NoteRecord
<1>2. i.status = s OBVIOUS
<1> HIDE DEF i, a, b
<1>3. SameInfo(f, f) /\ SameInfo(f, g) BY ScanInfo
<1> HIDE DEF g
<1>4. DOMAIN g = RamFields /\ g.info = f.info BY <1>3 DEF SameInfo
<1>5. DOMAIN h = RamFields /\ \A x \in Block : h.info[x] = f.info[x] \/ h.info[x] = i
  BY <1>4 DEF RamFields
<1> HIDE DEF h
<1>6. Fewer(f, f) /\ Fewer(f, g) /\ Fewer(f, h) BY <1>2, <1>4, <1>5 DEF Fewer, Incons
<1>7. QED BY <1>1, <1>6

LEMMA BlockHdrFewer ==
  ASSUME NEW f, DOMAIN f = RamFields, DOMAIN f.info = Block, NEW buffer
  PROVE  Fewer(f, JobIntScanBlockHdrGet(f, buffer))
<1> DEFINE s == UnpackBlockHdr(buffer)
           n == f.hdrAddr + 1
           t == NoteRecord(f, buffer[1], s)
           x == [f EXCEPT !.hdrAddr = n]
           y == [t EXCEPT !.hdrAddr = n]
           r == JobIntScanBlockHdrGet(f, buffer)
<1>1. s # "FEE_BLOCK_INCONSISTENT" BY DEF UnpackBlockHdr
<1>2. \/ r = End(f, "MEMIF_JOB_OK")
      \/ \E m, job : r = Start(x, m, job)
      \/ \E m, job : r = Start(y, m, job)
  BY DEF JobIntScanBlockHdrGet, JobIntScanBlockHdrRead
<1> HIDE DEF s, r, n
<1>3. Fewer(f, t) BY <1>1, NoteFewer
<1> HIDE DEF t
<1>4. Fewer(f, f) /\ SameInfo(f, x) BY ScanInfo DEF Fewer
<1>5. SameInfo(t, y) BY <1>3, ScanInfo DEF Fewer
<1> HIDE DEF x, y
<1>6. Fewer(f, x) /\ Fewer(f, y) BY <1>3, <1>4, <1>5, FewerOn
<1>7. SameInfo(f, r) \/ SameInfo(x, r) \/ SameInfo(y, r) BY <1>2, <1>6, StartInfo DEF Fewer
<1>8. Fewer(f, r) BY <1>4, <1>6, <1>7, FewerOn
<1>9. QED BY <1>8 DEF r

\* The scan leaves no block half known.
LEMMA ScanProceeds ==
  ASSUME NEW f, ScanBusy(flash, f), f.mem # NoAccess, NEW fl2, NEW buffer, NEW val
  PROVE  Proceeds(flash, fl2, f, MemHwAbJobEndHandle(Cleared(f), buffer), val, NoRequest)
<1> DEFINE h == Cleared(f)
           j == JobSchedule(h, buffer)
           g == MemHwAbJobEndHandle(h, buffer)
<1>1. RamOK(f) /\ Scanning(flash, f) BY DEF ScanBusy
<1>2. DOMAIN h = RamFields /\ DOMAIN h.info = Block /\ h.info = f.info /\ h.job = f.job
  BY <1>1, ClearedInfo
<1> HIDE DEF h
<1>3. f.job \in {"FEE_JOB_INT_SCAN_CLUSTER_HDR_GET", "FEE_JOB_INT_SCAN_CLUSTER_CLEAR",
                 "FEE_JOB_INT_SCAN_CLUSTER_CLEAR_DONE", "FEE_JOB_INT_SCAN_BLOCK_HDR_GET"}
  BY <1>1, ScanningIs
<1>4. g = JobNotiHandle(j) BY <1>2, <1>3 DEF MemHwAbJobEndHandle
<1>5. Fewer(h, j)
  <2>0. Fewer(h, h) BY <1>2 DEF Fewer
  <2>1. CASE f.job = "FEE_JOB_INT_SCAN_CLUSTER_HDR_GET"
    BY <1>2, <2>0, <2>1, ClusterHdrInfo, FewerOn DEF JobSchedule
  <2>2. CASE f.job = "FEE_JOB_INT_SCAN_CLUSTER_CLEAR"
    BY <1>2, <2>0, <2>2, StartInfo, FewerOn DEF JobSchedule, JobIntScanClusterClear
  <2>3. CASE f.job = "FEE_JOB_INT_SCAN_CLUSTER_CLEAR_DONE"
    <3> DEFINE c == h.idx
               y == [h EXCEPT !.cluster = c, !.useId = 1, !.hdrAddr = 1, !.dataAddr = FeeClusterLength]
    <3>1. j = End(y, "MEMIF_JOB_OK") BY <1>2, <2>3 DEF JobSchedule, JobIntScanClusterClearDone
    <3> HIDE DEF c
    <3>2. SameInfo(h, y) BY <1>2, ScanInfo
    <3> HIDE DEF y
    <3>3. SameInfo(y, j) BY <3>1, <3>2, StartInfo DEF SameInfo
    <3>4. QED BY <2>0, <3>2, <3>3, FewerOn
  <2>4. CASE f.job = "FEE_JOB_INT_SCAN_BLOCK_HDR_GET" BY <1>2, <2>4, BlockHdrFewer DEF JobSchedule
  <2>5. QED BY <1>3, <2>1, <2>2, <2>3, <2>4
<1> HIDE DEF j
<1>6. Fewer(h, g) BY <1>4, <1>5, StartInfo, FewerOn DEF Fewer
<1>7. DoubtIn(g, NoRequest) \subseteq DoubtIn(f, NoRequest) BY <1>2, <1>6 DEF Fewer, Incons, DoubtIn
<1> HIDE DEF g
<1>8. Proceeds(flash, fl2, f, g, val, NoRequest) BY <1>7 DEF Proceeds
<1>9. QED BY <1>8 DEF g, h

\* What follows a flash request: the job goes on, or its answer fits.
LEMMA EndProceeds ==
  ASSUME NEW f, NEW req, FeeInv(flash, f, req), f.mem # NoAccess
  PROVE  Proceeds(flash, Completed(f.mem), f, MemHwAbJobEndHandle(Cleared(f), Buffer(f.mem)), Buffer(f.mem), req)
<1> DEFINE fl2 == Completed(f.mem)
           buffer == Buffer(f.mem)
<1>1. Ready(fl2, MemHwAbJobEndHandle(Cleared(f), buffer), req) BY AnyOutcome DEF Outcome
<1>2. CASE f.status = "MEMIF_BUSY_INTERNAL" BY <1>2, ScanProceeds DEF FeeInv, ScanBusy, Disks
<1>3. CASE f.status = "MEMIF_BUSY"
  <2>1. Busy(flash, f, req) /\ Serving(flash, f, req) BY <1>3 DEF FeeInv, Busy, Disks
  <2>2. CASE f.job = "FEE_JOB_NONE"
    <3>1. \E c, at, n : f.mem = Read(c, at, n) BY <2>1, <2>2, ServingIs
    <3>2. fl2 = flash BY <3>1, ReadOrNone
    <3>3. Cleared(f).job = "FEE_JOB_NONE" BY <2>1, <2>2, ClearedJob DEF Busy
    <3>4. MemHwAbJobEndHandle(Cleared(f), buffer) = EndRead(f)
      BY <3>3 DEF MemHwAbJobEndHandle, EndRead
    <3>5. QED BY <2>1, <2>2, <3>2, <3>4, EndReadProceeds
  <2> HIDE DEF fl2, buffer
  <2>3. CASE f.job = "FEE_JOB_WRITE_DATA" BY <1>1, <2>1, <2>3, EndHeaderProceeds DEF fl2, buffer
  <2>4. CASE f.job = "FEE_JOB_ERASE_IMMEDIATE_DONE" BY <2>1, <2>4, EndEraseProceeds DEF fl2, buffer
  <2>5. CASE f.job = "FEE_JOB_WRITE_VALIDATE" BY <1>1, <2>1, <2>5, EndDataProceeds DEF fl2, buffer
  <2>6. CASE f.job = "FEE_JOB_WRITE_DONE"
    BY <2>1, <2>6, ValidOutcome, EndValidProceeds DEF fl2, buffer
  <2>7. CASE f.job = "FEE_JOB_INVAL_BLOCK_DONE"
    BY <2>1, <2>7, InvalidOutcome, EndInvalidProceeds DEF fl2, buffer
  <2>8. CASE f.job \in SwapJobs BY <1>1, <2>1, <2>8, SwapProceeds DEF fl2, buffer
  <2>9. CASE f.job \in {"FEE_JOB_READ", "FEE_JOB_WRITE", "FEE_JOB_ERASE_IMMEDIATE", "FEE_JOB_INVAL_BLOCK"}
    BY <2>1, <2>9, ServingIs
  <2>10. QED BY <2>1, <2>2, <2>3, <2>4, <2>5, <2>6, <2>7, <2>8, <2>9, ServingIs
<1>4. CASE f.status \notin {"MEMIF_BUSY", "MEMIF_BUSY_INTERNAL"} BY <1>4 DEF FeeInv
<1>5. QED BY <1>2, <1>3, <1>4

-----------------------------------------------------------------------------
(* Every step is one of the store, or none. *)

LEMMA DoubtIs ==
  Doubtful = DoubtIn(fee, request) /\ Doubtful' = DoubtIn(fee', request')
BY DEF Doubtful, DoubtIn

LEMMA StoreSettles ==
  ASSUME SettlesIn(StoredIn(flash), StoredIn(flash'), DoubtIn(fee, request), request)
  PROVE  Store!Settles
BY StoredIs, DoubtIs DEF SettlesIn, Store!Settles, Store!Writes, Store!Drops

LEMMA StoreStays ==
  ASSUME flash' = flash
  PROVE  Stored' = Stored /\ SettlesIn(StoredIn(flash), StoredIn(flash'), DoubtIn(fee, request), request)
BY StoredIs, SameSettles, StoresStay

LEMMA SettledDoubt ==
  ASSUME NEW g, RamOK(g)
  PROVE  DoubtIn(Settled(g), NoRequest) = Incons(g)
BY SettledIs DEF Core, DoubtIn, Incons

\* The new RAM and the notification of NvM are a step of the store.
LEMMA StoreSteps ==
  ASSUME NEW g, NEW buffer, Becomes(g, buffer), RamOK(g),
         SettlesIn(StoredIn(flash), StoredIn(flash'), DoubtIn(fee, request), request),
         Proceeds(flash, flash', fee, g, buffer, request)
  PROVE  Store!Work \/ Store!Reply
<1>1. Store!Settles BY StoreSettles
<1>2. Stored = StoredIn(flash) /\ Stored' = StoredIn(flash') BY StoredIs
<1>3. Doubtful = DoubtIn(fee, request) /\ Doubtful' = DoubtIn(fee', request') BY DoubtIs
<1>4. CASE request # NoRequest /\ g.status # "MEMIF_BUSY"
  <2>1. /\ fee' = Settled(g) /\ request' = NoRequest
        /\ answer' = [result |-> g.result,
                      value |-> IF request.job = "FEE_JOB_READ" /\ g.result = "MEMIF_JOB_OK"
                                THEN ValueOf(buffer) ELSE Nothing]
    BY <1>4 DEF Becomes, Settled
  <2>2. Doubtful' = Incons(g) BY <1>3, <2>1, SettledDoubt
  <2>3. /\ FitsIn(Stored, Stored', Doubtful, Doubtful', g.result, ValueOf(buffer), request)
        /\ Doubtful' \subseteq Doubtful \cup Left(request)
    BY <1>2, <1>3, <1>4, <2>2 DEF Proceeds
  <2>4. /\ answer'.result = g.result
        /\ request.job = "FEE_JOB_READ" /\ g.result = "MEMIF_JOB_OK" => answer'.value = ValueOf(buffer)
    BY <2>1
  <2>5. Store!Fits(request.block)
    <3> DEFINE D2 == Doubtful'
               S2 == Stored'
               a == answer'
    <3>1. FitsIn(Stored, S2, Doubtful, D2, g.result, ValueOf(buffer), request) BY <2>3
    <3>2. /\ a.result = g.result
          /\ request.job = "FEE_JOB_READ" /\ g.result = "MEMIF_JOB_OK" => a.value = ValueOf(buffer)
      BY <2>4
    <3> HIDE DEF D2, S2, a
    <3>3. \/ a.result \in {"MEMIF_JOB_FAILED", "MEMIF_JOB_CANCELED"}
          \/ /\ a.result = "MEMIF_JOB_OK"
             /\ request.job = "FEE_JOB_WRITE" => S2[request.block] = request.value /\ request.block \notin D2
             /\ request.job = "FEE_JOB_INVAL_BLOCK" => S2[request.block] = Nothing
             /\ request.job = "FEE_JOB_READ" => a.value = Stored[request.block] /\ Stored[request.block] # Nothing
          \/ /\ request.job = "FEE_JOB_READ"
             /\ \/ a.result = "MEMIF_BLOCK_INVALID" /\ Stored[request.block] = Nothing
                \/ a.result = "MEMIF_BLOCK_INCONSISTENT" /\ request.block \in Doubtful
      BY <3>1, <3>2 DEF FitsIn
    <3>4. \/ a.result \in {"MEMIF_JOB_FAILED", "MEMIF_JOB_CANCELED"}
          \/ /\ a.result = "MEMIF_JOB_OK"
             /\ CASE request.job = "FEE_JOB_WRITE" -> S2[request.block] = request.value /\ request.block \notin D2
                  [] request.job = "FEE_JOB_INVAL_BLOCK" -> S2[request.block] = Nothing
                  [] request.job = "FEE_JOB_READ" -> a.value = Stored[request.block] /\ Stored[request.block] # Nothing
                  [] OTHER -> TRUE
          \/ /\ request.job = "FEE_JOB_READ"
             /\ \/ a.result = "MEMIF_BLOCK_INVALID" /\ Stored[request.block] = Nothing
                \/ a.result = "MEMIF_BLOCK_INCONSISTENT" /\ request.block \in Doubtful
      BY <3>3
    <3>5. QED BY <3>4 DEF Store!Fits, D2, S2, a
  <2>6. Doubtful' \subseteq Doubtful \cup
          (IF request.job \in {"FEE_JOB_WRITE", "FEE_JOB_ERASE_IMMEDIATE"} THEN {request.block} ELSE {})
    BY <2>3 DEF Left
  <2>7. QED BY <1>1, <1>4, <2>1, <2>5, <2>6 DEF Store!Reply, Store!NoRequest, NoRequest
<1>5. CASE ~ (request # NoRequest /\ g.status # "MEMIF_BUSY")
  BY <1>1, <1>3, <1>5 DEF Becomes, Proceeds, Store!Work
<1>6. QED BY <1>4, <1>5

LEMMA MainStores ==
  ASSUME Inv, MainFunction
  PROVE  Store!Work \/ Store!Reply
<1> DEFINE g == JobNotiHandle(Dispatch(fee))
<1>1. /\ fee.status # "MEMIF_UNINIT" /\ fee.result = "MEMIF_JOB_PENDING" /\ fee.job \in StartingJobs
      /\ Becomes(g, <<>>) /\ flash' = flash
  BY DEF MainFunction
<1>2. FeeInv(flash, fee, request) BY DEF Inv
<1>3. Ready(flash, g, request) BY <1>1, <1>2, MainReady
<1>4. Proceeds(flash, flash, fee, g, <<>>, request) BY <1>1, <1>2, MainProceeds
<1> HIDE DEF g
<1>5. RamOK(g) BY <1>3 DEF Ready
<1>6. Proceeds(flash, flash', fee, g, <<>>, request) BY <1>1, <1>4
<1>7. SettlesIn(StoredIn(flash), StoredIn(flash'), DoubtIn(fee, request), request)
  BY <1>1, StoreStays
<1>8. QED BY <1>1, <1>5, <1>6, <1>7, StoreSteps

LEMMA EndStores ==
  ASSUME Inv, JobEndNotification
  PROVE  Store!Work \/ Store!Reply
<1> DEFINE buffer == Buffer(fee.mem)
           g == MemHwAbJobEndHandle(Cleared(fee), buffer)
<1>1. fee.mem # NoAccess /\ flash' = Completed(fee.mem) /\ Becomes(g, buffer)
  BY DEF JobEndNotification, Buffer, Cleared
<1>2. FeeInv(flash, fee, request) BY DEF Inv
<1>3. Ready(Completed(fee.mem), g, request) BY <1>1, <1>2, AnyOutcome DEF Outcome
<1>4. Proceeds(flash, Completed(fee.mem), fee, g, buffer, request) BY <1>1, <1>2, EndProceeds
<1> HIDE DEF g, buffer
<1>5. RamOK(g) BY <1>3 DEF Ready
<1>6. Proceeds(flash, flash', fee, g, buffer, request) BY <1>1, <1>4
<1>7. flash' \in Interrupted(fee.mem) BY <1>1 DEF Interrupted
<1>8. SettlesIn(StoredIn(flash), StoredIn(flash'), DoubtIn(fee, request), request)
  BY <1>2, <1>7, AllSettle
<1>9. QED BY <1>1, <1>5, <1>6, <1>8, StoreSteps

LEMMA ErrorStores ==
  ASSUME Inv, JobErrorNotification, Spared
  PROVE  Store!Work \/ Store!Reply
<1> DEFINE g == Failed(fee)
<1>1. fee.mem # NoAccess /\ flash' = flash /\ Becomes(MemHwAbJobErrorHandle(Cleared(fee)), <<>>)
  BY DEF JobErrorNotification, Cleared
<1>2. fee.job \notin {"FEE_JOB_WRITE_DONE", "FEE_JOB_INT_SCAN_CLUSTER_HDR_GET", "FEE_JOB_INT_SCAN_BLOCK_HDR_GET"}
  BY DEF JobErrorNotification, Spared
<1>3. FeeInv(flash, fee, request) /\ RamOK(fee) BY DEF Inv, FeeInv
<1>4. MemHwAbJobErrorHandle(Cleared(fee)) = g BY <1>1, <1>2, <1>3, ErrorReady
<1>5. /\ RamOK(g) /\ Core(fee, g) /\ g.result = "MEMIF_JOB_FAILED"
      /\ g.status = IF fee.status = "MEMIF_BUSY_INTERNAL" THEN "MEMIF_UNINIT" ELSE "MEMIF_IDLE"
  BY <1>3, FailedIs
<1> HIDE DEF g
<1>6. Incons(g) = Incons(fee) BY <1>5 DEF Incons, Core
<1>7. Proceeds(flash, flash', fee, g, <<>>, request)
  <2>1. CASE request = NoRequest BY <1>6, <2>1 DEF DoubtIn, Incons, Proceeds
  <2>2. CASE request # NoRequest
    <3>1. Busy(flash, fee, request) /\ Serving(flash, fee, request)
      BY <1>3, <2>2 DEF Inv, FeeInv, Busy, Disks
    <3>2. fee.job = "FEE_JOB_WRITE_DONE" \/ fee.job = "FEE_JOB_WRITE_VALIDATE" => request.job = "FEE_JOB_WRITE"
      BY <3>1, ServingIs
    <3>3. Incons(g) \subseteq DoubtIn(fee, request) \cup Left(request)
      BY <1>6, <3>2 DEF Incons, DoubtIn, Left
    <3>4. FitsIn(StoredIn(flash), StoredIn(flash'), DoubtIn(fee, request), Incons(g), g.result, ValueOf(<<>>), request)
      BY <1>5 DEF FitsIn
    <3>5. g.status # "MEMIF_BUSY" BY <1>5
    <3>6. QED BY <2>2, <3>3, <3>4, <3>5, Answered
  <2>3. QED BY <2>1, <2>2
<1>8. SettlesIn(StoredIn(flash), StoredIn(flash'), DoubtIn(fee, request), request)
  BY <1>1, StoreStays
<1>9. QED BY <1>1, <1>4, <1>5, <1>7, <1>8, StoreSteps

LEMMA CancelStores ==
  ASSUME Inv, FeeCancel, Spared
  PROVE  Store!Work \/ Store!Reply
<1> DEFINE g == Canceled(fee)
<1>1. fee.status = "MEMIF_BUSY" /\ flash' \in Interrupted(fee.mem) /\ Becomes(g, <<>>)
  BY DEF FeeCancel, Canceled
<1>2. fee.job \notin {"FEE_JOB_WRITE_VALIDATE", "FEE_JOB_WRITE_DONE"} BY DEF FeeCancel, Spared
<1>3. FeeInv(flash, fee, request) /\ RamOK(fee) BY DEF Inv, FeeInv
<1>4. /\ RamOK(g) /\ Core(fee, g) /\ g.result = "MEMIF_JOB_CANCELED" BY <1>3, CanceledIs
<1> HIDE DEF g
<1>5. SameStatus(fee, g) BY <1>4 DEF SameStatus, Core
<1>6. FitsIn(StoredIn(flash), StoredIn(flash'), DoubtIn(fee, request), Incons(g), g.result, ValueOf(<<>>), request)
  BY <1>4 DEF FitsIn
<1>7. Proceeds(flash, flash', fee, g, <<>>, request) BY <1>2, <1>5, <1>6, Goes
<1>8. SettlesIn(StoredIn(flash), StoredIn(flash'), DoubtIn(fee, request), request)
  BY <1>1, <1>3, AllSettle
<1>9. QED BY <1>1, <1>4, <1>7, <1>8, StoreSteps

LEMMA PowerLossStores ==
  ASSUME Inv, PowerLoss
  PROVE  Store!PowerOff
<1>1. flash' \in Interrupted(fee.mem) /\ fee' = Off /\ request' = NoRequest /\ answer' = NoAnswer
  BY DEF PowerLoss
<1>2. SettlesIn(StoredIn(flash), StoredIn(flash'), DoubtIn(fee, request), request)
  BY <1>1, AllSettle DEF Inv
<1>3. Store!Settles BY <1>2, StoreSettles
<1>4. Doubtful' = {} BY <1>1, DoubtIs, InitialIs DEF DoubtIn
<1>5. QED
  BY <1>1, <1>3, <1>4 DEF Store!PowerOff, Store!NoRequest, NoRequest, Store!NoAnswer, NoAnswer

LEMMA FeeInitStores ==
  ASSUME Inv, FeeInit
  PROVE  UNCHANGED Store!storeVars
BY DoubtIs, InitialIs, StoreStays DEF FeeInit, Inv, FeeInv, DoubtIn, Store!storeVars

LEMMA RequestStores ==
  ASSUME Inv, NEW job, NEW b \in Block, NEW v, Request(job, b, v),
         job \in {"FEE_JOB_READ", "FEE_JOB_WRITE", "FEE_JOB_INVAL_BLOCK", "FEE_JOB_ERASE_IMMEDIATE"}
  PROVE  Store!Submit
<1>1. /\ fee.status = "MEMIF_IDLE" /\ fee' = Asked(fee, job, b, v)
      /\ request' = [job |-> job, block |-> b, value |-> v] /\ answer' = NoAnswer /\ flash' = flash
  BY DEF Request, Asked
<1>2. RamOK(fee) /\ request = NoRequest BY <1>1 DEF Inv, FeeInv
<1>3. fee'.info = fee.info /\ fee'.job = job BY <1>1, <1>2 DEF Asked, RamOK, RamFields
<1>4. Doubtful' = Doubtful
  <2>1. DoubtIn(fee', request') = DoubtIn(fee, request)
    <3> DEFINE f2 == fee'
               r2 == request'
    <3>1. f2.info = fee.info /\ f2.job = job BY <1>3
    <3> HIDE DEF f2, r2
    <3>2. DoubtIn(f2, r2) = DoubtIn(fee, request) BY <1>2, <3>1 DEF DoubtIn
    <3>3. QED BY <3>2 DEF f2, r2
  <2>2. QED BY <2>1, DoubtIs
<1>5. Stored' = Stored BY <1>1, StoreStays
<1>6. request' # NoRequest BY <1>1 DEF NoRequest
<1>7. QED
  BY <1>1, <1>2, <1>4, <1>5, <1>6 DEF Store!Submit, Store!NoRequest, NoRequest, Store!NoAnswer, NoAnswer

LEMMA NextStores ==
  ASSUME Inv, [Next]_feeVars, Spared
  PROVE  [Store!StoreNext]_(Store!storeVars)
<1>1. CASE FeeInit BY <1>1, FeeInitStores
<1>2. ASSUME NEW b \in Block,
             \/ FeeRead(b)
             \/ FeeInvalidateBlock(b)
             \/ FeeEraseImmediateBlock(b)
             \/ \E v \in Written[b] : FeeWrite(b, v)
      PROVE  Store!Submit
  BY <1>2, RequestStores DEF FeeRead, FeeInvalidateBlock, FeeEraseImmediateBlock, FeeWrite
<1>3. CASE FeeCancel BY <1>3, CancelStores DEF Store!StoreNext
<1>4. CASE MainFunction BY <1>4, MainStores DEF Store!StoreNext
<1>5. CASE JobEndNotification BY <1>5, EndStores DEF Store!StoreNext
<1>6. CASE JobErrorNotification BY <1>6, ErrorStores DEF Store!StoreNext
<1>7. CASE PowerLoss BY <1>7, PowerLossStores DEF Store!StoreNext
<1>8. CASE UNCHANGED feeVars BY <1>8, DoubtIs, StoreStays DEF feeVars, Store!storeVars
<1>9. QED BY <1>1, <1>2, <1>3, <1>4, <1>5, <1>6, <1>7, <1>8 DEF Next, Store!StoreNext

LEMMA InitStores ==
  ASSUME Init
  PROVE  Store!StoreInit
<1>1. /\ flash \in {[c \in Cluster |-> [a \in Address |-> Blank]]} \cup {Holding(d) : d \in Delivered}
      /\ fee = Off /\ request = NoRequest /\ answer = NoAnswer
  BY DEF Init
<1>2. Doubtful = {} BY <1>1, DoubtIs, InitialIs DEF DoubtIn
<1>3. ASSUME NEW b \in Block
      PROVE  StoredIn(flash)[b] \in Value \cup {Nothing}
  <2>1. CASE flash = [c \in Cluster |-> [a \in Address |-> Blank]]
    <3>1. 0 \in Address BY Numbers
    <3>2. \A c \in Cluster : flash[c][0] = Blank BY <2>1, <3>1
    <3>3. NoneValid(flash) BY <3>2 DEF NoneValid, ValidCluster, UnpackClusterHdr, Blank
    <3>4. QED BY <3>3, StoredNone
  <2>2. CASE \E d \in Delivered : flash = Holding(d)
    <3>1. PICK d \in Delivered : flash = Holding(d) BY <2>2
    <3>2. d \in [Block -> Value] BY FeeConstants
    <3> DEFINE h == FeeBlockSum + 1
               k == flash[0]
    <3>3. flash \in Disks /\ Layout(k, h) /\ Current(flash, 0, 1) BY <3>1, <3>2, HeldLayout
    <3>4. /\ \A x \in Block : k[x + 1] = HeldHeader(x)
          /\ \A i \in 1 .. FeeBlockSize[b] :
               k[DataFrom(b) + i - 1] = [kind |-> "data", value |-> d[b], part |-> i]
      BY <3>1, <3>2, HeldCells
    <3>5. /\ b \in Nat /\ b + 1 \in 1 .. h - 1 /\ FeeBlockSum \in Nat
          /\ \A e \in b + 1 + 1 .. h - 1 : e - 1 \in Block /\ e - 1 + 1 = e /\ e - 1 # b
      BY FeeConstants DEF Block
    <3>6. k[b + 1].addr = DataFrom(b) /\ IsValid(k, b + 1, b)
      <4>1. k[b + 1] = HeldHeader(b) BY <3>4
      <4> HIDE DEF k
      <4>2. HeldHeader(b).addr = DataFrom(b) /\ HeldHeader(b).kind = "block" /\ HeldHeader(b).block = b
            /\ HeldHeader(b).valid = "set" /\ HeldHeader(b).invalid = "erased"
        BY DEF HeldHeader
      <4>3. QED BY <4>1, <4>2 DEF IsValid, IsRecord, IsHeader
    <3>7. ASSUME NEW e \in b + 1 + 1 .. h - 1
          PROVE  ~ IsValid(k, e, b)
      <4>1. k[e] = HeldHeader(e - 1) /\ e - 1 # b BY <3>4, <3>5
      <4>2. QED BY <4>1 DEF HeldHeader, IsValid, IsRecord
    <3>8. Holds(k, k[b + 1].addr, b, d[b]) BY <3>4, <3>6 DEF Holds
    <3>9. d[b] \in Value BY <3>2
    <3> HIDE DEF h
    <3>10. StoredIn(flash)[b] = d[b] BY <3>3, <3>5, <3>6, <3>7, <3>8, <3>9, StoredValid
    <3>11. QED BY <3>9, <3>10
  <2>3. QED BY <1>1, <2>1, <2>2
<1>4. Stored \in [Block -> Value \cup {Nothing}] BY <1>3, StoredIs DEF StoredIn
<1>5. QED
  BY <1>1, <1>2, <1>4 DEF Store!StoreInit, Store!NoRequest, NoRequest, Store!NoAnswer, NoAnswer

(* Fee implements FeeStore: a write that was answered is what every later     *)
(* start finds, a swap moves blocks without changing one, and a power loss    *)
(* leaves each block as it was or as the request made it.                     *)
THEOREM FeeImplementsStore ==
  ASSUME Spared
  PROVE  Spec => ImplementsStore
<1>1. Init => Store!StoreInit BY InitStores
<1>2. Inv /\ [Next]_feeVars => [Store!StoreNext]_(Store!storeVars) BY NextStores
<1>3. QED BY <1>1, <1>2, FeeInvHolds, PTL DEF Spec, ImplementsStore, Store!StoreSpec

=============================================================================
