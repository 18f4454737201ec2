------------------------------ MODULE FeeStore ------------------------------
(***************************************************************************)
(* What Fee promises NvM: a value for each block that outlives power        *)
(* losses, and one request at a time.                                       *)
(***************************************************************************)
EXTENDS Integers

CONSTANTS Block, Value, Nothing

NoRequest == [job |-> "FEE_JOB_NONE", block |-> Nothing, value |-> Nothing]
NoAnswer == [result |-> "MEMIF_JOB_PENDING", value |-> Nothing]

VARIABLES
  store,     \* the value a start would find for each block, or Nothing
  doubt,     \* blocks whose erase was accepted or whose write failed
  request,   \* the request being worked on
  answer     \* what became of the last one

storeVars == <<store, doubt, request, answer>>

Writes(b) == request.job = "FEE_JOB_WRITE" /\ request.block = b
Drops(b) ==
  b \in doubt \/ (request.job = "FEE_JOB_INVAL_BLOCK" /\ request.block = b)

(* Only the block of the request and those in doubt change. *)
Settles ==
  \E old \in {store}, new \in {store'} :
    \A b \in Block : \/ new[b] = old[b]
                     \/ Writes(b) /\ new[b] = request.value
                     \/ Drops(b) /\ new[b] = Nothing

StoreInit ==
  /\ store \in [Block -> Value \cup {Nothing}]
  /\ doubt = {}
  /\ request = NoRequest
  /\ answer = NoAnswer

Submit ==
  /\ request = NoRequest
  /\ request' # NoRequest
  /\ answer' = NoAnswer
  /\ UNCHANGED <<store, doubt>>

Work ==
  /\ UNCHANGED <<request, answer>>
  /\ doubt' \subseteq doubt
  /\ Settles

Fits(b) ==
  \/ answer'.result \in {"MEMIF_JOB_FAILED", "MEMIF_JOB_CANCELED"}
  \/ /\ answer'.result = "MEMIF_JOB_OK"
     /\ CASE request.job = "FEE_JOB_WRITE"       -> store'[b] = request.value /\ b \notin doubt'
          [] request.job = "FEE_JOB_INVAL_BLOCK" -> store'[b] = Nothing
          [] request.job = "FEE_JOB_READ"        -> answer'.value = store[b] /\ store[b] # Nothing
          [] OTHER                               -> TRUE
  \/ /\ request.job = "FEE_JOB_READ"
     /\ \/ answer'.result = "MEMIF_BLOCK_INVALID" /\ store[b] = Nothing
        \/ answer'.result = "MEMIF_BLOCK_INCONSISTENT" /\ b \in doubt

Reply ==
  /\ request # NoRequest
  /\ request' = NoRequest
  /\ Settles
  /\ Fits(request.block)
  /\ doubt' \subseteq doubt \cup
       (IF request.job \in {"FEE_JOB_WRITE", "FEE_JOB_ERASE_IMMEDIATE"}
        THEN {request.block} ELSE {})

PowerOff ==
  /\ request' = NoRequest
  /\ answer' = NoAnswer
  /\ doubt' = {}
  /\ Settles

StoreNext == Submit \/ Work \/ Reply \/ PowerOff

StoreSpec == StoreInit /\ [][StoreNext]_storeVars

=============================================================================
