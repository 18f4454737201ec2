SPECIFICATION Spec
CONSTANTS
  v1 = v1
  v2 = v2
  ClusterCount = 2
  FeeClusterLength = 10
  FeeBlockSum = 2
  FeeBlockSize <- MCBlockSize
  FeeImmediateData <- Immediate
  Value = {v1, v2}
  Nothing = Nothing
  Written <- MCWritten
  FailingJobs = {"FEE_JOB_NONE", "FEE_JOB_WRITE_DATA", "FEE_JOB_WRITE_VALIDATE", "FEE_JOB_INVAL_BLOCK_DONE", "FEE_JOB_ERASE_IMMEDIATE_DONE", "FEE_JOB_INT_SCAN_CLUSTER_CLEAR", "FEE_JOB_INT_SCAN_CLUSTER_CLEAR_DONE", "FEE_JOB_INT_SWAP_CLUSTER_CLEAR", "FEE_JOB_INT_SWAP_BLOCK", "FEE_JOB_INT_SWAP_DATA_READ", "FEE_JOB_INT_SWAP_DATA_WRITE", "FEE_JOB_INT_SWAP_BLOCK_VLD", "FEE_JOB_INT_SWAP_CLUSTER_VLD_DONE"}
  CancelledJobs = {"FEE_JOB_READ", "FEE_JOB_WRITE", "FEE_JOB_INVAL_BLOCK", "FEE_JOB_ERASE_IMMEDIATE", "FEE_JOB_NONE", "FEE_JOB_INT_SWAP_CLUSTER_CLEAR", "FEE_JOB_INT_SWAP_BLOCK", "FEE_JOB_INT_SWAP_DATA_READ", "FEE_JOB_INT_SWAP_DATA_WRITE", "FEE_JOB_INT_SWAP_BLOCK_VLD"}
  InvalidatesAny = FALSE
  MaxRequests = 3
  Delivered <- AllV1
INVARIANTS
  ProgramsErasedOnly
  FeeInvariant
PROPERTIES
  ImplementsStore
  JobsEnd
