\* Cores 0 and 1 call each other and core 2, core 1 may stop.
CONSTANTS
    task0 = task0
    task1 = task1
    isr0 = isr0
    E_OK = Ok
    E_NOT_OK = NotOk
    E_OS_CORE = CoreGone
    None = None
    Cores <- MCCores
    Callers <- MCCallers
    CoreOf <- MCCoreOf
    Level <- MCLevel
    Masking <- MCMasking
    Services <- MCServices
    Stopping <- MCStopping
    OS_RPC_MAX_NODE = 2
    MaxCalls <- MCMaxCalls
    MaxCallsStopping = 3
SPECIFICATION Spec
INVARIANTS RpcInvariant
PROPERTIES ImplementsRemoteCall CallsEnd
\* The callers may have no more calls to make.
CHECK_DEADLOCK FALSE
