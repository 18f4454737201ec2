SPECIFICATION Spec
CONSTANTS
    taskA = taskA
    isrA = isrA
    taskC = taskC
    taskD = taskD
    S1 = S1
    S2 = S2
    S3 = S3
    None = None
    Cores <- MCCores
    Tasks <- MCTasks
    Isrs <- MCIsrs
    CoreOf <- MCCoreOf
    Prio <- MCPrio
    SchedulerCeiling <- MCSchedulerCeiling
    Spinlocks <- MCSpinlocks
    SpinlockOrder <- MCSpinlockOrder
    SpinlockGroupsId <- MCSpinlockGroupsId
    SpinlockMethod <- MCSpinlockMethod
    Uses <- MCUses
INVARIANT SpinlockInvariant
INVARIANT NoCircularWait
INVARIANT HolderKeepsCore
INVARIANT SchedulerIsReturned
