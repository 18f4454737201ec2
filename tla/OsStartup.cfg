SPECIFICATION Spec
CONSTANTS
    OS_AUTOSAR_CORES = 3
    Modes <- MCModes
    DONOTCARE = DONOTCARE
    NoMode = NoMode
    MayStopAlone <- MCMayStopAlone
\* The cores end, or stay in a loop when their modes disagree.
CHECK_DEADLOCK FALSE
INVARIANT StartupInvariant
PROPERTY EveryCoreStarts
