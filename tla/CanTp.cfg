SPECIFICATION Spec
CONSTANTS
    Nodes <- MCNodes
    Plans <- MCPlans
    Missed <- MCMissed
    N_As = 1
    N_Bs = 3
    N_Cs = 2
    N_Ar = 1
    N_Br = 2
    N_Cr = 2
    FcSTmin = 1
    Bs = 2
    RxWftMax = 1
    UINT8_VALUES = 256
    CANTP_MAX_SEQUENC_NUMBER = 1
INVARIANT CanTpInvariant
PROPERTY ImplementsTransfer
PROPERTY EveryTransferEnds
