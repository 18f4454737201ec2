SPECIFICATION Spec
CONSTANTS
    Cores <- MCCores
    Barriers <- MCBarriers
    Members <- MCMembers
    Program <- MCProgram
    TicketRange = 4
INVARIANT BarrierInvariant
PROPERTY ImplementsBarrier
PROPERTY EveryCorePasses
