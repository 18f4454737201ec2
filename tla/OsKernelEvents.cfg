SPECIFICATION Spec
CONSTANTS
  rLow = rLow  rHigh = rHigh  rIsr = rIsr  rIsr2 = rIsr2
  isrLow = isrLow  isrHigh = isrHigh  e1 = e1  e2 = e2
  TaskMax = 4
  PriorityNum = 4
  Idle = 0
  TaskPriority <- MC_TaskPriority
  TaskActivation <- MC_OneActivation
  InterResCeiling <- MC_NoInterRes
  NonPreemptable = {2}
  AutoStart = {0, 1}
  Isr = {isrLow}
  IsrPrio <- MC_IsrPrioLow
  Resource = {}
  Ceiling <- MC_NoCeiling
  OccupyType <- MC_NoOccupyType
  TaskAccess <- MC_NoTaskAccess
  IsrAccess <- MC_NoIsrAccess
  Extended = {2, 3}
  Event = {e1, e2}
  Chainers = {1, 3}
  WaitServices <- MC_OneServiceEach
INVARIANTS
  NoLostWakeup
  KernelInvariant
