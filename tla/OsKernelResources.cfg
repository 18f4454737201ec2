SPECIFICATION Spec
CONSTANTS
  rLow = rLow  rHigh = rHigh  rIsr = rIsr  rIsr2 = rIsr2
  isrLow = isrLow  isrHigh = isrHigh  e1 = e1  e2 = e2
  TaskMax = 5
  PriorityNum = 4
  Idle = 0
  TaskPriority <- MC_TaskPriority5
  TaskActivation <- MC_Activation
  InterResCeiling <- MC_InterRes
  NonPreemptable = {3}
  AutoStart = {0, 1}
  Isr = {isrLow, isrHigh}
  IsrPrio <- MC_IsrPrio
  Resource = {rLow, rHigh, rIsr, rIsr2}
  Ceiling <- MC_Ceiling
  OccupyType <- MC_OccupyType
  TaskAccess <- MC_TaskAccess
  IsrAccess <- MC_IsrAccess
  Extended = {}
  Event = {}
  Chainers = {1, 2, 4}
  WaitServices <- MC_NoServices
INVARIANTS
  TypeOK
  IdleIsReady
  RaisedTasksAreFirst
  ActivationsAreQueued
  QueuesFit
  HighestRuns
  DispatchLockerCounts
  RunPrioIsCeiling
  OneHolder
  CeilingExcludes
  KernelInvariant
PROPERTIES
  SwitchEntersHighest
  NonPreemptableKeepsProcessor
