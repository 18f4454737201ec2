SPECIFICATION AlarmSpec
CONSTANTS
  Alarm = {a1, a2, a3}
  INVALID_ALARM = INVALID_ALARM
  MaxAllowedValue = 2
  MinCycle = 1
  TickBits = 4
  AutostartTimes = {1, 2}
  Cycles = {0, 1, 2}
  SetsReached = FALSE
  TouchesExpiring = FALSE
SYMMETRY AlarmSymmetry
INVARIANTS
  AlarmInvariant
PROPERTIES
  ExpiresOnTime
