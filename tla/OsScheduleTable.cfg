SPECIFICATION TableSpec
CONSTANTS
  two = two  single = single  cyclic = cyclic
  Table = {two, single, cyclic}
  NULL = NULL
  MaxAllowedValue = 4
  TickBits = 4
  EPOffset <- MC_EPOffset
  Duration <- MC_Duration
  Repeating = {cyclic}
  Chains <- MC_Chains
  TableStarts = {1, 3}
  Risks = {}
INVARIANTS
  ScheduleTableInvariant
PROPERTIES
  ImplementsTables
