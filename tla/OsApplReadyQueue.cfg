SPECIFICATION ApplSpec
CONSTANTS
  TaskMax = 3
  PriorityNum = 3
  QueueSize <- MC_BigRing
  QueueLimit <- MC_OnePlaceFree
  Used = {2}
PROPERTIES
  RemovesOnlyTheTask
