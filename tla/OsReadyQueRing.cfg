SPECIFICATION RingSpec
CONSTANTS
  TaskMax = 2
  PriorityNum = 18
  QueueSize <- MC_QueueSize
  QueueLimit <- MC_QueueSize
  Used = {0, 5, 15, 17}
INVARIANT RingInvariant
PROPERTY ImplementsFifo
