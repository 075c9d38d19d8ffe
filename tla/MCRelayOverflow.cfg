SPECIFICATION FairSpec
CONSTANTS
  Signal <- MCSignal
  QueueSize = 2
  MaxSent = 2
  MaxOrphans = 0
PROPERTIES
  EndIsReported
CHECK_DEADLOCK FALSE
