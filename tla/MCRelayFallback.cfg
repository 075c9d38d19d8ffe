SPECIFICATION FairSpec
CONSTANTS
  Signal <- OneSignal
  QueueSize = 2
  MaxSent = 1
  MaxOrphans = 0
PROPERTIES
  FastSignalNotLost
CHECK_DEADLOCK FALSE
