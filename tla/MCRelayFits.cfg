SPECIFICATION FairSpec
CONSTANTS
  Signal <- MCSignal
  QueueSize = 4
  MaxSent = 3
  MaxOrphans = 1
INVARIANTS
  TypeOK
  NothingInvented
  NoStrayKill
  ReaperAlert
PROPERTIES
  EndIsReported
  SignalsReachCommand
CHECK_DEADLOCK FALSE
