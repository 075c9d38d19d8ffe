SPECIFICATION FairSpec
CONSTANTS
  t1 = t1
  t2 = t2
  Thread <- MCThread
  PayloadEnd <- MCPayloadEnd
  Requests <- AllRequests
  StartupSize = 2
  PipeSize = 1
INVARIANTS
  IndInv
  Confined
  AtMostOnce
  CleanFallback
  NoChildLeftBehind
  NoFalseSuccess
  NamespacesIfGranted
PROPERTIES
  Implements
  Settles
  EndIsReported
  NoOrphan
CHECK_DEADLOCK FALSE
