SPECIFICATION Spec
CONSTANTS
  t1 = t1
  t2 = t2
  Thread <- MCThread
  PayloadEnd <- MCPayloadEnd
  Requests <- QuietRuns
  StartupSize = 2
  PipeSize = 1
INVARIANT
  NamespacesIfGranted
CHECK_DEADLOCK FALSE
