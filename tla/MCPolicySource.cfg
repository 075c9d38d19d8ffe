SPECIFICATION Spec
CONSTANTS
  Requests <- MCRequests
  Documents <- MCDocuments
  Path <- MCPath
  Bin <- MCBin
  Utf8 <- MCUtf8
  Filesystems <- MCFilesystems
  IntSize = 512
  MaxMode = 63
INVARIANTS
  HonoursRequest
  FlagsFit
  FittingModes
  SamePolicyReceived
CHECK_DEADLOCK FALSE
