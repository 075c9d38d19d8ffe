SPECIFICATION Spec
CONSTANTS
  Char <- MCChar
  Name <- MCName
  Plumbing <- MCPlumbing
  Public = "POLICY"
  Dyld <- MCDyld
  Launches <- MCLaunches
INVARIANTS
  EnvironmentOnce
  PathEdits
  DescriptorsKept
  PipesFound
CHECK_DEADLOCK FALSE
