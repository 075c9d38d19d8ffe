CONSTANTS
  Name <- MCName
  Trees <- MCTrees
  Policies <- MCPolicies
  Cwd <- MCCwd
  Pwd <- MCPwd
  MaxLinks = 4
  MaxParts = 3
  MaxPort = 65535
SPECIFICATION Spec
INVARIANTS
  AliasesReadable
  GrantsFollowRules
CHECK_DEADLOCK FALSE
