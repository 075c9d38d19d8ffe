CONSTANTS
  Name <- MCName
  Trees <- MCTrees
  Policies <- MCPolicies
  Cwd <- MCCwd
  Pwd <- MCPwd
  MaxLinks = 4
  MaxParts = 3
  MaxPort = 65535
SPECIFICATION Spec
INVARIANTS
  RelativeRulesFollowed
CHECK_DEADLOCK FALSE
