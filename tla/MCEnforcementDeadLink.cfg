SPECIFICATION Spec
CONSTANTS
  Path <- MCPath
  Glob <- MCGlob
  Malformed <- MCMalformed
  Matches <- MCMatches
  Rank <- MCRank
  Dir <- MCDir
  Above <- MCAbove
  Leading <- MCLeading
  Empty = ""
  Policies <- QuietPolicies
  ABIs = {9}
  Filesystems <- SomeFilesystems
  Contested = {}
  MaxChanges = 0
INVARIANTS
  DeadLinksAreMissing
CHECK_DEADLOCK FALSE
