SPECIFICATION MCSpec
CONSTANTS
  Path <- MCPath
  Glob <- MCGlob
  Malformed <- MCMalformed
  Matches <- MCMatches
  Rank <- MCRank
  Dir <- MCDir
  Above <- MCAbove
  Leading <- MCLeading
  Empty = ""
  Policies <- MCPolicies
  ABIs = {0, 1, 2, 3, 4, 5, 6, 8, 9, 10, 11}
  Filesystems <- MCFilesystems
  Contested <- ContestedPolicies
  MaxChanges = 1
INVARIANTS
  TypeOK
  NothingLost
  DryRunAgrees
  OnlyWhatIsAsked
  IndInv
  Compatible
  FullyHandled
  NotDowngraded
CHECK_DEADLOCK FALSE
