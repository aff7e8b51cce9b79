SPECIFICATION MCSpec
CONSTANTS
  r1 = r1
  r2 = r2
  r3 = r3
  Refs = {r1, r2, r3}
  Scopes <- MCScopes
  Configs <- MCConfigs
  MaxCost = 1
INVARIANTS
  UnflaggedIsClean
  TurnsBounded
  PublishedIsHonest
PROPERTIES
  RunEnds
  ImplementsSequential
CHECK_DEADLOCK FALSE
