CONSTANTS
  LABEL_SIZE = 2
  ARRAY_SHIFT = 14
  READ_FEATURES_UNDERSTOOD <- MCUnderstood
  REFUSED_FEATURE_TOKENS <- MCRefused
  NoUb = NoUb
  Pools <- MCPools
SPECIFICATION FairSpec
INVARIANTS
  NewestWins
  ChildrenAreTheirMembers
  OpenedMeansUnderstood
PROPERTY ImportEnds
CHECK_DEADLOCK FALSE
