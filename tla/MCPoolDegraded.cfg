CONSTANTS
  LABEL_SIZE = 2
  ARRAY_SHIFT = 14
  READ_FEATURES_UNDERSTOOD <- MCUnderstood
  REFUSED_FEATURE_TOKENS <- MCRefused
  NoUb = NoUb
  Pools <- DegradedPools
SPECIFICATION Spec
INVARIANT DegradedMeansTwoLost
CHECK_DEADLOCK FALSE
