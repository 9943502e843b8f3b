CONSTANTS
  MAX_FILE_BYTES = 4
  ObjSpan = 8
  MidSpan = 2
  Sets = {"ds1", "ds2"}
  NoZap = NoZap
  Absent = Absent
  Components = {"a", "b", "f", "s", "x"}
  Worlds <- MCWorlds
  PathCalls <- MCCalls
  MAX_DATASETS = 6
  MAX_DATASET_DEPTH = 3
  Names = {"a", "b", "$ORIGIN"}
  Objects = {1, 2, 3}
  Internal = {"$ORIGIN"}
  Root = 1
  Nothing = Nothing
  Pools <- MCPools
SPECIFICATION FairSpec
INVARIANTS
  Bounded
  ListedOnce
  Complete
PROPERTIES
  
  CallReturns
CHECK_DEADLOCK FALSE
