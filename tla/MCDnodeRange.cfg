CONSTANTS
  DN_MAX_LEVELS = 3
  WordBits = 6
  Objects <- MCObjects
  Requests <- MCRequests
SPECIFICATION FairSpec
INVARIANTS
  OnTheWay
  RangeIsObject
  OnlyDamageRefuses
PROPERTY ReadReturns
CHECK_DEADLOCK FALSE
