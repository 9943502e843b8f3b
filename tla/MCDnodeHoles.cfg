CONSTANTS
  DN_MAX_LEVELS = 3
  WordBits = 6
  Objects <- FreedObjects
  Requests <- MCRequests
SPECIFICATION Spec
INVARIANT HolesReadAsZeros
CHECK_DEADLOCK FALSE
