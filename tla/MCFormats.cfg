SPECIFICATION FormatsSpec
CONSTANTS
  OnDisk <- MCOnDisk
  Built <- MCBuilt
  Capacity = 12
  Puts <- MCPuts
  Counts = {3, 4}
  MaxPuts = 2
  MaxGets = 3
INVARIANTS
  
  DamageShows
  
  RefusedWrites
  CursorTypeOK
  ReadsTheScript
  XdrAligned
CHECK_DEADLOCK FALSE
