CONSTANTS
  LABEL_SIZE = 2
  ARRAY_SHIFT = 14
  READ_FEATURES_UNDERSTOOD <- MCUnderstood
  REFUSED_FEATURE_TOKENS <- MCRefused
  NoUb = NoUb
  Pools <- MCPools
  Devices <- MCDevices
  InitialTree <- MCTree
  ASHIFT = 16
  LABELS = {0, 2, 4, 6}
  DEVICE_SIZE = 9
  BlankConfig <- MCBlank
  MaxClock = 3
  MaxCrashes = 2
SPECIFICATION HistorySpec
INVARIANTS
  NeverStale
  CompleteMirrorOpens
CHECK_DEADLOCK FALSE
