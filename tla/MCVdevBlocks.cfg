CONSTANTS
  Features <- MCFeatures
  MAX_BLOCK_LSIZE = 3
  OffsetRange = 64
  LABEL_RESERVE = 4
  Pointers <- MCPointers
  Layouts <- MCLayouts
  NoBuf = NoBuf
  NoResult = NoResult
  Widths <- MCWidths
  Ashifts <- MCAshifts
  Offsets <- MCOffsets
  Psizes <- MCPsizes
  NPsizes = 13
  NOffsets = 88
  NoCols = NoCols
SPECIFICATION VdevSpec
INVARIANTS
  ReturnedDataIsWritten
  ErrorMeansLost
  ColumnsOnDistinctDevices
  ParityCoversData
  StripeHoldsBlock
  StripeIsContiguous
PROPERTY Terminates
CHECK_DEADLOCK FALSE
