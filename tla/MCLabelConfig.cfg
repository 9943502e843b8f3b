SPECIFICATION LabelSpec
CONSTANTS
  Docs <- MCLabelDocs
  NoWord = 5000
  NotText <- MCNotText
  MaxResets = 1
INVARIANTS
  WindowsNest
  ReadsTheTree
  DamageContained
  ConfigIsTree
  
PROPERTY PairsAdvance
CHECK_DEADLOCK FALSE
