CONSTANTS
  DNODE_SIZE = 8
  DNODE_HEADER_SIZE = 1
  BLKPTR_SIZE = 2
  DNODE_MAX_SLOTS = 3
  WordSize = 104
  Dnodes <- MCDnodes
  ZAP_LEAF_HEADER_SIZE = 6
  ZAP_LEAF_CHUNK_SIZE = 6
  ZAP_LEAF_DATA_SIZE = 3
  MAX_ZAP_LEAF_BLOCKS = 4
  U64_BYTES = 2
  HashEntryShift = 5
  NotUtf8 = {9}
  Replacement = 8
  NoNext = 99
  Zaps <- HoleZaps
  Calls <- MCCalls
  ZapObjects <- HoleObjects
SPECIFICATION Spec
INVARIANT EveryLeafIsRead
CHECK_DEADLOCK FALSE
