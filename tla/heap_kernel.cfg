SPECIFICATION HeapSpec
CONSTANTS
  KHEAP_MAX_ORDER = 4
  KHEAP_BLOCK_SIZE = 256
  RequestSizes <- MCSizes
INVARIANTS
  HeapTypeOK
  HeapIsPartitioned
  AllocationsAreLargeEnough
  FreeBuddiesAreMerged
  FreeUndoesAllocate
