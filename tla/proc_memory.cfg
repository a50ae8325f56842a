SPECIFICATION ProcessMemorySpec
CONSTANTS
  KHEAP_MAX_ORDER = 4
  KHEAP_BLOCK_SIZE = 256
  RequestSizes <- MCSizes
  Programs <- MCPrograms
  FileSize <- MCFileSize
  MaxProcesses = 4
  MaxLost = 1
  KernelThreadsExec = FALSE
INVARIANTS
  ProcessMemoryTypeOK
  StructuresAreIntact
  UserReachesOnlyItsOwn
  EachRunsItsProgram
  KernelEntersOnItsOwnStack
