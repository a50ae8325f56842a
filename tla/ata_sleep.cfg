SPECIFICATION AtaSpec
CONSTANTS
  p0 = p0
  p1 = p1
  p2 = p2
  AtaIrqUnmasked = TRUE
  Procs <- MCProcs
  InitProc <- p0
  Busy <- MCNone
  ATA_REQUEST_QUEUE_CAPACITY = 2
  Lbas <- MCLbas
  Sizes <- MCOne
  PollModes <- MCSleep
  DiskErrors = FALSE
SYMMETRY MCReaders
INVARIANTS
  AtaTypeOK
  ReadDeliversItsData
  RingHoldsTheReaders
  SleeperWillBeWoken
PROPERTIES
  InterruptMeansHeadIsDone
CHECK_DEADLOCK FALSE
