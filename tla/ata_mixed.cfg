SPECIFICATION AtaSpec
CONSTANTS
  p0 = p0
  p1 = p1
  p2 = p2
  AtaIrqUnmasked = FALSE
  Procs <- MCProcs
  InitProc <- p0
  Busy <- MCBusy0
  ATA_REQUEST_QUEUE_CAPACITY = 2
  Lbas <- MCLbas
  Sizes <- MCOne
  PollModes <- MCBoth
  DiskErrors = FALSE
INVARIANTS
  ReadDeliversItsData
