SPECIFICATION FairFilesSpec
CONSTANTS
  p0 = p0
  p1 = p1
  p2 = p2
  AtaIrqUnmasked = TRUE
  Procs <- MCProcs3
  InitProc <- p0
  Busy <- MCBusy0
  ATA_REQUEST_QUEUE_CAPACITY = 2
  Lbas <- MCLbas
  Sizes <- MCOne
  PollModes <- MCSleep
  DiskErrors = FALSE
  Volumes <- MCWithOrWithout
  Names <- MCOneName
  DriveKinds <- MCDriveKinds
  SyscallsInUse <- MCOpen
  Booted = TRUE
INVARIANTS
  OpenFindsTheFile
  LoadsTheNamedFile
PROPERTIES
  EveryReadReturns
  ImplementsScheduler
