SPECIFICATION FilesSpec
CONSTANTS
  p0 = p0
  p1 = p1
  p2 = p2
  AtaIrqUnmasked = FALSE
  Procs <- MCProcs2
  InitProc <- p0
  Busy <- MCNone
  ATA_REQUEST_QUEUE_CAPACITY = 2
  Lbas <- MCLbas
  Sizes <- MCOne
  PollModes <- MCPoll
  DiskErrors = TRUE
  Volumes <- MCVolumes
  Names <- MCNames
  DriveKinds <- MCDriveKinds
  SyscallsInUse <- MCExec
  Booted = FALSE
INVARIANTS
  FilesTypeOK
  LoadsTheNamedFile
CHECK_DEADLOCK FALSE
