SPECIFICATION FairSpec
CONSTANTS
  p0 = p0
  p1 = p1
  p2 = p2
  p3 = p3
  AtaIrqUnmasked = FALSE
  Procs <- MCProcs4
  InitProc <- p0
  Busy <- MCBusy0
PROPERTIES
  EveryRunnerIsServed
  ImplementsFairTasks
