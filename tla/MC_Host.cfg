SPECIFICATION Spec
CONSTANTS
  Cases <- TheCases
  MaxBreaks = 1
INVARIANTS
  TypeOK
  HostRestored
  FaultContained
  LoadedIsOnDisk
  CleanupsFindNM
  HooksWork
\* a scenario that is over stays over
CHECK_DEADLOCK FALSE
