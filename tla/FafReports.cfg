SPECIFICATION FafSpec
CONSTANTS
  MaxSteps = 2
  MaxPid = 4
  MaxCrashes = 2
  Announced = {1}
  MaxFaf = 0
  Foreign = {9}
INVARIANTS
  AlarmRight
  DumpsToldOnce
PROPERTIES
  CrashNoticed
CHECK_DEADLOCK FALSE
