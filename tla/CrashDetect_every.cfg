SPECIFICATION Spec
CONSTANTS
  MaxSteps = 3
  MaxPid = 3
  MaxCrashes = 1
  Announced = {1}
PROPERTIES
  ComparedAfterEveryStep
CHECK_DEADLOCK FALSE
