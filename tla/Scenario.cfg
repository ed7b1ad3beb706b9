SPECIFICATION Spec
CONSTANTS
  Kinds = {"own", "sysctl", "drain"}
  MaxScenarios = 2
  MaxSteps = 2
INVARIANTS
  VerdictRight
  FlagTellsSkip
  Emptied
CHECK_DEADLOCK FALSE
