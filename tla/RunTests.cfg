SPECIFICATION Spec
CONSTANTS
  Retries = 2
  NTests = 3
INVARIANTS
  ReportsRight
  StatusHonest
  OneBehave
PROPERTIES
  LeftoversFail
  RunEnds
CHECK_DEADLOCK FALSE
