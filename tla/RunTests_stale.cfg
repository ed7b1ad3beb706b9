SPECIFICATION Spec
CONSTANTS
  Retries = 1
  NTests = 2
INVARIANTS
  SkipHonest
CHECK_DEADLOCK FALSE
