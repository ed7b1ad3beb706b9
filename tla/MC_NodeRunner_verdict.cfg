SPECIFICATION Spec
CONSTANTS
  Suites <- TheSuites
  Jobs <- TheJobs
  Retries = 1
  MaxTries = 2
INVARIANTS SuccessIsStable
CHECK_DEADLOCK FALSE
