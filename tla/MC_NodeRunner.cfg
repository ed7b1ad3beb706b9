SPECIFICATION Spec
CONSTANTS
  Suites <- TheSuites
  Jobs <- TheJobs
  Retries = 1
  MaxTries = 2
INVARIANTS
  TypeOK
  TestsOnPrepared
  ReportsWhole
  FailureTold
  SessionsReturned
  PipelineSettled
PROPERTIES JobEnds
\* a job that is over stays over, and a blocked child blocks the runner
CHECK_DEADLOCK FALSE
