SPECIFICATION Spec
CONSTANTS
  Entries <- TheEntries
  Rank <- TheRank
  Excluded = {"wifi"}
  WithBest = {"dns_best"}
  WithAll = {"all"}
  Machines = 2
  Threshold = 100
  Procs = {p1, p2}
  p1 = p1
  p2 = p2
  Events <- TheEvents
  Merges = {1}
  Diffs <- TheDiffs
  Logs <- TheLogs
INVARIANTS
  EachTestOnce
  LastIsNeeded
  RunsWhatIsAsked
  OneJobRuns
  AgainOnlyBeside
  TimesAreMeans
SYMMETRY Symmetric
\* events are not delivered for ever
CHECK_DEADLOCK FALSE
