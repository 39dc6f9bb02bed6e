SPECIFICATION FairSpec
CONSTANTS
  f1 = f1
  f2 = f2
  f3 = f3
  Files <- MCFiles
  Statuses <- MCStatuses
  Results <- MCResults
INVARIANTS
  TypeOK
  VerdictSound
  Accounting
  RunsOncePerRequiredFile
  FailuresReproducible
PROPERTIES
  FastExitStops
  Terminates
  RefinesVerdict
CHECK_DEADLOCK FALSE
