SPECIFICATION FairSpec
CONSTANTS
  f1 = f1
  f2 = f2
  Files <- MCFiles
  Statuses <- MCStatuses
  Results <- MCResults
  Iregexes <- MCIregexes
  Inputs <- MCInputs
INVARIANT
  NumberIsThePullRequests
CHECK_DEADLOCK FALSE
