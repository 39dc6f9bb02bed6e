SPECIFICATION FairSpec
CONSTANTS
  f1 = f1
  f2 = f2
  Files <- MCFiles
  Statuses <- MCStatuses
  Results <- MCResults
  Iregexes <- MCIregexes
  Inputs <- MCInputs
INVARIANTS
  TypeOK
  GreenMeansChecked
  ToolAsAsked
  ReportsTruthful
  NotPassedMeansFailed
  PullRequestKnown
PROPERTIES
  RunEnds
  KeepsPromise
CHECK_DEADLOCK FALSE
