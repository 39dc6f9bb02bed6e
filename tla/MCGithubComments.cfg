SPECIFICATION FairSpec
CONSTANTS
  Runs <- MCRuns
  Account = "emmett2020"
  PageSize = 2
  IdSize = 8
  FirstId = 5
  MaxComments = 4
  MaxAttempts = 2
INVARIANTS
  TypeOK
  NotYetIsTrue
  OneCommentUnlessUnseen
PROPERTIES
  OverwritesOursOrNobodys
  RunsEnd
CHECK_DEADLOCK FALSE
