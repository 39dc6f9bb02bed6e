SPECIFICATION FairSpec
CONSTANTS
  Capacity = 2
  MaxWrites = 5
  Programs <- MCPrograms
INVARIANTS
  TypeOK
  Conserved
  ResultComplete
  HangsOnlyOnStderr
PROPERTIES
  EndsWhenStderrFits
CHECK_DEADLOCK FALSE
