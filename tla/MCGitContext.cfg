SPECIFICATION Spec
CONSTANTS
  Entries <- MCEntries
  CommitIds <- MCCommitIds
  BranchNames <- MCBranchNames
  TagNames <- MCTagNames
  Unknown = "unknown"
  Targets <- MCTargets
  MaxMoves = 2
INVARIANTS
  TypeOK
  DeltasTellTheTrees
  PatchAgreesWithDelta
  ReadsTheSource
PROPERTY
  CommitsOnlyStaged
CHECK_DEADLOCK FALSE
