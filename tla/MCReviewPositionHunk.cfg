SPECIFICATION FairSpec
CONSTANTS
  MaxRow = 6
  MaxDiags = 2
  Patches <- MCPatches
  Rows <- MCRows
INVARIANT
  OnlyShownRows
CHECK_DEADLOCK FALSE
