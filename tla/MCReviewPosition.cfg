SPECIFICATION FairSpec
CONSTANTS
  MaxRow = 6
  MaxDiags = 2
  Patches <- MCPatches
  Rows <- MCRows
INVARIANTS
  TypeOK
  EveryShownRowOnce
  PositionLag
  PositionsKeepOrder
CHECK_DEADLOCK FALSE
