SPECIFICATION FairSpec
CONSTANTS
  Boxes <- MCBoxes
  UserLists <- MCLists
  MaxCells = 2
INVARIANTS
  SplitInv
  CellsInv
PROPERTIES
  SplitSettles
  CellReturns
CHECK_DEADLOCK FALSE
