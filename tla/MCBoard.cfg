SPECIFICATION BoardSpec
CONSTANTS
  Meta <- MCMeta
  Commands <- MCCommands
  Slashless <- MCSlashless
  Tputs = {0, 2, 10}
  MaxFaults = 1
  Excludes = {{}, {"bbolt"}}
INVARIANTS
  BoardInv
  MedianHonest
  LatencyFromMedianRep
  ReportComplete
  ComparisonSound
CHECK_DEADLOCK FALSE
