SPECIFICATION Spec
CONSTANTS
  Clients = {c1, c2}
  SubBits = 2
  FloatBits = 16
  Samples = {0, 9, 14, 20}
  Bursts = {1, 499}
  Intervals = {0, 3}
  MaxNs = 63
  MaxRecords = 2
INVARIANTS
  HistInv
  MergeExact
  PercentileRanked
