SPECIFICATION Spec
CONSTANTS
  Clients = {c1}
  SubBits = 7
  FloatBits = 16
  Samples = {0, 100, 127, 128, 1000}
  Bursts = {1}
  Intervals = {0}
  MaxNs = 65535
  MaxRecords = 2
INVARIANT
  PrecisionKept
