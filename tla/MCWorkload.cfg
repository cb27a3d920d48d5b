SPECIFICATION StreamSpec
CONSTANTS
  Runs = {a, b}
  ClientIDs = {0, 1}
  Specs <- MCAll
  Seed = 2
  Keyspace = 100
  OpsPerClient = 3
  Word = 4096
  XorBits <- MCXorBits
  ShiftRight <- MCShiftRight
  Gamma = 3093
  MulA = 1465
  MulB = 491
  ShiftA = 6
  ShiftB = 5
  ShiftC = 6
  ZipfMul = 2481
  ZipfAdd = 2453
  ZipfCut0 = 500
  ZipfCut1 = 800
  PowRank <- MCPowRank
INVARIANTS
  StreamInv
  StreamsReproducible
  MixExact
CHECK_DEADLOCK FALSE
