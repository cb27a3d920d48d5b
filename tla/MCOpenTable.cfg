SPECIFICATION TableSpec
CONSTANTS
  k1 = k1
  k2 = k2
  k3 = k3
  v1 = v1
  Absent = Absent
  NoKey = NoKey
  Keys = {k1, k2, k3}
  Values = {v1, v2}
  Clients = {c1}
  Hash <- MCHash
  Designs <- MCDesigns
  InitSlots = 4
  MaxSlots = 8
  MaxBufs = 4
  Batches <- MCBatches
INVARIANTS
  TableInv
  TableMatchesOracle
  ViewStable
