SPECIFICATION Spec
CONSTANTS
  Keys = {k1, k2}
  Values = {v1}
  Clients = {c1, c2}
  Absent = Absent
  MaxOps = 2
INVARIANT
  BatchInv
PROPERTY
  BatchAtomic
