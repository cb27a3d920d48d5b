SPECIFICATION FairSpec
CONSTANTS
  Clients = {c1, c2}
  Workers = {w1, w2}
  Keys = {k1}
  Values = {v1}
  Absent = Absent
  PipeCap = 1
  MaxCalls = 4
INVARIANTS
  AnswersInv
  PipeInv
PROPERTIES
  CallReturns
  CloseReturns
CHECK_DEADLOCK FALSE
