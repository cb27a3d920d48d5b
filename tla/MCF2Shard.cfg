SPECIFICATION FairSpec
CONSTANTS
  k1 = k1
  k2 = k2
  k3 = k3
  Absent = Absent
  NoKey = NoKey
  Readers = {r}
  Writers = {w1, w2}
  Keys = {k1, k2}
  Values = {v1, v2}
  Hash <- MCHash
  Tag <- MCTag
  InitSlots = 2
  InitBuf = 0
  Slack = 0
  MaxTabs = 3
  MaxTail = 3
INVARIANTS
  RoomKept
  TableMatchesOracle
  GetLinearizable
  IndInv
PROPERTIES
  RecordsImmutable
  OldTablesFrozen
  ImplementsMap
  GetAnswers
  MutexReleased
