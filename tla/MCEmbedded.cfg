SPECIFICATION FairSpec
CONSTANTS
  Loaded = v1
  v2 = v2
  Absent = Absent
  Configs <- MCConfigs
  NKeys = 5
  Starts = {2}
  Values = {v1, v2}
  Writers = {c1, c2}
  Calls <- MCCalls
  ScanLens = {1}
  ChanCap = 1
  MaxCalls = 3
INVARIANTS
  StoreInv
  WritesSurvive
  ScanSound
PROPERTIES
  CallsReturn
