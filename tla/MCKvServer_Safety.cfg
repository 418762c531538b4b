CONSTANTS
  r1 = r1
  r2 = r2
  r3 = r3
  k1 = k1
  k2 = k2
  Requests <- ThreeRequests
  Keys <- TwoKeys
  Values <- MCValues
  Empty = ""
  Menu <- SafetyMenu
  InitialDisk <- LoadedDisk
  Null = Null
  Garbage = Garbage
  MaxRestarts = 1
  MaxIOErrors = 1
SPECIFICATION Spec
CHECK_DEADLOCK FALSE
INVARIANTS TypeOK NothingOnlyInMemory AckedVisible LoadedUnlessFailed AnswersAligned BatchAllOrNothing
PROPERTY ClientsOwnLoadedData
SYMMETRY Symmetry
