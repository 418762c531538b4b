CONSTANTS
  r1 = r1
  r2 = r2
  r3 = r3
  k1 = k1
  k2 = k2
  Requests <- TwoRequests
  Keys <- TwoKeys
  Values <- MCValues
  Empty = ""
  Menu <- LiveMenu
  InitialDisk <- LoadedDisk
  Null = Null
  Garbage = Garbage
  MaxRestarts = 1
  MaxIOErrors = 1
SPECIFICATION FairSpec
CHECK_DEADLOCK FALSE
PROPERTIES AckedEventuallySaved EveryRequestAnswered LoadingEnds
