CONSTANTS
  r1 = r1
  r2 = r2
  r3 = r3
  k1 = k1
  k2 = k2
  Requests <- TwoRequests
  Keys <- TwoKeys
  Values <- MCValues
  Empty = ""
  Menu <- DeleteMenu
  InitialDisk <- EmptyDisk
  Null = Null
  Garbage = Garbage
  MaxRestarts = 1
  MaxIOErrors = 0
SPECIFICATION Spec
CHECK_DEADLOCK FALSE
INVARIANT DeletedStaysDeleted
