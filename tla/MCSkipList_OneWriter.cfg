CONSTANTS
  w1 = w1
  i1 = i1
  Writers <- OneWriter
  Readers <- OneReader
  Keys <- MCKeys
  Before <- MCBefore
  MaxNodes = 3
  kMaxHeight = 2
  Null = Null
  Uninit = Uninit
SPECIFICATION FairSpec
CHECK_DEADLOCK FALSE
INVARIANTS TypeOK LevelsNested
PROPERTIES LinearizableList OperationsEnd
