CONSTANTS
  w1 = w1
  w2 = w2
  z1 = z1
  d1 = d1
  a = a
  b = b
  Writers <- OneWriter
  Readers <- OneReader
  Removers <- None
  Members <- OneMember
  Scores <- TwoScores
  MaxNodes = 2
  kMaxHeight = 1
  Null = Null
  Uninit = Uninit
SPECIFICATION Spec
CHECK_DEADLOCK FALSE
INVARIANT MembersOnce
