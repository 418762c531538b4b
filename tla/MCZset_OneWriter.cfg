CONSTANTS
  w1 = w1
  w2 = w2
  z1 = z1
  d1 = d1
  a = a
  b = b
  Writers <- OneWriter
  Readers <- OneReader
  Removers <- OneRemover
  Members <- TwoMembers
  Scores <- TwoScores
  MaxNodes = 3
  kMaxHeight = 2
  Null = Null
  Uninit = Uninit
SPECIFICATION Spec
CHECK_DEADLOCK FALSE
INVARIANTS TypeOK RangeSorted RangeComplete
SYMMETRY Symmetry
