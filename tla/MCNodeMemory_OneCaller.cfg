SPECIFICATION Spec
CONSTANTS
  l1 = l1
  l2 = l2
  Lists <- TwoLists
  Callers <- TwoLists
  Bits = 5
  M = 31
  A = 13
  Seeds <- AllSeeds
  kMaxHeight = 4
  kBranching = 2
  NodeSize = 4
  LinkSize = 2
  Align = 2
  PointerSize = 2
  kBlockSize = 24
  MaxCallers = 1
  MaxBlocks = 4
INVARIANTS TypeOK PiecesDisjoint WasteBounded DrawsCycle
PROPERTY DrawsMultiply
CHECK_DEADLOCK FALSE
