SPECIFICATION Spec
CONSTANTS
  f1 = f1
  f2 = f2
  k1 = k1
  k2 = k2
  k3 = k3
  v1 = v1
  v2 = v2
  c1 = c1
  c2 = c2
  c3 = c3
  Null = Null
  Torn = Torn
  Free = Free
  PartitionNum = 2
  HashCode <- Codes
  Values <- SmallValues
  Fibers <- SmallFibers
  Keys <- SmallKeys
  Cells <- SmallCells
  Ops <- OwnerOps
INVARIANTS TypeOK NodesOwned PointersStayValid
PROPERTIES CreatedOnce LinearizableMap
SYMMETRY Symmetry
