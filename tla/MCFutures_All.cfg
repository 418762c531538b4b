SPECIFICATION FairSpec
CONSTANTS
  MaxTasks = 4
  handler = handler
  all = all
  result = result
  Fibers <- TheFibers
  Events <- TheEvents
  Mutexes <- None
  Conditions <- None
  Null = Null
CHECK_DEADLOCK FALSE
INVARIANTS TypeOK ChecksHold ReceiverAlive
PROPERTIES ImplementsForkJoin HandlerReturns
