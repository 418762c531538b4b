SPECIFICATION FairSpec
CONSTANTS
  r1 = r1
  r2 = r2
  w1 = w1
  w2 = w2
  Readers <- TwoReaders
  Writers <- TwoWriters
  Fibers <- TheFibers
  Mutexes <- TheMutexes
  Conditions <- TheConditions
  Events <- NoEvents
  kMaxReaders = 5
  Null = Null
CHECK_DEADLOCK FALSE
INVARIANTS TypeOK ReadersAccounted ChecksHold MutexesExclude
PROPERTIES ImplementsRwLock WritersServed ReadersServed
