SPECIFICATION FairSpec
CONSTANTS
  HLEN = 3
  IntMod = 4
  SaltRoom = 2
  MinSaltLen = 2
  MinIterations = 2
  SaltLen <- MCSaltLen
  Iterations <- MCIterations
  OutLen <- MCOutLen
INVARIANT TypeOK
INVARIANT KeyIsReference
INVARIANT RefusalWritesNothing
INVARIANT NoIntermediateLeft
PROPERTY EveryCallReturns
