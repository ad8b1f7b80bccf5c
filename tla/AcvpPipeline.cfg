SPECIFICATION FairSpec
CONSTANTS
  AlgOrder <- MCAlgOrder
  Cases <- MCCases
  Fixed <- MCFixed
  MaxGen = 2
INVARIANT TypeOK
INVARIANT MakeSuccessIsReal
INVARIANT NoFalseAlarm
INVARIANT StaleNeverAccepted
PROPERTY EveryRunEnds
