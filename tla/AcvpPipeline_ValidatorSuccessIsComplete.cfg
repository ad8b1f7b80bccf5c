SPECIFICATION Spec
CONSTANTS
  AlgOrder <- MCAlgOrder
  Cases <- MCCases
  Fixed <- MCFixed
  MaxGen = 2
INVARIANT ValidatorSuccessIsComplete
