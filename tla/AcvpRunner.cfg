SPECIFICATION FairSpec
CONSTANT
  Request <- MCRequest
INVARIANT AnswersAreIsolated
INVARIANT ResponseMirrorsRequest
INVARIANT ExitCodeIsVerdict
 
PROPERTY RunEnds
