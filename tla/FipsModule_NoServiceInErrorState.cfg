SPECIFICATION ModuleSpec
CONSTANTS
  MaxFaults <- MCMaxFaults
  Asked <- MCAsked
INVARIANT NoServiceInErrorState
