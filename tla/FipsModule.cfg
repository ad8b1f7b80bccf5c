SPECIFICATION ModuleSpec
CONSTANTS
  MaxFaults <- MCMaxFaults
  Asked <- MCAsked
INVARIANT ModuleTypeOK
INVARIANT ClearedServiceIsSound
INVARIANT DerivedKeyIsTrustworthy
