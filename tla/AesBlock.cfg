SPECIFICATION Spec
CONSTANTS
  Key <- MCKey
  Block <- MCBlock
  Known <- MCKnown
INVARIANT TypeOK
INVARIANT ScheduleIsExpansion
INVARIANT DecryptMirrors
INVARIANT PublishedCiphertext
INVARIANT SboxIsStandard
