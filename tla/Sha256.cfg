SPECIFICATION FairSpec
CONSTANTS
  Byte <- MCByte
  Radix = 4
  ByteBits = 2
  BlockSize = 5
  LenSize = 2
  Weight <- MCWeight
  Chunk <- MCChunk
  MaxLen = 11
INVARIANT TypeOK
INVARIANT BufferHasRoom
PROPERTY RefinesHash
PROPERTY UpdateReturns
