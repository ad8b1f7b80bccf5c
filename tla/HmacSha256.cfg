SPECIFICATION HmacSpec
CONSTANTS
  Byte <- MCByte
  Radix = 4
  ByteBits = 2
  BlockSize = 4
  LenSize = 2
  Weight <- MCWeight
  Key <- MCKey
  Chunk <- MCChunk
  MaxLen = 8
  DigestSize = 2
  Junk <- MCJunk
INVARIANT OneShotIsReference
INVARIANT OnlyCurrentKeyHeld
PROPERTY MacIsReference
