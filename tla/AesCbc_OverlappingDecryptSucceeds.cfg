SPECIFICATION Spec
CONSTANTS
  Key <- MCKey
  Rounds <- MCRounds
  MaxRounds = 2
  Byte <- MCByte
  ByteXor <- MCByteXor
  Cipher <- MCCipher
  Inverse <- MCInverse
  Cells = 8
  BlockBytes = 2
  Memory0 <- MCMemory0
  Iv <- MCIv
INVARIANT OverlappingDecryptSucceeds
