---------------------------- MODULE AesCbcProofs ----------------------------
(***************************************************************************)
(* Proofs about AesCbc for every set of keys and bytes, every keyed        *)
(* permutation, block size and memory, and every distance of the buffers.  *)
(* The argument about the two loops is that a write never reaches a byte   *)
(* of the input that is still to be read: for encryption it suffices that  *)
(* the output does not begin inside the input past its start; decryption   *)
(* reads the current block a second time after the write.                  *)
(***************************************************************************)
EXTENDS AesCbc, TLAPS

Deciphered(k, b) == IF k = "zero" THEN b ELSE Inverse[k][b]

(* The iv of a call is a block.                                            *)
IvIsBlock == call.iv \in Block

(* Only the bytes of the output that have had their turn have changed.     *)
RestKept ==
    pc # "idle" =>
      \A p \in 0 .. Cells - 1 :
        (p < call.out \/ call.out + i <= p) => mem[p] = before[p]

(* The blocks done are encrypted, and prev is the latest of them.          *)
EncryptProgress ==
    (pc = "encrypt" /\ EncryptFits) =>
      /\ \A x \in BlockStarts(i) :
           BlockAt(mem, call.out + x) =
             Ciphertext(key, Xor(BlockAt(before, call.in + x),
                                 IF x = 0 THEN call.iv
                                 ELSE BlockAt(mem, call.out + (x - BlockBytes))))
      /\ prev = IF i = 0 THEN call.iv ELSE BlockAt(mem, call.out + (i - BlockBytes))

(* The blocks done are decrypted, and prev is the latest block read, as it *)
(* was at the call, if there is another block to come.                     *)
DecryptProgress ==
    (pc = "decrypt" /\ DecryptFits) =>
      /\ \A x \in BlockStarts(i) :
           BlockAt(mem, call.out + x) =
             Xor(Deciphered(key, BlockAt(before, call.in + x)),
                 IF x = 0 THEN call.iv ELSE BlockAt(before, call.in + (x - BlockBytes)))
      /\ i < call.len =>
           prev = IF i = 0 THEN call.iv ELSE BlockAt(before, call.in + (i - BlockBytes))

IInv == /\ TypeOK
        /\ IvIsBlock
        /\ ScheduleIsCurrent
        /\ NoKeyAfterZeroize
        /\ RestKept
        /\ EncryptProgress
        /\ DecryptProgress

-----------------------------------------------------------------------------
(* Multiples of the block size lie at least a block apart.                 *)
LEMMA Multiples ==
    ASSUME NEW m \in Nat \ {0}, NEW a \in Nat, NEW b \in Nat, a % m = 0, b % m = 0
    PROVE  /\ a < b => a + m <= b
           /\ (a + m) % m = 0
<1> DEFINE p == a \div m   q == b \div m
           r == (a + m) \div m   s == (a + m) % m
<1>1. p \in Int /\ a = m * p
  BY SMT
<1>2. q \in Int /\ b = m * q
  BY SMT
<1>3. r \in Int /\ s \in 0 .. m - 1 /\ a + m = m * r + s
  BY SMT
<1> HIDE DEF p, q, r, s
<1>4. ASSUME a < b PROVE a + m <= b
  <2>1. m * (q - p) = b - a
    BY <1>1, <1>2, SMT
  <2>2. q - p >= 1
    <3>1. q - p <= 0 => m * (q - p) <= 0
      BY <1>1, <1>2, SMT
    <3> QED BY <3>1, <2>1, <1>1, <1>2, <1>4, SMT
  <2>3. m * (q - p) >= m
    BY <2>2, <1>1, <1>2, SMT
  <2> QED BY <2>1, <2>3, SMT
<1>5. s = 0
  <2>1. m * (p + 1 - r) = s
    BY <1>1, <1>3, SMT
  <2>2. p + 1 - r >= 1 => m * (p + 1 - r) >= m
    BY <1>1, <1>3, SMT
  <2>3. p + 1 - r <= -1 => m * (p + 1 - r) <= -m
    BY <1>1, <1>3, SMT
  <2>4. p + 1 - r = 0 => m * (p + 1 - r) = 0
    BY <1>1, <1>3, SMT
  <2> QED BY <2>1, <2>2, <2>3, <2>4, <1>1, <1>3, SMT
<1> QED BY <1>4, <1>5 DEF s

(* The multiples of the block size before i, and before the next block.    *)
LEMMA StartFacts ==
    ASSUME NEW n \in Nat, n % BlockBytes = 0
    PROVE  /\ BlockBytes \in Nat \ {0}
           /\ \A x \in BlockStarts(n) :
                /\ x \in Nat /\ x + BlockBytes <= n
                /\ x # 0 => x - BlockBytes \in Nat
           /\ \A x \in BlockStarts(n + BlockBytes) : x = n \/ x \in BlockStarts(n)
<1>1. BlockBytes \in Nat \ {0}
  BY CbcAssumption
<1>2. ASSUME NEW x \in BlockStarts(n)
      PROVE  /\ x \in Nat /\ x + BlockBytes <= n
             /\ x # 0 => x - BlockBytes \in Nat
  <2>1. x \in Nat /\ x < n /\ x % BlockBytes = 0
    BY DEF BlockStarts
  <2>2. x + BlockBytes <= n
    BY <1>1, <2>1, Multiples
  <2>3. 0 % BlockBytes = 0
    BY <1>1, SMT
  <2>4. 0 < x => 0 + BlockBytes <= x
    BY <1>1, <2>1, <2>3, Multiples
  <2> QED BY <1>1, <2>1, <2>2, <2>4
<1>3. ASSUME NEW x \in BlockStarts(n + BlockBytes) PROVE x = n \/ x \in BlockStarts(n)
  <2>1. x \in Nat /\ x < n + BlockBytes /\ x % BlockBytes = 0
    BY <1>1 DEF BlockStarts
  <2>2. n < x => n + BlockBytes <= x
    BY <1>1, <2>1, Multiples
  <2>3. x <= n
    BY <1>1, <2>1, <2>2
  <2> QED BY <2>1, <2>3 DEF BlockStarts
<1> QED BY <1>1, <1>2, <1>3

(* A block read from the memory is a block.                                *)
LEMMA ReadBlock ==
    ASSUME NEW m \in [0 .. Cells - 1 -> Byte], NEW p \in Nat, p + BlockBytes <= Cells
    PROVE  BlockAt(m, p) \in Block
<1>1. \A j \in 0 .. BlockBytes - 1 : p + j \in 0 .. Cells - 1
  BY CbcAssumption
<1> QED BY <1>1 DEF BlockAt, Block

(* Blocks of the same bytes are the same.                                  *)
LEMMA SameBlock ==
    ASSUME NEW m, NEW n, NEW p, NEW q,
           \A j \in 0 .. BlockBytes - 1 : m[p + j] = n[q + j]
    PROVE  BlockAt(m, p) = BlockAt(n, q)
BY DEF BlockAt

(* Writing a block: it can be read back, and every other byte is kept.     *)
LEMMA WriteFacts ==
    ASSUME NEW m \in [0 .. Cells - 1 -> Byte], NEW p \in Nat, p + BlockBytes <= Cells,
           NEW b \in Block
    PROVE  /\ BlockWritten(m, p, b) \in [0 .. Cells - 1 -> Byte]
           /\ BlockAt(BlockWritten(m, p, b), p) = b
           /\ \A q \in 0 .. Cells - 1 :
                (q < p \/ p + BlockBytes <= q) => BlockWritten(m, p, b)[q] = m[q]
           /\ \A q \in Nat :
                (q + BlockBytes <= Cells /\ (q + BlockBytes <= p \/ p + BlockBytes <= q))
                  => BlockAt(BlockWritten(m, p, b), q) = BlockAt(m, q)
<1> DEFINE w == BlockWritten(m, p, b)
<1>1. BlockBytes \in Nat \ {0} /\ Cells \in Nat
  BY CbcAssumption
<1>2. \A q \in 0 .. Cells - 1 :
        w[q] = IF q \in p .. p + BlockBytes - 1 THEN b[q - p] ELSE m[q]
  BY DEF BlockWritten
<1>3. w \in [0 .. Cells - 1 -> Byte]
  <2>1. \A q \in p .. p + BlockBytes - 1 : b[q - p] \in Byte
    <3>1. \A q \in p .. p + BlockBytes - 1 : q - p \in 0 .. BlockBytes - 1
      BY <1>1
    <3> QED BY <3>1 DEF Block
  <2> QED BY <2>1 DEF BlockWritten
<1> HIDE DEF w
<1>4. BlockAt(w, p) = b
  <2>1. \A j \in 0 .. BlockBytes - 1 :
          /\ p + j \in 0 .. Cells - 1 /\ p + j \in p .. p + BlockBytes - 1
          /\ (p + j) - p = j
    BY <1>1
  <2>2. \A j \in 0 .. BlockBytes - 1 : w[p + j] = b[j]
    BY <1>2, <2>1
  <2>3. b = [j \in 0 .. BlockBytes - 1 |-> b[j]]
    BY DEF Block
  <2> QED BY <2>2, <2>3 DEF BlockAt
<1>5. \A q \in 0 .. Cells - 1 : (q < p \/ p + BlockBytes <= q) => w[q] = m[q]
  BY <1>1, <1>2
<1>6. ASSUME NEW q \in Nat, q + BlockBytes <= Cells,
             q + BlockBytes <= p \/ p + BlockBytes <= q
      PROVE  BlockAt(w, q) = BlockAt(m, q)
  <2>1. \A j \in 0 .. BlockBytes - 1 :
          q + j \in 0 .. Cells - 1 /\ (q + j < p \/ p + BlockBytes <= q + j)
    BY <1>1, <1>6
  <2>2. \A j \in 0 .. BlockBytes - 1 : w[q + j] = m[q + j]
    BY <1>5, <2>1
  <2> QED BY <2>2, Zenon DEF BlockAt
<1> QED BY <1>3, <1>4, <1>5, <1>6 DEF w

(* The XOR of blocks, byte by byte, undoes itself.                         *)
LEMMA XorFacts ==
    ASSUME NEW a \in Block, NEW b \in Block
    PROVE  Xor(a, b) \in Block /\ Xor(Xor(a, b), b) = a
<1>1. \A j \in 0 .. BlockBytes - 1 :
        ByteXor(a[j], b[j]) \in Byte /\ ByteXor(ByteXor(a[j], b[j]), b[j]) = a[j]
  BY CbcAssumption DEF IsXor, Block
<1>2. a = [j \in 0 .. BlockBytes - 1 |-> a[j]]
  BY DEF Block
<1> QED BY <1>1, <1>2 DEF Xor, Block

(* The IV of no call is a block.                                           *)
LEMMA IdleCall ==
    NoCall.iv \in Block /\ NoCall.len = 0 /\ NoCall.in = 0 /\ NoCall.out = 0
<1>1. PICK b \in Byte : TRUE
  BY CbcAssumption
<1>2. [j \in 0 .. BlockBytes - 1 |-> b] \in Block
  BY DEF Block
<1>3. (CHOOSE c \in Block : TRUE) \in Block
  BY <1>2
<1> QED BY <1>3 DEF NoCall

LEMMA ZeroIsMultiple == 0 % BlockBytes = 0
BY CbcAssumption, SMT

(* A context under a current schedule enciphers with the current key.      *)
LEMMA CurrentCipher ==
    ASSUME TypeOK, ScheduleIsCurrent, NEW b \in Block
    PROVE  /\ EncryptBlock(ctx, b) = Ciphertext(key, b) /\ EncryptBlock(ctx, b) \in Block
           /\ DecryptBlock(ctx, b) = Deciphered(key, b) /\ DecryptBlock(ctx, b) \in Block
           /\ Ciphertext(key, Deciphered(key, b)) = b
<1>1. key \in Key \cup {"zero"} /\ ctx.nr \in Nat
  BY CbcAssumption DEF TypeOK
<1>2. CASE key = "zero"
  BY <1>2 DEF ScheduleIsCurrent, EncryptBlock, DecryptBlock, Ciphertext, Deciphered
<1>3. CASE key \in Key
  <2>1. key # "zero" /\ Rounds[key] \in 1 .. MaxRounds
    BY <1>3, CbcAssumption
  <2>2. ctx.nr # 0 /\ ctx.round_keys[0] = key
    BY <2>1, <1>1 DEF ScheduleIsCurrent
  <2>3. Cipher[key][b] \in Block /\ Inverse[key][b] \in Block
        /\ Cipher[key][Inverse[key][b]] = b
    BY <1>3, CbcAssumption DEF IsBlockCipher
  <2> QED
    BY <2>1, <2>2, <2>3 DEF EncryptBlock, DecryptBlock, Ciphertext, Deciphered
<1> QED BY <1>1, <1>2, <1>3

LEMMA IInvInit == Init => IInv
<1> SUFFICES ASSUME Init PROVE IInv
  OBVIOUS
<1>1. NoCall.iv \in Block /\ NoCall.len = 0 /\ NoCall.in = 0 /\ NoCall.out = 0
  BY IdleCall
<1>2. mem \in [0 .. Cells - 1 -> Byte]
  BY CbcAssumption DEF Init
<1>3. ZeroSchedule \in [0 .. MaxRounds -> Key \cup {"zero"}]
  BY DEF ZeroSchedule
<1>4. TypeOK
  BY <1>1, <1>2, <1>3, ZeroIsMultiple, CbcAssumption DEF Init, TypeOK
<1>5. IvIsBlock
  BY <1>1 DEF Init, IvIsBlock
<1>6. ScheduleIsCurrent /\ NoKeyAfterZeroize
  BY CbcAssumption DEF Init, ScheduleIsCurrent, NoKeyAfterZeroize, ZeroSchedule
<1>7. RestKept /\ EncryptProgress /\ DecryptProgress
  BY DEF Init, RestKept, EncryptProgress, DecryptProgress
<1> QED BY <1>4, <1>5, <1>6, <1>7 DEF IInv

-----------------------------------------------------------------------------
(* The operations on the context, between two calls.                       *)
LEMMA KeyStep ==
    ASSUME IInv,
           (\E k \in Key : aes_init(k)) \/ aes_init_invalid \/ aes_zeroize
    PROVE  IInv'
<1>1. pc = "idle" /\ UNCHANGED <<mem, call, i, prev, before, pc>>
  BY DEF aes_init, aes_init_invalid, aes_zeroize, idle
<1>2. RestKept' /\ EncryptProgress' /\ DecryptProgress' /\ IvIsBlock'
  BY <1>1 DEF IInv, RestKept, EncryptProgress, DecryptProgress, IvIsBlock
<1>3. CASE \E k \in Key : aes_init(k)
  <2>1. PICK k \in Key : aes_init(k)
    BY <1>3
  <2>2. /\ ctx' = [nr |-> Rounds[k],
                   round_keys |-> [r \in 0 .. MaxRounds |->
                                     IF r <= Rounds[k] THEN k ELSE ctx.round_keys[r]]]
        /\ key' = k /\ ret' = 0
    BY <2>1 DEF aes_init
  <2>3. Rounds[k] \in 1 .. MaxRounds /\ k # "zero" /\ MaxRounds \in Nat
    BY CbcAssumption
  <2>4. TypeOK'
    BY <1>1, <2>2, <2>3 DEF IInv, TypeOK
  <2>5. ScheduleIsCurrent' /\ NoKeyAfterZeroize'
    BY <2>2, <2>3 DEF ScheduleIsCurrent, NoKeyAfterZeroize
  <2> QED BY <1>2, <2>4, <2>5 DEF IInv
<1>4. CASE aes_init_invalid
  BY <1>1, <1>2, <1>4
     DEF aes_init_invalid, IInv, TypeOK, ScheduleIsCurrent, NoKeyAfterZeroize
<1>5. CASE aes_zeroize
  <2>1. /\ ctx' = [nr |-> 0, round_keys |-> ZeroSchedule]
        /\ key' = "zero" /\ ret' = ret
    BY <1>5 DEF aes_zeroize
  <2>2. MaxRounds \in Nat /\ ZeroSchedule \in [0 .. MaxRounds -> Key \cup {"zero"}]
    BY CbcAssumption DEF ZeroSchedule
  <2>4. TypeOK'
    BY <1>1, <2>1, <2>2 DEF IInv, TypeOK
  <2>3. ScheduleIsCurrent' /\ NoKeyAfterZeroize'
    BY <2>1, CbcAssumption DEF ScheduleIsCurrent, NoKeyAfterZeroize, ZeroSchedule
  <2> QED BY <1>2, <2>3, <2>4 DEF IInv
<1> QED BY <1>3, <1>4, <1>5

LEMMA BeginStep ==
    ASSUME IInv, NEW dir \in {"encrypt", "decrypt"}, NEW in \in 0 .. Cells,
           NEW out \in 0 .. Cells, NEW len \in 0 .. Cells, NEW iv \in Iv,
           Begin(dir, in, out, len, iv)
    PROVE  IInv'
<1>1. /\ pc = "idle" /\ UNCHANGED <<ctx, mem, key>>
      /\ in + len <= Cells /\ out + len <= Cells
  BY DEF Begin
<1>2. ScheduleIsCurrent' /\ NoKeyAfterZeroize'
  BY <1>1 DEF IInv, ScheduleIsCurrent, NoKeyAfterZeroize
<1>3. CASE len % BlockBytes # 0
  <2>1. ret' = -1 /\ UNCHANGED <<pc, call, i, prev, before>>
    BY <1>3 DEF Begin
  <2>2. TypeOK'
    BY <1>1, <2>1 DEF IInv, TypeOK
  <2>3. RestKept' /\ EncryptProgress' /\ DecryptProgress' /\ IvIsBlock'
    BY <1>1, <2>1 DEF IInv, RestKept, EncryptProgress, DecryptProgress, IvIsBlock
  <2> QED BY <1>2, <2>2, <2>3 DEF IInv
<1>4. CASE len % BlockBytes = 0
  <2>1. /\ pc' = dir /\ call' = [in |-> in, out |-> out, len |-> len, iv |-> iv]
        /\ i' = 0 /\ prev' = iv /\ before' = mem /\ ret' = 0
    BY <1>4 DEF Begin
  <2>2. iv \in Block /\ Cells \in Nat
    BY CbcAssumption
  <2>3. TypeOK'
    BY <1>1, <1>4, <2>1, <2>2, ZeroIsMultiple DEF IInv, TypeOK
  <2>4. RestKept' /\ IvIsBlock'
    BY <1>1, <2>1, <2>2 DEF RestKept, IvIsBlock
  <2>5. EncryptProgress' /\ DecryptProgress'
    BY <2>1 DEF EncryptProgress, DecryptProgress, BlockStarts
  <2> QED BY <1>2, <2>3, <2>4, <2>5 DEF IInv
<1> QED BY <1>3, <1>4

LEMMA ReturnStep == IInv /\ Return => IInv'
<1> SUFFICES ASSUME IInv, Return PROVE IInv'
  OBVIOUS
<1>1. /\ pc' = "idle" /\ ret' = 0 /\ call' = NoCall /\ i' = 0
      /\ prev' = NoCall.iv /\ before' = mem /\ UNCHANGED <<ctx, mem, key>>
  BY DEF Return
<1>2. NoCall.iv \in Block /\ NoCall.len = 0 /\ NoCall.in = 0 /\ NoCall.out = 0
  BY IdleCall
<1>3. TypeOK'
  BY <1>1, <1>2, ZeroIsMultiple, CbcAssumption DEF IInv, TypeOK
<1>4. IvIsBlock' /\ ScheduleIsCurrent' /\ NoKeyAfterZeroize'
  BY <1>1, <1>2 DEF IInv, IvIsBlock, ScheduleIsCurrent, NoKeyAfterZeroize
<1>5. RestKept' /\ EncryptProgress' /\ DecryptProgress'
  BY <1>1 DEF RestKept, EncryptProgress, DecryptProgress
<1> QED BY <1>3, <1>4, <1>5 DEF IInv

-----------------------------------------------------------------------------
(* The block before a later block of the buffer.                           *)
LEMMA MultipleBelow ==
    ASSUME NEW m \in Nat \ {0}, NEW a \in Nat, a % m = 0, a - m \in Nat
    PROVE  (a - m) % m = 0
<1> DEFINE p == a \div m   r == (a - m) \div m   s == (a - m) % m
<1>1. p \in Int /\ a = m * p
  BY SMT
<1>2. r \in Int /\ s \in 0 .. m - 1 /\ a - m = m * r + s
  BY SMT
<1> HIDE DEF p, r, s
<1>3. m * (p - 1 - r) = s
  BY <1>1, <1>2, SMT
<1>4. p - 1 - r >= 1 => m * (p - 1 - r) >= m
  BY <1>1, <1>2, SMT
<1>5. p - 1 - r <= -1 => m * (p - 1 - r) <= -m
  BY <1>1, <1>2, SMT
<1>6. p - 1 - r = 0 => m * (p - 1 - r) = 0
  BY <1>1, <1>2, SMT
<1>7. s = 0
  BY <1>1, <1>2, <1>3, <1>4, <1>5, <1>6, SMT
<1> QED BY <1>7 DEF s

(* Where a loop is: the block at hand lies within both buffers.            *)
LEMMA Bounds ==
    ASSUME IInv, i < call.len
    PROVE  /\ call.in \in Nat /\ call.out \in Nat /\ call.len \in Nat /\ i \in Nat
           /\ Cells \in Nat /\ BlockBytes \in Nat \ {0}
           /\ i % BlockBytes = 0 /\ i + BlockBytes <= call.len
           /\ (i + BlockBytes) % BlockBytes = 0
           /\ call.in + call.len <= Cells /\ call.out + call.len <= Cells
           /\ mem \in [0 .. Cells - 1 -> Byte] /\ before \in [0 .. Cells - 1 -> Byte]
           /\ call.len <= BlockBytes => i = 0
<1>1. /\ call.in \in Nat /\ call.out \in Nat /\ call.len \in Nat /\ i \in Nat
      /\ call.in + call.len <= Cells /\ call.out + call.len <= Cells
      /\ mem \in [0 .. Cells - 1 -> Byte] /\ before \in [0 .. Cells - 1 -> Byte]
  BY DEF IInv, TypeOK
<1>2. Cells \in Nat /\ BlockBytes \in Nat \ {0}
  BY CbcAssumption
<1>3. i % BlockBytes = 0 /\ call.len % BlockBytes = 0
  BY DEF IInv, TypeOK
<1>4. i + BlockBytes <= call.len
  BY <1>1, <1>2, <1>3, Multiples
<1>5. (i + BlockBytes) % BlockBytes = 0
  BY <1>1, <1>2, <1>3, Multiples
<1>6. call.len <= BlockBytes => i = 0
  BY <1>1, <1>2, <1>4
<1> QED BY <1>1, <1>2, <1>3, <1>4, <1>5, <1>6

(* What the loop bodies have in common: block v is written at the next     *)
(* position of the output.                                                 *)
LEMMA WriteBlock ==
    ASSUME IInv, pc # "idle", i < call.len, NEW v \in Block,
           mem' = BlockWritten(mem, call.out + i, v), i' = i + BlockBytes,
           UNCHANGED <<call, before, pc>>
    PROVE  /\ i' \in 0 .. call.len /\ i' % BlockBytes = 0
           /\ mem' \in [0 .. Cells - 1 -> Byte]
           /\ BlockAt(mem', call.out + i) = v
           /\ \A x \in BlockStarts(i) : BlockAt(mem', call.out + x) = BlockAt(mem, call.out + x)
           /\ RestKept'
<1>1. /\ call.out \in Nat /\ call.len \in Nat /\ i \in Nat /\ Cells \in Nat
      /\ BlockBytes \in Nat \ {0} /\ i % BlockBytes = 0
      /\ i + BlockBytes <= call.len /\ (i + BlockBytes) % BlockBytes = 0
      /\ call.out + call.len <= Cells /\ mem \in [0 .. Cells - 1 -> Byte]
  BY Bounds
<1>2. call.out + i \in Nat /\ (call.out + i) + BlockBytes <= Cells
  BY <1>1
<1>3. /\ mem' \in [0 .. Cells - 1 -> Byte]
      /\ BlockAt(mem', call.out + i) = v
      /\ \A q \in 0 .. Cells - 1 :
           (q < call.out + i \/ (call.out + i) + BlockBytes <= q) => mem'[q] = mem[q]
      /\ \A q \in Nat :
           (q + BlockBytes <= Cells
              /\ (q + BlockBytes <= call.out + i \/ (call.out + i) + BlockBytes <= q))
             => BlockAt(mem', q) = BlockAt(mem, q)
  BY <1>1, <1>2, WriteFacts
<1>4. ASSUME NEW x \in BlockStarts(i)
      PROVE  BlockAt(mem', call.out + x) = BlockAt(mem, call.out + x)
  <2>1. x \in Nat /\ x + BlockBytes <= i
    BY <1>1, StartFacts
  <2>2. /\ call.out + x \in Nat /\ (call.out + x) + BlockBytes <= Cells
        /\ (call.out + x) + BlockBytes <= call.out + i
    BY <1>1, <2>1
  <2> QED BY <1>3, <2>2
<1>5. RestKept'
  <2> SUFFICES ASSUME NEW p \in 0 .. Cells - 1,
                      p < call.out \/ call.out + (i + BlockBytes) <= p
               PROVE  mem'[p] = before[p]
    BY DEF RestKept
  <2>1. /\ p < call.out + i \/ (call.out + i) + BlockBytes <= p
        /\ p < call.out \/ call.out + i <= p
    BY <1>1
  <2> QED BY <1>3, <2>1 DEF IInv, RestKept
<1> QED BY <1>1, <1>3, <1>4, <1>5

(* The next input block is still what it was when the call began.          *)
LEMMA InputIntact ==
    ASSUME IInv, pc # "idle", i < call.len, EncryptFits \/ DecryptFits
    PROVE  BlockAt(mem, call.in + i) = BlockAt(before, call.in + i)
<1>1. /\ call.in \in Nat /\ call.out \in Nat /\ call.len \in Nat /\ i \in Nat
      /\ Cells \in Nat /\ BlockBytes \in Nat \ {0} /\ i + BlockBytes <= call.len
      /\ call.in + call.len <= Cells /\ (call.len <= BlockBytes => i = 0)
  BY Bounds
<1>2. i = 0 \/ call.out >= call.in + call.len \/ call.out <= call.in
  BY <1>1 DEF EncryptFits, DecryptFits, ShortOrBehind
<1>3. ASSUME NEW j \in 0 .. BlockBytes - 1
      PROVE  mem[call.in + i + j] = before[call.in + i + j]
  <2>1. /\ call.in + i + j \in 0 .. Cells - 1
        /\ call.in + i + j < call.out \/ call.out + i <= call.in + i + j
    BY <1>1, <1>2
  <2> QED BY <2>1 DEF IInv, RestKept
<1> QED BY <1>3, SameBlock

(* What the loops compute with are blocks.                                 *)
LEMMA LoopBlocks ==
    ASSUME IInv, i < call.len
    PROVE  /\ prev \in Block /\ BlockAt(mem, call.in + i) \in Block
           /\ Encrypted \in Block
           /\ Encrypted = Ciphertext(key, Xor(BlockAt(mem, call.in + i), prev))
           /\ Decrypted \in Block
           /\ Decrypted = Xor(Deciphered(key, BlockAt(mem, call.in + i)), prev)
<1>1. call.in + i \in Nat /\ (call.in + i) + BlockBytes <= Cells
      /\ mem \in [0 .. Cells - 1 -> Byte]
  BY Bounds
<1>2. BlockAt(mem, call.in + i) \in Block /\ prev \in Block
  BY <1>1, ReadBlock DEF IInv, TypeOK
<1>3. Xor(BlockAt(mem, call.in + i), prev) \in Block
  BY <1>2, XorFacts
<1>4. Encrypted \in Block /\ Encrypted = Ciphertext(key, Xor(BlockAt(mem, call.in + i), prev))
  BY <1>3, CurrentCipher DEF IInv, Encrypted
<1>5. DecryptBlock(ctx, BlockAt(mem, call.in + i)) \in Block
      /\ DecryptBlock(ctx, BlockAt(mem, call.in + i)) = Deciphered(key, BlockAt(mem, call.in + i))
  BY <1>2, CurrentCipher DEF IInv
<1>6. Decrypted \in Block /\ Decrypted = Xor(Deciphered(key, BlockAt(mem, call.in + i)), prev)
  BY <1>2, <1>5, XorFacts DEF Decrypted
<1> QED BY <1>2, <1>4, <1>6

LEMMA EncryptStep == IInv /\ EncryptLoop => IInv'
<1> SUFFICES ASSUME IInv, EncryptLoop PROVE IInv'
  OBVIOUS
<1>1. /\ pc = "encrypt" /\ i < call.len /\ mem' = BlockWritten(mem, call.out + i, Encrypted)
      /\ prev' = BlockAt(mem', call.out + i) /\ i' = i + BlockBytes
      /\ UNCHANGED <<ctx, call, before, pc, ret, key>>
  BY DEF EncryptLoop
<1>2. /\ Encrypted \in Block
      /\ Encrypted = Ciphertext(key, Xor(BlockAt(mem, call.in + i), prev))
  BY <1>1, LoopBlocks
<1>3. /\ i' \in 0 .. call.len /\ i' % BlockBytes = 0 /\ mem' \in [0 .. Cells - 1 -> Byte]
      /\ prev' = Encrypted
      /\ \A x \in BlockStarts(i) : BlockAt(mem', call.out + x) = BlockAt(mem, call.out + x)
      /\ RestKept'
  BY <1>1, <1>2, WriteBlock
<1>4. TypeOK'
  BY <1>1, <1>2, <1>3 DEF IInv, TypeOK
<1>5. IvIsBlock' /\ ScheduleIsCurrent' /\ NoKeyAfterZeroize' /\ DecryptProgress'
  BY <1>1 DEF IInv, IvIsBlock, ScheduleIsCurrent, NoKeyAfterZeroize, DecryptProgress
<1>6. EncryptProgress'
  <2> DEFINE Done(m, x) ==
        BlockAt(m, call.out + x) =
          Ciphertext(key, Xor(BlockAt(before, call.in + x),
                              IF x = 0 THEN call.iv
                              ELSE BlockAt(m, call.out + (x - BlockBytes))))
  <2>0. /\ i \in Nat /\ BlockBytes \in Nat \ {0} /\ i % BlockBytes = 0
        /\ i + BlockBytes # 0 /\ (i + BlockBytes) - BlockBytes = i
    BY <1>1, Bounds
  <2>1. SUFFICES ASSUME EncryptFits
                 PROVE  /\ \A x \in BlockStarts(i + BlockBytes) : Done(mem', x)
                        /\ prev' = BlockAt(mem', call.out + i)
    BY <1>1, <2>0 DEF EncryptProgress, EncryptFits, ShortOrBehind
  <2>2. BlockAt(mem, call.in + i) = BlockAt(before, call.in + i)
    BY <1>1, <2>1, InputIntact
  <2>3. /\ \A x \in BlockStarts(i) : Done(mem, x)
        /\ prev = IF i = 0 THEN call.iv ELSE BlockAt(mem, call.out + (i - BlockBytes))
    BY <1>1, <2>1 DEF IInv, EncryptProgress
  <2>4. ASSUME NEW x \in BlockStarts(i + BlockBytes), x # 0
        PROVE  BlockAt(mem', call.out + (x - BlockBytes)) = BlockAt(mem, call.out + (x - BlockBytes))
    <3>1. x \in Nat /\ x + BlockBytes <= i + BlockBytes /\ x - BlockBytes \in Nat
          /\ x % BlockBytes = 0
      <4>1. (i + BlockBytes) % BlockBytes = 0 /\ i + BlockBytes \in Nat
        BY <1>1, Bounds
      <4>2. x \in Nat /\ x + BlockBytes <= i + BlockBytes /\ (x # 0 => x - BlockBytes \in Nat)
        BY <4>1, StartFacts
      <4>3. x % BlockBytes = 0
        BY DEF BlockStarts
      <4> QED BY <2>4, <4>2, <4>3
    <3>2. (x - BlockBytes) % BlockBytes = 0
      BY <2>0, <3>1, MultipleBelow
    <3>3. x - BlockBytes \in BlockStarts(i)
      BY <2>0, <3>1, <3>2 DEF BlockStarts
    <3> QED BY <1>3, <3>3
  <2>5. ASSUME NEW x \in BlockStarts(i + BlockBytes) PROVE Done(mem', x)
    <3>1. CASE x = i
      BY <1>1, <1>2, <1>3, <2>2, <2>3, <2>4, <3>1
    <3>2. CASE x \in BlockStarts(i)
      BY <1>3, <2>3, <2>4, <3>2
    <3> QED BY <2>0, <3>1, <3>2, StartFacts
  <2> QED BY <1>1, <2>5
<1> QED BY <1>3, <1>4, <1>5, <1>6 DEF IInv

(* Reading the input block again after the write gives the same, unless    *)
(* it was the last: the output block lies a whole block away from it.      *)
LEMMA SecondRead ==
    ASSUME IInv, DecryptFits, i < call.len, i + BlockBytes < call.len, NEW v \in Block
    PROVE  BlockAt(BlockWritten(mem, call.out + i, v), call.in + i) = BlockAt(mem, call.in + i)
<1>1. /\ call.in \in Nat /\ call.out \in Nat /\ call.len \in Nat /\ i \in Nat
      /\ Cells \in Nat /\ BlockBytes \in Nat \ {0} /\ i + BlockBytes <= call.len
      /\ call.in + call.len <= Cells /\ call.out + call.len <= Cells
      /\ mem \in [0 .. Cells - 1 -> Byte]
  BY Bounds
<1>2. /\ call.out + i \in Nat /\ (call.out + i) + BlockBytes <= Cells
      /\ call.in + i \in Nat /\ (call.in + i) + BlockBytes <= Cells
  BY <1>1
<1>3. (call.in + i) + BlockBytes <= call.out + i \/ (call.out + i) + BlockBytes <= call.in + i
  BY <1>1 DEF DecryptFits, ShortOrBehind
<1>4. mem \in [0 .. Cells - 1 -> Byte]
  BY <1>1
<1> DEFINE p == call.out + i
<1>5. p \in Nat /\ p + BlockBytes <= Cells
  BY <1>2
<1> HIDE DEF p
<1>6. \A q \in Nat :
        (q + BlockBytes <= Cells /\ (q + BlockBytes <= p \/ p + BlockBytes <= q))
          => BlockAt(BlockWritten(mem, p, v), q) = BlockAt(mem, q)
  BY <1>4, <1>5, WriteFacts
<1> QED BY <1>2, <1>3, <1>6 DEF p

LEMMA DecryptStep == IInv /\ DecryptLoop => IInv'
<1> SUFFICES ASSUME IInv, DecryptLoop PROVE IInv'
  OBVIOUS
<1>1. /\ pc = "decrypt" /\ i < call.len /\ mem' = BlockWritten(mem, call.out + i, Decrypted)
      /\ prev' = BlockAt(mem', call.in + i) /\ i' = i + BlockBytes
      /\ UNCHANGED <<ctx, call, before, pc, ret, key>>
  BY DEF DecryptLoop
<1>2. /\ Decrypted \in Block
      /\ Decrypted = Xor(Deciphered(key, BlockAt(mem, call.in + i)), prev)
  BY <1>1, LoopBlocks
<1>3. /\ i' \in 0 .. call.len /\ i' % BlockBytes = 0 /\ mem' \in [0 .. Cells - 1 -> Byte]
      /\ BlockAt(mem', call.out + i) = Decrypted
      /\ \A x \in BlockStarts(i) : BlockAt(mem', call.out + x) = BlockAt(mem, call.out + x)
      /\ RestKept'
  BY <1>1, <1>2, WriteBlock
<1>4. prev' \in Block
  <2>1. /\ call.in \in Nat /\ call.len \in Nat /\ i \in Nat /\ Cells \in Nat
        /\ BlockBytes \in Nat /\ i + BlockBytes <= call.len /\ call.in + call.len <= Cells
    BY <1>1, Bounds
  <2>2. call.in + i \in Nat /\ (call.in + i) + BlockBytes <= Cells
    BY <2>1
  <2>3. BlockAt(mem', call.in + i) \in Block
    BY <1>3, <2>2, ReadBlock
  <2> QED BY <1>1, <2>3
<1>5. TypeOK'
  BY <1>1, <1>3, <1>4 DEF IInv, TypeOK
<1>6. IvIsBlock' /\ ScheduleIsCurrent' /\ NoKeyAfterZeroize' /\ EncryptProgress'
  BY <1>1 DEF IInv, IvIsBlock, ScheduleIsCurrent, NoKeyAfterZeroize, EncryptProgress
<1>7. DecryptProgress'
  <2> DEFINE chain(x) == IF x = 0 THEN call.iv ELSE BlockAt(before, call.in + (x - BlockBytes))
             Done(m, x) == BlockAt(m, call.out + x) =
                             Xor(Deciphered(key, BlockAt(before, call.in + x)), chain(x))
  <2>0. /\ i \in Nat /\ BlockBytes \in Nat \ {0} /\ i % BlockBytes = 0
        /\ i + BlockBytes # 0 /\ (i + BlockBytes) - BlockBytes = i
    BY <1>1, Bounds
  <2>1. SUFFICES ASSUME DecryptFits
                 PROVE  /\ \A x \in BlockStarts(i + BlockBytes) : Done(mem', x)
                        /\ i + BlockBytes < call.len =>
                             prev' = BlockAt(before, call.in + i)
    BY <1>1, <2>0 DEF DecryptProgress, DecryptFits, ShortOrBehind
  <2>2. BlockAt(mem, call.in + i) = BlockAt(before, call.in + i)
    BY <1>1, <2>1, InputIntact
  <2>3. (\A x \in BlockStarts(i) : Done(mem, x)) /\ prev = chain(i)
    BY <1>1, <2>1 DEF IInv, DecryptProgress
  <2>4. i + BlockBytes < call.len => prev' = BlockAt(mem, call.in + i)
    BY <1>1, <1>2, <2>1, SecondRead
  <2>5. ASSUME NEW x \in BlockStarts(i + BlockBytes) PROVE Done(mem', x)
    <3>1. CASE x = i
      BY <1>2, <1>3, <2>2, <2>3, <3>1
    <3>2. CASE x \in BlockStarts(i)
      BY <1>3, <2>3, <3>2
    <3> QED BY <2>0, <3>1, <3>2, StartFacts
  <2> QED BY <2>2, <2>4, <2>5
<1> QED BY <1>3, <1>5, <1>6, <1>7 DEF IInv

LEMMA IInvStep == IInv /\ [Next]_vars => IInv'
<1> SUFFICES ASSUME IInv, [Next]_vars PROVE IInv'
  OBVIOUS
<1>1. CASE UNCHANGED vars
  BY <1>1 DEF IInv, vars, TypeOK, IvIsBlock, ScheduleIsCurrent, NoKeyAfterZeroize,
              RestKept, EncryptProgress, DecryptProgress, EncryptFits, DecryptFits,
              ShortOrBehind
<1> QED
  BY <1>1, KeyStep, BeginStep, EncryptStep, DecryptStep, ReturnStep DEF Next

-----------------------------------------------------------------------------
(* In every reachable state schedules are those of the latest key, the     *)
(* blocks a CBC loop has done are right, and the ones whose turn is to     *)
(* come are untouched (aes.c:242-305).                                     *)
THEOREM CbcInvariance == Spec => []IInv
BY IInvInit, IInvStep, PTL DEF Spec

(* Every byte a call leaves untouched is as it was.                        *)
LEMMA OthersAreKept == IInv /\ pc # "idle" /\ i = call.len => OthersKept
<1> SUFFICES ASSUME IInv, pc # "idle", i = call.len,
                    NEW p \in 0 .. Cells - 1, p \notin OutputRange
             PROVE  mem[p] = before[p]
  BY DEF OthersKept
<1>1. call.out \in Nat /\ call.len \in Nat
  BY CbcAssumption DEF IInv, TypeOK
<1>2. p < call.out \/ call.out + i <= p
  BY <1>1 DEF OutputRange
<1> QED BY <1>2 DEF IInv, RestKept

(* The blocks of a buffer, seen from its start.                            *)
LEMMA BufferBlocks ==
    ASSUME IInv, NEW x \in BlockStarts(call.len)
    PROVE  /\ BlockAt(Input, x) = BlockAt(before, call.in + x)
           /\ BlockAt(Output, x) = BlockAt(mem, call.out + x)
           /\ x # 0 => /\ BlockAt(Input, x - BlockBytes) = BlockAt(before, call.in + (x - BlockBytes))
                       /\ BlockAt(Output, x - BlockBytes) = BlockAt(mem, call.out + (x - BlockBytes))
           /\ BlockAt(before, call.in + x) \in Block
           /\ x # 0 => BlockAt(before, call.in + (x - BlockBytes)) \in Block
<1>1. /\ call.in \in Nat /\ call.out \in Nat /\ call.len \in Nat /\ Cells \in Nat
      /\ BlockBytes \in Nat \ {0} /\ call.in + call.len <= Cells
      /\ before \in [0 .. Cells - 1 -> Byte]
  BY CbcAssumption DEF IInv, TypeOK
<1>0. call.len % BlockBytes = 0
  BY DEF IInv, TypeOK
<1>2. x \in Nat /\ x + BlockBytes <= call.len /\ (x # 0 => x - BlockBytes \in Nat)
  BY <1>0, <1>1, StartFacts
<1>3. ASSUME NEW y \in Nat, y + BlockBytes <= call.len
      PROVE  /\ BlockAt(Input, y) = BlockAt(before, call.in + y)
             /\ BlockAt(Output, y) = BlockAt(mem, call.out + y)
             /\ BlockAt(before, call.in + y) \in Block
  <2>1. \A j \in 0 .. BlockBytes - 1 :
          /\ y + j \in 0 .. call.len - 1
          /\ call.in + (y + j) = (call.in + y) + j /\ call.out + (y + j) = (call.out + y) + j
    BY <1>1, <1>3
  <2>2. \A j \in 0 .. BlockBytes - 1 :
          Input[y + j] = before[(call.in + y) + j] /\ Output[y + j] = mem[(call.out + y) + j]
    BY <2>1 DEF Input, Output
  <2>3. call.in + y \in Nat /\ (call.in + y) + BlockBytes <= Cells
    BY <1>1, <1>3
  <2>4. BlockAt(before, call.in + y) \in Block
    BY <1>1, <2>3, ReadBlock
  <2> QED BY <2>2, <2>4, SameBlock
<1>4. x # 0 => (x - BlockBytes) + BlockBytes <= call.len
  BY <1>1, <1>2
<1> QED BY <1>2, <1>3, <1>4

(* The state keeps its types; a call stays within the memory.              *)
THEOREM CbcTypeCorrect == Spec => []TypeOK
<1>1. IInv => TypeOK BY DEF IInv
<1> QED BY <1>1, CbcInvariance, PTL

(* A context enciphers under the key of the latest aes_init and no other   *)
(* (aes.c:115-142).                                                        *)
THEOREM ScheduleStaysCurrent == Spec => []ScheduleIsCurrent
<1>1. IInv => ScheduleIsCurrent BY DEF IInv
<1> QED BY <1>1, CbcInvariance, PTL

(* aes_zeroize leaves no round key of any size behind (aes.c:301-305).     *)
THEOREM ZeroizeIsComplete == Spec => []NoKeyAfterZeroize
<1>1. IInv => NoKeyAfterZeroize BY DEF IInv
<1> QED BY <1>1, CbcInvariance, PTL

(* aes_cbc_encrypt computes CBC in place, on disjoint buffers, and when    *)
(* the output begins any number of bytes below the input (aes.c:262-278).  *)
THEOREM EncryptIsCbc == Spec => []EncryptsInput
<1>1. IInv => EncryptsInput
  <2> SUFFICES ASSUME IInv, pc = "encrypt", i = call.len, EncryptFits
               PROVE  IsCbc(key, call.iv, Input, Output, call.len) /\ OthersKept
    BY DEF EncryptsInput
  <2>1. ASSUME NEW x \in BlockStarts(call.len)
        PROVE  BlockAt(Output, x) =
                 Ciphertext(key, Xor(BlockAt(Input, x),
                                     IF x = 0 THEN call.iv ELSE BlockAt(Output, x - BlockBytes)))
    <3>1. BlockAt(mem, call.out + x) =
            Ciphertext(key, Xor(BlockAt(before, call.in + x),
                                IF x = 0 THEN call.iv
                                ELSE BlockAt(mem, call.out + (x - BlockBytes))))
      BY DEF IInv, EncryptProgress
    <3> QED BY <3>1, BufferBlocks
  <2> QED BY <2>1, OthersAreKept DEF IsCbc
<1> QED BY <1>1, CbcInvariance, PTL

(* aes_cbc_decrypt undoes CBC on disjoint buffers, when the output begins  *)
(* a whole block or more below the input, and for a single block wherever  *)
(* the buffers lie; not in place or less than a block below, where the     *)
(* second read of the input comes too late (aes.c:280-296).                *)
THEOREM DecryptUndoesCbc == Spec => []DecryptsInput
<1>1. IInv => DecryptsInput
  <2> SUFFICES ASSUME IInv, pc = "decrypt", i = call.len, DecryptFits
               PROVE  IsCbc(key, call.iv, Output, Input, call.len) /\ OthersKept
    BY DEF DecryptsInput
  <2>1. ASSUME NEW x \in BlockStarts(call.len)
        PROVE  BlockAt(Input, x) =
                 Ciphertext(key, Xor(BlockAt(Output, x),
                                     IF x = 0 THEN call.iv ELSE BlockAt(Input, x - BlockBytes)))
    <3> DEFINE chain == IF x = 0 THEN call.iv ELSE BlockAt(before, call.in + (x - BlockBytes))
               c == BlockAt(before, call.in + x)
               d == Deciphered(key, c)
    <3>1. BlockAt(mem, call.out + x) = Xor(d, chain)
      BY DEF IInv, DecryptProgress
    <3>2. c \in Block /\ chain \in Block
      BY BufferBlocks DEF IInv, IvIsBlock
    <3>3. d \in Block /\ Ciphertext(key, d) = c
      BY <3>2, CurrentCipher DEF IInv
    <3>4. BlockAt(Input, x) = c /\ BlockAt(Output, x) = BlockAt(mem, call.out + x)
          /\ chain = IF x = 0 THEN call.iv ELSE BlockAt(Input, x - BlockBytes)
      BY BufferBlocks
    <3> HIDE DEF chain, c, d
    <3>5. Xor(Xor(d, chain), chain) = d
      BY <3>2, <3>3, XorFacts
    <3> QED BY <3>1, <3>3, <3>4, <3>5
  <2> QED BY <2>1, OthersAreKept DEF IsCbc
<1> QED BY <1>1, CbcInvariance, PTL

=============================================================================
