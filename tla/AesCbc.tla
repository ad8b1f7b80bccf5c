------------------------------- MODULE AesCbc -------------------------------
(***************************************************************************)
(* The public operations of src/aes.c on one AES_CTX: aes_init, aes_zeroize *)
(* and the two CBC loops, one block per step.  The buffers of a call are   *)
(* ranges of bytes in one memory, so input and output may coincide or      *)
(* overlap at any distance.  A step of a loop copies what it computes with *)
(* (tmp, prev, the state of the block functions) before and after the one  *)
(* write of its output block.  The cipher is any keyed permutation of the  *)
(* blocks with its inverse, XOR any operation that undoes itself.          *)
(***************************************************************************)
EXTENDS BlockCipher, Integers

CONSTANTS Key,             \* keys aes_init accepts
          Rounds,          \* nr of a key: 10 or 14
          MaxRounds,       \* round_keys[] has MaxRounds + 1 round keys
          Byte,
          ByteXor(_, _),   \* ^
          BlockBytes,      \* AES_BLOCK_SIZE: 16
          Cipher, Inverse, \* the two keyed permutations of Block
          Cells,           \* bytes in memory
          Memory0,         \* what the memory may contain at first
          Iv               \* the initialisation vectors callers pass

Block == [0 .. BlockBytes - 1 -> Byte]

ASSUME CbcAssumption ==
    /\ MaxRounds \in Nat /\ Cells \in Nat /\ BlockBytes \in Nat \ {0} /\ Byte # {}
    /\ Rounds \in [Key -> 1 .. MaxRounds]
    /\ IsBlockCipher(Key, Block, Cipher, Inverse) /\ IsXor(Byte, ByteXor)
    /\ Memory0 \subseteq [0 .. Cells - 1 -> Byte] /\ Iv \subseteq Block
    /\ "zero" \notin Key

VARIABLES ctx,    \* AES_CTX: nr, and for each round key the key it came from
          mem,    \* the callers' memory
          call,   \* the CBC call being served: its parameters
          i, prev,\* the locals of the loops; i counts bytes
          before, \* history: the memory as it was when the call began, or
                  \* as it is when there is none
          pc,     \* "idle", "encrypt" or "decrypt"
          ret,    \* what the latest operation returned, 0 while one runs
          key     \* history: the key of the latest aes_init, "zero" after aes_zeroize

vars == <<ctx, mem, call, i, prev, before, pc, ret, key>>
idle == <<call, i, prev, before, pc>>

-----------------------------------------------------------------------------
ZeroSchedule == [r \in 0 .. MaxRounds |-> "zero"]

(* What a context encrypts with.  With nr = 0, as in zeroized memory, no   *)
(* round runs and the zero round key adds nothing.                         *)
EncryptBlock(c, b) == IF c.nr = 0 THEN b ELSE Cipher[c.round_keys[0]][b]
DecryptBlock(c, b) == IF c.nr = 0 THEN b ELSE Inverse[c.round_keys[0]][b]

(* The block at byte p of the bytes m, and m with block b written there.   *)
BlockAt(m, p) == [j \in 0 .. BlockBytes - 1 |-> m[p + j]]
BlockWritten(m, p, b) ==
    [q \in DOMAIN m |-> IF q \in p .. p + BlockBytes - 1 THEN b[q - p] ELSE m[q]]

Xor(a, b) == [j \in 0 .. BlockBytes - 1 |-> ByteXor(a[j], b[j])]

NoCall == [in |-> 0, out |-> 0, len |-> 0, iv |-> CHOOSE b \in Block : TRUE]

Init == /\ ctx = [nr |-> 0, round_keys |-> ZeroSchedule]
        /\ mem \in Memory0
        /\ call = NoCall /\ i = 0 /\ prev = NoCall.iv /\ before = mem
        /\ pc = "idle" /\ ret = 0
        /\ key = "zero"

\* A plausible slip: the expansion stops one round key short.
aes_init_OneRoundShort(k) ==
    /\ pc = "idle"
    /\ ctx' = [nr |-> Rounds[k],
               round_keys |-> [r \in 0 .. MaxRounds |->
                                 IF r < Rounds[k] THEN k ELSE ctx.round_keys[r]]]
    /\ key' = k
    /\ ret' = 0
    /\ UNCHANGED <<mem, idle>>

(* aes_init writes the nr + 1 round keys it needs and no other.            *)
aes_init(k) ==
    /\ pc = "idle"
    /\ ctx' = [nr |-> Rounds[k],
               round_keys |-> [r \in 0 .. MaxRounds |->
                                 IF r <= Rounds[k] THEN k ELSE ctx.round_keys[r]]]
    /\ key' = k
    /\ ret' = 0
    /\ UNCHANGED <<mem, idle>>

(* A key of another length: the context keeps what it held.                *)
aes_init_invalid ==
    /\ pc = "idle"
    /\ ret' = -1
    /\ UNCHANGED <<ctx, mem, key, idle>>

\* A plausible slip: the round keys in use are cleared, the rest is not.
aes_zeroize_UsedPart ==
    /\ pc = "idle"
    /\ ctx' = [nr |-> 0, round_keys |-> [r \in 0 .. MaxRounds |->
                  IF r <= ctx.nr THEN "zero" ELSE ctx.round_keys[r]]]
    /\ key' = "zero"
    /\ UNCHANGED <<mem, ret, idle>>

aes_zeroize ==
    /\ pc = "idle"
    /\ ctx' = [nr |-> 0, round_keys |-> ZeroSchedule]
    /\ key' = "zero"
    /\ UNCHANGED <<mem, ret, idle>>

\* A plausible slip: a partial last block is processed as a whole one.
Begin_RoundsUp(dir, in, out, len, iv) ==
    /\ pc = "idle"
    /\ in + len <= Cells /\ out + len <= Cells
    /\ pc' = dir
    /\ call' = [in |-> in, out |-> out,
                len |-> BlockBytes * ((len + BlockBytes - 1) \div BlockBytes), iv |-> iv]
    /\ i' = 0
    /\ prev' = iv
    /\ before' = mem
    /\ ret' = 0
    /\ UNCHANGED <<ctx, mem, key>>

(* The CBC functions return -1 for a length that is not whole blocks;      *)
(* otherwise prev is loaded with the IV and the loop begins.  in and out   *)
(* are any addresses with len bytes behind them.                           *)
Begin(dir, in, out, len, iv) ==
    /\ pc = "idle"
    /\ in + len <= Cells /\ out + len <= Cells
    /\ IF len % BlockBytes # 0
       THEN ret' = -1 /\ UNCHANGED <<pc, call, i, prev, before>>
       ELSE /\ pc' = dir
            /\ call' = [in |-> in, out |-> out, len |-> len, iv |-> iv]
            /\ i' = 0
            /\ prev' = iv
            /\ before' = mem
            /\ ret' = 0
    /\ UNCHANGED <<ctx, mem, key>>

Encrypted == EncryptBlock(ctx, Xor(BlockAt(mem, call.in + i), prev))
Decrypted == Xor(DecryptBlock(ctx, BlockAt(mem, call.in + i)), prev)

\* A plausible slip: the chain goes on from the plaintext.
EncryptLoop_ChainsPlaintext ==
    /\ pc = "encrypt" /\ i < call.len
    /\ mem' = BlockWritten(mem, call.out + i, Encrypted)
    /\ prev' = BlockAt(mem, call.in + i)
    /\ i' = i + BlockBytes
    /\ UNCHANGED <<ctx, call, before, pc, ret, key>>

EncryptLoop ==
    /\ pc = "encrypt" /\ i < call.len
    /\ mem' = BlockWritten(mem, call.out + i, Encrypted)
    /\ prev' = BlockAt(mem', call.out + i)
    /\ i' = i + BlockBytes
    /\ UNCHANGED <<ctx, call, before, pc, ret, key>>

\* A plausible slip: the chain goes on from the output block.
DecryptLoop_ChainsOutput ==
    /\ pc = "decrypt" /\ i < call.len
    /\ mem' = BlockWritten(mem, call.out + i, Decrypted)
    /\ prev' = BlockAt(mem', call.out + i)
    /\ i' = i + BlockBytes
    /\ UNCHANGED <<ctx, call, before, pc, ret, key>>

(* prev is reloaded from the input after the output block is written.      *)
DecryptLoop ==
    /\ pc = "decrypt" /\ i < call.len
    /\ mem' = BlockWritten(mem, call.out + i, Decrypted)
    /\ prev' = BlockAt(mem', call.in + i)
    /\ i' = i + BlockBytes
    /\ UNCHANGED <<ctx, call, before, pc, ret, key>>

Return == /\ pc # "idle" /\ i >= call.len
          /\ pc' = "idle"
          /\ ret' = 0
          /\ call' = NoCall /\ i' = 0 /\ prev' = NoCall.iv /\ before' = mem
          /\ UNCHANGED <<ctx, mem, key>>

Next == \/ \E k \in Key : aes_init(k)
        \/ aes_init_invalid \/ aes_zeroize
        \/ \E dir \in {"encrypt", "decrypt"}, in, out \in 0 .. Cells,
              len \in 0 .. Cells, iv \in Iv : Begin(dir, in, out, len, iv)
        \/ EncryptLoop \/ DecryptLoop \/ Return

Spec == Init /\ [][Next]_vars

-----------------------------------------------------------------------------
TypeOK ==
    /\ ctx \in [nr : 0 .. MaxRounds, round_keys : [0 .. MaxRounds -> Key \cup {"zero"}]]
    /\ mem \in [0 .. Cells - 1 -> Byte] /\ before \in [0 .. Cells - 1 -> Byte]
    /\ pc \in {"idle", "encrypt", "decrypt"}
    /\ call.in \in 0 .. Cells /\ call.out \in 0 .. Cells /\ call.len \in 0 .. Cells
    /\ call.in + call.len <= Cells /\ call.out + call.len <= Cells
    /\ i \in 0 .. call.len /\ i % BlockBytes = 0 /\ call.len % BlockBytes = 0
    /\ prev \in Block
    /\ ret \in {0, -1}
    /\ key \in Key \cup {"zero"}

(* Whatever keys of both sizes the context held before, and after failed   *)
(* inits, every round key it uses is of the key of the latest aes_init     *)
(* (aes.c:115-142).                                                        *)
ScheduleIsCurrent ==
    /\ ctx.nr = IF key = "zero" THEN 0 ELSE Rounds[key]
    /\ \A r \in 0 .. ctx.nr : ctx.round_keys[r] = key

(* aes_zeroize leaves nothing of any key, also not of a longer one that    *)
(* the current key's schedule did not cover (aes.c:301-305).               *)
NoKeyAfterZeroize == key = "zero" => ctx.round_keys = ZeroSchedule

(* The bytes c are the CBC encryption of p (NIST SP 800-38A, section 6.2); *)
(* a context without a key adds the chain and nothing else.                *)
Ciphertext(k, b) == IF k = "zero" THEN b ELSE Cipher[k][b]
BlockStarts(len) == {x \in 0 .. len - 1 : x % BlockBytes = 0}
IsCbc(k, iv, p, c, len) ==
    \A x \in BlockStarts(len) :
        BlockAt(c, x) =
          Ciphertext(k, Xor(BlockAt(p, x), IF x = 0 THEN iv ELSE BlockAt(c, x - BlockBytes)))

Input == [x \in 0 .. call.len - 1 |-> before[call.in + x]]
Output == [x \in 0 .. call.len - 1 |-> mem[call.out + x]]
OutputRange == call.out .. call.out + call.len - 1
OthersKept == \A p \in 0 .. Cells - 1 : p \notin OutputRange => mem[p] = before[p]

(* How the buffers of a call have to lie: disjoint or one block at most;   *)
(* or else the output not above the input, and for decryption a whole      *)
(* block below it.                                                         *)
ShortOrBehind == call.len <= BlockBytes \/ call.out >= call.in + call.len
EncryptFits == ShortOrBehind \/ call.out <= call.in
DecryptFits == ShortOrBehind \/ call.out + BlockBytes <= call.in

(* When aes_cbc_encrypt returns 0 the output is the CBC encryption of what *)
(* the input held at the call, and nothing else was written: in place, on  *)
(* disjoint buffers, and when the output begins any number of bytes below  *)
(* the input (aes.c:270-276).                                              *)
EncryptsInput ==
    (pc = "encrypt" /\ i = call.len /\ EncryptFits) =>
      IsCbc(key, call.iv, Input, Output, call.len) /\ OthersKept

(* The same of aes_cbc_decrypt, but from the second block on only if the   *)
(* output is a whole block below the input: aes.c:293 reads the previous   *)
(* ciphertext block after aes.c:292 has written the output, and less than  *)
(* a block apart the two have bytes in common.                             *)
DecryptsInput ==
    (pc = "decrypt" /\ i = call.len /\ DecryptFits) =>
      IsCbc(key, call.iv, Output, Input, call.len) /\ OthersKept

-----------------------------------------------------------------------------
(* include/aes.h:51-52 "len must be a multiple of AES_BLOCK_SIZE. Returns  *)
(* 0 on success, -1 on invalid length.": a call about to return 0 has      *)
(* succeeded under the key at hand, also in place or with the output a few *)
(* bytes below the input, which aes_cbc_encrypt supports.                  *)
OverlappingDecryptSucceeds ==
    (pc = "decrypt" /\ i = call.len /\ key # "zero" /\ EncryptFits) =>
      IsCbc(key, call.iv, Output, Input, call.len)

=============================================================================
