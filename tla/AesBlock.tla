------------------------------ MODULE AesBlock ------------------------------
(***************************************************************************)
(* The block cipher of src/aes.c under one AES_CTX: the key expansion one  *)
(* word per step, aes_encrypt_block and aes_decrypt_block one round per    *)
(* step.  AesCbc takes the two for a keyed permutation and its inverse;    *)
(* here they are computed, on a context keyed again and again with keys of *)
(* both sizes, whose older words stay in it until they are overwritten.    *)
(***************************************************************************)
EXTENDS AesField, FiniteSets

CONSTANTS Key,      \* keys: functions from byte positions 0 .. 15 or 0 .. 31
          Block,    \* blocks callers encrypt and decrypt
          Known     \* published vectors: a key, a block and its ciphertext

Cell == (0 .. 3) \X (0 .. 3)                \* s[r][c]
State == [Cell -> Byte]
Bytes(n) == [0 .. n - 1 -> Byte]

ASSUME BlockAssumption ==
    /\ Key \subseteq Bytes(16) \cup Bytes(32)
    /\ Block \subseteq Bytes(16)

VARIABLES round_keys, nr,   \* AES_CTX
          key, nk,          \* the parameter and the local of aes_init
          i,                \* the word the expansion is at
          pc,               \* "idle", "expand", "encrypt" or "decrypt"
          s, round,         \* the state of the cipher
          text,             \* history: the block latest encrypted, or given
                            \* to decrypt if it was not the result of that
          trail             \* history: the states of that encryption, the
                            \* last one its result; <<>> if there is none

vars == <<round_keys, nr, key, nk, i, pc, s, round, text, trail>>
schedule == <<round_keys, nr, key, nk, i>>

-----------------------------------------------------------------------------
\* A plausible slip: the block fills the state row by row.
Load_RowMajor(b) == [p \in Cell |-> b[4 * p[1] + p[2]]]

Load(b) == [p \in Cell |-> b[p[1] + 4 * p[2]]]
AddRoundKey(st, n) == [p \in Cell |-> Xor(st[p], round_keys[4 * n + p[2]][p[1]])]

SubBytes(st) == [p \in Cell |-> SBOX[st[p]]]
InvSubBytes(st) == [p \in Cell |-> INV_SBOX[st[p]]]
ShiftRows(st) == [p \in Cell |-> st[<<p[1], (p[2] + p[1]) % 4>>]]

\* A plausible slip: the rows go round the same way as in ShiftRows.
InvShiftRows_Left(st) == [p \in Cell |-> st[<<p[1], (p[2] + p[1]) % 4>>]]

InvShiftRows(st) == [p \in Cell |-> st[<<p[1], (p[2] - p[1]) % 4>>]]

Mixed(m(_, _), st) ==
    [p \in Cell |-> Xor4(m(p[1], 0)[st[<<0, p[2]>>]], m(p[1], 1)[st[<<1, p[2]>>]],
                         m(p[1], 2)[st[<<2, p[2]>>]], m(p[1], 3)[st[<<3, p[2]>>]])]
MixColumns(st) == Mixed(Mix, st)
InvMixColumns(st) == Mixed(InvMix, st)

NoState == [p \in Cell |-> {}]

Init == /\ round_keys \in [0 .. 59 -> {[r \in 0 .. 3 |-> {}]}] /\ nr = 0
        /\ key = <<>> /\ nk = 0 /\ i = 0
        /\ pc = "idle"
        /\ s = NoState /\ round = 0
        /\ text = NoState /\ trail = <<>>

(* aes_init: the size, and the key's own words.                            *)
aes_init(k) ==
    /\ pc = "idle"
    /\ key' = k
    /\ nk' = IF DOMAIN k = 0 .. 15 THEN 4 ELSE 8
    /\ nr' = IF DOMAIN k = 0 .. 15 THEN 10 ELSE 14
    /\ round_keys' = [n \in 0 .. 59 |-> IF n < nk' THEN [r \in 0 .. 3 |-> k[4 * n + r]]
                                                   ELSE round_keys[n]]
    /\ i' = nk'
    /\ pc' = "expand"
    /\ text' = NoState /\ trail' = <<>>
    /\ UNCHANGED <<s, round>>

\* A plausible slip: the middle word is substituted for short keys only.
Temp_NoMiddleWord(w) ==
    IF i % nk = 0 THEN LET u == sub_word(rot_word(w))
                       IN  [u EXCEPT ![0] = Xor(@, RCON[i \div nk])]
    ELSE w

Temp(w) ==
    IF i % nk = 0 THEN LET u == sub_word(rot_word(w))
                       IN  [u EXCEPT ![0] = Xor(@, RCON[i \div nk])]
    ELSE IF nk > 6 /\ i % nk = 4 THEN sub_word(w)
    ELSE w

Expand ==
    /\ pc = "expand"
    /\ i < 4 * (nr + 1)
    /\ round_keys' = [round_keys EXCEPT ![i] = XorWord(round_keys[i - nk],
                                                       Temp(round_keys[i - 1]))]
    /\ i' = i + 1
    /\ UNCHANGED <<nr, key, nk, pc, s, round, text, trail>>

InitReturns ==
    /\ pc = "expand"
    /\ ~(i < 4 * (nr + 1))
    /\ pc' = "idle"
    /\ UNCHANGED <<schedule, s, round, text, trail>>

Encrypt(b) ==
    /\ pc = "idle"
    /\ s' = AddRoundKey(Load(b), 0)
    /\ round' = 1
    /\ text' = Load(b)
    /\ trail' = <<s'>>
    /\ pc' = "encrypt"
    /\ UNCHANGED schedule

\* A plausible slip: the loop counts from 0 and ends at nr + 1.
MoreRounds_OneMore == round <= nr + 1

MoreRounds == round <= nr

EncryptRound ==
    /\ pc = "encrypt"
    /\ MoreRounds
    /\ LET t == ShiftRows(SubBytes(s))
       IN  s' = AddRoundKey(IF round < nr THEN MixColumns(t) ELSE t, round)
    /\ round' = round + 1
    /\ trail' = Append(trail, s')
    /\ UNCHANGED <<schedule, pc, text>>

(* A block from a caller, or the ciphertext of the latest encryption.      *)
Decrypt(st) ==
    /\ pc = "idle"
    /\ s' = AddRoundKey(st, nr)
    /\ round' = nr - 1
    /\ IF trail # <<>> /\ st = trail[nr + 1] THEN UNCHANGED <<text, trail>>
       ELSE text' = st /\ trail' = <<>>
    /\ pc' = "decrypt"
    /\ UNCHANGED schedule

DecryptRound ==
    /\ pc = "decrypt"
    /\ round >= 0
    /\ LET t == AddRoundKey(InvSubBytes(InvShiftRows(s)), round)
       IN  s' = IF round > 0 THEN InvMixColumns(t) ELSE t
    /\ round' = round - 1
    /\ UNCHANGED <<schedule, pc, text, trail>>

BlockReturns ==
    /\ \/ pc = "encrypt" /\ ~MoreRounds
       \/ pc = "decrypt" /\ round < 0
    /\ pc' = "idle"
    /\ s' = NoState /\ round' = 0
    /\ UNCHANGED <<schedule, text, trail>>

Next == \/ \E k \in Key : aes_init(k)
        \/ Expand \/ InitReturns
        \/ \E b \in Block : Encrypt(b) \/ Decrypt(Load(b))
        \/ trail # <<>> /\ Decrypt(trail[nr + 1])
        \/ EncryptRound \/ DecryptRound \/ BlockReturns

Spec == Init /\ [][Next]_vars

-----------------------------------------------------------------------------
TypeOK ==
    /\ round_keys \in [0 .. 59 -> Word]
    /\ \/ nr = 0 /\ nk = 0
       \/ nr = 10 /\ nk = 4
       \/ nr = 14 /\ nk = 8
    /\ nk = 0 => i = 0 /\ pc # "expand"
    /\ nk # 0 => key \in Key /\ i \in nk .. 4 * (nr + 1) /\ DOMAIN key = 0 .. 4 * nk - 1
    /\ pc \in {"idle", "expand", "encrypt", "decrypt"}
    /\ s \in State /\ text \in State
    /\ round \in -1 .. nr + 1
    /\ trail \in Seq(State)

(* Key expansion as FIPS 197, section 5.2 (Figure 11) states it, of the    *)
(* words of a finished schedule: the recurrence must hold of what is in    *)
(* the context at the end, whatever the context held before, so no word    *)
(* was read before it was written or written twice (aes.c:115-142).        *)
FirstByte(w, b) == [w EXCEPT ![0] = Xor(@, b)]
ScheduleIsExpansion ==
    nk # 0 /\ pc # "expand" =>
      /\ \A n \in 0 .. nk - 1, r \in 0 .. 3 : round_keys[n][r] = key[4 * n + r]
      /\ \A n \in nk .. 4 * (nr + 1) - 1 :
           LET temp == round_keys[n - 1]
           IN  round_keys[n] = XorWord(round_keys[n - nk],
                 CASE n % nk = 0 -> FirstByte(sub_word(rot_word(temp)), RCON[n \div nk])
                   [] nk = 8 /\ n % nk = 4 -> sub_word(temp)
                   [] OTHER -> temp)

(* Decryption goes back through the states of the encryption whose result  *)
(* it is given, round by round, and ends with the text: under every        *)
(* schedule, finished or zeroized, for both numbers of rounds              *)
(* (aes.c:147-257).                                                        *)
DecryptMirrors ==
    pc = "decrypt" /\ trail # <<>> =>
        s = IF round = -1 THEN text ELSE ShiftRows(SubBytes(trail[round + 1]))

(* The published ciphertexts (FIPS 197, appendices B and C) come out, also *)
(* when the context held a key of the other size before.                   *)
PublishedCiphertext ==
    (pc = "encrypt" /\ round > nr) =>
        \A v \in Known : (v.key = key /\ Load(v.block) = text) => s = Load(v.cipher)

(* The S-box is the one of FIPS 197, section 5.1.1, in the field gmul      *)
(* multiplies in: without its affine map (the inverse of section 5.3.2) an *)
(* entry is the multiplicative inverse of its index.                       *)
WithoutAffine(b) ==
    Xor({n \in 0 .. 7 : Cardinality({(n + m) % 8 : m \in {2, 5, 7}} \cap b) % 2 = 1}, {0, 2})
SboxIsStandard ==
    \A b \in Byte : LET inverse == WithoutAffine(SBOX[b])
                    IN  IF b = {} THEN inverse = {} ELSE gmul(b, inverse) = {0}

=============================================================================
