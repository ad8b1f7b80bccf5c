------------------------------ MODULE MCAesCbc ------------------------------
(* Instance of AesCbc for TLC: a long and a short key with different       *)
(* permutations of the blocks of two one-bit bytes; memory of eight bytes, *)
(* so that buffers of up to three blocks coincide, overlap by whole blocks *)
(* or by a single byte in either direction, or are disjoint.               *)
EXTENDS AesCbc
MCKey == {"k128", "k256"}
MCRounds == [k \in MCKey |-> IF k = "k128" THEN 1 ELSE 2]
MCByte == {0, 1}
MCByteXor(a, b) == (a + b) % 2
MCBlock == [0 .. 1 -> MCByte]
Number(b) == 2 * b[0] + b[1]
Numbered(n) == [j \in 0 .. 1 |-> IF j = 0 THEN n \div 2 ELSE n % 2]
MCCipher == [k128 |-> [b \in MCBlock |-> Numbered((Number(b) + 1) % 4)],
             k256 |-> [b \in MCBlock |-> Numbered((5 - Number(b)) % 4)]]
MCInverse == [k128 |-> [b \in MCBlock |-> Numbered((Number(b) + 3) % 4)],
              k256 |-> [b \in MCBlock |-> Numbered((5 - Number(b)) % 4)]]
MCMemory0 == {[p \in 0 .. 7 |-> Numbered(p \div 2)[p % 2]]}
MCIv == {Numbered(1)}
=============================================================================
