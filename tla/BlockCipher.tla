----------------------------- MODULE BlockCipher -----------------------------
(***************************************************************************)
(* What CBC mode needs of a block cipher and of the XOR of bytes.  AesCbc  *)
(* assumes it of its parameters; AesBlockProofs proves it of src/aes.c.    *)
(***************************************************************************)

(* E[k] and D[k] are permutations of the blocks B and undo each other.     *)
IsBlockCipher(K, B, E, D) ==
    /\ E \in [K -> [B -> B]] /\ D \in [K -> [B -> B]]
    /\ \A k \in K, b \in B : D[k][E[k][b]] = b /\ E[k][D[k][b]] = b

(* Adding the same byte twice changes nothing.                             *)
IsXor(B, xor(_, _)) ==
    \A a, b \in B : xor(a, b) \in B /\ xor(xor(a, b), b) = a

=============================================================================
