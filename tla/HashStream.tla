----------------------------- MODULE HashStream -----------------------------
(***************************************************************************)
(* What a streaming hash promises (FIPS 180-4, section 5.1.1;              *)
(* include/sha256.h): however the message is cut into updates, the digest  *)
(* is that of the whole message, padded once.  A context that was not      *)
(* initialised since its last digest hashes from the zero chaining value   *)
(* and remembers nothing of the message before.                            *)
(***************************************************************************)
EXTENDS Padding

CONSTANT Chunk     \* the byte strings a caller passes to one update

VARIABLES begun,   \* sha256_init was called since the last digest
          msg,     \* the message so far
          digest   \* the digest the last call returned

NoDigest == Digest("none", <<>>)

HashInit == begun = FALSE /\ msg = <<>> /\ digest = NoDigest

Begin == /\ begun' = TRUE
         /\ msg' = <<>>
         /\ digest' = NoDigest

Feed(chunk) == /\ msg' = msg \o chunk
               /\ digest' = NoDigest
               /\ UNCHANGED begun

Conclude == \E k \in 0 .. BlockSize - 1 :
    /\ Aligned(Len(Padded(msg, k)))
    /\ digest' = Digest(IF begun THEN "H0" ELSE "zero", Padded(msg, k))
    /\ msg' = <<>>
    /\ begun' = FALSE

HashNext == Begin \/ Conclude \/ \E chunk \in Chunk : Feed(chunk)

HashSpec == HashInit /\ [][HashNext]_<<begun, msg, digest>>

=============================================================================
