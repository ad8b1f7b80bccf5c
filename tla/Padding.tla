------------------------------ MODULE Padding -------------------------------
(* The padded form of a message as FIPS 180-4, section 5.1.1, defines it.  *)
EXTENDS Sha256Ctx

Zeros(k) == [i \in 1 .. k |-> Zero]

(* Marker, k zeros, and the length modulo the width of the counter.        *)
Padded(m, k) == m \o <<Marker>> \o Zeros(k)
                  \o store64be((Len(m) * ByteBits) % CtrMod)

Aligned(n) == \E q \in 0 .. n : n = q * BlockSize

(* p is m padded to whole blocks; at most one k below BlockSize aligns it. *)
IsPadding(p, m) == \E k \in 0 .. BlockSize - 1 :
                      p = Padded(m, k) /\ Aligned(Len(p))
=============================================================================
