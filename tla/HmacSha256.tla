----------------------------- MODULE HmacSha256 -----------------------------
(***************************************************************************)
(* src/hmac.c on top of the contexts of sha256.c: one HMAC_SHA256_CTX under *)
(* any sequence of hmac_sha256_init (also on a context still in use),      *)
(* _update, _final (also without a new init) and the one-shot hmac_sha256. *)
(*                                                                         *)
(* XOR with a pad and SHA-256 are kept symbolic: a masked key byte is      *)
(* Masked(pad, b), the i-th byte of digest d is DigestByte(d, i).          *)
(***************************************************************************)
EXTENDS Padding

CONSTANTS Key,         \* the keys a caller may pass
          Chunk,       \* the byte strings passed to one hmac_sha256_update
          MaxLen,      \* bound on the length of a message
          DigestSize,  \* SHA256_DIGEST_SIZE: 32
          Junk         \* what an uninitialised stack buffer may contain

ASSUME HmacAssumption ==
    /\ DigestSize \in 1 .. BlockSize
    /\ MaxLen \in Nat
    /\ Byte = {Num(n) : n \in 0 .. Radix - 1}
    /\ Key \subseteq Seq(Byte)
    /\ Chunk \subseteq Seq(Byte)
    /\ Junk \subseteq [1 .. BlockSize -> Byte]

VARIABLES inner, outer,   \* the two SHA256_CTX of the context
          mac,            \* what the call that just returned wrote to mac[]
          locals,         \* what it left in the locals of its frame that held
                          \* the key, if it was hmac_sha256_init
          key, fed        \* history: the key and the bytes passed since the last
                          \* hmac_sha256_init or _final

hmac_vars == <<inner, outer, mac, locals, key, fed>>

-----------------------------------------------------------------------------
Masked(pad, b) == <<pad, b>>
DigestByte(d, i) == <<"digest", d, i>>
Bytes(d) == [i \in 1 .. DigestSize |-> DigestByte(d, i)]
Mask(pad, k0) == [i \in 1 .. BlockSize |-> Masked(pad, k0[i])]

NoMac == Digest("none", <<>>)
NoKey == <<>>        \* otherwise <<k>>
NoLocals == [k0 |-> <<>>, ipad |-> <<>>, opad |-> <<>>]

(* sha256_update run to its return: the loop takes at least one byte each. *)
sha256_update(ctx, data) ==
    LET step[n \in 0 .. Len(data)] ==
            IF n = 0 THEN <<CountBits(ctx, Len(data)), data>>
            ELSE LET s == step[n - 1]
                 IN  IF s[2] = <<>> THEN s
                     ELSE <<Absorb(s[1], s[2]), Remaining(s[1], s[2])>>
    IN  step[Len(data)][1]

(* The one-shot sha256 on a local context whose buffer is uninitialised.   *)
sha256(data, junk) ==
    DigestOf(sha256_update(sha256_init([ZeroCtx EXCEPT !.buf = junk]), data))

\* A plausible slip: a key of exactly one block is hashed as well.
KeyBlock_HashesFullBlock(k, junk) ==
    LET bytes == IF Len(k) >= BlockSize THEN Bytes(sha256(k, junk)) ELSE k
    IN  bytes \o Zeros(BlockSize - Len(bytes))

(* k0: a key longer than a block is hashed; the rest is zero.              *)
KeyBlock(k, junk) ==
    LET bytes == IF Len(k) > BlockSize THEN Bytes(sha256(k, junk)) ELSE k
    IN  bytes \o Zeros(BlockSize - Len(bytes))

\* A plausible slip: the mask block is fed to the context as it is.
Keyed_SkipsInit(ctx, pad, k, junk) ==
    sha256_update(ctx, Mask(pad, KeyBlock(k, junk)))

Keyed(ctx, pad, k, junk) ==
    sha256_update(sha256_init(ctx), Mask(pad, KeyBlock(k, junk)))

Concluded(in, out) == DigestOf(sha256_update(out, Bytes(DigestOf(in))))

(* The one-shot hmac_sha256, on a local context that is uninitialised.     *)
hmac_sha256(k, data, junk) ==
    LET fresh == [ZeroCtx EXCEPT !.buf = junk]
    IN  Concluded(sha256_update(Keyed(fresh, "ipad", k, junk), data),
                  Keyed(fresh, "opad", k, junk))

-----------------------------------------------------------------------------
HmacInit == /\ inner = ZeroCtx /\ outer = ZeroCtx
            /\ mac = NoMac
            /\ locals = NoLocals
            /\ key = NoKey
            /\ fed = <<>>

(* k0 is zeroized before the return, ipad and opad are not.                *)
hmac_sha256_init(k) ==
    \E junk \in Junk :
        /\ inner' = Keyed(inner, "ipad", k, junk)
        /\ outer' = Keyed(outer, "opad", k, junk)
        /\ mac' = NoMac
        /\ locals' = [k0 |-> Zeros(BlockSize), ipad |-> Mask("ipad", KeyBlock(k, junk)),
                      opad |-> Mask("opad", KeyBlock(k, junk))]
        /\ key' = <<k>>
        /\ fed' = <<>>

hmac_sha256_update(chunk) ==
    /\ Len(fed) + Len(chunk) <= MaxLen
    /\ inner' = sha256_update(inner, chunk)
    /\ fed' = fed \o chunk
    /\ mac' = NoMac
    /\ locals' = NoLocals
    /\ UNCHANGED <<outer, key>>

\* A plausible slip: the outer hash is read but its context not finalised.
hmac_sha256_final_KeepsOuter ==
    /\ mac' = Concluded(inner, outer)
    /\ inner' = ZeroCtx
    /\ outer' = sha256_update(outer, Bytes(DigestOf(inner)))
    /\ locals' = NoLocals
    /\ key' = NoKey
    /\ fed' = <<>>

(* Both sha256_final calls leave their context zeroized.                   *)
hmac_sha256_final ==
    /\ mac' = Concluded(inner, outer)
    /\ inner' = ZeroCtx
    /\ outer' = ZeroCtx
    /\ locals' = NoLocals
    /\ key' = NoKey
    /\ fed' = <<>>

HmacNext == \/ \E k \in Key : hmac_sha256_init(k)
            \/ \E chunk \in Chunk : hmac_sha256_update(chunk)
            \/ hmac_sha256_final

HmacSpec == HmacInit /\ [][HmacNext]_hmac_vars

-----------------------------------------------------------------------------
(* The reference: FIPS 198-1, section 4, over the padding of FIPS 180-4.   *)
Hash(chain, m) ==
    LET k == CHOOSE k \in 0 .. BlockSize - 1 : Aligned(Len(Padded(m, k)))
    IN  Digest(chain, Padded(m, k))

K0(k) == IF Len(k) <= BlockSize
         THEN k \o Zeros(BlockSize - Len(k))
         ELSE Bytes(Hash("H0", k)) \o Zeros(BlockSize - DigestSize)

HMAC(k, text) ==
    Hash("H0", Mask("opad", K0(k)) \o Bytes(Hash("H0", Mask("ipad", K0(k)) \o text)))
KeylessHash(text) == Hash("zero", Bytes(Hash("zero", text)))

(* However the message is cut, and whatever the context held before, the  *)
(* MAC is the one FIPS 198-1 defines for the key and message given since   *)
(* the last init; a context finalised twice, or fed again after a final,   *)
(* hashes without any key (hmac.c:27-82).                                  *)
MacIsReference ==
    [][hmac_sha256_final =>
         mac' = IF key = NoKey THEN KeylessHash(fed) ELSE HMAC(key[1], fed)]_hmac_vars

(* At every point of a streamed message the one-shot, given the key and    *)
(* the message so far, computes the MAC of FIPS 198-1 for them, whatever   *)
(* the stack held where its context lies (hmac.c:84-91).                   *)
OneShotIsReference ==
    key # NoKey => \A junk \in Junk :
                      hmac_sha256(key[1], fed, junk) = HMAC(key[1], fed)

(* Key bytes reachable in a context, through its buffer (also the stale    *)
(* part above buf_len) or its chaining value.                              *)
KeyBytes(ctx) ==
    {b \in {ctx.buf[i] : i \in 1 .. BlockSize}
           \cup {ctx.hashed[i] : i \in DOMAIN ctx.hashed} : Len(b) = 2}

(* What the locals hold, byte by byte.                                     *)
LocalBytes ==
    UNION {{locals[name][i] : i \in DOMAIN locals[name]} : name \in DOMAIN locals}

MaskedKey ==
    IF key = NoKey THEN {}
    ELSE {Masked(pad, K0(key[1])[i]) : pad \in {"ipad", "opad"}, i \in 1 .. BlockSize}

(* Re-keying a live context overwrites all of the old key, because the     *)
(* mask block fills the whole buffer, and a final leaves no key behind:    *)
(* sha256_init alone clears neither.  In its frame hmac_sha256_init leaves *)
(* the key of the context under its two masks, and no byte of the key      *)
(* itself or of its hash (hmac.c:29-59).                                   *)
OnlyCurrentKeyHeld ==
    /\ KeyBytes(inner) \cup KeyBytes(outer) \subseteq MaskedKey
    /\ LocalBytes \subseteq MaskedKey \cup {Num(0)}

=============================================================================
