----------------------------- MODULE Sha256Ctx ------------------------------
(***************************************************************************)
(* SHA256_CTX and the steps of src/sha256.c as operators on it.            *)
(*                                                                         *)
(* A byte is a value of Byte; the byte of value n is Num(n), so that       *)
(* modules built on this one can also feed symbolic bytes (a digest, a     *)
(* masked key).  The compression function is kept uninterpreted: ctx.state *)
(* is represented by the chaining value it started from, ctx.chain, and    *)
(* the bytes compressed into it since, ctx.hashed.  Two contexts with the  *)
(* same representation have the same state[8].                             *)
(***************************************************************************)
EXTENDS Integers, Sequences

CONSTANTS Byte,        \* all byte values
          Radix,       \* number of values of a numeric byte: 256
          ByteBits,    \* bits in a byte: 8
          BlockSize,   \* SHA256_BLOCK_SIZE: 64
          LenSize,     \* bytes of the length field: 8
          Weight       \* place value of each length byte: 2^56, 2^48, ..., 1

Num(n) == <<n>>

ASSUME SizeAssumption ==
    /\ LenSize \in Nat \ {0}
    /\ BlockSize \in Nat
    /\ LenSize < BlockSize

ASSUME ByteAssumption ==
    /\ Radix \in Nat \ {0, 1}
    /\ ByteBits \in Nat \ {0}
    /\ Weight \in [1 .. LenSize -> Nat \ {0}]
    /\ \A n \in 0 .. Radix - 1 : Num(n) \in Byte

CtrMod == Radix * Weight[1]          \* 2^64, the modulus of bit_count
Zero == Num(0)
Marker == Num(Radix \div 2)          \* 0x80
LenAt == BlockSize - LenSize         \* 56

(* memset(buf + from, 0, to - from) and memcpy(buf + from, data, len).     *)
ZeroFill(buf, from, to) ==
    [i \in 1 .. BlockSize |-> IF from < i /\ i <= to THEN Zero ELSE buf[i]]
CopyIn(buf, from, data) ==
    [i \in 1 .. BlockSize |->
        IF from < i /\ i <= from + Len(data) THEN data[i - from] ELSE buf[i]]

(* store64be: the big-endian bytes of n.                                   *)
store64be(n) == [i \in 1 .. LenSize |-> Num((n \div Weight[i]) % Radix)]

Ctx == [chain : {"H0", "zero"}, hashed : Seq(Byte), bit_count : 0 .. CtrMod - 1,
        buf : [1 .. BlockSize -> Byte], buf_len : 0 .. BlockSize]

ZeroCtx == [chain |-> "zero", hashed |-> <<>>, bit_count |-> 0,
            buf |-> [i \in 1 .. BlockSize |-> Zero], buf_len |-> 0]

sha256_compress(ctx) == [ctx EXCEPT !.hashed = @ \o ctx.buf]

(* sha256_init leaves the old contents of the buffer in place.             *)
sha256_init(ctx) ==
    [ctx EXCEPT !.chain = "H0", !.hashed = <<>>, !.bit_count = 0, !.buf_len = 0]

\* A plausible slip: a counter type that does not wrap at the length field.
CountBits_NoWrap(ctx, len) == [ctx EXCEPT !.bit_count = @ + len * ByteBits]

CountBits(ctx, len) == [ctx EXCEPT !.bit_count = (@ + len * ByteBits) % CtrMod]

(* One iteration of the loop in sha256_update, len > 0 bytes to go:        *)
(* min(len, space) bytes are copied, a full buffer is compressed.          *)
\* A plausible slip: the last byte of the buffer is never filled.
Taken_LeavesRoom(ctx, data) ==
    IF Len(data) < BlockSize - 1 - ctx.buf_len THEN Len(data)
    ELSE BlockSize - 1 - ctx.buf_len

Taken(ctx, data) ==
    IF Len(data) < BlockSize - ctx.buf_len THEN Len(data) ELSE BlockSize - ctx.buf_len

\* A plausible slip: the full buffer is compressed but not emptied.
Absorb_NoReset(ctx, data) ==
    LET n == Taken(ctx, data)
        filled == [ctx EXCEPT !.buf = CopyIn(@, ctx.buf_len, SubSeq(data, 1, n)),
                              !.buf_len = @ + n]
    IN  IF filled.buf_len = BlockSize THEN sha256_compress(filled) ELSE filled

Absorb(ctx, data) ==
    LET n == Taken(ctx, data)
        filled == [ctx EXCEPT !.buf = CopyIn(@, ctx.buf_len, SubSeq(data, 1, n)),
                              !.buf_len = @ + n]
    IN  IF filled.buf_len = BlockSize
        THEN [sha256_compress(filled) EXCEPT !.buf_len = 0]
        ELSE filled

Remaining(ctx, data) == SubSeq(data, Taken(ctx, data) + 1, Len(data))

(* sha256_final: the marker; the rest of a block that has no room for the  *)
(* length; the zeros up to the length, and the length.                     *)
PutMarker(ctx) ==
    [ctx EXCEPT !.buf = CopyIn(@, ctx.buf_len, <<Marker>>), !.buf_len = @ + 1]

\* A plausible slip: no spill when the marker lands just past the length.
Spill_OffByOne(ctx) ==
    IF ctx.buf_len > LenAt + 1
    THEN [sha256_compress([ctx EXCEPT !.buf = ZeroFill(@, ctx.buf_len, BlockSize)])
             EXCEPT !.buf_len = 0]
    ELSE ctx

Spill(ctx) ==
    IF ctx.buf_len > LenAt
    THEN [sha256_compress([ctx EXCEPT !.buf = ZeroFill(@, ctx.buf_len, BlockSize)])
             EXCEPT !.buf_len = 0]
    ELSE ctx

PutLength(ctx) ==
    sha256_compress([ctx EXCEPT !.buf = CopyIn(ZeroFill(@, ctx.buf_len, LenAt), LenAt,
                                               store64be(ctx.bit_count))])

(* What sha256_final reads the digest from; the context is zeroized after. *)
Finished(ctx) == PutLength(Spill(PutMarker(ctx)))

Digest(chain, hashed) == [chain |-> chain, hashed |-> hashed]
(* The message a context stands for: the bytes compressed and buffered.    *)
Absorbed(ctx) == ctx.hashed \o SubSeq(ctx.buf, 1, ctx.buf_len)

DigestOf(ctx) == Digest(Finished(ctx).chain, Finished(ctx).hashed)

=============================================================================
