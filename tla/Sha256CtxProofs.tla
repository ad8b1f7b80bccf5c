-------------------------- MODULE Sha256CtxProofs ---------------------------
(***************************************************************************)
(* Lemmas about the operators of Sha256Ctx and of the reference padding:   *)
(* what one iteration of the update loop and what sha256_final do to the   *)
(* message a context stands for, for every block and counter size.         *)
(***************************************************************************)
EXTENDS Padding, SequenceTheorems, TLAPS

(* The bytes of a context come from a set that has the numeric bytes.      *)
HoldsNumbers(B) == \A n \in 0 .. Radix - 1 : Num(n) \in B

Buffer(B) == [1 .. BlockSize -> B]

CtxOver(B) == [chain : {"H0", "zero"}, hashed : Seq(B), bit_count : 0 .. CtrMod - 1,
               buf : Buffer(B), buf_len : 0 .. BlockSize]

LEMMA CtxFacts == HoldsNumbers(Byte) /\ Ctx = CtxOver(Byte)
BY ByteAssumption DEF HoldsNumbers, Ctx, CtxOver, Buffer

-----------------------------------------------------------------------------
(* Division with remainder and the bit counter, which wraps.               *)
(* A wrapped counter is below its modulus.                                 *)
LEMMA ModRange ==
  ASSUME NEW a \in Nat, NEW m \in Nat \ {0}
  PROVE  a % m \in 0 .. m - 1
BY SMT

(* Quotient and remainder are the only ones there are.                     *)
LEMMA ModUnique ==
  ASSUME NEW n \in Nat, NEW m \in Nat \ {0}, NEW q \in Int, NEW r \in 0 .. m - 1,
         n = m * q + r
  PROVE  n % m = r
<1> DEFINE p == n \div m   s == n % m
<1>1. p \in Int /\ s \in 0 .. m - 1 /\ n = m * p + s
  BY SMT
<1> HIDE DEF p, s
<1>2. m * (q - p) = s - r
  BY <1>1, SMT
<1>3. ~(q - p >= 1)
  <2>1. q - p >= 1 => m * (q - p) >= m
    BY <1>1, SMT
  <2> QED BY <2>1, <1>1, <1>2, SMT
<1>4. ~(q - p <= -1)
  <2>1. q - p <= -1 => m * (q - p) <= -m
    BY <1>1, SMT
  <2> QED BY <2>1, <1>1, <1>2, SMT
<1>5. q = p
  BY <1>1, <1>3, <1>4, SMT
<1> QED
  BY <1>1, <1>2, <1>5, SMT DEF s

(* Adding to a wrapped counter is wrapping the sum.                        *)
LEMMA ModAdd ==
  ASSUME NEW a \in Nat, NEW b \in Nat, NEW m \in Nat \ {0}
  PROVE  ((a % m) + b) % m = (a + b) % m
<1> DEFINE q == a \div m   r == a % m
           p == (r + b) \div m   s == (r + b) % m
<1>1. q \in Int /\ r \in 0 .. m - 1 /\ a = m * q + r
  BY SMT
<1>2. p \in Int /\ s \in 0 .. m - 1 /\ r + b = m * p + s
  BY <1>1, SMT
<1>3. q + p \in Int /\ a + b = m * (q + p) + s
  <2> HIDE DEF q, r, p, s
  <2> QED BY <1>1, <1>2, SMT
<1>4. (a + b) % m = s
  <2> HIDE DEF q, r, p, s
  <2>1. a + b \in Nat BY SMT
  <2> QED BY <1>2, <1>3, <2>1, ModUnique
<1> QED
  BY <1>4

-----------------------------------------------------------------------------
LEMMA ProductPositive ==
  ASSUME NEW a \in Nat \ {0}, NEW b \in Nat \ {0}
  PROVE  a * b \in Nat \ {0}
BY SMT

LEMMA FunIsSeq ==
  ASSUME NEW S, NEW n \in Nat, NEW f \in [1 .. n -> S]
  PROVE  f \in Seq(S) /\ Len(f) = n
<1>1. f \in Seq(S)
  BY SeqDef
<1>2. DOMAIN f = 1 .. Len(f) /\ Len(f) \in Nat
  BY <1>1, LenProperties
<1>3. 1 .. n = 1 .. Len(f)
  BY <1>2
<1> QED
  BY <1>1, <1>2, <1>3

(* Concatenation of byte strings by a name of its own, which the provers   *)
(* do not look into.                                                       *)
s ** t == s \o t

LEMMA Concat ==
  ASSUME NEW B, NEW s \in Seq(B), NEW t \in Seq(B)
  PROVE  /\ s ** t \in Seq(B)
         /\ Len(s ** t) = Len(s) + Len(t)
         /\ Len(s) \in Nat
BY ConcatProperties, LenProperties DEF **

LEMMA ConcatAt ==
  ASSUME NEW B, NEW s \in Seq(B), NEW t \in Seq(B), NEW i \in 1 .. Len(s) + Len(t)
  PROVE  (s ** t)[i] = IF i <= Len(s) THEN s[i] ELSE t[i - Len(s)]
BY ConcatProperties DEF **

(* A byte string is known by its length and its bytes.                     *)
LEMMA IsConcat ==
  ASSUME NEW B, NEW s \in Seq(B), NEW t \in Seq(B), NEW u \in Seq(B),
         Len(u) = Len(s) + Len(t),
         \A i \in 1 .. Len(s) + Len(t) : u[i] = IF i <= Len(s) THEN s[i] ELSE t[i - Len(s)]
  PROVE  u = s ** t
<1>1. s ** t \in Seq(B) /\ Len(s ** t) = Len(u)
  BY Concat
<1>2. \A i \in 1 .. Len(u) : u[i] = (s ** t)[i]
  BY ConcatAt
<1> QED
  BY <1>1, <1>2, SeqEqual

LEMMA Assoc ==
  ASSUME NEW B, NEW s \in Seq(B), NEW t \in Seq(B), NEW u \in Seq(B)
  PROVE  (s ** t) ** u = s ** (t ** u)
BY ConcatAssociative DEF **

LEMMA ConcatEmpty ==
  ASSUME NEW B, NEW s \in Seq(B)
  PROVE  s ** <<>> = s /\ <<>> ** s = s
BY ConcatEmptySeq DEF **

(* The first n bytes of a string.                                          *)
Prefix(s, n) == SubSeq(s, 1, n)

LEMMA ConcatAdjacent ==
  ASSUME NEW B, NEW s \in Seq(B), NEW n \in 0 .. Len(s)
  PROVE  Prefix(s, n) ** SubSeq(s, n + 1, Len(s)) = s
<1>1. 1 \in 1 .. Len(s) + 1 /\ n \in 1 - 1 .. Len(s) /\ Len(s) \in n .. Len(s)
  BY LenProperties
<1>2. SubSeq(s, 1, n) \o SubSeq(s, n + 1, Len(s)) = SubSeq(s, 1, Len(s))
  BY <1>1, ConcatAdjacentSubSeq
<1> QED
  BY <1>2, SubSeqFull DEF Prefix, **

(* The definitions that concatenate, with these names.                     *)
LEMMA AbsorbedDef ==
  ASSUME NEW c
  PROVE  Absorbed(c) = c.hashed ** Prefix(c.buf, c.buf_len)
BY DEF Absorbed, Prefix, **

LEMMA CompressDef ==
  ASSUME NEW c
  PROVE  sha256_compress(c) = [c EXCEPT !.hashed = c.hashed ** c.buf]
BY DEF sha256_compress, **

LEMMA PaddedDef ==
  ASSUME NEW m, NEW k
  PROVE  Padded(m, k) = ((m ** <<Marker>>) ** Zeros(k))
                          ** store64be((Len(m) * ByteBits) % CtrMod)
BY DEF Padded, **

LEMMA CtrModPositive == CtrMod \in Nat \ {0}
<1>1. Weight[1] \in Nat \ {0} /\ Radix \in Nat \ {0}
  BY SizeAssumption, ByteAssumption
<1> QED
  BY <1>1, ProductPositive DEF CtrMod

LEMMA ByteFacts ==
  ASSUME NEW B, HoldsNumbers(B)
  PROVE  Zero \in B /\ Marker \in B
<1>1. 0 \in 0 .. Radix - 1 /\ Radix \div 2 \in 0 .. Radix - 1
  BY ByteAssumption, SMT
<1> QED
  BY <1>1 DEF HoldsNumbers, Zero, Marker

LEMMA StoreFacts ==
  ASSUME NEW B, HoldsNumbers(B), NEW n \in Nat
  PROVE  store64be(n) \in Seq(B) /\ Len(store64be(n)) = LenSize
<1>1. ASSUME NEW i \in 1 .. LenSize
      PROVE  Num((n \div Weight[i]) % Radix) \in B
  <2>1. Weight[i] \in Nat \ {0}
    BY ByteAssumption
  <2>2. n \div Weight[i] \in Nat
    BY <2>1, SMT
  <2>3. (n \div Weight[i]) % Radix \in 0 .. Radix - 1
    BY <2>2, ByteAssumption, ModRange
  <2> QED
    BY <2>3 DEF HoldsNumbers
<1>2. store64be(n) \in [1 .. LenSize -> B]
  BY <1>1 DEF store64be
<1> QED
  BY <1>2, FunIsSeq, SizeAssumption

LEMMA ZerosFacts ==
  ASSUME NEW B, HoldsNumbers(B), NEW k \in Nat
  PROVE  Zeros(k) \in Seq(B) /\ Len(Zeros(k)) = k
<1>1. Zeros(k) \in [1 .. k -> B]
  BY ByteFacts DEF Zeros
<1> QED
  BY <1>1, FunIsSeq

LEMMA ZerosConcat ==
  ASSUME NEW B, HoldsNumbers(B), NEW j \in Nat, NEW k \in Nat
  PROVE  Zeros(j) ** Zeros(k) = Zeros(j + k)
<1>1. /\ Zeros(j) \in Seq(B) /\ Len(Zeros(j)) = j
      /\ Zeros(k) \in Seq(B) /\ Len(Zeros(k)) = k
      /\ Zeros(j + k) \in Seq(B) /\ Len(Zeros(j + k)) = j + k
  BY ZerosFacts
<1>2. \A i \in 1 .. j + k : Zeros(j + k)[i] = IF i <= j THEN Zeros(j)[i] ELSE Zeros(k)[i - j]
  BY DEF Zeros
<1> DEFINE u == Zeros(j + k)   v == Zeros(j)   w == Zeros(k)
<1>3. /\ u \in Seq(B) /\ v \in Seq(B) /\ w \in Seq(B) /\ Len(u) = Len(v) + Len(w)
      /\ \A i \in 1 .. Len(v) + Len(w) : u[i] = IF i <= Len(v) THEN v[i] ELSE w[i - Len(v)]
  BY <1>1, <1>2
<1> HIDE DEF u, v, w
<1>4. u = v ** w
  BY <1>3, IsConcat
<1> QED
  BY <1>4 DEF u, v, w

(* A full buffer is aligned, and one block more stays aligned.             *)
LEMMA AlignedFacts ==
  /\ Aligned(0)
  /\ \A n \in Nat : Aligned(n) => Aligned(n + BlockSize)
<1>1. Aligned(0)
  BY SizeAssumption DEF Aligned
<1>2. ASSUME NEW n \in Nat, Aligned(n) PROVE Aligned(n + BlockSize)
  <2>1. PICK q \in 0 .. n : n = q * BlockSize
    BY <1>2 DEF Aligned
  <2>2. n + BlockSize = (q + 1) * BlockSize
    BY <2>1, SizeAssumption, SMT
  <2>3. q + 1 \in 0 .. n + BlockSize
    BY <2>1, SizeAssumption, SMT
  <2> QED BY <2>2, <2>3 DEF Aligned
<1> QED
  BY <1>1, <1>2

(* What a buffer holds before buf_len.                                     *)
LEMMA PrefixFacts ==
  ASSUME NEW B, NEW s \in Seq(B), NEW n \in 0 .. Len(s)
  PROVE  /\ Prefix(s, n) \in Seq(B) /\ Len(Prefix(s, n)) = n
         /\ \A i \in 1 .. n : Prefix(s, n)[i] = s[i]
<1>1. Len(s) \in Nat
  BY LenProperties
<1>2. \A i \in 1 .. n : s[i] \in B
  BY <1>1, ElementOfSeq
<1>3. /\ SubSeq(s, 1, n) \in Seq(B)
      /\ Len(SubSeq(s, 1, n)) = IF 1 <= n THEN n - 1 + 1 ELSE 0
      /\ \A i \in 1 .. n - 1 + 1 : SubSeq(s, 1, n)[i] = s[1 + i - 1]
  BY <1>1, <1>2, SubSeqProperties
<1> QED
  BY <1>1, <1>3 DEF Prefix

LEMMA PrefixEnds ==
  ASSUME NEW B, NEW s \in Seq(B)
  PROVE  Prefix(s, Len(s)) = s /\ Prefix(s, 0) = <<>>
BY SubSeqFull, SubSeqEmpty DEF Prefix

LEMMA BufferIsSeq ==
  ASSUME NEW B, NEW buf \in Buffer(B)
  PROVE  /\ buf \in Seq(B) /\ Len(buf) = BlockSize
         /\ Prefix(buf, BlockSize) = buf /\ Prefix(buf, 0) = <<>>
<1>1. buf \in Seq(B) /\ Len(buf) = BlockSize
  BY FunIsSeq, SizeAssumption DEF Buffer
<1> QED
  BY <1>1, PrefixEnds

LEMMA BufferPrefix ==
  ASSUME NEW B, NEW buf \in Buffer(B), NEW n \in 0 .. BlockSize
  PROVE  /\ Prefix(buf, n) \in Seq(B) /\ Len(Prefix(buf, n)) = n
         /\ \A i \in 1 .. n : Prefix(buf, n)[i] = buf[i]
<1>1. buf \in Seq(B) /\ n \in 0 .. Len(buf)
  BY BufferIsSeq
<1> QED
  BY <1>1, PrefixFacts

(* A buffer whose bytes before from are those of another, followed by data.*)
LEMMA PrefixGrows ==
  ASSUME NEW B, NEW buf \in Buffer(B), NEW new \in Buffer(B),
         NEW from \in 0 .. BlockSize, NEW data \in Seq(B), from + Len(data) <= BlockSize,
         \A i \in 1 .. from : new[i] = buf[i],
         \A i \in 1 .. Len(data) : new[from + i] = data[i]
  PROVE  Prefix(new, from + Len(data)) = Prefix(buf, from) ** data
<1> DEFINE n == from + Len(data)
<1>1. Len(data) \in Nat /\ n \in 0 .. BlockSize /\ BlockSize \in Nat
  BY LenProperties, SizeAssumption
<1>2. /\ Prefix(new, n) \in Seq(B) /\ Len(Prefix(new, n)) = n
      /\ \A i \in 1 .. n : Prefix(new, n)[i] = new[i]
  BY <1>1, BufferPrefix
<1>3. /\ Prefix(buf, from) \in Seq(B) /\ Len(Prefix(buf, from)) = from
      /\ \A i \in 1 .. from : Prefix(buf, from)[i] = buf[i]
  BY BufferPrefix
<1>4. ASSUME NEW i \in 1 .. n
      PROVE  Prefix(new, n)[i] = IF i <= from THEN Prefix(buf, from)[i] ELSE data[i - from]
  <2>1. CASE i <= from
    BY <1>1, <1>2, <1>3, <2>1
  <2>2. CASE ~(i <= from)
    <3>1. i - from \in 1 .. Len(data) /\ from + (i - from) = i
      BY <1>1, <2>2
    <3>2. new[i] = data[i - from]
      BY <3>1
    <3> QED
      BY <1>2, <2>2, <3>2
  <2> QED
    BY <2>1, <2>2
<1> HIDE DEF n
<1> QED
  BY <1>2, <1>3, <1>4, IsConcat DEF n

(* memcpy(buf + from, data, len): the prefix grows by data.                *)
LEMMA CopyInFacts ==
  ASSUME NEW B, NEW buf \in Buffer(B), NEW from \in 0 .. BlockSize,
         NEW data \in Seq(B), from + Len(data) <= BlockSize
  PROVE  /\ CopyIn(buf, from, data) \in Buffer(B)
         /\ Prefix(CopyIn(buf, from, data), from + Len(data))
              = Prefix(buf, from) ** data
<1> DEFINE new == CopyIn(buf, from, data)
<1>1. Len(data) \in Nat /\ BlockSize \in Nat
  BY LenProperties, SizeAssumption
<1>2. new \in Buffer(B)
  <2>1. \A i \in 1 .. BlockSize :
            from < i /\ i <= from + Len(data) => data[i - from] \in B
    BY <1>1, ElementOfSeq
  <2> QED BY <2>1 DEF CopyIn, Buffer
<1>3. \A i \in 1 .. from : new[i] = buf[i]
  BY <1>1 DEF CopyIn
<1>4. \A i \in 1 .. Len(data) : new[from + i] = data[i]
  BY <1>1 DEF CopyIn
<1> HIDE DEF new
<1>5. Prefix(new, from + Len(data)) = Prefix(buf, from) ** data
  BY <1>2, <1>3, <1>4, PrefixGrows
<1> QED
  BY <1>2, <1>5 DEF new

(* memset(buf + from, 0, to - from): the prefix grows by zeros.            *)
LEMMA ZeroFillFacts ==
  ASSUME NEW B, HoldsNumbers(B), NEW buf \in Buffer(B), NEW from \in 0 .. BlockSize,
         NEW to \in from .. BlockSize
  PROVE  /\ ZeroFill(buf, from, to) \in Buffer(B)
         /\ Prefix(ZeroFill(buf, from, to), to)
              = Prefix(buf, from) ** Zeros(to - from)
<1> DEFINE new == ZeroFill(buf, from, to)
           zs == Zeros(to - from)
<1>1. to - from \in Nat /\ from + (to - from) = to /\ to <= BlockSize /\ BlockSize \in Nat
  BY SizeAssumption
<1>2. new \in Buffer(B)
  BY ByteFacts DEF ZeroFill, Buffer
<1>3. zs \in Seq(B) /\ Len(zs) = to - from
  BY <1>1, ZerosFacts
<1>4. \A i \in 1 .. from : new[i] = buf[i]
  BY <1>1 DEF ZeroFill
<1>5. \A i \in 1 .. to - from : new[from + i] = zs[i]
  BY <1>1 DEF ZeroFill, Zeros
<1> HIDE DEF new, zs
<1>6. Prefix(new, from + Len(zs)) = Prefix(buf, from) ** zs
  <2>1. from + Len(zs) <= BlockSize /\ \A i \in 1 .. Len(zs) : new[from + i] = zs[i]
    BY <1>1, <1>3, <1>5
  <2> QED BY <2>1, <1>2, <1>3, <1>4, PrefixGrows
<1> QED
  BY <1>1, <1>2, <1>3, <1>6 DEF new, zs

LEMMA AbsorbedType ==
  ASSUME NEW B, HoldsNumbers(B), NEW c \in CtxOver(B)
  PROVE  /\ Absorbed(c) \in Seq(B)
         /\ Len(Absorbed(c)) = Len(c.hashed) + c.buf_len
<1>1. c.hashed \in Seq(B) /\ c.buf \in Buffer(B) /\ c.buf_len \in 0 .. BlockSize
  BY DEF CtxOver
<1>2. Prefix(c.buf, c.buf_len) \in Seq(B) /\ Len(Prefix(c.buf, c.buf_len)) = c.buf_len
  BY <1>1, BufferPrefix
<1> QED
  BY <1>1, <1>2, AbsorbedDef, Concat

LEMMA CtxEmptied ==
  ASSUME NEW B, HoldsNumbers(B), NEW c \in CtxOver(B), NEW d, d = [c EXCEPT !.buf_len = 0]
  PROVE  /\ d \in CtxOver(B)
         /\ d.buf = c.buf /\ d.buf_len = 0 /\ d.hashed = c.hashed
         /\ d.bit_count = c.bit_count /\ d.chain = c.chain
<1>1. 0 \in 0 .. BlockSize
  BY SizeAssumption
<1> QED
  BY <1>1 DEF CtxOver

LEMMA CompressFacts ==
  ASSUME NEW B, HoldsNumbers(B), NEW c \in CtxOver(B), Aligned(Len(c.hashed))
  PROVE  /\ sha256_compress(c) \in CtxOver(B)
         /\ sha256_compress(c).hashed = c.hashed ** c.buf
         /\ Aligned(Len(c.hashed ** c.buf))
         /\ sha256_compress(c).buf = c.buf /\ sha256_compress(c).buf_len = c.buf_len
         /\ sha256_compress(c).bit_count = c.bit_count
         /\ sha256_compress(c).chain = c.chain
<1>1. c.hashed \in Seq(B) /\ c.buf \in Buffer(B)
  BY DEF CtxOver
<1>2. c.buf \in Seq(B) /\ Len(c.buf) = BlockSize
  BY <1>1, BufferIsSeq
<1>3. /\ c.hashed ** c.buf \in Seq(B) /\ Len(c.hashed) \in Nat
      /\ Len(c.hashed ** c.buf) = Len(c.hashed) + BlockSize
  BY <1>1, <1>2, Concat
<1>4. Aligned(Len(c.hashed ** c.buf))
  BY <1>3, AlignedFacts
<1> QED
  BY <1>3, <1>4, CompressDef DEF CtxOver

(* One iteration of the loop in sha256_update moves a non-empty prefix of  *)
(* data into the context, whole blocks into the hash, and loses no byte.   *)
LEMMA AbsorbFacts ==
  ASSUME NEW B, HoldsNumbers(B), NEW c \in CtxOver(B), c.buf_len < BlockSize, Aligned(Len(c.hashed)),
         NEW data \in Seq(B), data # <<>>
  PROVE  /\ Absorb(c, data) \in CtxOver(B)
         /\ Absorb(c, data).buf_len < BlockSize
         /\ Aligned(Len(Absorb(c, data).hashed))
         /\ Absorb(c, data).bit_count = c.bit_count
         /\ Absorb(c, data).chain = c.chain
         /\ Remaining(c, data) \in Seq(B)
         /\ Len(Remaining(c, data)) < Len(data)
         /\ Absorbed(Absorb(c, data)) ** Remaining(c, data) = Absorbed(c) ** data
<1> DEFINE n == Taken(c, data)
           taken == Prefix(data, n)
           rest == Remaining(c, data)
           buf == CopyIn(c.buf, c.buf_len, taken)
           filled == [c EXCEPT !.buf = buf, !.buf_len = @ + n]
           out == Absorb(c, data)
<1>1. /\ c.hashed \in Seq(B) /\ Len(c.hashed) \in Nat
      /\ c.buf \in Buffer(B)
      /\ c.buf_len \in 0 .. BlockSize - 1
      /\ Len(data) \in Nat \ {0}
  BY LenProperties, EmptySeq, SizeAssumption DEF CtxOver
<1>2. n \in 1 .. Len(data) /\ c.buf_len + n <= BlockSize
  BY <1>1, SizeAssumption DEF Taken
<1>3. taken \in Seq(B) /\ Len(taken) = n
  <2> HIDE DEF n
  <2>1. n \in 0 .. Len(data)
    BY <1>2, <1>1
  <2> QED BY <2>1, PrefixFacts
<1>4. rest \in Seq(B) /\ Len(rest) = Len(data) - n
  <2>1. \A i \in n + 1 .. Len(data) : data[i] \in B
    BY <1>2, <1>1, ElementOfSeq
  <2>2. /\ SubSeq(data, n + 1, Len(data)) \in Seq(B)
        /\ Len(SubSeq(data, n + 1, Len(data)))
             = IF n + 1 <= Len(data) THEN Len(data) - (n + 1) + 1 ELSE 0
    <3> HIDE DEF n
    <3> QED BY <2>1, <1>2, <1>1, SubSeqProperties
  <2>3. rest = SubSeq(data, n + 1, Len(data))
    BY DEF Remaining
  <2> QED BY <2>2, <2>3, <1>1, <1>2
<1>5. taken ** rest = data
  <2>1. rest = SubSeq(data, n + 1, Len(data))
    BY DEF Remaining
  <2> HIDE DEF n
  <2> QED BY <2>1, <1>1, <1>2, ConcatAdjacent
<1>6. /\ buf \in Buffer(B)
      /\ Prefix(buf, c.buf_len + n) = Prefix(c.buf, c.buf_len) ** taken
  <2> HIDE DEF n, taken
  <2>1. c.buf_len \in 0 .. BlockSize /\ c.buf_len + Len(taken) <= BlockSize
    BY <1>1, <1>2, <1>3, SizeAssumption
  <2>2. /\ buf \in Buffer(B)
        /\ Prefix(buf, c.buf_len + Len(taken)) = Prefix(c.buf, c.buf_len) ** taken
    BY <2>1, <1>1, <1>3, CopyInFacts
  <2> QED BY <2>2, <1>3
<1>7. /\ filled \in CtxOver(B)
      /\ filled.hashed = c.hashed /\ filled.buf = buf /\ filled.buf_len = c.buf_len + n
      /\ filled.bit_count = c.bit_count /\ filled.chain = c.chain
  <2> HIDE DEF n, buf
  <2>1. c.buf_len + n \in 0 .. BlockSize
    BY <1>1, <1>2, SizeAssumption
  <2>2. filled = [c EXCEPT !.buf = buf, !.buf_len = c.buf_len + n]
    OBVIOUS
  <2>3. buf \in Buffer(B)
    BY <1>6
  <2> HIDE DEF filled
  <2>4. filled \in CtxOver(B)
    BY <2>1, <2>2, <2>3 DEF CtxOver
  <2> QED BY <2>2, <2>4 DEF CtxOver
<1>8. Prefix(c.buf, c.buf_len) \in Seq(B)
  BY <1>1, BufferPrefix, SizeAssumption
<1>9. (c.hashed ** (Prefix(c.buf, c.buf_len) ** taken)) ** rest = Absorbed(c) ** data
  <2> DEFINE pre == Prefix(c.buf, c.buf_len)
  <2> HIDE DEF taken, rest, n, pre
  <2>4. c.hashed \in Seq(B) /\ pre \in Seq(B) /\ taken \in Seq(B) /\ rest \in Seq(B)
    BY <1>1, <1>3, <1>4, <1>8 DEF pre
  <2>1. c.hashed ** (pre ** taken) = (c.hashed ** pre) ** taken
    BY ONLY <2>4, Assoc
  <2>2. c.hashed ** pre \in Seq(B)
    BY <2>4, Concat
  <2>3. ((c.hashed ** pre) ** taken) ** rest = (c.hashed ** pre) ** (taken ** rest)
    BY ONLY <2>2, <2>4, Assoc
  <2> QED BY <2>1, <2>3, <1>5, AbsorbedDef DEF pre
<1>10. CASE filled.buf_len = BlockSize
  <2>1. out = [sha256_compress(filled) EXCEPT !.buf_len = 0]
    BY <1>10 DEF Absorb, Prefix
  <2>2. /\ out \in CtxOver(B)
        /\ out.hashed = c.hashed ** buf /\ out.buf = buf /\ out.buf_len = 0
        /\ out.bit_count = c.bit_count /\ out.chain = c.chain
        /\ Aligned(Len(c.hashed ** buf))
    <3> HIDE DEF buf, out, n, filled
    <3>1. /\ sha256_compress(filled) \in CtxOver(B)
          /\ sha256_compress(filled).hashed = c.hashed ** buf
          /\ Aligned(Len(c.hashed ** buf))
          /\ sha256_compress(filled).buf = buf
          /\ sha256_compress(filled).bit_count = c.bit_count
          /\ sha256_compress(filled).chain = c.chain
      BY <1>7, CompressFacts
    <3> QED BY <2>1, <3>1, CtxEmptied
  <2>3. c.buf_len + n = BlockSize /\ buf = Prefix(c.buf, c.buf_len) ** taken
    <3> HIDE DEF buf, n, taken, filled
    <3> QED BY <1>6, <1>7, <1>10, BufferIsSeq
  <2>4. /\ c.hashed ** buf \in Seq(B)
        /\ Len(c.hashed ** buf) = Len(c.hashed) + BlockSize
    <3> HIDE DEF buf, n, taken, filled, out
    <3>1. buf \in Seq(B) /\ Len(buf) = BlockSize
      BY <1>6, BufferIsSeq
    <3> QED BY <3>1, <1>1, Concat
  <2>6. Absorbed(out) = c.hashed ** buf
    <3> HIDE DEF buf, out
    <3>1. Prefix(buf, 0) = <<>>
      BY <1>6, BufferIsSeq
    <3> QED BY <3>1, <2>2, <2>4, ConcatEmpty, AbsorbedDef
  <2>7. Absorbed(out) ** rest = Absorbed(c) ** data
    BY <2>6, <2>3, <1>9
  <2>8. Aligned(Len(out.hashed))
    BY <2>2
  <2> HIDE DEF out, rest, n
  <2>9. out.buf_len < BlockSize /\ Len(rest) < Len(data)
    BY <2>2, <1>4, <1>1, <1>2, SizeAssumption
  <2> QED BY <2>2, <2>7, <2>8, <2>9, <1>4 DEF out, rest
<1>11. CASE filled.buf_len # BlockSize
  <2>1. out = filled
    BY <1>11 DEF Absorb, Prefix
  <2>2. Absorbed(out) = c.hashed ** (Prefix(c.buf, c.buf_len) ** taken)
    <3> HIDE DEF out, filled, buf, taken, n
    <3> QED BY <2>1, <1>6, <1>7, AbsorbedDef
  <2>3. Absorbed(out) ** rest = Absorbed(c) ** data
    BY <2>2, <1>9
  <2> HIDE DEF out, filled, rest, n, buf
  <2>4. out.buf_len < BlockSize /\ Len(rest) < Len(data)
    <3>1. filled.buf_len \in 0 .. BlockSize
      BY <1>7 DEF CtxOver
    <3> QED BY <3>1, <2>1, <1>11, <1>4, <1>1, <1>2, SizeAssumption
  <2> QED BY <2>1, <2>3, <2>4, <1>4, <1>7 DEF out, rest
<1> QED
  BY <1>10, <1>11

LEMMA LenAtFacts == LenAt \in 0 .. BlockSize - 1 /\ LenAt + LenSize = BlockSize
BY SizeAssumption DEF LenAt

LEMMA PutMarkerFacts ==
  ASSUME NEW B, HoldsNumbers(B), NEW c \in CtxOver(B), c.buf_len < BlockSize
  PROVE  /\ PutMarker(c) \in CtxOver(B)
         /\ PutMarker(c).buf_len = c.buf_len + 1
         /\ PutMarker(c).hashed = c.hashed
         /\ PutMarker(c).bit_count = c.bit_count
         /\ PutMarker(c).chain = c.chain
         /\ Absorbed(PutMarker(c)) = Absorbed(c) ** <<Marker>>
<1> DEFINE one == <<Marker>>
           buf == CopyIn(c.buf, c.buf_len, one)
           d == PutMarker(c)
<1>1. /\ c.hashed \in Seq(B) /\ c.buf \in Buffer(B)
      /\ c.buf_len \in 0 .. BlockSize /\ c.buf_len + 1 \in 0 .. BlockSize
  BY SizeAssumption DEF CtxOver
<1>2. one \in Seq(B) /\ Len(one) = 1
  BY ByteFacts
<1>3. /\ buf \in Buffer(B)
      /\ Prefix(buf, c.buf_len + 1) = Prefix(c.buf, c.buf_len) ** one
  <2> HIDE DEF one
  <2>1. c.buf_len + Len(one) <= BlockSize
    BY <1>1, <1>2, SizeAssumption
  <2>2. /\ buf \in Buffer(B)
        /\ Prefix(buf, c.buf_len + Len(one)) = Prefix(c.buf, c.buf_len) ** one
    BY <2>1, <1>1, <1>2, CopyInFacts
  <2> QED BY <2>2, <1>2
<1>4. /\ d \in CtxOver(B) /\ d.buf_len = c.buf_len + 1 /\ d.hashed = c.hashed /\ d.buf = buf
      /\ d.bit_count = c.bit_count /\ d.chain = c.chain
  <2>1. d = [c EXCEPT !.buf = buf, !.buf_len = c.buf_len + 1]
    BY DEF PutMarker
  <2>2. buf \in Buffer(B)
    BY <1>3
  <2> HIDE DEF d, buf
  <2>3. d \in CtxOver(B)
    BY <2>1, <2>2, <1>1 DEF CtxOver
  <2> QED BY <2>1, <2>3 DEF CtxOver
<1>5. Absorbed(d) = Absorbed(c) ** one
  <2> HIDE DEF d, buf, one
  <2>1. Prefix(c.buf, c.buf_len) \in Seq(B)
    BY <1>1, BufferPrefix
  <2>2. (c.hashed ** Prefix(c.buf, c.buf_len)) ** one
          = c.hashed ** (Prefix(c.buf, c.buf_len) ** one)
    BY <2>1, <1>1, <1>2, Assoc
  <2>3. Absorbed(d) = c.hashed ** Prefix(buf, c.buf_len + 1)
    BY <1>4, AbsorbedDef
  <2> QED BY <2>2, <2>3, <1>3, AbsorbedDef
<1> HIDE DEF d
<1> QED
  BY <1>4, <1>5 DEF d

(* The spilled block carries the marker and zeros; nothing else is added.  *)
LEMMA SpillFacts ==
  ASSUME NEW B, HoldsNumbers(B), NEW c \in CtxOver(B), Aligned(Len(c.hashed))
  PROVE  /\ Spill(c) \in CtxOver(B)
         /\ Spill(c).buf_len = IF c.buf_len > LenAt THEN 0 ELSE c.buf_len
         /\ Aligned(Len(Spill(c).hashed))
         /\ Spill(c).bit_count = c.bit_count
         /\ Spill(c).chain = c.chain
         /\ Absorbed(Spill(c)) =
              Absorbed(c) ** Zeros(IF c.buf_len > LenAt THEN BlockSize - c.buf_len ELSE 0)
<1>1. /\ c.hashed \in Seq(B) /\ c.buf \in Buffer(B)
      /\ c.buf_len \in 0 .. BlockSize /\ BlockSize \in c.buf_len .. BlockSize
  BY SizeAssumption DEF CtxOver
<1>2. CASE c.buf_len > LenAt
  <2> DEFINE buf == ZeroFill(c.buf, c.buf_len, BlockSize)
             z == BlockSize - c.buf_len
             f == [c EXCEPT !.buf = buf]
             d == Spill(c)
  <2>1. /\ buf \in Buffer(B)
        /\ Prefix(buf, BlockSize) = Prefix(c.buf, c.buf_len) ** Zeros(z)
    BY <1>1, ZeroFillFacts
  <2>2. /\ f \in CtxOver(B) /\ f.hashed = c.hashed /\ f.buf = buf
        /\ f.bit_count = c.bit_count /\ f.chain = c.chain
    <3>1. f = [c EXCEPT !.buf = buf] /\ buf \in Buffer(B)
      BY <2>1
    <3> HIDE DEF f, buf
    <3> QED BY <3>1 DEF CtxOver
  <2>3. d = [sha256_compress(f) EXCEPT !.buf_len = 0]
    BY <1>2 DEF Spill
  <2>4. /\ d \in CtxOver(B) /\ d.buf_len = 0 /\ d.hashed = c.hashed ** buf
        /\ Aligned(Len(d.hashed)) /\ d.bit_count = c.bit_count /\ d.chain = c.chain
        /\ d.buf = buf
    <3> HIDE DEF f, buf, d
    <3>1. /\ sha256_compress(f) \in CtxOver(B)
          /\ sha256_compress(f).hashed = c.hashed ** buf
          /\ Aligned(Len(c.hashed ** buf))
          /\ sha256_compress(f).buf = buf
          /\ sha256_compress(f).bit_count = c.bit_count
          /\ sha256_compress(f).chain = c.chain
      BY <2>2, CompressFacts
    <3> QED BY <3>1, <2>3, CtxEmptied
  <2>5. Absorbed(d) = Absorbed(c) ** Zeros(z)
    <3> HIDE DEF f, buf, d
    <3>1. Prefix(buf, 0) = <<>>
      BY <2>1, BufferIsSeq
    <3>2. buf \in Seq(B) /\ Prefix(buf, BlockSize) = buf
      BY <2>1, BufferIsSeq
    <3>3. c.hashed ** buf \in Seq(B)
      BY <3>2, <1>1, Concat
    <3>4. Absorbed(d) = c.hashed ** buf
      BY <3>1, <3>3, <2>4, ConcatEmpty, AbsorbedDef
    <3>5. Prefix(c.buf, c.buf_len) \in Seq(B)
      BY <1>1, BufferPrefix
    <3>6. Zeros(z) \in Seq(B)
      <4>1. z \in Nat BY <1>1, SizeAssumption
      <4> QED BY <4>1, ZerosFacts
    <3> HIDE DEF z
    <3>7. (c.hashed ** Prefix(c.buf, c.buf_len)) ** Zeros(z)
            = c.hashed ** (Prefix(c.buf, c.buf_len) ** Zeros(z))
      BY <3>5, <3>6, <1>1, Assoc
    <3>8. buf = Prefix(c.buf, c.buf_len) ** Zeros(z)
      BY <3>2, <2>1
    <3> QED BY <3>4, <3>7, <3>8, AbsorbedDef
  <2> HIDE DEF d, f, buf
  <2> QED BY <1>2, <2>4, <2>5 DEF d
<1>3. CASE ~(c.buf_len > LenAt)
  <2>1. Spill(c) = c
    BY <1>3 DEF Spill
  <2>2. Zeros(0) = <<>>
    BY DEF Zeros
  <2>3. Absorbed(c) ** <<>> = Absorbed(c)
    BY AbsorbedType, ConcatEmpty
  <2> QED BY <1>3, <2>1, <2>2, <2>3
<1> QED
  BY <1>2, <1>3

(* Zeros up to the length field, the length, and the last block.           *)
LEMMA PutLengthFacts ==
  ASSUME NEW B, HoldsNumbers(B), NEW c \in CtxOver(B), c.buf_len <= LenAt, Aligned(Len(c.hashed))
  PROVE  /\ PutLength(c).chain = c.chain
         /\ Aligned(Len(PutLength(c).hashed))
         /\ PutLength(c).hashed =
              (Absorbed(c) ** Zeros(LenAt - c.buf_len)) ** store64be(c.bit_count)
<1> DEFINE z == Zeros(LenAt - c.buf_len)
           len == store64be(c.bit_count)
           mid == ZeroFill(c.buf, c.buf_len, LenAt)
           buf == CopyIn(mid, LenAt, len)
           f == [c EXCEPT !.buf = buf]
           pre == Prefix(c.buf, c.buf_len)
<1>1. /\ c.hashed \in Seq(B) /\ c.buf \in Buffer(B)
      /\ c.buf_len \in 0 .. BlockSize /\ LenAt \in c.buf_len .. BlockSize
      /\ LenAt - c.buf_len \in Nat /\ c.bit_count \in Nat
  <2>1. CtrMod \in Nat BY CtrModPositive
  <2> QED BY <2>1, LenAtFacts, SizeAssumption DEF CtxOver
<1>2. z \in Seq(B) /\ pre \in Seq(B)
  BY <1>1, ZerosFacts, BufferPrefix
<1>3. len \in Seq(B) /\ Len(len) = LenSize
  BY <1>1, StoreFacts
<1>4. mid \in Buffer(B) /\ Prefix(mid, LenAt) = pre ** z
  BY <1>1, ZeroFillFacts
<1>5. buf \in Buffer(B) /\ buf = (pre ** z) ** len
  <2> HIDE DEF mid, len, z, pre
  <2>1. /\ LenAt \in 0 .. BlockSize
        /\ LenAt + Len(len) = BlockSize /\ LenAt + Len(len) <= BlockSize
    BY <1>3, LenAtFacts, SizeAssumption
  <2>2. /\ buf \in Buffer(B)
        /\ Prefix(buf, LenAt + Len(len)) = Prefix(mid, LenAt) ** len
    <3>1. mid \in Buffer(B) /\ len \in Seq(B)
      BY <1>3, <1>4
    <3> QED BY <2>1, <3>1, CopyInFacts
  <2>3. Prefix(buf, BlockSize) = buf
    BY <2>2, BufferIsSeq
  <2> QED BY <2>1, <2>2, <2>3, <1>4
<1>6. /\ f \in CtxOver(B) /\ f.hashed = c.hashed /\ f.buf = buf /\ f.chain = c.chain
  <2>1. f = [c EXCEPT !.buf = buf] /\ buf \in Buffer(B)
    BY <1>5
  <2> HIDE DEF f, buf
  <2> QED BY <2>1 DEF CtxOver
<1>7. PutLength(c) = sha256_compress(f)
  BY DEF PutLength
<1>8. /\ PutLength(c).hashed = c.hashed ** buf /\ PutLength(c).chain = c.chain
      /\ Aligned(Len(PutLength(c).hashed))
  <2> HIDE DEF f, buf
  <2> QED BY <1>6, <1>7, CompressFacts
<1>9. c.hashed ** ((pre ** z) ** len) = ((c.hashed ** pre) ** z) ** len
  <2> HIDE DEF pre, z, len
  <2>1. pre ** z \in Seq(B) /\ c.hashed ** pre \in Seq(B)
    BY <1>1, <1>2, Concat
  <2>2. c.hashed ** ((pre ** z) ** len) = (c.hashed ** (pre ** z)) ** len
    BY <2>1, <1>1, <1>3, Assoc
  <2>3. c.hashed ** (pre ** z) = (c.hashed ** pre) ** z
    BY <1>1, <1>2, Assoc
  <2> QED BY <2>2, <2>3
<1> QED
  <2>1. Absorbed(c) = c.hashed ** pre
    BY AbsorbedDef
  <2> HIDE DEF pre, z, len, buf
  <2>2. PutLength(c).hashed = (Absorbed(c) ** z) ** len
    BY <2>1, <1>5, <1>8, <1>9
  <2> QED BY <2>2, <1>8 DEF z, len

(* sha256_final computes the reference padding of the message the context  *)
(* stands for, whatever the block size and wherever the marker falls.      *)
THEOREM FinishedIsPadded ==
  ASSUME NEW B, HoldsNumbers(B), NEW c \in CtxOver(B), c.buf_len < BlockSize, Aligned(Len(c.hashed)),
         c.bit_count = (Len(Absorbed(c)) * ByteBits) % CtrMod
  PROVE  /\ Finished(c).chain = c.chain
         /\ IsPadding(Finished(c).hashed, Absorbed(c))
<1> DEFINE m == PutMarker(c)
           s == Spill(m)
           z1 == IF m.buf_len > LenAt THEN BlockSize - m.buf_len ELSE 0
           z2 == LenAt - s.buf_len
           k == z1 + z2
           len == store64be(c.bit_count)
<1>1. c.buf_len \in 0 .. BlockSize - 1
  BY SizeAssumption DEF CtxOver
<1>2. /\ m \in CtxOver(B) /\ m.buf_len = c.buf_len + 1 /\ m.hashed = c.hashed
      /\ m.bit_count = c.bit_count /\ m.chain = c.chain
      /\ Absorbed(m) = Absorbed(c) ** <<Marker>>
  BY PutMarkerFacts
<1>3. /\ s \in CtxOver(B) /\ s.buf_len = IF m.buf_len > LenAt THEN 0 ELSE m.buf_len
      /\ Aligned(Len(s.hashed)) /\ s.bit_count = c.bit_count /\ s.chain = c.chain
      /\ Absorbed(s) = Absorbed(m) ** Zeros(z1)
  <2> HIDE DEF m
  <2> QED BY <1>2, SpillFacts
<1>4. s.buf_len <= LenAt /\ z1 \in Nat /\ z2 \in Nat /\ k \in 0 .. BlockSize - 1
  <2> HIDE DEF m, s
  <2>1. /\ BlockSize \in Nat /\ m.buf_len \in 1 .. BlockSize
        /\ LenAt \in 0 .. BlockSize - 1
        /\ s.buf_len = IF m.buf_len > LenAt THEN 0 ELSE m.buf_len
    <3>1. m.buf_len = c.buf_len + 1
      BY <1>2
    <3> QED BY <1>1, <1>3, <3>1, LenAtFacts, SizeAssumption
  <2>2. CASE m.buf_len > LenAt
    BY <2>1, <2>2
  <2>3. CASE m.buf_len <= LenAt
    BY <2>1, <2>3
  <2> QED BY <2>1, <2>2, <2>3
<1>5. /\ Finished(c).chain = c.chain
      /\ Aligned(Len(Finished(c).hashed))
      /\ Finished(c).hashed = (Absorbed(s) ** Zeros(z2)) ** len
  <2>1. Finished(c) = PutLength(s)
    BY DEF Finished
  <2> HIDE DEF s, m
  <2> QED BY <2>1, <1>3, <1>4, PutLengthFacts
<1>6. Absorbed(s) ** Zeros(z2) = Absorbed(m) ** Zeros(k)
  <2> HIDE DEF m, s, z1, z2
  <2>1. /\ Absorbed(m) \in Seq(B) /\ Zeros(z1) \in Seq(B) /\ Zeros(z2) \in Seq(B)
        /\ Zeros(z1) ** Zeros(z2) = Zeros(z1 + z2)
    BY <1>2, <1>4, AbsorbedType, ZerosFacts, ZerosConcat
  <2>2. (Absorbed(m) ** Zeros(z1)) ** Zeros(z2) = Absorbed(m) ** (Zeros(z1) ** Zeros(z2))
    BY <2>1, Assoc
  <2> QED BY <2>1, <2>2, <1>3
<1>7. Finished(c).hashed = Padded(Absorbed(c), k)
  <2> HIDE DEF m, s, z1, z2, k
  <2> QED BY <1>2, <1>5, <1>6, PaddedDef
<1> HIDE DEF k, m, s, len
<1> QED
  BY <1>4, <1>5, <1>7 DEF IsPadding

-----------------------------------------------------------------------------
(* The contexts the calls start from, and the bit counter.                 *)
LEMMA ZeroCtxFacts ==
  ASSUME NEW B, HoldsNumbers(B)
  PROVE  /\ ZeroCtx \in CtxOver(B) /\ ZeroCtx.buf_len = 0 /\ ZeroCtx.hashed = <<>>
         /\ ZeroCtx.bit_count = 0 /\ ZeroCtx.chain = "zero" /\ Absorbed(ZeroCtx) = <<>>
<1>1. [i \in 1 .. BlockSize |-> Zero] \in Buffer(B)
  BY ByteFacts DEF Buffer
<1>2. 0 \in 0 .. CtrMod - 1 /\ 0 \in 0 .. BlockSize /\ <<>> \in Seq(B)
  BY CtrModPositive, SizeAssumption, EmptySeq
<1>3. ZeroCtx \in CtxOver(B)
  BY <1>1, <1>2 DEF ZeroCtx, CtxOver
<1>4. /\ ZeroCtx.buf_len = 0 /\ ZeroCtx.hashed = <<>>
      /\ ZeroCtx.bit_count = 0 /\ ZeroCtx.chain = "zero"
  BY DEF ZeroCtx
<1>5. Absorbed(ZeroCtx) = <<>> ** Prefix(ZeroCtx.buf, 0)
  BY <1>4, AbsorbedDef
<1>6. Prefix(ZeroCtx.buf, 0) = <<>>
  BY <1>1, BufferIsSeq DEF ZeroCtx
<1>7. <<>> ** <<>> = <<>>
  BY <1>2, ConcatEmpty
<1> QED
  BY <1>3, <1>4, <1>5, <1>6, <1>7

LEMMA InitFacts ==
  ASSUME NEW B, HoldsNumbers(B), NEW c \in CtxOver(B)
  PROVE  /\ sha256_init(c) \in CtxOver(B) /\ sha256_init(c).buf_len = 0
         /\ sha256_init(c).hashed = <<>> /\ sha256_init(c).bit_count = 0
         /\ sha256_init(c).chain = "H0" /\ Absorbed(sha256_init(c)) = <<>>
<1>1. 0 \in 0 .. CtrMod - 1 /\ 0 \in 0 .. BlockSize /\ <<>> \in Seq(B)
  BY CtrModPositive, SizeAssumption, EmptySeq
<1>2. sha256_init(c) \in CtxOver(B)
  BY <1>1 DEF sha256_init, CtxOver
<1>3. /\ sha256_init(c).buf_len = 0 /\ sha256_init(c).hashed = <<>>
      /\ sha256_init(c).bit_count = 0 /\ sha256_init(c).chain = "H0"
      /\ sha256_init(c).buf \in Buffer(B)
  BY DEF sha256_init, CtxOver
<1>4. Absorbed(sha256_init(c)) = <<>> ** Prefix(sha256_init(c).buf, 0)
  BY <1>3, AbsorbedDef
<1>5. Prefix(sha256_init(c).buf, 0) = <<>>
  BY <1>3, BufferIsSeq
<1>6. <<>> ** <<>> = <<>>
  BY <1>1, ConcatEmpty
<1> QED
  BY <1>2, <1>3, <1>4, <1>5, <1>6

(* Counting a chunk keeps the counter equal to the length of the message.  *)
LEMMA CountFacts ==
  ASSUME NEW B, NEW c \in CtxOver(B), NEW len \in Nat, NEW n \in Nat,
         c.bit_count = (n * ByteBits) % CtrMod
  PROVE  /\ CountBits(c, len) \in CtxOver(B)
         /\ CountBits(c, len).bit_count = ((n + len) * ByteBits) % CtrMod
         /\ CountBits(c, len).hashed = c.hashed /\ CountBits(c, len).chain = c.chain
         /\ CountBits(c, len).buf = c.buf /\ CountBits(c, len).buf_len = c.buf_len
         /\ Absorbed(CountBits(c, len)) = Absorbed(c)
<1> DEFINE b == (c.bit_count + len * ByteBits) % CtrMod
<1>1. ByteBits \in Nat \ {0} /\ CtrMod \in Nat \ {0}
  BY ByteAssumption, CtrModPositive
<1>2. n * ByteBits \in Nat /\ len * ByteBits \in Nat
  BY <1>1, SMT
<1>3. b = (n * ByteBits + len * ByteBits) % CtrMod
  <2> DEFINE p == n * ByteBits   q == len * ByteBits
  <2>1. p \in Nat /\ q \in Nat /\ c.bit_count = p % CtrMod
    BY <1>2
  <2>2. b = ((p % CtrMod) + q) % CtrMod
    BY <2>1
  <2> HIDE DEF p, q, b
  <2>3. ((p % CtrMod) + q) % CtrMod = (p + q) % CtrMod
    BY <2>1, <1>1, ModAdd
  <2>4. b = (p + q) % CtrMod
    BY <2>2, <2>3
  <2> QED BY <2>4 DEF p, q
<1>4. n * ByteBits + len * ByteBits = (n + len) * ByteBits
  BY <1>1, SMT
<1>5. b \in 0 .. CtrMod - 1
  <2>1. n * ByteBits + len * ByteBits \in Nat
    BY <1>2, SMT
  <2> QED BY <1>1, <1>3, <2>1, ModRange
<1>6. CountBits(c, len) = [c EXCEPT !.bit_count = b]
  BY DEF CountBits
<1>7. /\ CountBits(c, len) \in CtxOver(B) /\ CountBits(c, len).bit_count = b
      /\ CountBits(c, len).hashed = c.hashed /\ CountBits(c, len).chain = c.chain
      /\ CountBits(c, len).buf_len = c.buf_len /\ CountBits(c, len).buf = c.buf
  <2> HIDE DEF b
  <2> QED BY <1>5, <1>6 DEF CtxOver
<1> HIDE DEF b
<1> QED
  BY <1>3, <1>4, <1>7, AbsorbedDef

LEMMA EmptyCount == 0 = (0 * ByteBits) % CtrMod
<1>1. 0 * ByteBits = 0 BY ByteAssumption, SMT
<1>2. 0 % CtrMod = 0 BY CtrModPositive, SMT
<1> QED BY <1>1, <1>2

LEMMA PaddedFacts ==
  ASSUME NEW B, HoldsNumbers(B), NEW m \in Seq(B), NEW k \in Nat
  PROVE  /\ Padded(m, k) \in Seq(B)
         /\ Len(Padded(m, k)) = Len(m) + 1 + k + LenSize
<1> DEFINE one == <<Marker>>   z == Zeros(k)   b == (Len(m) * ByteBits) % CtrMod
           l == store64be(b)
<1>1. Len(m) \in Nat /\ Len(m) * ByteBits \in Nat
  BY ByteAssumption, LenProperties
<1>2. b \in Nat
  BY <1>1, CtrModPositive, ModRange
<1>3. one \in Seq(B) /\ Len(one) = 1 /\ z \in Seq(B) /\ Len(z) = k
  BY ByteFacts, ZerosFacts
<1>4. l \in Seq(B) /\ Len(l) = LenSize
  <2> HIDE DEF b
  <2> QED BY <1>2, StoreFacts
<1>5. Padded(m, k) = ((m ** one) ** z) ** l
  BY PaddedDef
<1> HIDE DEF one, z, l
<1>6. m ** one \in Seq(B) /\ Len(m ** one) = Len(m) + 1
  BY <1>3, Concat
<1>7. (m ** one) ** z \in Seq(B) /\ Len((m ** one) ** z) = Len(m) + 1 + k
  BY <1>3, <1>6, Concat
<1>8. ((m ** one) ** z) ** l \in Seq(B)
      /\ Len(((m ** one) ** z) ** l) = Len(m) + 1 + k + LenSize
  BY <1>4, <1>7, Concat
<1> QED
  BY <1>5, <1>8

LEMMA PaddingIsSeq ==
  ASSUME NEW B, HoldsNumbers(B), NEW m \in Seq(B), NEW p, IsPadding(p, m)
  PROVE  p \in Seq(B)
<1>1. PICK k \in 0 .. BlockSize - 1 : p = Padded(m, k)
  BY DEF IsPadding
<1>2. k \in Nat
  BY SizeAssumption
<1> QED
  BY <1>1, <1>2, PaddedFacts

-----------------------------------------------------------------------------
(* The padding loses nothing: the marker is no zero, so the last byte of   *)
(* the padding that is not zero, before the length, ends the message.  The *)
(* length field is not needed for it, and so not its width either.         *)
LEMMA MarkerIsNotZero == Marker # Zero
<1>1. Radix \div 2 # 0
  BY ByteAssumption, SMT
<1> QED BY <1>1 DEF Marker, Zero, Num

LEMMA PaddedAt ==
  ASSUME NEW B, HoldsNumbers(B), NEW m \in Seq(B), NEW k \in Nat,
         NEW i \in 1 .. Len(m) + 1 + k
  PROVE  Padded(m, k)[i] = IF i <= Len(m) THEN m[i]
                           ELSE IF i = Len(m) + 1 THEN Marker ELSE Zero
<1> DEFINE one == <<Marker>>   z == Zeros(k)   b == (Len(m) * ByteBits) % CtrMod
           l == store64be(b)
<1>1. Len(m) \in Nat /\ Len(m) * ByteBits \in Nat
  BY ByteAssumption, LenProperties
<1>2. b \in Nat
  <2> DEFINE bits == Len(m) * ByteBits
  <2>1. bits \in Nat
    BY <1>1
  <2> HIDE DEF bits
  <2>2. bits % CtrMod \in 0 .. CtrMod - 1
    BY <2>1, CtrModPositive, ModRange
  <2>3. bits % CtrMod \in Nat
    BY <2>2, CtrModPositive
  <2> QED BY <2>3 DEF bits
<1>3. one \in Seq(B) /\ Len(one) = 1 /\ one[1] = Marker
      /\ z \in Seq(B) /\ Len(z) = k /\ \A n \in 1 .. k : z[n] = Zero
  BY ByteFacts, ZerosFacts DEF Zeros
<1>4. l \in Seq(B) /\ Len(l) = LenSize /\ LenSize \in Nat
  <2> HIDE DEF b
  <2> QED BY <1>2, StoreFacts, SizeAssumption
<1>5. Padded(m, k) = ((m ** one) ** z) ** l
  BY PaddedDef
<1> HIDE DEF one, z, l
<1>6. m ** one \in Seq(B) /\ Len(m ** one) = Len(m) + 1
  BY <1>3, Concat
<1>7. (m ** one) ** z \in Seq(B) /\ Len((m ** one) ** z) = Len(m) + 1 + k
  BY <1>3, <1>6, Concat
<1>8. Padded(m, k)[i] = ((m ** one) ** z)[i]
  <2>1. i \in 1 .. Len((m ** one) ** z) + Len(l) /\ i <= Len((m ** one) ** z)
    BY <1>1, <1>4, <1>7
  <2> QED BY <1>4, <1>5, <1>7, <2>1, ConcatAt
<1>9. ((m ** one) ** z)[i] = IF i <= Len(m) + 1 THEN (m ** one)[i] ELSE z[i - (Len(m) + 1)]
  <2>1. i \in 1 .. Len(m ** one) + Len(z)
    BY <1>3, <1>6
  <2> QED BY <1>3, <1>6, <2>1, ConcatAt
<1>10. CASE i <= Len(m) + 1
  <2>1. i \in 1 .. Len(m) + Len(one) /\ (i > Len(m) => i = Len(m) + 1 /\ i - Len(m) = 1)
    BY <1>1, <1>3, <1>10
  <2>2. (m ** one)[i] = IF i <= Len(m) THEN m[i] ELSE one[i - Len(m)]
    BY <1>3, <2>1, ConcatAt
  <2>3. CASE i <= Len(m)
    BY <1>8, <1>9, <1>10, <2>2, <2>3
  <2>4. CASE i > Len(m)
    BY <1>1, <1>3, <1>8, <1>9, <1>10, <2>1, <2>2, <2>4
  <2> QED BY <1>1, <2>3, <2>4
<1>11. CASE i > Len(m) + 1
  <2>1. i - (Len(m) + 1) \in 1 .. k
    BY <1>1, <1>11
  <2> QED BY <1>1, <1>3, <1>8, <1>9, <1>11, <2>1
<1> QED BY <1>1, <1>10, <1>11

(* Messages of different lengths never have the same padded form.          *)
LEMMA PaddedLength ==
  ASSUME NEW B, HoldsNumbers(B), NEW m \in Seq(B), NEW n \in Seq(B),
         NEW j \in Nat, NEW k \in Nat, Padded(m, j) = Padded(n, k), Len(m) < Len(n)
  PROVE  FALSE
<1>1. Len(m) \in Nat /\ Len(n) \in Nat /\ LenSize \in Nat
  BY LenProperties, SizeAssumption
<1>2. Len(m) + 1 + j + LenSize = Len(n) + 1 + k + LenSize
  <2>1. Len(Padded(m, j)) = Len(m) + 1 + j + LenSize
    BY PaddedFacts
  <2>2. Len(Padded(n, k)) = Len(n) + 1 + k + LenSize
    BY PaddedFacts
  <2> QED BY <2>1, <2>2
<1> DEFINE i == Len(n) + 1
<1>3. i \in 1 .. Len(m) + 1 + j /\ i \in 1 .. Len(n) + 1 + k /\ i > Len(m) + 1
  BY <1>1, <1>2
<1>4. Padded(m, j)[i] = Zero
  <2>1. ~(i <= Len(m)) /\ i # Len(m) + 1
    BY <1>1, <1>3
  <2> HIDE DEF i
  <2>2. Padded(m, j)[i] = IF i <= Len(m) THEN m[i]
                          ELSE IF i = Len(m) + 1 THEN Marker ELSE Zero
    BY <1>3, PaddedAt
  <2> QED BY <2>1, <2>2
<1>5. Padded(n, k)[i] = Marker
  BY <1>1, <1>3, PaddedAt
<1> QED
  BY <1>4, <1>5, MarkerIsNotZero

(* Two messages with the same padded form are the same, for every block    *)
(* and counter size, also past the length at which bit_count wraps.        *)
THEOREM PaddingIsInjective ==
  ASSUME NEW B, HoldsNumbers(B), NEW m \in Seq(B), NEW n \in Seq(B), NEW p,
         IsPadding(p, m), IsPadding(p, n)
  PROVE  m = n
<1>1. PICK j \in 0 .. BlockSize - 1 : p = Padded(m, j)
  BY DEF IsPadding
<1>2. PICK k \in 0 .. BlockSize - 1 : p = Padded(n, k)
  BY DEF IsPadding
<1>3. j \in Nat /\ k \in Nat /\ Padded(m, j) = Padded(n, k) /\ Len(m) \in Nat /\ Len(n) \in Nat
  BY <1>1, <1>2, SizeAssumption, LenProperties
<1>4. Len(m) = Len(n)
  <2>1. ~(Len(m) < Len(n))
    BY <1>3, PaddedLength
  <2>2. ~(Len(n) < Len(m))
    BY <1>3, PaddedLength
  <2> QED BY <1>3, <2>1, <2>2
<1>5. ASSUME NEW i \in 1 .. Len(m) PROVE m[i] = n[i]
  <2>1. i \in 1 .. Len(m) + 1 + j /\ i \in 1 .. Len(n) + 1 + k /\ i <= Len(m) /\ i <= Len(n)
    BY <1>3, <1>4
  <2>2. Padded(m, j)[i] = m[i]
    BY <1>3, <2>1, PaddedAt
  <2>3. Padded(n, k)[i] = n[i]
    BY <1>3, <2>1, PaddedAt
  <2> QED BY <1>3, <2>2, <2>3
<1> QED
  BY <1>4, <1>5, SeqEqual

(* A digest determines the message: sha256_final gives two contexts the    *)
(* same digest only if they started from the same chaining value and       *)
(* absorbed the same bytes, however these were cut into updates, as long   *)
(* as the compression function does not collide (sha256.c:137-159).        *)
THEOREM DigestsDetermineMessages ==
  ASSUME NEW B, HoldsNumbers(B), NEW c \in CtxOver(B), NEW d \in CtxOver(B),
         c.buf_len < BlockSize, Aligned(Len(c.hashed)),
         c.bit_count = (Len(Absorbed(c)) * ByteBits) % CtrMod,
         d.buf_len < BlockSize, Aligned(Len(d.hashed)),
         d.bit_count = (Len(Absorbed(d)) * ByteBits) % CtrMod,
         DigestOf(c) = DigestOf(d)
  PROVE  c.chain = d.chain /\ Absorbed(c) = Absorbed(d)
<1>1. Finished(c).chain = Finished(d).chain /\ Finished(c).hashed = Finished(d).hashed
  BY DEF DigestOf, Digest
<1>2. Finished(c).chain = c.chain /\ IsPadding(Finished(c).hashed, Absorbed(c))
  BY FinishedIsPadded
<1>3. Finished(d).chain = d.chain /\ IsPadding(Finished(d).hashed, Absorbed(d))
  BY FinishedIsPadded
<1>4. Absorbed(c) \in Seq(B) /\ Absorbed(d) \in Seq(B)
  BY AbsorbedType
<1>5. Absorbed(c) = Absorbed(d)
  <2> DEFINE p == Finished(c).hashed
  <2>1. IsPadding(p, Absorbed(c)) /\ IsPadding(p, Absorbed(d))
    BY <1>1, <1>2, <1>3
  <2> HIDE DEF p
  <2> QED BY <1>4, <2>1, PaddingIsInjective
<1> QED
  BY <1>1, <1>2, <1>3, <1>5

=============================================================================
