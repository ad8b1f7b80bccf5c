-------------------------- MODULE HmacPbkdf2Proofs --------------------------
(***************************************************************************)
(* Proofs about HmacSha256 and Pbkdf2.                                     *)
(*                                                                         *)
(* HMAC, for every block and digest size, counter width, set of keys, set  *)
(* of chunks and contents of the stack: each of the two hashes began with  *)
(* its masked key block, inner has absorbed the message since, and neither *)
(* context holds a byte of another key.  That sha256_update appends to the *)
(* message is an induction on the iterations of its loop, and the padding  *)
(* sha256_final picks is the only one.                                     *)
(*                                                                         *)
(* PBKDF2, for every digest size, width of the block index and set of      *)
(* parameters: while a call runs, the bytes before out_pos are those of    *)
(* the derived key, T is the XOR of the first j PRF values of the block at *)
(* hand, and out_pos is that many whole blocks, or the end.  The block     *)
(* index equals the number of the block only while it has not wrapped,     *)
(* which is where the length limit comes in.                               *)
(***************************************************************************)
EXTENDS HmacSha256, Pbkdf2, Sha256CtxProofs, WellFoundedInduction

-----------------------------------------------------------------------------
(* Induction on the naturals, for a set in place of a formula: a non-empty *)
(* set of naturals has a least member.                                     *)
Below == {p \in Nat \X Nat : p[1] < p[2]}

LEMMA LeastMember ==
  ASSUME NEW S, S \subseteq Nat, S # {}
  PROVE  \E n \in S : \A m \in S : n <= m
<1>1. IsWellFoundedOn(Below, Nat)
  BY NatLessThanWellFounded DEF OpToRel, Below
<1>2. \E n \in S : \A m \in S : ~(<<m, n>> \in Below)
  BY <1>1, WFMin
<1>3. \A m, n \in Nat : ~(<<m, n>> \in Below) => n <= m
  BY DEF Below
<1> QED BY <1>2, <1>3

LEMMA Induction ==
  ASSUME NEW S, 0 \in S, NEW l \in Nat, \A n \in 0 .. l - 1 : n \in S => n + 1 \in S
  PROVE  0 .. l \subseteq S
<1> DEFINE Missing == {n \in 0 .. l : n \notin S}
<1> SUFFICES ASSUME Missing # {} PROVE FALSE
  OBVIOUS
<1>1. Missing \subseteq Nat
  OBVIOUS
<1>2. PICK n \in Missing : \A m \in Missing : n <= m
  <2> HIDE DEF Missing
  <2> QED BY <1>1, LeastMember
<1>3. n # 0 /\ n \in 0 .. l /\ n \notin S
  OBVIOUS
<1>4. n - 1 \in 0 .. l - 1 /\ n - 1 \in S
  BY <1>2, <1>3
<1> QED BY <1>3, <1>4

-----------------------------------------------------------------------------
(* sha256_update: the loop of the code as a sequence of states.            *)
Iterate(s) == IF s[2] = <<>> THEN s ELSE <<Absorb(s[1], s[2]), Remaining(s[1], s[2])>>

IsLoop(f, first, l) == f = [n \in 0 .. l |-> IF n = 0 THEN first ELSE Iterate(f[n - 1])]

LEMMA LoopExists ==
  ASSUME NEW first, NEW l \in Nat
  PROVE  \E f : IsLoop(f, first, l)
<1> DEFINE S == {m \in Nat : \E f : IsLoop(f, first, m)}
<1>1. 0 \in S
  <2>1. IsLoop([n \in 0 .. 0 |-> first], first, 0)
    BY DEF IsLoop
  <2> QED BY <2>1
<1>2. ASSUME NEW m \in 0 .. l - 1, m \in S PROVE m + 1 \in S
  <2>1. PICK f : IsLoop(f, first, m)
    BY <1>2
  <2> DEFINE g == [n \in 0 .. m + 1 |-> IF n = m + 1 THEN Iterate(f[m]) ELSE f[n]]
  <2>2. \A n \in 0 .. m : f[n] = IF n = 0 THEN first ELSE Iterate(f[n - 1])
    BY <2>1 DEF IsLoop
  <2>3. ASSUME NEW n \in 0 .. m + 1
        PROVE  g[n] = IF n = 0 THEN first ELSE Iterate(g[n - 1])
    <3>1. CASE n = m + 1
      <4>1. n # 0 /\ n - 1 = m /\ g[n] = Iterate(f[m]) /\ g[m] = f[m]
        BY <3>1
      <4> HIDE DEF g
      <4> QED BY <4>1
    <3>2. CASE n = 0
      BY <2>2, <3>2
    <3>3. CASE n \in 1 .. m
      <4>1. n # 0 /\ g[n] = f[n] /\ g[n - 1] = f[n - 1] /\ f[n] = Iterate(f[n - 1])
        BY <2>2, <3>3
      <4> HIDE DEF g
      <4> QED BY <4>1
    <3> QED BY <3>1, <3>2, <3>3
  <2>4. g = [n \in 0 .. m + 1 |-> IF n = 0 THEN first ELSE Iterate(g[n - 1])]
    BY <2>3
  <2>5. IsLoop(g, first, m + 1)
    BY <2>4 DEF IsLoop
  <2> QED BY <2>5
<1> HIDE DEF S
<1>3. 0 .. l \subseteq S
  BY <1>1, <1>2, Induction
<1> QED
  BY <1>3 DEF S

(* What sha256_update returns is the last state of such a loop.            *)
LEMMA UpdateIsLoop ==
  ASSUME NEW c, NEW bytes, Len(bytes) \in Nat
  PROVE  \E f : /\ f[0] = <<CountBits(c, Len(bytes)), bytes>>
                /\ \A n \in 1 .. Len(bytes) : f[n] = Iterate(f[n - 1])
                /\ sha256_update(c, bytes) = f[Len(bytes)][1]
<1> DEFINE first == <<CountBits(c, Len(bytes)), bytes>>
           f == CHOOSE g : IsLoop(g, first, Len(bytes))
<1>1. IsLoop(f, first, Len(bytes))
  <2> HIDE DEF first
  <2> QED BY LoopExists
<1>2. sha256_update(c, bytes) = f[Len(bytes)][1]
  BY Zenon DEF sha256_update, IsLoop, Iterate
<1> HIDE DEF f, first
<1>3. /\ f[0] = first
      /\ \A n \in 1 .. Len(bytes) : f[n] = Iterate(f[n - 1])
  BY <1>1 DEF IsLoop
<1> QED
  BY <1>2, <1>3 DEF first

(* A context as every call leaves it: room in the buffer, whole blocks     *)
(* compressed, and the bits of its message counted.                        *)
Sound(B, c) == /\ c \in CtxOver(B)
               /\ c.buf_len < BlockSize
               /\ Aligned(Len(c.hashed))
               /\ c.bit_count = (Len(Absorbed(c)) * ByteBits) % CtrMod

LEMMA SoundFacts ==
  ASSUME NEW B, HoldsNumbers(B), NEW c, Sound(B, c)
  PROVE  /\ c \in CtxOver(B) /\ c.buf_len < BlockSize /\ Aligned(Len(c.hashed))
         /\ Absorbed(c) \in Seq(B) /\ Len(Absorbed(c)) \in Nat
         /\ c.chain \in {"H0", "zero"}
         /\ c.bit_count = (Len(Absorbed(c)) * ByteBits) % CtrMod
<1>1. c \in CtxOver(B)
  BY DEF Sound
<1>2. Absorbed(c) \in Seq(B)
  BY <1>1, AbsorbedType
<1>3. c.chain \in {"H0", "zero"}
  BY <1>1 DEF CtxOver
<1> QED
  BY <1>1, <1>2, <1>3, LenProperties DEF Sound

LEMMA InitSound ==
  ASSUME NEW B, HoldsNumbers(B), NEW c \in CtxOver(B)
  PROVE  /\ Sound(B, sha256_init(c)) /\ Absorbed(sha256_init(c)) = <<>>
         /\ sha256_init(c).chain = "H0" /\ sha256_init(c).hashed = <<>>
         /\ sha256_init(c).buf_len = 0
<1> DEFINE d == sha256_init(c)
<1>1. /\ d \in CtxOver(B) /\ d.buf_len = 0 /\ d.hashed = <<>> /\ d.bit_count = 0
      /\ d.chain = "H0" /\ Absorbed(d) = <<>>
  BY InitFacts
<1> HIDE DEF d
<1>2. Len(<<>>) = 0
  BY EmptySeq
<1>3. Sound(B, d)
  BY <1>1, <1>2, AlignedFacts, EmptyCount, SizeAssumption DEF Sound
<1> QED
  BY <1>1, <1>3 DEF d

LEMMA ZeroSound ==
  ASSUME NEW B, HoldsNumbers(B)
  PROVE  Sound(B, ZeroCtx) /\ Absorbed(ZeroCtx) = <<>> /\ ZeroCtx.chain = "zero"
<1> DEFINE d == ZeroCtx
<1>1. /\ d \in CtxOver(B) /\ d.buf_len = 0 /\ d.hashed = <<>> /\ d.bit_count = 0
      /\ d.chain = "zero" /\ Absorbed(d) = <<>>
  BY ZeroCtxFacts
<1> HIDE DEF d
<1>2. Len(<<>>) = 0
  BY EmptySeq
<1>3. Sound(B, d)
  BY <1>1, <1>2, AlignedFacts, EmptyCount, SizeAssumption DEF Sound
<1> QED
  BY <1>1, <1>3 DEF d

(* The loop of sha256_update after n iterations: the context and the bytes *)
(* still to copy stand for the same message, and the bytes become fewer.   *)
LoopState(B, c, bytes, n, d, rest) ==
  /\ d \in CtxOver(B) /\ d.buf_len < BlockSize /\ Aligned(Len(d.hashed))
  /\ d.bit_count = ((Len(Absorbed(c)) + Len(bytes)) * ByteBits) % CtrMod
  /\ d.chain = c.chain
  /\ rest \in Seq(B) /\ Len(rest) <= Len(bytes) - n
  /\ Absorbed(d) ** rest = Absorbed(c) ** bytes

LEMMA LoopBegins ==
  ASSUME NEW B, HoldsNumbers(B), NEW c, Sound(B, c), NEW bytes \in Seq(B)
  PROVE  LoopState(B, c, bytes, 0, CountBits(c, Len(bytes)), bytes)
<1>1. Len(bytes) \in Nat
  BY LenProperties
<1> DEFINE d == CountBits(c, Len(bytes))
<1>2. /\ d \in CtxOver(B)
      /\ d.bit_count = ((Len(Absorbed(c)) + Len(bytes)) * ByteBits) % CtrMod
      /\ d.hashed = c.hashed /\ d.chain = c.chain /\ d.buf_len = c.buf_len
      /\ Absorbed(d) = Absorbed(c)
  BY <1>1, SoundFacts, CountFacts
<1> HIDE DEF d
<1>3. d.buf_len < BlockSize /\ Aligned(Len(d.hashed))
  BY <1>2, SoundFacts
<1>4. LoopState(B, c, bytes, 0, d, bytes)
  BY <1>1, <1>2, <1>3 DEF LoopState
<1> QED
  BY <1>4 DEF d

LEMMA LoopContinues ==
  ASSUME NEW B, HoldsNumbers(B), NEW c, NEW bytes \in Seq(B), NEW n \in 0 .. Len(bytes) - 1,
         NEW s, LoopState(B, c, bytes, n, s[1], s[2])
  PROVE  LoopState(B, c, bytes, n + 1, Iterate(s)[1], Iterate(s)[2])
<1> DEFINE d == s[1]   rest == s[2]
<1>0. LoopState(B, c, bytes, n, d, rest)
  OBVIOUS
<1>1. Len(bytes) \in Nat /\ Len(rest) \in Nat
  BY <1>0, LenProperties DEF LoopState
<1>2. CASE rest = <<>>
  <2>1. Iterate(s) = s
    BY <1>2 DEF Iterate
  <2>2. Len(rest) = 0
    BY <1>2, EmptySeq
  <2>3. Len(rest) <= Len(bytes) - (n + 1)
    BY <1>1, <2>2
  <2> HIDE DEF d, rest
  <2>4. LoopState(B, c, bytes, n + 1, d, rest)
    BY <1>0, <2>3 DEF LoopState
  <2> QED
    BY <2>1, <2>4 DEF d, rest
<1>3. CASE rest # <<>>
  <2>1. Iterate(s)[1] = Absorb(d, rest) /\ Iterate(s)[2] = Remaining(d, rest)
    BY <1>3 DEF Iterate
  <2> HIDE DEF d, rest
  <2> DEFINE e == Absorb(d, rest)   left == Remaining(d, rest)
  <2>2. d \in CtxOver(B) /\ d.buf_len < BlockSize /\ Aligned(Len(d.hashed)) /\ rest \in Seq(B)
    BY <1>0 DEF LoopState
  <2>3. /\ e \in CtxOver(B) /\ e.buf_len < BlockSize /\ Aligned(Len(e.hashed))
        /\ e.bit_count = d.bit_count /\ e.chain = d.chain
        /\ left \in Seq(B) /\ Len(left) < Len(rest)
        /\ Absorbed(e) ** left = Absorbed(d) ** rest
    BY <1>3, <2>2, AbsorbFacts
  <2> HIDE DEF e, left
  <2>4. Len(left) <= Len(bytes) - (n + 1)
    <3>1. Len(left) \in Nat
      BY <2>3, LenProperties
    <3>2. Len(rest) <= Len(bytes) - n
      BY <1>0 DEF LoopState
    <3> QED BY <1>1, <2>3, <3>1, <3>2
  <2>5. LoopState(B, c, bytes, n + 1, e, left)
    BY <1>0, <2>3, <2>4 DEF LoopState
  <2> QED
    BY <2>1, <2>5 DEF e, left
<1> QED
  BY <1>2, <1>3

(* sha256_update appends bytes to the message a context stands for.        *)
LEMMA UpdateFacts ==
  ASSUME NEW B, HoldsNumbers(B), NEW c, Sound(B, c), NEW bytes \in Seq(B)
  PROVE  /\ Sound(B, sha256_update(c, bytes))
         /\ sha256_update(c, bytes).chain = c.chain
         /\ Absorbed(sha256_update(c, bytes)) = Absorbed(c) ** bytes
<1> DEFINE l == Len(bytes)
<1>1. l \in Nat
  BY LenProperties
<1>2. PICK f : /\ f[0] = <<CountBits(c, l), bytes>>
               /\ \A n \in 1 .. l : f[n] = Iterate(f[n - 1])
               /\ sha256_update(c, bytes) = f[l][1]
  BY <1>1, UpdateIsLoop
<1> DEFINE S == {n \in 0 .. l : LoopState(B, c, bytes, n, f[n][1], f[n][2])}
<1>3. 0 \in S
  <2>1. LoopState(B, c, bytes, 0, CountBits(c, l), bytes)
    BY LoopBegins
  <2>2. f[0][1] = CountBits(c, l) /\ f[0][2] = bytes
    BY <1>2
  <2> HIDE DEF l
  <2> QED BY <1>1, <2>1, <2>2
<1>4. ASSUME NEW n \in 0 .. l - 1, n \in S PROVE n + 1 \in S
  <2>1. LoopState(B, c, bytes, n, f[n][1], f[n][2])
    BY <1>4
  <2>2. LoopState(B, c, bytes, n + 1, Iterate(f[n])[1], Iterate(f[n])[2])
    BY <2>1, LoopContinues
  <2> HIDE DEF l
  <2>3. n + 1 \in 1 .. l /\ n + 1 - 1 = n /\ n + 1 \in 0 .. l
    BY <1>1, <1>4
  <2>4. f[n + 1] = Iterate(f[n])
    BY <1>2, <2>3
  <2> QED BY <2>2, <2>3, <2>4
<1>5. 0 .. l \subseteq S
  <2> HIDE DEF S, l
  <2> QED BY <1>1, <1>3, <1>4, Induction
<1> DEFINE d == f[l][1]   rest == f[l][2]
<1>6. LoopState(B, c, bytes, l, d, rest)
  <2>1. l \in S
    BY <1>1, <1>5
  <2> QED BY <2>1
<1>7. d = sha256_update(c, bytes)
  BY <1>2
<1> HIDE DEF d, rest, S
<1>8. rest = <<>>
  <2>1. rest \in Seq(B) /\ Len(rest) <= l - l
    BY <1>6 DEF LoopState
  <2>2. Len(rest) = 0
    BY <1>1, <2>1, LenProperties
  <2> QED BY <2>1, <2>2, EmptySeq
<1>9. d \in CtxOver(B) /\ d.buf_len < BlockSize /\ Aligned(Len(d.hashed)) /\ d.chain = c.chain
  BY <1>6 DEF LoopState
<1>10. Absorbed(d) = Absorbed(c) ** bytes
  <2>1. Absorbed(d) \in Seq(B) /\ Absorbed(d) ** <<>> = Absorbed(d)
    BY <1>9, AbsorbedType, ConcatEmpty
  <2> QED BY <1>6, <1>8, <2>1 DEF LoopState
<1>11. d.bit_count = (Len(Absorbed(d)) * ByteBits) % CtrMod
  <2>1. Absorbed(c) \in Seq(B)
    BY SoundFacts
  <2>2. Len(Absorbed(c) ** bytes) = Len(Absorbed(c)) + l
    BY <2>1, Concat
  <2> QED BY <1>6, <1>10, <2>2 DEF LoopState
<1>12. Sound(B, d)
  BY <1>9, <1>11 DEF Sound
<1> QED
  BY <1>7, <1>9, <1>10, <1>12

(* A block fed to a context that holds nothing replaces all of its buffer. *)
LEMMA BlockFills ==
  ASSUME NEW B, HoldsNumbers(B), NEW c, Sound(B, c), c.buf_len = 0, c.hashed = <<>>,
         NEW bytes \in Seq(B), Len(bytes) = BlockSize
  PROVE  /\ sha256_update(c, bytes).hashed = bytes
         /\ sha256_update(c, bytes).buf = bytes
         /\ sha256_update(c, bytes).buf_len = 0
<1> DEFINE d == CountBits(c, BlockSize)
           e == Absorb(d, bytes)
<1>1. BlockSize \in Nat \ {0} /\ bytes # <<>>
  <2>1. BlockSize \in Nat \ {0}
    BY SizeAssumption
  <2> QED BY <2>1, EmptySeq
<1>2. d \in CtxOver(B) /\ d.buf_len = 0 /\ d.hashed = <<>>
  <2>1. /\ c \in CtxOver(B) /\ Len(Absorbed(c)) \in Nat
        /\ c.bit_count = (Len(Absorbed(c)) * ByteBits) % CtrMod
    BY SoundFacts
  <2> DEFINE n == Len(Absorbed(c))   l == Len(bytes)
  <2>2. n \in Nat /\ l \in Nat /\ c.bit_count = (n * ByteBits) % CtrMod /\ d = CountBits(c, l)
    BY <1>1, <2>1
  <2> HIDE DEF d, n, l
  <2>3. /\ CountBits(c, l) \in CtxOver(B) /\ CountBits(c, l).buf_len = c.buf_len
        /\ CountBits(c, l).hashed = c.hashed
    BY <2>1, <2>2, CountFacts
  <2> QED BY <2>2, <2>3
<1> HIDE DEF d
<1>3. Taken(d, bytes) = BlockSize /\ Prefix(bytes, BlockSize) = bytes
  <2>1. Prefix(bytes, BlockSize) = bytes
    BY PrefixEnds
  <2> QED BY <1>1, <1>2, <2>1 DEF Taken
<1>4. CopyIn(d.buf, 0, bytes) = bytes /\ bytes \in Buffer(B)
  <2>1. bytes = [i \in 1 .. BlockSize |-> bytes[i]] /\ \A i \in 1 .. BlockSize : bytes[i] \in B
    BY <1>1, LenProperties, ElementOfSeq
  <2>2. \A i \in 1 .. BlockSize : 0 < i /\ i <= 0 + Len(bytes) /\ i - 0 = i
    BY <1>1
  <2>3. CopyIn(d.buf, 0, bytes) = [i \in 1 .. BlockSize |-> bytes[i]]
    BY <2>2 DEF CopyIn
  <2>4. [i \in 1 .. BlockSize |-> bytes[i]] \in Buffer(B)
    BY <2>1 DEF Buffer
  <2> QED BY <2>1, <2>3, <2>4
<1> DEFINE filled == [d EXCEPT !.buf = bytes, !.buf_len = BlockSize]
<1>5. /\ filled \in CtxOver(B) /\ filled.buf = bytes /\ filled.buf_len = BlockSize
      /\ filled.hashed = <<>>
  <2>1. BlockSize \in 0 .. BlockSize
    BY <1>1
  <2> QED BY <1>2, <1>4, <2>1 DEF CtxOver
<1>6. e = [sha256_compress(filled) EXCEPT !.buf_len = 0]
  <2>1. [d EXCEPT !.buf = CopyIn(@, d.buf_len, Prefix(bytes, Taken(d, bytes))),
                  !.buf_len = @ + Taken(d, bytes)] = filled
    <3>1. d.buf_len + Taken(d, bytes) = BlockSize
      BY <1>1, <1>2, <1>3
    <3>2. CopyIn(d.buf, d.buf_len, Prefix(bytes, Taken(d, bytes))) = bytes
      BY <1>2, <1>3, <1>4
    <3> QED BY <3>1, <3>2
  <2>2. filled.buf_len = BlockSize
    BY <1>5
  <2> HIDE DEF filled
  <2> QED BY <2>1, <2>2 DEF Absorb, Prefix
<1>7. e.hashed = bytes /\ e.buf = bytes /\ e.buf_len = 0
  <2> HIDE DEF filled, e
  <2>1. Aligned(Len(filled.hashed))
    BY <1>5, EmptySeq, AlignedFacts
  <2>2. /\ sha256_compress(filled) \in CtxOver(B)
        /\ sha256_compress(filled).hashed = <<>> ** bytes
        /\ sha256_compress(filled).buf = bytes
    BY <1>5, <2>1, CompressFacts
  <2>3. <<>> ** bytes = bytes
    BY ConcatEmpty
  <2> QED BY <1>6, <2>2, <2>3, CtxEmptied
<1>8. Remaining(d, bytes) = <<>>
  <2>1. Remaining(d, bytes) = SubSeq(bytes, BlockSize + 1, BlockSize)
    BY <1>3 DEF Remaining
  <2> QED BY <1>1, <2>1, SubSeqEmpty
<1>9. PICK f : /\ f[0] = <<d, bytes>>
               /\ \A n \in 1 .. BlockSize : f[n] = Iterate(f[n - 1])
               /\ sha256_update(c, bytes) = f[BlockSize][1]
  <2>1. \E f : /\ f[0] = <<CountBits(c, Len(bytes)), bytes>>
               /\ \A n \in 1 .. Len(bytes) : f[n] = Iterate(f[n - 1])
               /\ sha256_update(c, bytes) = f[Len(bytes)][1]
    <3>1. Len(bytes) \in Nat
      BY LenProperties
    <3> QED BY ONLY <3>1, UpdateIsLoop
  <2> QED BY <2>1 DEF d
<1> DEFINE S == {n \in 0 .. BlockSize : n > 0 => f[n] = <<e, <<>> >>}
<1>10. 0 \in S
  BY <1>1
<1>11. ASSUME NEW n \in 0 .. BlockSize - 1, n \in S PROVE n + 1 \in S
  <2> HIDE DEF e
  <2>1. n + 1 \in 1 .. BlockSize /\ n + 1 - 1 = n
    BY <1>1
  <2>2. f[n + 1] = Iterate(f[n])
    BY <1>9, <2>1
  <2>3. CASE n = 0
    <3>1. f[n] = <<d, bytes>>
      BY <1>9, <2>3
    <3>2. Iterate(f[n]) = <<e, <<>> >>
      BY <1>1, <1>8, <3>1 DEF Iterate, e
    <3> QED BY <2>1, <2>2, <3>2
  <2>4. CASE n # 0
    <3>1. f[n] = <<e, <<>> >>
      BY <1>11, <2>4
    <3>2. Iterate(f[n]) = <<e, <<>> >>
      BY <3>1 DEF Iterate
    <3> QED BY <2>1, <2>2, <3>2
  <2> QED BY <2>3, <2>4
<1> HIDE DEF e
<1>12. 0 .. BlockSize \subseteq S
  <2> HIDE DEF S
  <2> QED BY <1>1, <1>10, <1>11, Induction
<1>13. f[BlockSize] = <<e, <<>> >>
  BY <1>1, <1>12
<1> QED
  BY <1>7, <1>9, <1>13

-----------------------------------------------------------------------------
(* The reference hash: only one number of zeros pads to whole blocks.      *)
LEMMA OnlyPadding ==
  ASSUME NEW n \in Nat, NEW k \in 0 .. BlockSize - 1, NEW q \in 0 .. BlockSize - 1,
         Aligned(n + k), Aligned(n + q)
  PROVE  k = q
<1>1. BlockSize \in Nat
  BY SizeAssumption
<1>2. PICK a \in 0 .. n + k : n + k = a * BlockSize
  BY DEF Aligned
<1>3. PICK b \in 0 .. n + q : n + q = b * BlockSize
  BY DEF Aligned
<1>4. a \in Int /\ b \in Int /\ k - q = (a - b) * BlockSize
  BY <1>1, <1>2, <1>3, SMT
<1>5. ~(a - b >= 1)
  <2>1. a - b >= 1 => (a - b) * BlockSize >= BlockSize
    BY <1>1, <1>4, SMT
  <2> QED BY <1>1, <1>4, <2>1, SMT
<1>6. ~(a - b <= -1)
  <2>1. a - b <= -1 => (a - b) * BlockSize <= -BlockSize
    BY <1>1, <1>4, SMT
  <2> QED BY <1>1, <1>4, <2>1, SMT
<1>7. a - b = 0
  BY <1>4, <1>5, <1>6, SMT
<1> QED
  BY <1>1, <1>4, <1>7, SMT

LEMMA HashIsPadding ==
  ASSUME NEW B, HoldsNumbers(B), NEW m \in Seq(B), NEW p, IsPadding(p, m), NEW chain
  PROVE  Hash(chain, m) = Digest(chain, p)
<1>1. PICK k \in 0 .. BlockSize - 1 : p = Padded(m, k) /\ Aligned(Len(Padded(m, k)))
  BY DEF IsPadding
<1> DEFINE q == CHOOSE q \in 0 .. BlockSize - 1 : Aligned(Len(Padded(m, q)))
<1>2. q \in 0 .. BlockSize - 1 /\ Aligned(Len(Padded(m, q)))
  BY <1>1
<1>3. Hash(chain, m) = Digest(chain, Padded(m, q))
  BY DEF Hash
<1> HIDE DEF q
<1> DEFINE n == Len(m) + 1 + LenSize
<1>4. n \in Nat /\ k \in Nat /\ q \in Nat
  BY <1>2, SizeAssumption, LenProperties
<1>5. Len(Padded(m, k)) = n + k /\ Len(Padded(m, q)) = n + q
  <2>1. Len(m) \in Nat /\ LenSize \in Nat
    BY SizeAssumption, LenProperties
  <2>2. /\ Len(Padded(m, k)) = Len(m) + 1 + k + LenSize
        /\ Len(Padded(m, q)) = Len(m) + 1 + q + LenSize
    <3> HIDE DEF n
    <3> QED BY <1>4, PaddedFacts
  <2> QED BY <1>4, <2>1, <2>2
<1> HIDE DEF n
<1>6. k = q
  BY <1>1, <1>2, <1>4, <1>5, OnlyPadding
<1> QED
  BY <1>1, <1>3, <1>6

(* The digest of a sound context is the reference hash of its message.     *)
LEMMA DigestFacts ==
  ASSUME NEW B, HoldsNumbers(B), NEW c, Sound(B, c)
  PROVE  DigestOf(c) = Hash(c.chain, Absorbed(c))
<1>1. /\ c \in CtxOver(B) /\ c.buf_len < BlockSize /\ Aligned(Len(c.hashed))
      /\ c.bit_count = (Len(Absorbed(c)) * ByteBits) % CtrMod
      /\ Absorbed(c) \in Seq(B)
  BY SoundFacts
<1>2. Finished(c).chain = c.chain /\ IsPadding(Finished(c).hashed, Absorbed(c))
  BY <1>1, FinishedIsPadded
<1>3. Hash(c.chain, Absorbed(c)) = Digest(c.chain, Finished(c).hashed)
  BY <1>1, <1>2, HashIsPadding
<1> QED
  BY <1>2, <1>3 DEF DigestOf

-----------------------------------------------------------------------------
(* The bytes of a context: a larger set of bytes holds them as well, and   *)
(* so does any set that holds each of them.                                *)
LEMMA SeqHolds ==
  ASSUME NEW B, NEW A, NEW s \in Seq(B), \A i \in 1 .. Len(s) : s[i] \in A
  PROVE  s \in Seq(A)
<1>1. Len(s) \in Nat /\ s = [i \in 1 .. Len(s) |-> s[i]]
  BY LenProperties, SeqDef
<1>2. [i \in 1 .. Len(s) |-> s[i]] \in [1 .. Len(s) -> A]
  OBVIOUS
<1> QED
  BY <1>1, <1>2, FunIsSeq

LEMMA SeqWidens ==
  ASSUME NEW B, NEW A, B \subseteq A, NEW s \in Seq(B)
  PROVE  s \in Seq(A)
<1>1. \A i \in 1 .. Len(s) : s[i] \in A
  BY ElementOfSeq
<1> QED
  BY <1>1, SeqHolds

LEMMA SoundWidens ==
  ASSUME NEW B, NEW A, B \subseteq A, NEW c, Sound(B, c)
  PROVE  Sound(A, c)
<1>1. c \in CtxOver(B)
  BY DEF Sound
<1>2. c.hashed \in Seq(B) /\ c.buf \in Buffer(B)
  BY <1>1 DEF CtxOver
<1>3. c.hashed \in Seq(A)
  BY <1>2, SeqWidens
<1>4. c.buf \in Buffer(A)
  BY <1>2 DEF Buffer
<1>5. c \in CtxOver(A)
  BY <1>1, <1>3, <1>4 DEF CtxOver
<1> QED
  BY <1>5 DEF Sound

LEMMA SoundNarrows ==
  ASSUME NEW B, NEW A, NEW c, Sound(B, c), c.hashed \in Seq(A), c.buf \in Buffer(A)
  PROVE  Sound(A, c)
<1>1. c \in CtxOver(B)
  BY DEF Sound
<1>2. c \in CtxOver(A)
  BY <1>1 DEF CtxOver
<1> QED
  BY <1>2 DEF Sound

(* The bytes of a digest and of the masked keys of k.                      *)
DigestBytes(d) == {DigestByte(d, i) : i \in 1 .. DigestSize}
MaskBytes(k) == {Masked(pad, K0(k)[i]) : pad \in {"ipad", "opad"}, i \in 1 .. BlockSize}
HeldUnder(k) == Byte \cup MaskBytes(k)

LEMMA ByteNumbers == HoldsNumbers(Byte) /\ \A k : HoldsNumbers(HeldUnder(k))
BY ByteAssumption DEF HoldsNumbers, HeldUnder

LEMMA BytesFacts ==
  ASSUME NEW d
  PROVE  Bytes(d) \in Seq(DigestBytes(d)) /\ Len(Bytes(d)) = DigestSize
<1>1. Bytes(d) \in [1 .. DigestSize -> DigestBytes(d)]
  BY DEF Bytes, DigestBytes
<1>2. DigestSize \in Nat
  BY HmacAssumption, SizeAssumption
<1> QED
  BY <1>1, <1>2, FunIsSeq

LEMMA MaskFacts ==
  ASSUME NEW k, NEW pad \in {"ipad", "opad"}
  PROVE  /\ Mask(pad, K0(k)) \in Seq(MaskBytes(k)) /\ Mask(pad, K0(k)) \in Seq(HeldUnder(k))
         /\ Mask(pad, K0(k)) \in Buffer(HeldUnder(k))
         /\ Len(Mask(pad, K0(k))) = BlockSize
<1>1. Mask(pad, K0(k)) \in [1 .. BlockSize -> MaskBytes(k)]
  BY DEF Mask, MaskBytes
<1>2. Mask(pad, K0(k)) \in Seq(MaskBytes(k)) /\ Len(Mask(pad, K0(k))) = BlockSize
  BY <1>1, FunIsSeq, SizeAssumption
<1>3. Mask(pad, K0(k)) \in Seq(HeldUnder(k))
  BY <1>2, SeqWidens DEF HeldUnder
<1>4. Mask(pad, K0(k)) \in Buffer(HeldUnder(k))
  BY <1>1 DEF Buffer, HeldUnder
<1> QED
  BY <1>2, <1>3, <1>4

(* A context on the stack: its fields are set, its buffer is junk.         *)
LEMMA FreshFacts ==
  ASSUME NEW junk \in Junk
  PROVE  [ZeroCtx EXCEPT !.buf = junk] \in CtxOver(Byte)
<1>1. ZeroCtx \in CtxOver(Byte) /\ junk \in Buffer(Byte)
  BY ByteNumbers, ZeroCtxFacts, HmacAssumption DEF Buffer
<1> QED
  BY <1>1 DEF CtxOver

(* The one-shot sha256 is the reference hash.                              *)
LEMMA OneShotHash ==
  ASSUME NEW bytes \in Seq(Byte), NEW junk \in Junk
  PROVE  sha256(bytes, junk) = Hash("H0", bytes)
<1> DEFINE f == [ZeroCtx EXCEPT !.buf = junk]
           c == sha256_init(f)
           d == sha256_update(c, bytes)
<1>1. f \in CtxOver(Byte)
  BY FreshFacts
<1>2. Sound(Byte, c) /\ Absorbed(c) = <<>> /\ c.chain = "H0"
  <2> HIDE DEF f
  <2> QED BY <1>1, ByteNumbers, InitSound
<1>3. Sound(Byte, d) /\ Absorbed(d) = Absorbed(c) ** bytes /\ d.chain = c.chain
  <2> HIDE DEF c
  <2> QED BY <1>2, ByteNumbers, UpdateFacts
<1>4. sha256(bytes, junk) = DigestOf(d)
  BY DEF sha256
<1>5. DigestOf(d) = Hash(d.chain, Absorbed(d))
  <2> HIDE DEF d
  <2> QED BY <1>3, ByteNumbers, DigestFacts
<1>6. <<>> ** bytes = bytes
  BY ConcatEmpty
<1> HIDE DEF c, d
<1> QED
  BY <1>2, <1>3, <1>4, <1>5, <1>6

(* k0 is the key block of FIPS 198-1.                                      *)
LEMMA KeyBlockIsK0 ==
  ASSUME NEW k \in Key, NEW junk \in Junk
  PROVE  KeyBlock(k, junk) = K0(k)
<1>1. k \in Seq(Byte) /\ Len(k) \in Nat /\ BlockSize \in Nat
  BY HmacAssumption, SizeAssumption, LenProperties
<1>2. CASE Len(k) > BlockSize
  <2>1. sha256(k, junk) = Hash("H0", k)
    BY <1>1, OneShotHash
  <2>2. Len(Bytes(Hash("H0", k))) = DigestSize
    BY BytesFacts
  <2>3. ~(Len(k) <= BlockSize)
    BY <1>1, <1>2
  <2> QED BY <1>2, <2>1, <2>2, <2>3 DEF KeyBlock, K0
<1>3. CASE ~(Len(k) > BlockSize)
  <2>1. Len(k) <= BlockSize
    BY <1>1, <1>3
  <2> QED BY <1>3, <2>1 DEF KeyBlock, K0
<1> QED
  BY <1>2, <1>3

(* sha256_init and the mask block: the context stands for the masked key   *)
(* and holds no other byte, whatever it held before.                       *)
LEMMA KeyedFacts ==
  ASSUME NEW B, HoldsNumbers(B), NEW c \in CtxOver(B),
         NEW pad \in {"ipad", "opad"}, NEW k \in Key, NEW junk \in Junk
  PROVE  /\ Sound(HeldUnder(k), Keyed(c, pad, k, junk))
         /\ Keyed(c, pad, k, junk).chain = "H0"
         /\ Absorbed(Keyed(c, pad, k, junk)) = Mask(pad, K0(k))
<1> DEFINE A == B \cup HeldUnder(k)
           b == Mask(pad, K0(k))
           e == sha256_init(c)
           d == sha256_update(e, b)
<1>1. HoldsNumbers(A)
  BY DEF HoldsNumbers
<1>2. b \in Seq(A) /\ Len(b) = BlockSize /\ b \in Seq(HeldUnder(k)) /\ b \in Buffer(HeldUnder(k))
  <2>1. HeldUnder(k) \subseteq A
    OBVIOUS
  <2> HIDE DEF A
  <2>2. b \in Seq(HeldUnder(k)) /\ b \in Buffer(HeldUnder(k)) /\ Len(b) = BlockSize
    BY MaskFacts
  <2> HIDE DEF b
  <2> QED BY <2>1, <2>2, SeqWidens
<1>3. /\ Sound(A, e) /\ Absorbed(e) = <<>> /\ e.chain = "H0" /\ e.hashed = <<>> /\ e.buf_len = 0
  <2>1. Sound(B, e) /\ Absorbed(e) = <<>> /\ e.chain = "H0" /\ e.hashed = <<>> /\ e.buf_len = 0
    BY InitSound
  <2>2. B \subseteq A
    OBVIOUS
  <2> HIDE DEF A, e
  <2> QED BY <2>1, <2>2, SoundWidens
<1> HIDE DEF A, b, e
<1>4. Sound(A, d) /\ d.chain = "H0" /\ Absorbed(d) = b
  <2>1. Sound(A, d) /\ d.chain = e.chain /\ Absorbed(d) = Absorbed(e) ** b
    BY <1>1, <1>2, <1>3, UpdateFacts
  <2>2. <<>> ** b = b
    BY <1>2, ConcatEmpty
  <2> QED BY <1>3, <2>1, <2>2
<1>5. d.hashed = b /\ d.buf = b
  BY <1>1, <1>2, <1>3, BlockFills
<1>6. Keyed(c, pad, k, junk) = d
  BY KeyBlockIsK0 DEF Keyed, b, e
<1> HIDE DEF d
<1>7. Sound(HeldUnder(k), d)
  BY <1>2, <1>4, <1>5, SoundNarrows
<1> QED
  BY <1>4, <1>6, <1>7 DEF b

(* Both finals: the outer hash takes the digest of the inner.              *)
LEMMA ConcludedFacts ==
  ASSUME NEW B, HoldsNumbers(B), NEW c, NEW d, Sound(B, c), Sound(B, d)
  PROVE  Concluded(c, d) =
           Hash(d.chain, Absorbed(d) ** Bytes(Hash(c.chain, Absorbed(c))))
<1> DEFINE h == DigestOf(c)
           A == B \cup DigestBytes(h)
           e == sha256_update(d, Bytes(h))
<1>1. h = Hash(c.chain, Absorbed(c))
  BY DigestFacts
<1> HIDE DEF h
<1>2. HoldsNumbers(A) /\ B \subseteq A /\ DigestBytes(h) \subseteq A
  BY DEF HoldsNumbers
<1> HIDE DEF A
<1>3. Sound(A, d) /\ Bytes(h) \in Seq(A)
  BY <1>2, BytesFacts, SeqWidens, SoundWidens
<1>4. Sound(A, e) /\ e.chain = d.chain /\ Absorbed(e) = Absorbed(d) ** Bytes(h)
  BY <1>2, <1>3, UpdateFacts
<1>5. Concluded(c, d) = DigestOf(e)
  BY DEF Concluded, h
<1> HIDE DEF e
<1>6. DigestOf(e) = Hash(e.chain, Absorbed(e))
  BY <1>2, <1>4, DigestFacts
<1> QED
  BY <1>1, <1>4, <1>5, <1>6

-----------------------------------------------------------------------------
(* A context without a key: zeroized, and perhaps fed since.               *)
Keyless == /\ key = NoKey
           /\ Sound(Byte, inner) /\ inner.chain = "zero" /\ Absorbed(inner) = fed
           /\ outer = ZeroCtx

(* A context under key k: each hash began with its masked block, and       *)
(* neither holds a byte of another key.                                    *)
KeyedWith(k) ==
  /\ key = <<k>>
  /\ Sound(HeldUnder(k), inner) /\ inner.chain = "H0"
  /\ Absorbed(inner) = Mask("ipad", K0(k)) \o fed
  /\ Sound(HeldUnder(k), outer) /\ outer.chain = "H0"
  /\ Absorbed(outer) = Mask("opad", K0(k))

HmacIInv == /\ fed \in Seq(Byte)
            /\ Keyless \/ \E k \in Key : KeyedWith(k)

LEMMA HmacIInvInit == HmacInit => HmacIInv
<1> SUFFICES ASSUME HmacInit PROVE HmacIInv
  OBVIOUS
<1>1. Sound(Byte, ZeroCtx) /\ Absorbed(ZeroCtx) = <<>> /\ ZeroCtx.chain = "zero"
  BY ByteNumbers, ZeroSound
<1>2. Keyless
  BY <1>1 DEF HmacInit, Keyless
<1>3. fed \in Seq(Byte)
  BY EmptySeq DEF HmacInit
<1> QED
  BY <1>2, <1>3 DEF HmacIInv

(* What any context is made of, whichever key it is under.                 *)
LEMMA SomeBytes ==
  ASSUME HmacIInv
  PROVE  \E B : HoldsNumbers(B) /\ Sound(B, inner) /\ Sound(B, outer)
<1>1. CASE Keyless
  <2>1. Sound(Byte, inner) /\ Sound(Byte, outer)
    BY <1>1, ByteNumbers, ZeroSound DEF Keyless
  <2> QED BY <2>1, ByteNumbers
<1>2. ASSUME NEW k \in Key, KeyedWith(k)
      PROVE  \E B : HoldsNumbers(B) /\ Sound(B, inner) /\ Sound(B, outer)
  <2>1. Sound(HeldUnder(k), inner) /\ Sound(HeldUnder(k), outer)
    BY <1>2 DEF KeyedWith
  <2> QED BY <2>1, ByteNumbers
<1> QED
  BY <1>1, <1>2 DEF HmacIInv

LEMMA HmacInitStep ==
  ASSUME HmacIInv, NEW k \in Key, hmac_sha256_init(k)
  PROVE  HmacIInv'
<1>1. PICK junk \in Junk : /\ inner' = Keyed(inner, "ipad", k, junk)
                           /\ outer' = Keyed(outer, "opad", k, junk)
                           /\ key' = <<k>> /\ fed' = <<>>
  BY DEF hmac_sha256_init
<1>2. PICK B : HoldsNumbers(B) /\ Sound(B, inner) /\ Sound(B, outer)
  BY SomeBytes
<1>3. inner \in CtxOver(B) /\ outer \in CtxOver(B)
  BY <1>2 DEF Sound
<1>4. /\ Sound(HeldUnder(k), inner') /\ inner'.chain = "H0"
      /\ Absorbed(inner') = Mask("ipad", K0(k))
  BY <1>1, <1>2, <1>3, KeyedFacts
<1>5. /\ Sound(HeldUnder(k), outer') /\ outer'.chain = "H0"
      /\ Absorbed(outer') = Mask("opad", K0(k))
  BY <1>1, <1>2, <1>3, KeyedFacts
<1>6. Mask("ipad", K0(k)) \o <<>> = Mask("ipad", K0(k))
  <2>1. Mask("ipad", K0(k)) \in Seq(HeldUnder(k))
    BY MaskFacts
  <2> QED BY <2>1, ConcatEmptySeq
<1>7. KeyedWith(k)'
  BY <1>1, <1>4, <1>5, <1>6 DEF KeyedWith
<1>8. (fed \in Seq(Byte))'
  BY <1>1, EmptySeq
<1> QED
  BY <1>7, <1>8 DEF HmacIInv

LEMMA HmacUpdateStep ==
  ASSUME HmacIInv, NEW chunk \in Chunk, hmac_sha256_update(chunk)
  PROVE  HmacIInv'
<1>1. /\ inner' = sha256_update(inner, chunk) /\ fed' = fed ** chunk
      /\ outer' = outer /\ key' = key
  BY DEF hmac_sha256_update, **
<1>2. chunk \in Seq(Byte) /\ fed \in Seq(Byte) /\ fed' \in Seq(Byte)
  <2>1. chunk \in Seq(Byte) /\ fed \in Seq(Byte)
    BY HmacAssumption DEF HmacIInv
  <2> QED BY <1>1, <2>1, Concat
<1>3. CASE Keyless
  <2>1. /\ Sound(Byte, inner') /\ inner'.chain = inner.chain
        /\ Absorbed(inner') = Absorbed(inner) ** chunk
    BY <1>1, <1>2, <1>3, ByteNumbers, UpdateFacts DEF Keyless
  <2>2. Keyless'
    BY <1>1, <1>3, <2>1 DEF Keyless
  <2> QED BY <1>2, <2>2 DEF HmacIInv
<1>4. ASSUME NEW k \in Key, KeyedWith(k) PROVE HmacIInv'
  <2> DEFINE b == Mask("ipad", K0(k))
  <2>1. b \in Seq(HeldUnder(k)) /\ chunk \in Seq(HeldUnder(k)) /\ fed \in Seq(HeldUnder(k))
    <3>1. Byte \subseteq HeldUnder(k)
      BY DEF HeldUnder
    <3> QED BY <1>2, <3>1, MaskFacts, SeqWidens
  <2>2. /\ Sound(HeldUnder(k), inner') /\ inner'.chain = inner.chain
        /\ Absorbed(inner') = Absorbed(inner) ** chunk
    <3>1. Sound(HeldUnder(k), inner)
      BY <1>4 DEF KeyedWith
    <3> QED BY <1>1, <2>1, <3>1, ByteNumbers, UpdateFacts
  <2>3. Absorbed(inner') = b ** fed'
    <3> HIDE DEF b
    <3>1. (b ** fed) ** chunk = b ** (fed ** chunk)
      BY <2>1, Assoc
    <3>2. Absorbed(inner) = b ** fed
      BY <1>4 DEF KeyedWith, b, **
    <3> QED BY <1>1, <2>2, <3>1, <3>2
  <2>4. Absorbed(inner') = b \o fed'
    BY <2>3 DEF **
  <2> HIDE DEF b
  <2>5. KeyedWith(k)'
    BY <1>1, <1>4, <2>2, <2>4 DEF KeyedWith, b
  <2> QED BY <1>2, <2>5 DEF HmacIInv
<1> QED
  BY <1>3, <1>4 DEF HmacIInv

LEMMA HmacFinalStep ==
  ASSUME HmacIInv, hmac_sha256_final
  PROVE  HmacIInv'
<1>1. inner' = ZeroCtx /\ outer' = ZeroCtx /\ key' = NoKey /\ fed' = <<>>
  BY DEF hmac_sha256_final
<1>2. Sound(Byte, ZeroCtx) /\ Absorbed(ZeroCtx) = <<>> /\ ZeroCtx.chain = "zero"
  BY ByteNumbers, ZeroSound
<1>3. Keyless'
  BY <1>1, <1>2 DEF Keyless
<1>4. (fed \in Seq(Byte))'
  BY <1>1, EmptySeq
<1> QED
  BY <1>3, <1>4 DEF HmacIInv

LEMMA HmacStutterStep == HmacIInv /\ UNCHANGED hmac_vars => HmacIInv'
BY DEF hmac_vars, HmacIInv, Keyless, KeyedWith

LEMMA HmacIInvStep == HmacIInv /\ [HmacNext]_hmac_vars => HmacIInv'
<1> SUFFICES ASSUME HmacIInv, [HmacNext]_hmac_vars PROVE HmacIInv'
  OBVIOUS
<1>1. ASSUME NEW k \in Key, hmac_sha256_init(k) PROVE HmacIInv'
  BY <1>1, HmacInitStep
<1>2. ASSUME NEW chunk \in Chunk, hmac_sha256_update(chunk) PROVE HmacIInv'
  BY <1>2, HmacUpdateStep
<1>3. CASE hmac_sha256_final                  BY <1>3, HmacFinalStep
<1>4. CASE UNCHANGED hmac_vars                BY <1>4, HmacStutterStep
<1> QED
  BY <1>1, <1>2, <1>3, <1>4 DEF HmacNext

(* The inductive invariant holds of every behaviour of a context.          *)
THEOREM HmacInvariance == HmacSpec => []HmacIInv
BY HmacIInvInit, HmacIInvStep, PTL DEF HmacSpec

-----------------------------------------------------------------------------
LEMMA FinalIsReference ==
  ASSUME HmacIInv, hmac_sha256_final
  PROVE  mac' = IF key = NoKey THEN KeylessHash(fed) ELSE HMAC(key[1], fed)
<1>1. mac' = Concluded(inner, outer)
  BY DEF hmac_sha256_final
<1>2. CASE Keyless
  <2> DEFINE h == Hash("zero", fed)
  <2>1. Sound(Byte, inner) /\ inner.chain = "zero" /\ Absorbed(inner) = fed
    BY <1>2 DEF Keyless
  <2>2. Sound(Byte, outer) /\ outer.chain = "zero" /\ Absorbed(outer) = <<>>
    BY <1>2, ByteNumbers, ZeroSound DEF Keyless
  <2>3. mac' = Hash("zero", <<>> ** Bytes(h))
    BY <1>1, <2>1, <2>2, ByteNumbers, ConcludedFacts
  <2>4. <<>> ** Bytes(h) = Bytes(h)
    BY BytesFacts, ConcatEmpty
  <2>5. mac' = KeylessHash(fed)
    BY <2>3, <2>4 DEF KeylessHash
  <2> QED BY <1>2, <2>5 DEF Keyless
<1>3. ASSUME NEW k \in Key, KeyedWith(k)
      PROVE  mac' = IF key = NoKey THEN KeylessHash(fed) ELSE HMAC(key[1], fed)
  <2>1. /\ Sound(HeldUnder(k), inner) /\ inner.chain = "H0"
        /\ Absorbed(inner) = Mask("ipad", K0(k)) \o fed
        /\ Sound(HeldUnder(k), outer) /\ outer.chain = "H0"
        /\ Absorbed(outer) = Mask("opad", K0(k))
    BY <1>3 DEF KeyedWith
  <2>2. mac' = Hash(outer.chain, Absorbed(outer) ** Bytes(Hash(inner.chain, Absorbed(inner))))
    BY <1>1, <2>1, ByteNumbers, ConcludedFacts
  <2>3. mac' = HMAC(k, fed)
    BY <2>1, <2>2 DEF HMAC, **
  <2>4. key # NoKey /\ key[1] = k
    BY <1>3 DEF KeyedWith, NoKey
  <2> QED BY <2>3, <2>4
<1> QED
  BY <1>2, <1>3 DEF HmacIInv

(* Every hmac_sha256_final returns the MAC of FIPS 198-1 for the key and   *)
(* the message since the last init, for every block and digest size, every *)
(* counter width, every key length and every cutting of the message; a     *)
(* context already finalised hashes without a key.                         *)
THEOREM MacCorrect == HmacSpec => MacIsReference
<1>1. HmacIInv /\ [HmacNext]_hmac_vars
        => [hmac_sha256_final =>
              mac' = IF key = NoKey THEN KeylessHash(fed) ELSE HMAC(key[1], fed)]_hmac_vars
  BY FinalIsReference
<1> QED
  BY <1>1, HmacInvariance, PTL DEF HmacSpec, MacIsReference

LEMMA OneShotFacts ==
  ASSUME NEW k \in Key, NEW text \in Seq(Byte), NEW junk \in Junk
  PROVE  hmac_sha256(k, text, junk) = HMAC(k, text)
<1> DEFINE f == [ZeroCtx EXCEPT !.buf = junk]
           i == Keyed(f, "ipad", k, junk)
           o == Keyed(f, "opad", k, junk)
           c == sha256_update(i, text)
           A == HeldUnder(k)
<1>1. f \in CtxOver(Byte)
  BY FreshFacts
<1>2. /\ Sound(A, i) /\ i.chain = "H0" /\ Absorbed(i) = Mask("ipad", K0(k))
      /\ Sound(A, o) /\ o.chain = "H0" /\ Absorbed(o) = Mask("opad", K0(k))
  <2> HIDE DEF f
  <2> QED BY <1>1, ByteNumbers, KeyedFacts
<1>3. text \in Seq(A) /\ HoldsNumbers(A)
  <2>1. Byte \subseteq HeldUnder(k)
    BY DEF HeldUnder
  <2> QED BY <2>1, ByteNumbers, SeqWidens
<1> HIDE DEF i, o, A
<1>4. Sound(A, c) /\ c.chain = i.chain /\ Absorbed(c) = Absorbed(i) ** text
  BY <1>2, <1>3, UpdateFacts
<1>5. hmac_sha256(k, text, junk) = Concluded(c, o)
  BY DEF hmac_sha256, i, o
<1> HIDE DEF c
<1>6. Concluded(c, o) = Hash(o.chain, Absorbed(o) ** Bytes(Hash(c.chain, Absorbed(c))))
  BY <1>2, <1>3, <1>4, ConcludedFacts
<1> QED
  BY <1>2, <1>4, <1>5, <1>6 DEF HMAC, **

(* The one-shot agrees with FIPS 198-1 at every point of every message,    *)
(* whatever the stack held.                                                *)
THEOREM OneShotCorrect == HmacSpec => []OneShotIsReference
<1>1. HmacIInv => OneShotIsReference
  <2> SUFFICES ASSUME HmacIInv, key # NoKey, NEW junk \in Junk
               PROVE  hmac_sha256(key[1], fed, junk) = HMAC(key[1], fed)
    BY DEF OneShotIsReference
  <2>1. PICK k \in Key : KeyedWith(k)
    BY DEF HmacIInv, Keyless
  <2>2. key[1] = k /\ fed \in Seq(Byte)
    BY <2>1 DEF KeyedWith, HmacIInv
  <2> QED BY <2>2, OneShotFacts
<1> QED BY <1>1, HmacInvariance, PTL

(* The bytes of length two that a context over B holds are in B.           *)
LEMMA KeyBytesIn ==
  ASSUME NEW B, NEW c, Sound(B, c)
  PROVE  KeyBytes(c) \subseteq {b \in B : Len(b) = 2}
<1>1. c.hashed \in Seq(B) /\ c.buf \in Buffer(B)
  BY DEF Sound, CtxOver
<1>2. \A i \in 1 .. BlockSize : c.buf[i] \in B
  BY <1>1 DEF Buffer
<1>3. \A i \in DOMAIN c.hashed : c.hashed[i] \in B
  BY <1>1, LenProperties, ElementOfSeq
<1> QED
  BY <1>2, <1>3 DEF KeyBytes

LEMMA NumbersAreShort == \A b \in Byte : Len(b) = 1
<1>1. \A n : Len(<<n>>) = 1
  OBVIOUS
<1> QED
  BY <1>1, HmacAssumption DEF Num

(* What hmac_sha256_init leaves in its frame.                              *)
LocalsAreMasked == LocalBytes \subseteq MaskedKey \cup {Num(0)}

LEMMA NoLocalBytes ==
    ASSUME locals' = NoLocals PROVE LocalBytes' = {}
<1>1. \A name \in DOMAIN NoLocals : NoLocals[name] = <<>>
  BY DEF NoLocals
<1>2. \A name \in DOMAIN locals' : DOMAIN (locals'[name]) = {}
  BY <1>1
<1> QED BY <1>2 DEF LocalBytes

LEMMA LocalsInit == HmacInit => LocalsAreMasked
<1> SUFFICES ASSUME HmacInit PROVE LocalBytes = {}
  BY DEF LocalsAreMasked
<1>1. \A name \in DOMAIN NoLocals : NoLocals[name] = <<>>
  BY DEF NoLocals
<1>2. \A name \in DOMAIN locals : DOMAIN (locals[name]) = {}
  BY <1>1 DEF HmacInit
<1> QED BY <1>2 DEF LocalBytes

LEMMA LocalsStep == LocalsAreMasked /\ [HmacNext]_hmac_vars => LocalsAreMasked'
<1> SUFFICES ASSUME LocalsAreMasked, [HmacNext]_hmac_vars PROVE LocalsAreMasked'
  OBVIOUS
<1>1. ASSUME NEW k \in Key, hmac_sha256_init(k) PROVE LocalsAreMasked'
  <2>1. PICK junk \in Junk :
          locals' = [k0 |-> Zeros(BlockSize), ipad |-> Mask("ipad", KeyBlock(k, junk)),
                     opad |-> Mask("opad", KeyBlock(k, junk))]
    BY <1>1 DEF hmac_sha256_init
  <2>2. KeyBlock(k, junk) = K0(k)
    BY KeyBlockIsK0
  <2>3. key' = <<k>>
    BY <1>1 DEF hmac_sha256_init
  <2>4. MaskedKey' = {Masked(pad, K0(k)[i]) : pad \in {"ipad", "opad"}, i \in 1 .. BlockSize}
    BY <2>3 DEF MaskedKey, NoKey
  <2>5. \A i \in DOMAIN Zeros(BlockSize) : Zeros(BlockSize)[i] = Num(0)
    BY DEF Zeros, Zero
  <2>6. ASSUME NEW pad \in {"ipad", "opad"}, NEW i \in DOMAIN Mask(pad, K0(k))
        PROVE  Mask(pad, K0(k))[i] \in MaskedKey'
    BY <2>4 DEF Mask
  <2>7. /\ DOMAIN locals' = {"k0", "ipad", "opad"} /\ locals'["k0"] = Zeros(BlockSize)
        /\ locals'["ipad"] = Mask("ipad", K0(k)) /\ locals'["opad"] = Mask("opad", K0(k))
    BY <2>1, <2>2
  <2>8. ASSUME NEW name \in DOMAIN locals', NEW i \in DOMAIN (locals'[name])
        PROVE  locals'[name][i] \in (MaskedKey \cup {Num(0)})'
    BY <2>5, <2>6, <2>7
  <2> QED BY <2>8 DEF LocalsAreMasked, LocalBytes
<1>2. ASSUME NEW chunk \in Chunk, hmac_sha256_update(chunk) PROVE LocalsAreMasked'
  <2>1. locals' = NoLocals
    BY <1>2 DEF hmac_sha256_update
  <2> QED BY <2>1, NoLocalBytes DEF LocalsAreMasked
<1>3. CASE hmac_sha256_final
  <2>1. locals' = NoLocals
    BY <1>3 DEF hmac_sha256_final
  <2> QED BY <2>1, NoLocalBytes DEF LocalsAreMasked
<1>4. CASE UNCHANGED hmac_vars
  <2>1. locals' = locals /\ key' = key
    BY <1>4 DEF hmac_vars
  <2> QED BY <2>1 DEF LocalsAreMasked, LocalBytes, MaskedKey
<1> QED BY <1>1, <1>2, <1>3, <1>4 DEF HmacNext

(* No byte of an earlier key stays reachable from a context, neither in    *)
(* the stale part of its buffer nor through its chaining value, and        *)
(* hmac_sha256_init leaves nothing but masked bytes of the key at hand in  *)
(* its frame (hmac.c:27-82).                                               *)
THEOREM OldKeysAreGone == HmacSpec => []OnlyCurrentKeyHeld
<1>1. HmacIInv /\ LocalsAreMasked => OnlyCurrentKeyHeld
  <2> SUFFICES ASSUME HmacIInv, LocalsAreMasked PROVE OnlyCurrentKeyHeld
    OBVIOUS
  <2>1. CASE Keyless
    <3>1. Sound(Byte, inner) /\ Sound(Byte, outer)
      BY <2>1, ByteNumbers, ZeroSound DEF Keyless
    <3>2. KeyBytes(inner) = {} /\ KeyBytes(outer) = {}
      BY <3>1, KeyBytesIn, NumbersAreShort
    <3> QED BY <2>1, <3>2 DEF OnlyCurrentKeyHeld, LocalsAreMasked, Keyless
  <2>2. ASSUME NEW k \in Key, KeyedWith(k) PROVE OnlyCurrentKeyHeld
    <3>1. Sound(HeldUnder(k), inner) /\ Sound(HeldUnder(k), outer)
      BY <2>2 DEF KeyedWith
    <3>2. \A b \in HeldUnder(k) : Len(b) = 2 => b \in MaskBytes(k)
      BY NumbersAreShort DEF HeldUnder
    <3>3. KeyBytes(inner) \subseteq MaskBytes(k) /\ KeyBytes(outer) \subseteq MaskBytes(k)
      BY <3>1, <3>2, KeyBytesIn
    <3>4. key # NoKey /\ key[1] = k
      BY <2>2 DEF KeyedWith, NoKey
    <3>5. MaskedKey = MaskBytes(k)
      BY <3>4 DEF MaskedKey, MaskBytes
    <3> QED BY <3>3, <3>5 DEF OnlyCurrentKeyHeld, LocalsAreMasked
  <2> QED BY <2>1, <2>2 DEF HmacIInv
<1>2. HmacSpec => []LocalsAreMasked
  BY LocalsInit, LocalsStep, PTL DEF HmacSpec
<1> QED BY <1>1, <1>2, HmacInvariance, PTL

-----------------------------------------------------------------------------
(* PBKDF2: the counter of blocks, which wraps.                             *)
(* A counter that has not reached its modulus has not wrapped.             *)
LEMMA ModSmall ==
  ASSUME NEW m \in Nat \ {0}, NEW a \in Nat, a < m
  PROVE  a % m = a
<1>1. a \in 0 .. m - 1 /\ 0 \in Int /\ a = m * 0 + a
  BY SMT
<1> QED BY <1>1, ModUnique

(* The block a position falls in.                                          *)
LEMMA DivUnique ==
    ASSUME NEW h \in Nat \ {0}, NEW q \in Nat, NEW n \in Nat,
           q * h <= n, n < q * h + h
    PROVE  n \div h = q
<1> DEFINE d == n \div h   r == n % h
<1>1. d \in Int /\ r \in 0 .. h - 1 /\ n = h * d + r
  BY SMT
<1> HIDE DEF d, r
<1>2. ~(d >= q + 1)
  <2>1. d >= q + 1 => h * d >= h * (q + 1)
    BY <1>1, SMT
  <2>2. h * (q + 1) = q * h + h
    BY SMT
  <2> QED BY <2>1, <2>2, <1>1, SMT
<1>3. ~(d <= q - 1)
  <2>1. d <= q - 1 => h * d <= h * (q - 1)
    BY <1>1, SMT
  <2>2. h * (q - 1) = q * h - h
    BY SMT
  <2> QED BY <2>1, <2>2, <1>1, SMT
<1>4. d = q
  BY <1>1, <1>2, <1>3, SMT
<1> QED BY <1>4 DEF d

-----------------------------------------------------------------------------
(* out_pos is at the start of block q + 1, whose index is at hand.         *)
AtBlock(q) == out_pos = q * HLEN /\ block_i = (q + 1) % IntMod

Position ==
    pc # "idle" =>
        /\ arg.iterations # 0
        /\ \/ out_pos = arg.out_len /\ pc = "while"
           \/ \E q \in Nat : AtBlock(q)

Accumulated ==
    pc = "for" =>
        /\ out_pos < arg.out_len
        /\ j \in 1 .. arg.iterations
        /\ U = {Prf(Input(Password, salt_block, block_i), j)}
        /\ T = {Prf(Input(Password, salt_block, block_i), n) : n \in 1 .. j}

Written ==
    pc # "idle" /\ arg.out_len <= LengthLimit /\ PasswordLasts(arg) =>
        \A p \in 1 .. out_pos : out[p] = DerivedKey(arg)[p]

(* The salt was copied before a byte of out was written.                   *)
SaltCopied == pc # "idle" => salt_block = 0

(* out is an array, not just something with its domain.                    *)
OutIsArray == out = [p \in 1 .. arg.out_len |-> out[p]]

IInv == /\ TypeOK
        /\ OutIsArray
        /\ Position
        /\ Accumulated
        /\ SaltCopied
        /\ Written
        /\ KeyIsReference
        /\ RefusalWritesNothing
        /\ NoIntermediateLeft

-----------------------------------------------------------------------------
(* Within the length limit the block index has not wrapped.                *)
LEMMA IndexIsBlock ==
    ASSUME NEW q \in Nat, NEW len \in Nat, q * HLEN < len, len <= LengthLimit
    PROVE  (q + 1) % IntMod = q + 1
<1>1. HLEN \in Nat \ {0} /\ IntMod \in Nat \ {0, 1}
  BY Pbkdf2Assumption
<1>2. ~(q >= IntMod - 1)
  <2>1. q >= IntMod - 1 => q * HLEN >= (IntMod - 1) * HLEN
    BY <1>1, SMT
  <2> QED BY <2>1, <1>1, SMT DEF LengthLimit
<1>3. q + 1 < IntMod
  BY <1>1, <1>2, SMT
<1> QED BY <1>1, <1>3, ModSmall

(* What the PRF step does to the accumulated block: no term is in it yet.  *)
LEMMA Accumulate ==
    ASSUME NEW w, NEW s, NEW c, NEW i \in Nat
    PROVE  LET b == Input(w, s, c)
           IN  /\ PrfAgain(w, {Prf(b, i)}) = {Prf(b, i + 1)}
               /\ Xor({Prf(b, n) : n \in 1 .. i}, {Prf(b, i + 1)})
                    = {Prf(b, n) : n \in 1 .. i + 1}
<1> DEFINE b == Input(w, s, c)
<1>1. PrfAgain(w, {Prf(b, i)}) = {Prf(b, i + 1)}
  <2>1. [b EXCEPT !.password = w] = b
    BY DEF Input
  <2>2. Prf(b, i)[1] = b /\ Prf(b, i)[2] = i
    BY DEF Prf
  <2> HIDE DEF b
  <2>3. PrfAgain(w, {Prf(b, i)})
          = {Prf([Prf(b, i)[1] EXCEPT !.password = w], Prf(b, i)[2] + 1)}
    BY Zenon DEF PrfAgain
  <2> QED BY <2>1, <2>2, <2>3
<1> HIDE DEF b
<1>2. Prf(b, i + 1) \notin {Prf(b, n) : n \in 1 .. i}
  BY SMT DEF Prf
<1>3. 1 .. i + 1 = (1 .. i) \cup {i + 1}
  BY SMT
<1>4. {Prf(b, n) : n \in 1 .. i + 1} = {Prf(b, n) : n \in 1 .. i} \cup {Prf(b, i + 1)}
  BY <1>3
<1>5. Xor({Prf(b, n) : n \in 1 .. i}, {Prf(b, i + 1)}) = {Prf(b, n) : n \in 1 .. i + 1}
  BY <1>2, <1>4 DEF Xor
<1> QED BY <1>1, <1>5 DEF b

-----------------------------------------------------------------------------
LEMMA IInvInit == Init => IInv
<1> SUFFICES ASSUME Init PROVE IInv
  OBVIOUS
<1>1. TypeOK
  BY Pbkdf2Assumption, SMT DEF Init, TypeOK, Mode
<1>2. OutIsArray
  BY DEF Init, OutIsArray
<1>3. Position /\ Accumulated /\ SaltCopied /\ Written
  BY DEF Init, Position, Accumulated, SaltCopied, Written
<1>4. KeyIsReference /\ RefusalWritesNothing /\ NoIntermediateLeft
  BY DEF Init, KeyIsReference, RefusalWritesNothing, NoIntermediateLeft
<1> QED BY <1>1, <1>3, <1>4, <1>2 DEF IInv

LEMMA SetModeStep == ASSUME IInv, NEW m \in Mode, SetMode(m) PROVE IInv'
<1>1. pc = "idle" /\ mode' = m
      /\ UNCHANGED <<pc, arg, salt_block, U, T, j, block_i, out_pos, out, ret>>
  BY DEF SetMode
<1>2. TypeOK' /\ OutIsArray'
  BY <1>1 DEF IInv, TypeOK, OutIsArray
<1>3. Position' /\ Accumulated' /\ SaltCopied' /\ Written'
  BY <1>1 DEF Position, Accumulated, SaltCopied, Written
<1>4. KeyIsReference' /\ RefusalWritesNothing' /\ NoIntermediateLeft'
  BY <1>1 DEF IInv, KeyIsReference, RefusalWritesNothing, NoIntermediateLeft
<1> QED BY <1>2, <1>3, <1>4 DEF IInv

LEMMA CallStep == ASSUME IInv, NEW a \in Arg, Call(a) PROVE IInv'
<1>1. /\ pc = "idle" /\ arg' = a /\ mode' = mode
      /\ out' = [p \in 1 .. a.out_len |-> CallersByte]
  BY DEF Call
<1>2. a.salt_len \in Nat /\ a.iterations \in Nat /\ a.out_len \in Nat
  BY Pbkdf2Assumption DEF Arg
<1>3. CASE Refused(mode, a)
  <2>1. ret' = -1 /\ UNCHANGED <<pc, salt_block, U, T, j, block_i, out_pos>>
    BY <1>3 DEF Call
  <2>2. TypeOK' /\ OutIsArray'
    BY <1>1, <1>2, <2>1 DEF IInv, TypeOK, OutIsArray
  <2>3. Position' /\ Accumulated' /\ SaltCopied' /\ Written'
    BY <1>1, <2>1 DEF Position, Accumulated, SaltCopied, Written
  <2>4. KeyIsReference' /\ NoIntermediateLeft'
    BY <1>1, <2>1 DEF IInv, KeyIsReference, NoIntermediateLeft
  <2>5. RefusalWritesNothing'
    BY <1>1 DEF RefusalWritesNothing
  <2> QED BY <2>2, <2>3, <2>4, <2>5 DEF IInv
<1>4. CASE ~Refused(mode, a)
  <2>1. /\ pc' = "while" /\ j' = 0 /\ block_i' = 1 /\ out_pos' = 0
        /\ ret' = ret /\ salt_block' = 0
    BY <1>4 DEF Call
  <2>2. a.iterations # 0 /\ a.salt_len <= SaltRoom
    BY <1>2, <1>4, Pbkdf2Assumption DEF Refused
  <2>3. TypeOK' /\ OutIsArray'
    BY <1>1, <1>2, <2>1, <2>2, Pbkdf2Assumption DEF IInv, TypeOK, OutIsArray
  <2>4. Position'
    <3>1. 0 = 0 * HLEN /\ 1 = (0 + 1) % IntMod
      BY Pbkdf2Assumption, ModSmall
    <3> QED BY <1>1, <2>1, <2>2, <3>1 DEF Position, AtBlock
  <2>5. Accumulated' /\ SaltCopied' /\ Written'
    BY <2>1 DEF Accumulated, SaltCopied, Written
  <2>6. KeyIsReference' /\ RefusalWritesNothing' /\ NoIntermediateLeft'
    BY <2>1 DEF KeyIsReference, RefusalWritesNothing, NoIntermediateLeft
  <2> QED BY <2>3, <2>4, <2>5, <2>6 DEF IInv
<1> QED BY <1>3, <1>4

LEMMA FirstPrfStep == IInv /\ FirstPrf => IInv'
<1> SUFFICES ASSUME IInv, FirstPrf PROVE IInv'
  OBVIOUS
<1>1. /\ pc = "while" /\ pc' = "for" /\ out_pos < arg.out_len
      /\ U' = {Prf(Input(Password, salt_block, block_i), 1)} /\ T' = U' /\ j' = 1
      /\ UNCHANGED <<mode, arg, salt_block, block_i, out_pos, out, ret>>
  BY DEF FirstPrf
<1>2. arg.iterations # 0 /\ arg.iterations \in Nat /\ out_pos \in 0 .. arg.out_len
  BY <1>1 DEF IInv, Position, TypeOK
<1>3. TypeOK' /\ OutIsArray'
  BY <1>1, <1>2 DEF IInv, TypeOK, OutIsArray
<1>4. Position'
  BY <1>1, <1>2 DEF IInv, Position, AtBlock, TypeOK
<1>5. Accumulated'
  <2> DEFINE x == Input(Password, salt_block, block_i)
  <2>1. x' = x
    BY <1>1 DEF Password, Input
  <2>2. {Prf(x, n) : n \in 1 .. 1} = {Prf(x, 1)}
    BY 1 .. 1 = {1}
  <2>3. 1 \in 1 .. arg.iterations
    BY <1>2
  <2> HIDE DEF x
  <2>4. U' = {Prf(x', j')} /\ T' = {Prf(x', n) : n \in 1 .. j'}
    BY <1>1, <2>1, <2>2 DEF x
  <2> QED BY <1>1, <2>3, <2>4 DEF Accumulated, x
<1>6. SaltCopied' /\ Written'
  BY <1>1 DEF IInv, SaltCopied, Written, DerivedKey
<1>7. KeyIsReference' /\ RefusalWritesNothing' /\ NoIntermediateLeft'
  BY <1>1 DEF KeyIsReference, RefusalWritesNothing, NoIntermediateLeft
<1> QED BY <1>3, <1>4, <1>5, <1>6, <1>7 DEF IInv

LEMMA NextPrfStep == IInv /\ NextPrf => IInv'
<1> SUFFICES ASSUME IInv, NextPrf PROVE IInv'
  OBVIOUS
<1>1. /\ pc = "for" /\ pc' = pc /\ j < arg.iterations
      /\ U' = PrfAgain(Password, U) /\ T' = Xor(T, U') /\ j' = j + 1
      /\ UNCHANGED <<mode, arg, salt_block, block_i, out_pos, out, ret>>
  BY DEF NextPrf
<1>2. /\ j \in 1 .. arg.iterations /\ arg.iterations \in Nat
      /\ U = {Prf(Input(Password, salt_block, block_i), j)}
      /\ T = {Prf(Input(Password, salt_block, block_i), n) : n \in 1 .. j}
      /\ out_pos < arg.out_len
  BY <1>1 DEF IInv, Accumulated, TypeOK
<1>3. TypeOK' /\ OutIsArray'
  BY <1>1, <1>2 DEF IInv, TypeOK, OutIsArray
<1>4. Position'
  BY <1>1 DEF IInv, Position, AtBlock
<1>5. Accumulated'
  <2> DEFINE x == Input(Password, salt_block, block_i)
  <2>1. j \in Nat /\ j + 1 \in 1 .. arg.iterations
    BY <1>1, <1>2
  <2>2. x' = x
    BY <1>1 DEF Password, Input
  <2>3. U' = {Prf(x, j + 1)} /\ T' = {Prf(x, n) : n \in 1 .. j + 1}
    <3>1. /\ PrfAgain(Password, {Prf(x, j)}) = {Prf(x, j + 1)}
          /\ Xor({Prf(x, n) : n \in 1 .. j}, {Prf(x, j + 1)}) = {Prf(x, n) : n \in 1 .. j + 1}
      BY <2>1, Accumulate
    <3> HIDE DEF x
    <3>2. U = {Prf(x, j)} /\ T = {Prf(x, n) : n \in 1 .. j}
      BY <1>2 DEF x
    <3> QED BY <1>1, <3>1, <3>2
  <2> HIDE DEF x
  <2>4. U' = {Prf(x', j')} /\ T' = {Prf(x', n) : n \in 1 .. j'}
    BY <1>1, <2>2, <2>3
  <2> QED BY <1>1, <1>2, <2>1, <2>4 DEF Accumulated, x
<1>6. SaltCopied' /\ Written'
  BY <1>1 DEF IInv, SaltCopied, Written, DerivedKey
<1>7. KeyIsReference' /\ RefusalWritesNothing' /\ NoIntermediateLeft'
  BY <1>1 DEF KeyIsReference, RefusalWritesNothing, NoIntermediateLeft
<1> QED BY <1>3, <1>4, <1>5, <1>6, <1>7 DEF IInv

(* The bytes copied from T are those of the derived key: byte p of block   *)
(* q + 1 is byte p - q * HLEN of its XOR.                                  *)
LEMMA CopiedBytes ==
    ASSUME IInv, CopyBlock, arg.out_len <= LengthLimit, PasswordLasts(arg),
           NEW p \in 1 .. arg.out_len, out_pos < p, p <= out_pos + Copied
    PROVE  OutByte(T, p - out_pos) = DerivedKey(arg)[p]
<1>1. pc = "for" /\ ~(j < arg.iterations)
  BY DEF CopyBlock
<1>2. /\ j \in 1 .. arg.iterations /\ arg.iterations \in Nat /\ arg.out_len \in Nat
      /\ out_pos < arg.out_len
      /\ T = {Prf(Input(Password, salt_block, block_i), n) : n \in 1 .. j}
      /\ salt_block = 0
  BY <1>1 DEF IInv, Accumulated, SaltCopied, TypeOK
<1>3. j = arg.iterations
  BY <1>1, <1>2
<1>4. PICK q \in Nat : AtBlock(q)
  BY <1>1 DEF IInv, Position
<1>5. HLEN \in Nat \ {0} /\ q * HLEN \in Nat /\ out_pos = q * HLEN
  BY <1>4, Pbkdf2Assumption DEF AtBlock
<1>6. block_i = q + 1
  BY <1>2, <1>4, <1>5, IndexIsBlock DEF AtBlock
<1>7. Input(Password, salt_block, block_i) = CallersInput(q + 1)
  <2>1. Password = 0
    <3>1. CASE arg.overlap = "password"
      <4>1. q * HLEN < HLEN
        BY <1>2, <1>5, <3>1 DEF PasswordLasts
      <4>2. q >= 1 => q * HLEN >= 1 * HLEN
        BY <1>5, SMT
      <4>3. q = 0
        BY <4>1, <4>2, <1>5
      <4> QED BY <1>5, <3>1, <4>3 DEF Password
    <3> QED BY <3>1 DEF Password
  <2> QED BY <1>2, <1>6, <2>1 DEF CallersInput
<1>8. Copied <= HLEN
  BY <1>2, <1>5 DEF Copied
<1>9. (p - 1) \div HLEN = q
  <2>1. p - 1 \in Nat /\ q * HLEN <= p - 1 /\ p - 1 < q * HLEN + HLEN
    BY <1>2, <1>5, <1>8 DEF Copied
  <2> QED BY <2>1, <1>5, DivUnique
<1>10. DerivedKey(arg)[p] = OutByte({Prf(CallersInput(q + 1), n) : n \in 1 .. arg.iterations}, p - q * HLEN)
  BY <1>9 DEF DerivedKey
<1> QED BY <1>2, <1>3, <1>5, <1>10, <1>7

LEMMA CopyBlockStep == IInv /\ CopyBlock => IInv'
<1> SUFFICES ASSUME IInv, CopyBlock PROVE IInv'
  OBVIOUS
<1>1. /\ pc = "for" /\ pc' = "while"
      /\ out' = [p \in 1 .. arg.out_len |->
                   IF out_pos < p /\ p <= out_pos + Copied
                   THEN OutByte(T, p - out_pos) ELSE out[p]]
      /\ out_pos' = out_pos + Copied
      /\ block_i' = (block_i + 1) % IntMod
      /\ UNCHANGED <<mode, arg, salt_block, U, T, j, ret>>
  BY DEF CopyBlock
<1>2. /\ arg.out_len \in Nat /\ out_pos \in 0 .. arg.out_len /\ out_pos < arg.out_len
      /\ block_i \in 0 .. IntMod - 1 /\ HLEN \in Nat \ {0} /\ IntMod \in Nat \ {0, 1}
  BY <1>1, Pbkdf2Assumption DEF IInv, Accumulated, TypeOK
<1>3. /\ Copied \in Nat /\ out_pos + Copied \in 0 .. arg.out_len
      /\ Copied = HLEN \/ out_pos + Copied = arg.out_len
  BY <1>2 DEF Copied
<1>4. TypeOK' /\ OutIsArray'
  <2>1. block_i' \in 0 .. IntMod - 1
    BY <1>1, <1>2, ModRange
  <2>2. OutIsArray'
    BY <1>1 DEF OutIsArray
  <2> QED BY <1>1, <1>2, <1>3, <2>1, <2>2 DEF IInv, TypeOK
<1>5. Position'
  <2>1. arg'.iterations # 0
    BY <1>1 DEF IInv, Position
  <2>2. CASE out_pos + Copied = arg.out_len
    BY <1>1, <2>1, <2>2 DEF Position
  <2>3. CASE Copied = HLEN
    <3>1. PICK q \in Nat : AtBlock(q)
      BY <1>1 DEF IInv, Position
    <3>2. out_pos' = (q + 1) * HLEN
      <4>1. (q + 1) * HLEN = q * HLEN + HLEN
        BY <1>2
      <4> QED BY <1>1, <2>3, <3>1, <4>1 DEF AtBlock
    <3>3. block_i' = (q + 1 + 1) % IntMod
      <4>1. q + 1 \in Nat /\ 1 \in Nat /\ IntMod \in Nat \ {0}
        BY <1>2
      <4>2. (((q + 1) % IntMod) + 1) % IntMod = ((q + 1) + 1) % IntMod
        BY <4>1, ModAdd
      <4> QED BY <1>1, <3>1, <4>2 DEF AtBlock
    <3>4. q + 1 \in Nat /\ AtBlock(q + 1)'
      BY <3>2, <3>3 DEF AtBlock
    <3> QED BY <2>1, <3>4 DEF Position
  <2> QED BY <1>3, <2>2, <2>3
<1>6. Accumulated'
  BY <1>1 DEF Accumulated
<1>7. SaltCopied'
  BY <1>1 DEF IInv, SaltCopied
<1>8. Written'
  <2> SUFFICES ASSUME arg.out_len <= LengthLimit, PasswordLasts(arg),
                      NEW p \in 1 .. out_pos + Copied
               PROVE  out'[p] = DerivedKey(arg)[p]
    BY <1>1 DEF Written, DerivedKey, PasswordLasts
  <2>1. p \in 1 .. arg.out_len
    BY <1>2, <1>3
  <2>2. CASE out_pos < p
    BY <1>1, <1>2, <1>3, <2>1, <2>2, CopiedBytes
  <2>3. CASE p <= out_pos
    <3>1. out'[p] = out[p]
      BY <1>1, <1>2, <2>1, <2>3
    <3>2. p \in 1 .. out_pos
      BY <1>2, <2>1, <2>3
    <3> QED BY <1>1, <3>1, <3>2 DEF IInv, Written
  <2> QED BY <1>2, <2>1, <2>2, <2>3
<1>9. KeyIsReference' /\ RefusalWritesNothing' /\ NoIntermediateLeft'
  BY <1>1 DEF KeyIsReference, RefusalWritesNothing, NoIntermediateLeft
<1> QED BY <1>4, <1>5, <1>6, <1>8, <1>9, <1>7 DEF IInv

LEMMA ReturnStep == IInv /\ Return => IInv'
<1> SUFFICES ASSUME IInv, Return PROVE IInv'
  OBVIOUS
<1>1. /\ pc = "while" /\ pc' = "idle" /\ ~(out_pos < arg.out_len)
      /\ U' = {} /\ T' = {} /\ ret' = 0
      /\ UNCHANGED <<mode, arg, salt_block, j, block_i, out_pos, out>>
  BY DEF Return
<1>2. out_pos = arg.out_len
  BY <1>1 DEF IInv, TypeOK
<1>3. TypeOK' /\ OutIsArray'
  BY <1>1 DEF IInv, TypeOK, OutIsArray
<1>4. Position' /\ Accumulated' /\ SaltCopied' /\ Written'
  BY <1>1 DEF Position, Accumulated, SaltCopied, Written
<1>5. KeyIsReference'
  <2> SUFFICES ASSUME arg.out_len <= LengthLimit, PasswordLasts(arg)
               PROVE  out = DerivedKey(arg)
    BY <1>1 DEF KeyIsReference, DerivedKey, PasswordLasts
  <2>2. \A p \in 1 .. arg.out_len : out[p] = DerivedKey(arg)[p]
    BY <1>1, <1>2 DEF IInv, Written
  <2>3. out = [p \in 1 .. arg.out_len |-> out[p]]
    BY DEF IInv, OutIsArray
  <2> QED BY <2>2, <2>3 DEF DerivedKey
<1>6. RefusalWritesNothing' /\ NoIntermediateLeft'
  BY <1>1 DEF RefusalWritesNothing, NoIntermediateLeft
<1> QED BY <1>3, <1>4, <1>5, <1>6 DEF IInv

LEMMA IInvStep == IInv /\ [Next]_vars => IInv'
<1> SUFFICES ASSUME IInv, [Next]_vars PROVE IInv'
  OBVIOUS
<1>1. CASE UNCHANGED vars
  <2>1. UNCHANGED <<pc, mode, arg, salt_block, U, T, j, block_i, out_pos, out, ret>>
    BY <1>1 DEF vars
  <2>2. TypeOK' /\ OutIsArray' /\ SaltCopied'
    BY <2>1 DEF IInv, TypeOK, OutIsArray, SaltCopied
  <2>3. Position'
    BY <2>1 DEF IInv, Position, AtBlock
  <2>4. Accumulated'
    <3>1. Input(Password, salt_block, block_i)' = Input(Password, salt_block, block_i)
      BY <2>1 DEF Password, Input
    <3> QED BY <2>1, <3>1 DEF IInv, Accumulated
  <2>5. Written' /\ KeyIsReference'
    BY <2>1 DEF IInv, Written, KeyIsReference, DerivedKey, PasswordLasts
  <2>6. RefusalWritesNothing' /\ NoIntermediateLeft'
    BY <2>1 DEF IInv, RefusalWritesNothing, NoIntermediateLeft
  <2> QED BY <2>2, <2>3, <2>4, <2>5, <2>6 DEF IInv
<1> QED
  BY <1>1, SetModeStep, CallStep, FirstPrfStep, NextPrfStep, CopyBlockStep, ReturnStep
     DEF Next, Body

(* In every reachable state of pbkdf2_hmac_sha256 the position is that of  *)
(* the block at hand, T holds the PRF values added so far, and what lies   *)
(* before the position is the derived key (pbkdf2.c:61-89).                *)
THEOREM Pbkdf2Invariance == Spec => []IInv
BY IInvInit, IInvStep, PTL DEF Spec

(* Every variable keeps its type; out keeps the length the caller gave.    *)
THEOREM Pbkdf2TypeCorrect == Spec => []TypeOK
<1>1. IInv => TypeOK BY DEF IInv
<1> QED BY <1>1, Pbkdf2Invariance, PTL

(* A call that returns 0 has written the key RFC 8018 defines, for every   *)
(* output length up to (2^32 - 1) * HLEN (pbkdf2.c:61-89).                 *)
THEOREM DerivesTheKey == Spec => []KeyIsReference
<1>1. IInv => KeyIsReference BY DEF IInv
<1> QED BY <1>1, Pbkdf2Invariance, PTL

(* A refused call has not written to out (pbkdf2.c:39-57).                 *)
THEOREM RefusesCleanly == Spec => []RefusalWritesNothing
<1>1. IInv => RefusalWritesNothing BY DEF IInv
<1> QED BY <1>1, Pbkdf2Invariance, PTL

(* No call leaves PRF output in U or T (pbkdf2.c:91-95).                   *)
THEOREM LeavesNothing == Spec => []NoIntermediateLeft
<1>1. IInv => NoIntermediateLeft BY DEF IInv
<1> QED BY <1>1, Pbkdf2Invariance, PTL

-----------------------------------------------------------------------------
(* An upper bound on the steps the call still takes: for each byte not yet *)
(* written a PRF for every iteration and a copy, as if each block had room *)
(* for one byte.                                                           *)
PerByte == arg.iterations + 1
StepsLeft == CASE pc = "while" -> (arg.out_len - out_pos) * PerByte + 1
               [] pc = "for"   -> (arg.out_len - out_pos - 1) * PerByte
                                    + (arg.iterations - j) + 2
               [] OTHER        -> 0

LEMMA Times ==
  ASSUME NEW p \in Nat
  PROVE  /\ \A r \in Nat : r * p \in Nat /\ (r + 1) * p = r * p + p
         /\ \A r, s \in Nat : r <= s => r * p <= s * p
<1>1. ASSUME NEW r \in Nat PROVE r * p \in Nat /\ (r + 1) * p = r * p + p
  BY SMT
<1>2. ASSUME NEW r \in Nat, NEW s \in Nat, r <= s PROVE r * p <= s * p
  BY <1>2, SMT
<1> QED BY <1>1, <1>2

LEMMA StepsFacts ==
  ASSUME IInv
  PROVE  /\ pc \in {"idle", "while", "for"}
         /\ arg.iterations \in Nat /\ arg.out_len \in Nat /\ PerByte \in Nat
         /\ pc # "idle" => arg.iterations # 0 /\ out_pos \in 0 .. arg.out_len
         /\ pc = "for" => j \in 1 .. arg.iterations /\ out_pos < arg.out_len
         /\ StepsLeft \in Nat /\ (StepsLeft = 0 <=> pc = "idle")
         /\ pc # "idle" => StepsLeft <= arg.out_len * PerByte + 1
<1>1. /\ pc \in {"idle", "while", "for"}
      /\ arg.iterations \in Nat /\ arg.out_len \in Nat /\ PerByte \in Nat
      /\ pc # "idle" => arg.iterations # 0 /\ out_pos \in 0 .. arg.out_len
      /\ pc = "for" => j \in 1 .. arg.iterations /\ out_pos < arg.out_len
  BY DEF IInv, TypeOK, Position, Accumulated, PerByte
<1> DEFINE left == arg.out_len - out_pos
<1>2. CASE pc = "idle"
  BY <1>1, <1>2 DEF StepsLeft
<1>3. CASE pc = "while"
  <2>1. left \in Nat /\ left <= arg.out_len
    BY <1>1, <1>3
  <2>2. left * PerByte \in Nat /\ left * PerByte <= arg.out_len * PerByte
    BY <1>1, <2>1, Times
  <2>3. StepsLeft = left * PerByte + 1
    BY <1>3 DEF StepsLeft
  <2>4. StepsLeft \in Nat /\ StepsLeft # 0 /\ StepsLeft <= arg.out_len * PerByte + 1
    BY <1>1, <2>2, <2>3, Times
  <2> QED BY <1>1, <1>3, <2>4
<1>4. CASE pc = "for"
  <2>1. left - 1 \in Nat /\ arg.iterations - j \in Nat /\ left <= arg.out_len /\ left \in Nat
        /\ arg.iterations - j + 2 <= PerByte + 1
    BY <1>1, <1>4 DEF PerByte
  <2>2. (left - 1) * PerByte \in Nat /\ ((left - 1) + 1) * PerByte = (left - 1) * PerByte + PerByte
    BY <1>1, <2>1, Times
  <2>3. (left - 1) + 1 = left
    BY <1>1, <1>4
  <2>4. left * PerByte \in Nat /\ left * PerByte <= arg.out_len * PerByte
        /\ arg.out_len * PerByte \in Nat
    BY <1>1, <2>1, Times
  <2>5. StepsLeft = (left - 1) * PerByte + (arg.iterations - j) + 2
    BY <1>4 DEF StepsLeft
  <2>6. left * PerByte = (left - 1) * PerByte + PerByte
    BY <2>2, <2>3
  <2>7. StepsLeft \in Nat /\ StepsLeft # 0 /\ StepsLeft <= arg.out_len * PerByte + 1
    BY <1>1, <2>1, <2>2, <2>4, <2>5, <2>6
  <2> QED BY <1>1, <1>4, <2>7
<1> QED BY <1>1, <1>2, <1>3, <1>4

LEMMA EveryStepShortens ==
  ASSUME IInv, IInv', [Next]_vars, pc # "idle", vars' # vars
  PROVE  StepsLeft' < StepsLeft
<1>1. /\ arg.iterations \in Nat /\ arg.out_len \in Nat /\ PerByte \in Nat
      /\ arg.iterations # 0 /\ out_pos \in 0 .. arg.out_len
      /\ pc = "for" => j \in 1 .. arg.iterations /\ out_pos < arg.out_len
      /\ StepsLeft \in Nat /\ StepsLeft # 0
  BY StepsFacts
<1> DEFINE left == arg.out_len - out_pos
<1>2. CASE FirstPrf
  <2>1. pc = "while" /\ pc' = "for" /\ j' = 1 /\ arg' = arg /\ out_pos' = out_pos
        /\ left - 1 \in Nat
    BY <1>1, <1>2 DEF FirstPrf
  <2>2. left * PerByte = (left - 1) * PerByte + PerByte /\ (left - 1) * PerByte \in Nat
    <3>1. ((left - 1) + 1) * PerByte = (left - 1) * PerByte + PerByte
          /\ (left - 1) * PerByte \in Nat
      BY <1>1, <2>1, Times
    <3>2. (left - 1) + 1 = left
      BY <1>1
    <3> QED BY <3>1, <3>2
  <2>3. /\ StepsLeft = left * PerByte + 1
        /\ StepsLeft' = (left - 1) * PerByte + (arg.iterations - 1) + 2
    BY <2>1 DEF StepsLeft, PerByte
  <2>4. PerByte = arg.iterations + 1
    BY DEF PerByte
  <2> QED BY <1>1, <2>2, <2>3, <2>4
<1>3. CASE NextPrf
  <2>1. pc = "for" /\ pc' = "for" /\ j' = j + 1 /\ arg' = arg /\ out_pos' = out_pos
        /\ left - 1 \in Nat /\ j \in Nat
    BY <1>1, <1>3 DEF NextPrf
  <2>2. (left - 1) * PerByte \in Nat
    BY <1>1, <2>1, Times
  <2>3. /\ StepsLeft = (left - 1) * PerByte + (arg.iterations - j) + 2
        /\ StepsLeft' = (left - 1) * PerByte + (arg.iterations - (j + 1)) + 2
    BY <2>1 DEF StepsLeft, PerByte
  <2> QED BY <1>1, <2>1, <2>2, <2>3
<1>4. CASE CopyBlock
  <2>1. /\ pc = "for" /\ pc' = "while" /\ arg' = arg /\ out_pos' = out_pos + Copied
        /\ ~(j < arg.iterations)
    BY <1>4 DEF CopyBlock
  <2>2. Copied \in 1 .. left
    BY <1>1, <2>1, Pbkdf2Assumption DEF Copied
  <2>3. left \in Nat /\ left - 1 \in Nat /\ left - Copied \in Nat /\ left - Copied <= left - 1
    BY <1>1, <2>1, <2>2
  <2>4. /\ (left - Copied) * PerByte <= (left - 1) * PerByte
        /\ (left - Copied) * PerByte \in Nat /\ (left - 1) * PerByte \in Nat
    BY <1>1, <2>3, Times
  <2>5. arg'.out_len - out_pos' = left - Copied
    BY <1>1, <2>1, <2>2
  <2>6. /\ StepsLeft = (left - 1) * PerByte + (arg.iterations - j) + 2
        /\ StepsLeft' = (left - Copied) * PerByte + 1
    BY <2>1, <2>5 DEF StepsLeft, PerByte
  <2>7. arg.iterations - j = 0
    BY <1>1, <2>1
  <2> QED BY <2>4, <2>6, <2>7
<1>5. CASE Return
  BY <1>1, <1>5 DEF Return, StepsLeft
<1>6. (\A m \in Mode : ~SetMode(m)) /\ (\A a \in Arg : ~Call(a))
  BY DEF SetMode, Call
<1> QED
  BY <1>2, <1>3, <1>4, <1>5, <1>6 DEF Next, Body

(* A call is over after at most out_len * (iterations + 1) + 1 steps, also *)
(* when block_i wraps: each round of the while loop writes at least one    *)
(* byte, each round of the for loop advances j (pbkdf2.c:61-89).           *)
(* EveryCallReturns adds only that the call keeps running.                 *)
THEOREM CallsAreBounded ==
  Spec => /\ [](StepsLeft \in Nat /\ (StepsLeft = 0 <=> pc = "idle"))
          /\ [](pc # "idle" => StepsLeft <= arg.out_len * PerByte + 1)
          /\ [][pc # "idle" => StepsLeft' < StepsLeft]_vars
<1>1. IInv => /\ StepsLeft \in Nat /\ (StepsLeft = 0 <=> pc = "idle")
              /\ pc # "idle" => StepsLeft <= arg.out_len * PerByte + 1
  BY StepsFacts
<1>2. IInv /\ IInv' /\ [Next]_vars => [pc # "idle" => StepsLeft' < StepsLeft]_vars
  BY EveryStepShortens
<1> QED
  BY <1>1, <1>2, Pbkdf2Invariance, PTL DEF Spec

=============================================================================
