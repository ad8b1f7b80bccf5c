--------------------------- MODULE AesBlockProofs ---------------------------
(***************************************************************************)
(* Proofs about AesBlock for every set of keys and blocks.  They rest on   *)
(* what TLC evaluates over all bytes (the two S-boxes, the product of the  *)
(* two matrices) and on the linearity of gmul, which makes the matrices    *)
(* inverse on whole states.  The invariant keeps the schedule right up to  *)
(* the word at hand, and the trail of an encryption a chain of rounds.     *)
(***************************************************************************)
EXTENDS AesBlock, BlockCipher, WellFoundedInduction, TLAPS

(* Exclusive or of sets.                                                   *)
LEMMA XorFacts ==
    ASSUME NEW a, NEW b
    PROVE  Xor(Xor(a, b), b) = a /\ Xor(a, {}) = a /\ Xor({}, a) = a
BY DEF Xor

LEMMA XorByte == \A a, b \in Byte : Xor(a, b) \in Byte
BY DEF Xor, Byte

LEMMA XorExchange ==
    ASSUME NEW a, NEW b, NEW c, NEW d
    PROVE  Xor(Xor(a, b), Xor(c, d)) = Xor(Xor(a, c), Xor(b, d))
BY SMT DEF Xor

LEMMA Xor4Sum ==
    ASSUME NEW a1, NEW a2, NEW a3, NEW a4, NEW b1, NEW b2, NEW b3, NEW b4
    PROVE  Xor4(Xor(a1, b1), Xor(a2, b2), Xor(a3, b3), Xor(a4, b4))
             = Xor(Xor4(a1, a2, a3, a4), Xor4(b1, b2, b3, b4))
BY XorExchange DEF Xor4

LEMMA Xor4Byte ==
    \A a, b, c, d \in Byte : Xor4(a, b, c, d) \in Byte
BY XorByte DEF Xor4

(* The XOR of the rows of a 4 x 4 table is the XOR of its columns.         *)
LEMMA Xor4Transpose ==
    ASSUME NEW a1, NEW a2, NEW a3, NEW a4, NEW b1, NEW b2, NEW b3, NEW b4,
           NEW c1, NEW c2, NEW c3, NEW c4, NEW d1, NEW d2, NEW d3, NEW d4
    PROVE  Xor4(Xor4(a1, a2, a3, a4), Xor4(b1, b2, b3, b4),
                Xor4(c1, c2, c3, c4), Xor4(d1, d2, d3, d4))
             = Xor4(Xor4(a1, b1, c1, d1), Xor4(a2, b2, c2, d2),
                    Xor4(a3, b3, c3, d3), Xor4(a4, b4, c4, d4))
<1> DEFINE two(x, y) == Xor(x, y)
           three(x, y, z) == Xor(Xor(x, y), z)
<1>1. Xor4(Xor4(a1, a2, a3, a4), Xor4(b1, b2, b3, b4),
           Xor4(c1, c2, c3, c4), Xor4(d1, d2, d3, d4))
        = Xor(Xor4(three(a1, a2, a3), three(b1, b2, b3), three(c1, c2, c3), three(d1, d2, d3)),
              Xor4(a4, b4, c4, d4))
  <2>1. Xor4(Xor(three(a1, a2, a3), a4), Xor(three(b1, b2, b3), b4),
             Xor(three(c1, c2, c3), c4), Xor(three(d1, d2, d3), d4))
        = Xor(Xor4(three(a1, a2, a3), three(b1, b2, b3), three(c1, c2, c3), three(d1, d2, d3)),
              Xor4(a4, b4, c4, d4))
    BY Xor4Sum
  <2>2. \A x, y, z, u : Xor4(x, y, z, u) = Xor(three(x, y, z), u)
    BY DEF Xor4
  <2> HIDE DEF three
  <2> QED BY <2>1, <2>2
<1>2. Xor4(three(a1, a2, a3), three(b1, b2, b3), three(c1, c2, c3), three(d1, d2, d3))
        = Xor(Xor4(two(a1, a2), two(b1, b2), two(c1, c2), two(d1, d2)),
              Xor4(a3, b3, c3, d3))
  BY Xor4Sum
<1>3. Xor4(two(a1, a2), two(b1, b2), two(c1, c2), two(d1, d2))
        = Xor(Xor4(a1, b1, c1, d1), Xor4(a2, b2, c2, d2))
  BY Xor4Sum
<1> HIDE DEF two, three
<1> QED BY <1>1, <1>2, <1>3 DEF Xor4

-----------------------------------------------------------------------------
(* Multiplication by a constant is linear (aes.c:70-86).                   *)
LEMMA DoubledLinear ==
    ASSUME NEW a \in Byte, NEW b \in Byte
    PROVE  doubled(Xor(a, b)) = Xor(doubled(a), doubled(b))
<1> DEFINE up(x) == {n + 1 : n \in x \ {7}}
           carry(x) == IF 7 \in x THEN {0, 1, 3, 4} ELSE {}
<1>1. up(Xor(a, b)) = Xor(up(a), up(b))
  <2>1. \A x : \A e : e \in up(x) <=> \E n \in x : n # 7 /\ e = n + 1
    BY Zenon
  <2>2. \A x \in Byte : \A e : e \in up(x) <=> e \in 1 .. 7 /\ e - 1 \in x
    BY <2>1, SMT DEF Byte
  <2>3. Xor(a, b) \in Byte
    BY XorByte
  <2> HIDE DEF up
  <2> QED BY <2>2, <2>3 DEF Xor
<1>2. carry(Xor(a, b)) = Xor(carry(a), carry(b))
  BY DEF Xor
<1>3. \A x : doubled(x) = Xor(up(x), carry(x))
  BY DEF doubled
<1> HIDE DEF up, carry
<1> QED BY <1>1, <1>2, <1>3, XorExchange

LEMMA DoubledByte == \A a \in Byte : doubled(a) \in Byte
<1> SUFFICES ASSUME NEW a \in Byte PROVE doubled(a) \in Byte
  OBVIOUS
<1>1. {n + 1 : n \in a \ {7}} \in Byte
  BY SMT DEF Byte
<1>2. {0, 1, 3, 4} \in Byte /\ {} \in Byte
  BY SMT DEF Byte
<1>3. (IF 7 \in a THEN {0, 1, 3, 4} ELSE {}) \in Byte
  BY <1>2
<1> QED BY <1>1, <1>3, XorByte DEF doubled

Pair == [p : Byte, a : Byte]
Sum(x, y) == [p |-> Xor(x.p, y.p), a |-> Xor(x.a, y.a)]

LEMMA StepLinear ==
    ASSUME NEW x \in Pair, NEW y \in Pair, NEW n, NEW b
    PROVE  /\ GmulStep(x, n, b) \in Pair
           /\ GmulStep(Sum(x, y), n, b) = Sum(GmulStep(x, n, b), GmulStep(y, n, b))
<1>1. GmulStep(x, n, b) \in Pair
  BY XorByte, DoubledByte DEF Pair, GmulStep
<1>2. doubled(Xor(x.a, y.a)) = Xor(doubled(x.a), doubled(y.a))
  BY DoubledLinear DEF Pair
<1>3. Xor(Xor(x.p, y.p), Xor(x.a, y.a)) = Xor(Xor(x.p, x.a), Xor(y.p, y.a))
  BY XorExchange
<1> QED BY <1>1, <1>2, <1>3 DEF GmulStep, Sum

LEMMA FourLinear ==
    ASSUME NEW x \in Pair, NEW y \in Pair, NEW n, NEW b
    PROVE  /\ FourSteps(x, n, b) \in Pair
           /\ FourSteps(Sum(x, y), n, b) = Sum(FourSteps(x, n, b), FourSteps(y, n, b))
<1> DEFINE x1 == GmulStep(x, n, b)       y1 == GmulStep(y, n, b)
           x2 == GmulStep(x1, n + 1, b)  y2 == GmulStep(y1, n + 1, b)
           x3 == GmulStep(x2, n + 2, b)  y3 == GmulStep(y2, n + 2, b)
           x4 == GmulStep(x3, n + 3, b)  y4 == GmulStep(y3, n + 3, b)
<1>1. x1 \in Pair /\ y1 \in Pair /\ GmulStep(Sum(x, y), n, b) = Sum(x1, y1)
  BY StepLinear
<1> HIDE DEF x1, y1
<1>2. x2 \in Pair /\ y2 \in Pair /\ GmulStep(Sum(x1, y1), n + 1, b) = Sum(x2, y2)
  BY <1>1, StepLinear
<1> HIDE DEF x2, y2
<1>3. x3 \in Pair /\ y3 \in Pair /\ GmulStep(Sum(x2, y2), n + 2, b) = Sum(x3, y3)
  BY <1>2, StepLinear
<1> HIDE DEF x3, y3
<1>4. x4 \in Pair /\ y4 \in Pair /\ GmulStep(Sum(x3, y3), n + 3, b) = Sum(x4, y4)
  BY <1>3, StepLinear
<1> QED BY <1>1, <1>2, <1>3, <1>4 DEF FourSteps, x1, y1, x2, y2, x3, y3

LEMMA GmulLinear ==
    ASSUME NEW a \in Byte, NEW b \in Byte, NEW c
    PROVE  gmul(Xor(a, b), c) = Xor(gmul(a, c), gmul(b, c))
<1> DEFINE x == [p |-> {}, a |-> a]
           y == [p |-> {}, a |-> b]
<1>1. x \in Pair /\ y \in Pair
  BY DEF Pair, Byte
<1>2. Sum(x, y) = [p |-> {}, a |-> Xor(a, b)]
  BY XorFacts DEF Sum
<1>3. FourSteps(x, 0, c) \in Pair /\ FourSteps(y, 0, c) \in Pair
      /\ FourSteps(Sum(x, y), 0, c) = Sum(FourSteps(x, 0, c), FourSteps(y, 0, c))
  BY <1>1, FourLinear
<1> DEFINE u == FourSteps(x, 0, c)
           v == FourSteps(y, 0, c)
<1> HIDE DEF u, v
<1>4. FourSteps(Sum(u, v), 4, c) = Sum(FourSteps(u, 4, c), FourSteps(v, 4, c))
  BY <1>3, FourLinear DEF u, v
<1>5. FourSteps(Sum(u, v), 4, c).p = Xor(FourSteps(u, 4, c).p, FourSteps(v, 4, c).p)
  BY <1>4 DEF Sum
<1>6. gmul(Xor(a, b), c) = FourSteps(Sum(u, v), 4, c).p
  BY <1>2, <1>3 DEF gmul, u, v
<1>7. gmul(a, c) = FourSteps(u, 4, c).p /\ gmul(b, c) = FourSteps(v, 4, c).p
  BY DEF gmul, u, v
<1> QED BY <1>5, <1>6, <1>7

LEMMA TimesLinear ==
    ASSUME NEW f \in DOMAIN Times, NEW a \in Byte, NEW b \in Byte
    PROVE  Times[f][Xor(a, b)] = Xor(Times[f][a], Times[f][b])
<1>1. \A x \in Byte : Times[f][x] = IF f = 1 THEN x ELSE gmul(x, Bits(f))
  BY DEF Times
<1>2. Xor(a, b) \in Byte
  BY XorByte
<1> QED BY <1>1, <1>2, GmulLinear

-----------------------------------------------------------------------------
(* Each transformation of the state is undone by its inverse.              *)
LEMMA StateArray ==
    ASSUME NEW st \in State, NEW r \in 0 .. 3, NEW c \in 0 .. 3
    PROVE  st[<<r, c>>] \in Byte
BY DEF State, Cell

LEMMA SubRoundTrip ==
    ASSUME NEW st \in State
    PROVE  SubBytes(st) \in State /\ InvSubBytes(st) \in State
           /\ InvSubBytes(SubBytes(st)) = st /\ SubBytes(InvSubBytes(st)) = st
<1>1. \A p \in Cell : st[p] \in Byte /\ st = [q \in Cell |-> st[q]]
  BY DEF State
<1> QED BY <1>1, SboxAssumption DEF SubBytes, InvSubBytes, State

LEMMA Columns ==
    ASSUME NEW r \in 0 .. 3, NEW c \in 0 .. 3
    PROVE  /\ (c + r) % 4 \in 0 .. 3 /\ (c - r) % 4 \in 0 .. 3
           /\ (((c - r) % 4) + r) % 4 = c /\ (((c + r) % 4) - r) % 4 = c
BY SMT

LEMMA ShiftRoundTrip ==
    ASSUME NEW st \in State
    PROVE  ShiftRows(st) \in State /\ InvShiftRows(st) \in State
           /\ InvShiftRows(ShiftRows(st)) = st /\ ShiftRows(InvShiftRows(st)) = st
<1> DEFINE to(p) == <<p[1], (p[2] + p[1]) % 4>>
           from(p) == <<p[1], (p[2] - p[1]) % 4>>
<1>1. \A p \in Cell : /\ to(p) \in Cell /\ from(p) \in Cell
                      /\ to(from(p)) = p /\ from(to(p)) = p
  <2> SUFFICES ASSUME NEW p \in Cell
               PROVE  to(p) \in Cell /\ from(p) \in Cell /\ to(from(p)) = p /\ from(to(p)) = p
    OBVIOUS
  <2>1. PICK r \in 0 .. 3, c \in 0 .. 3 : p = <<r, c>>
    BY DEF Cell
  <2> QED BY <2>1, Columns DEF Cell
<1>2. /\ \A x : ShiftRows(x) = [p \in Cell |-> x[to(p)]]
      /\ \A x : InvShiftRows(x) = [p \in Cell |-> x[from(p)]]
  BY DEF ShiftRows, InvShiftRows
<1> HIDE DEF to, from
<1>3. st = [p \in Cell |-> st[p]] /\ \A p \in Cell : st[p] \in Byte
  BY DEF State
<1>4. ShiftRows(st) \in State /\ InvShiftRows(st) \in State
  BY <1>1, <1>2, <1>3 DEF State
<1> QED BY <1>1, <1>2, <1>3, <1>4

(* The matrices of MixColumns and InvMixColumns as tables; a row times a   *)
(* column, and a matrix times a state.                                     *)
MIX == [x \in Cell |-> Mix(x[1], x[2])]
INV_MIX == [x \in Cell |-> InvMix(x[1], x[2])]
Row(A, r, a, b, c, d) ==
    Xor4(A[<<r, 0>>][a], A[<<r, 1>>][b], A[<<r, 2>>][c], A[<<r, 3>>][d])
MixedBy(A, st) ==
    [p \in Cell |-> Row(A, p[1], st[<<0, p[2]>>], st[<<1, p[2]>>],
                                 st[<<2, p[2]>>], st[<<3, p[2]>>])]

OnBytes(A) == \A x \in Cell, a \in Byte : A[x][a] \in Byte
Linear(A) == \A x \in Cell, a, b \in Byte : A[x][Xor(a, b)] = Xor(A[x][a], A[x][b])
Undoes(B, A) ==
    \A r, k \in 0 .. 3, a \in Byte :
        Row(B, r, A[<<0, k>>][a], A[<<1, k>>][a], A[<<2, k>>][a], A[<<3, k>>][a])
          = IF r = k THEN a ELSE {}

LEMMA MatrixFacts ==
    /\ OnBytes(MIX) /\ OnBytes(INV_MIX) /\ Linear(MIX) /\ Linear(INV_MIX)
    /\ Undoes(INV_MIX, MIX) /\ Undoes(MIX, INV_MIX)
    /\ \A st : MixColumns(st) = MixedBy(MIX, st) /\ InvMixColumns(st) = MixedBy(INV_MIX, st)
<1>1. \A r, k \in 0 .. 3 : /\ <<r, k>> \in Cell
                           /\ MIX[<<r, k>>] = Mix(r, k) /\ INV_MIX[<<r, k>>] = InvMix(r, k)
  BY DEF Cell, MIX, INV_MIX
<1>2. 0 \in 0 .. 3 /\ 1 \in 0 .. 3 /\ 2 \in 0 .. 3 /\ 3 \in 0 .. 3
  BY SMT
<1>3. ASSUME NEW x \in Cell, NEW a \in Byte, NEW b \in Byte
      PROVE  /\ MIX[x][a] \in Byte /\ INV_MIX[x][a] \in Byte
             /\ MIX[x][Xor(a, b)] = Xor(MIX[x][a], MIX[x][b])
             /\ INV_MIX[x][Xor(a, b)] = Xor(INV_MIX[x][a], INV_MIX[x][b])
  <2>1. PICK r \in 0 .. 3, k \in 0 .. 3 : x = <<r, k>>
    BY DEF Cell
  <2>2. MIX[x] = Mix(r, k) /\ INV_MIX[x] = InvMix(r, k)
    BY <1>1, <2>1
  <2>3. Mix(r, k)[a] \in Byte /\ InvMix(r, k)[a] \in Byte
    BY MixAssumption, Zenon
  <2>4. PICK f \in DOMAIN Times, g \in DOMAIN Times : Mix(r, k) = Times[f] /\ InvMix(r, k) = Times[g]
    <3>1. (k - r) % 4 \in 0 .. 3
      BY SMT
    <3>2. DOMAIN Times = {1, 2, 3, 9, 11, 13, 14}
      BY DEF Times
    <3>3. \A n \in 0 .. 3 : MixRow[n + 1] \in DOMAIN Times /\ InvMixRow[n + 1] \in DOMAIN Times
      BY <3>2 DEF MixRow, InvMixRow
    <3> QED BY <3>1, <3>3 DEF Mix, InvMix
  <2> QED BY <2>2, <2>3, <2>4, TimesLinear
<1>4. OnBytes(MIX) /\ OnBytes(INV_MIX) /\ Linear(MIX) /\ Linear(INV_MIX)
  BY <1>3, Zenon DEF OnBytes, Linear
<1>5. ASSUME NEW r \in 0 .. 3, NEW k \in 0 .. 3, NEW a \in Byte
      PROVE  /\ Row(INV_MIX, r, MIX[<<0, k>>][a], MIX[<<1, k>>][a],
                                MIX[<<2, k>>][a], MIX[<<3, k>>][a]) = IF r = k THEN a ELSE {}
             /\ Row(MIX, r, INV_MIX[<<0, k>>][a], INV_MIX[<<1, k>>][a],
                            INV_MIX[<<2, k>>][a], INV_MIX[<<3, k>>][a]) = IF r = k THEN a ELSE {}
  <2>1. \A n \in 0 .. 3 : /\ MIX[<<n, k>>] = Mix(n, k) /\ INV_MIX[<<n, k>>] = InvMix(n, k)
                          /\ MIX[<<r, n>>] = Mix(r, n) /\ INV_MIX[<<r, n>>] = InvMix(r, n)
    BY <1>1
  <2>2. /\ Xor4(InvMix(r, 0)[Mix(0, k)[a]], InvMix(r, 1)[Mix(1, k)[a]],
                InvMix(r, 2)[Mix(2, k)[a]], InvMix(r, 3)[Mix(3, k)[a]])
             = IF r = k THEN a ELSE {}
        /\ Xor4(Mix(r, 0)[InvMix(0, k)[a]], Mix(r, 1)[InvMix(1, k)[a]],
                Mix(r, 2)[InvMix(2, k)[a]], Mix(r, 3)[InvMix(3, k)[a]])
             = IF r = k THEN a ELSE {}
    BY MixAssumption, ZenonT(30)
  <2> QED BY <1>2, <2>1, <2>2 DEF Row
<1>6. Undoes(INV_MIX, MIX) /\ Undoes(MIX, INV_MIX)
  BY <1>5, Zenon DEF Undoes
<1>7. ASSUME NEW st
      PROVE  MixColumns(st) = MixedBy(MIX, st) /\ InvMixColumns(st) = MixedBy(INV_MIX, st)
  <2>1. \A p \in Cell : p[1] \in 0 .. 3
    BY DEF Cell
  <2>2. \A p \in Cell, k \in 0 .. 3 : /\ MIX[<<p[1], k>>] = Mix(p[1], k)
                                      /\ INV_MIX[<<p[1], k>>] = InvMix(p[1], k)
    BY <1>1, <2>1
  <2> QED BY <1>2, <2>2 DEF MixColumns, InvMixColumns, Mixed, MixedBy, Row
<1> QED BY <1>4, <1>6, <1>7

(* Byte r of a column that went through both matrices.                     *)
LEMMA ColumnRoundTrip ==
    ASSUME NEW A, NEW B, OnBytes(A), Linear(B), Undoes(B, A), NEW r \in 0 .. 3,
           NEW x \in [0 .. 3 -> Byte], NEW y,
           \A k \in 0 .. 3 : y[k] = Row(A, k, x[0], x[1], x[2], x[3])
    PROVE  Row(B, r, y[0], y[1], y[2], y[3]) = x[r]
<1> DEFINE m(k, n) == A[<<k, n>>][x[n]]
           t(k, n) == B[<<r, k>>][m(k, n)]
           at(n) == IF r = n THEN x[n] ELSE {}
<1>1. \A k, n \in 0 .. 3 : <<k, n>> \in Cell /\ m(k, n) \in Byte
  BY DEF Cell, OnBytes
<1>2. \A k \in 0 .. 3 : y[k] = Xor4(m(k, 0), m(k, 1), m(k, 2), m(k, 3))
  BY DEF Row
<1>3. ASSUME NEW n \in 0 .. 3
      PROVE  Xor4(t(0, n), t(1, n), t(2, n), t(3, n)) = at(n)
  BY DEF Undoes, Row
<1> HIDE DEF m
<1>4. ASSUME NEW k \in 0 .. 3
      PROVE  B[<<r, k>>][y[k]] = Xor4(t(k, 0), t(k, 1), t(k, 2), t(k, 3))
  <2>1. /\ m(k, 0) \in Byte /\ m(k, 1) \in Byte /\ m(k, 2) \in Byte /\ m(k, 3) \in Byte
    BY <1>1
  <2>2. /\ Xor(m(k, 0), m(k, 1)) \in Byte
        /\ Xor(Xor(m(k, 0), m(k, 1)), m(k, 2)) \in Byte
    BY <2>1, XorByte
  <2>3. \A a, b \in Byte : B[<<r, k>>][Xor(a, b)] = Xor(B[<<r, k>>][a], B[<<r, k>>][b])
    BY <1>1 DEF Linear
  <2> QED BY <1>2, <2>1, <2>2, <2>3 DEF Xor4
<1> HIDE DEF t
<1>5. Xor4(Xor4(t(0, 0), t(0, 1), t(0, 2), t(0, 3)), Xor4(t(1, 0), t(1, 1), t(1, 2), t(1, 3)),
           Xor4(t(2, 0), t(2, 1), t(2, 2), t(2, 3)), Xor4(t(3, 0), t(3, 1), t(3, 2), t(3, 3)))
      = Xor4(Xor4(t(0, 0), t(1, 0), t(2, 0), t(3, 0)), Xor4(t(0, 1), t(1, 1), t(2, 1), t(3, 1)),
             Xor4(t(0, 2), t(1, 2), t(2, 2), t(3, 2)), Xor4(t(0, 3), t(1, 3), t(2, 3), t(3, 3)))
  BY Xor4Transpose
<1>6. Xor4(at(0), at(1), at(2), at(3)) = x[r]
  <2>1. r \in {0, 1, 2, 3}
    BY SMT
  <2> QED BY <2>1, XorFacts DEF Xor4
<1>7. 0 \in 0 .. 3 /\ 1 \in 0 .. 3 /\ 2 \in 0 .. 3 /\ 3 \in 0 .. 3
  BY SMT
<1>8. /\ B[<<r, 0>>][y[0]] = Xor4(t(0, 0), t(0, 1), t(0, 2), t(0, 3))
      /\ B[<<r, 1>>][y[1]] = Xor4(t(1, 0), t(1, 1), t(1, 2), t(1, 3))
      /\ B[<<r, 2>>][y[2]] = Xor4(t(2, 0), t(2, 1), t(2, 2), t(2, 3))
      /\ B[<<r, 3>>][y[3]] = Xor4(t(3, 0), t(3, 1), t(3, 2), t(3, 3))
  BY <1>4, <1>7
<1>9. /\ Xor4(t(0, 0), t(1, 0), t(2, 0), t(3, 0)) = at(0)
      /\ Xor4(t(0, 1), t(1, 1), t(2, 1), t(3, 1)) = at(1)
      /\ Xor4(t(0, 2), t(1, 2), t(2, 2), t(3, 2)) = at(2)
      /\ Xor4(t(0, 3), t(1, 3), t(2, 3), t(3, 3)) = at(3)
  BY <1>3, <1>7
<1> HIDE DEF at
<1> QED BY <1>5, <1>6, <1>8, <1>9 DEF Row

LEMMA MatrixRoundTrip ==
    ASSUME NEW A, NEW B, OnBytes(A), Linear(B), Undoes(B, A), NEW st \in State
    PROVE  MixedBy(A, st) \in State /\ MixedBy(B, MixedBy(A, st)) = st
<1>1. \A p \in Cell : /\ p[1] \in 0 .. 3 /\ p[2] \in 0 .. 3 /\ p = <<p[1], p[2]>>
                      /\ \A k \in 0 .. 3 : /\ <<k, p[2]>> \in Cell /\ <<p[1], k>> \in Cell
                                           /\ st[<<k, p[2]>>] \in Byte
  BY DEF Cell, State
<1>2. MixedBy(A, st) \in State
  <2>1. ASSUME NEW p \in Cell PROVE MixedBy(A, st)[p] \in Byte
    <3>1. \A k \in 0 .. 3 : A[<<p[1], k>>][st[<<k, p[2]>>]] \in Byte
      BY <1>1 DEF OnBytes
    <3>2. 0 \in 0 .. 3 /\ 1 \in 0 .. 3 /\ 2 \in 0 .. 3 /\ 3 \in 0 .. 3
      BY SMT
    <3> QED BY <3>1, <3>2, Xor4Byte DEF MixedBy, Row
  <2> QED BY <2>1 DEF State, MixedBy
<1> DEFINE mx == MixedBy(A, st)
<1>3. ASSUME NEW p \in Cell PROVE MixedBy(B, mx)[p] = st[p]
  <2> DEFINE x == [k \in 0 .. 3 |-> st[<<k, p[2]>>]]
             y == [k \in 0 .. 3 |-> mx[<<k, p[2]>>]]
  <2>1. x \in [0 .. 3 -> Byte] /\ p[1] \in 0 .. 3 /\ x[p[1]] = st[p]
    BY <1>1
  <2>2. ASSUME NEW k \in 0 .. 3 PROVE y[k] = Row(A, k, x[0], x[1], x[2], x[3])
    <3>1. <<k, p[2]>> \in Cell /\ <<k, p[2]>>[1] = k /\ <<k, p[2]>>[2] = p[2]
      BY <1>1
    <3>2. mx[<<k, p[2]>>] = Row(A, k, st[<<0, p[2]>>], st[<<1, p[2]>>],
                                      st[<<2, p[2]>>], st[<<3, p[2]>>])
      BY <3>1 DEF MixedBy
    <3>3. /\ x[0] = st[<<0, p[2]>>] /\ x[1] = st[<<1, p[2]>>]
          /\ x[2] = st[<<2, p[2]>>] /\ x[3] = st[<<3, p[2]>>]
      BY SMT
    <3>4. y[k] = mx[<<k, p[2]>>]
      OBVIOUS
    <3> HIDE DEF x, y, mx
    <3> QED BY <3>2, <3>3, <3>4
  <2>3. MixedBy(B, mx)[p] = Row(B, p[1], y[0], y[1], y[2], y[3])
    BY DEF MixedBy
  <2> HIDE DEF x, y, mx
  <2>4. Row(B, p[1], y[0], y[1], y[2], y[3]) = x[p[1]]
    BY <2>1, <2>2, ColumnRoundTrip
  <2> QED BY <2>1, <2>3, <2>4
<1> HIDE DEF mx
<1>4. MixedBy(B, mx) = [p \in Cell |-> MixedBy(B, mx)[p]]
  BY DEF MixedBy
<1>5. st = [p \in Cell |-> st[p]]
  BY DEF State
<1> QED BY <1>2, <1>3, <1>4, <1>5 DEF mx

LEMMA MixRoundTrip ==
    ASSUME NEW st \in State
    PROVE  MixColumns(st) \in State /\ InvMixColumns(st) \in State
           /\ InvMixColumns(MixColumns(st)) = st /\ MixColumns(InvMixColumns(st)) = st
BY MatrixFacts, MatrixRoundTrip

(* Round keys and rounds under any schedule w.                             *)
Schedule == [0 .. 59 -> Word]
Add(w, st, n) == [p \in Cell |-> Xor(st[p], w[4 * n + p[2]][p[1]])]
Round(w, l, st, n) == Add(w, IF n < l THEN MixColumns(ShiftRows(SubBytes(st)))
                             ELSE ShiftRows(SubBytes(st)), n)
InvRound(w, st, n) == LET t == Add(w, InvSubBytes(InvShiftRows(st)), n)
                      IN  IF n > 0 THEN InvMixColumns(t) ELSE t

LEMMA KeyRoundTrip ==
    ASSUME NEW st \in State, NEW w \in Schedule, NEW n \in 0 .. 14
    PROVE  Add(w, st, n) \in State /\ Add(w, Add(w, st, n), n) = st
<1>1. \A p \in Cell : st[p] \in Byte /\ w[4 * n + p[2]][p[1]] \in Byte
  <2>1. \A p \in Cell : p[1] \in 0 .. 3 /\ p[2] \in 0 .. 3 /\ 4 * n + p[2] \in 0 .. 59
    BY DEF Cell
  <2> QED BY <2>1 DEF State, Word, Schedule
<1>2. Add(w, st, n) \in State
  BY <1>1, XorByte DEF Add, State
<1>3. \A p \in Cell : Add(w, Add(w, st, n), n)[p] = st[p]
  BY XorFacts DEF Add
<1>4. st = [p \in Cell |-> st[p]]
  BY DEF State
<1> QED BY <1>2, <1>3, <1>4 DEF Add

LEMMA SubShiftRoundTrip ==
    ASSUME NEW st \in State
    PROVE  /\ ShiftRows(SubBytes(st)) \in State /\ InvSubBytes(InvShiftRows(st)) \in State
           /\ InvSubBytes(InvShiftRows(ShiftRows(SubBytes(st)))) = st
           /\ ShiftRows(SubBytes(InvSubBytes(InvShiftRows(st)))) = st
<1>1. SubBytes(st) \in State /\ InvShiftRows(st) \in State
  BY SubRoundTrip, ShiftRoundTrip
<1> QED BY <1>1, SubRoundTrip, ShiftRoundTrip

-----------------------------------------------------------------------------
(* Induction on the naturals, for a set in place of a formula: a non-empty *)
(* set of naturals has a least member.                                     *)
Below == {p \in Nat \X Nat : p[1] < p[2]}

LEMMA LeastMember ==
    ASSUME NEW S, S \subseteq Nat, S # {}
    PROVE  \E n \in S : \A m \in S : n <= m
<1>1. IsWellFoundedOn(Below, Nat)
  BY NatLessThanWellFounded DEF OpToRel, Below
<1>2. \E n \in S : \A m \in S : ~(<<m, n>> \in Below)
  BY <1>1, WFMin
<1>3. \A m, n \in Nat : ~(<<m, n>> \in Below) => n <= m
  BY DEF Below
<1> QED BY <1>2, <1>3

LEMMA Induction ==
    ASSUME NEW S, 0 \in S, NEW l \in Nat, \A n \in 0 .. l - 1 : n \in S => n + 1 \in S
    PROVE  0 .. l \subseteq S
<1> DEFINE Missing == {n \in 0 .. l : n \notin S}
<1> SUFFICES ASSUME Missing # {} PROVE FALSE
  OBVIOUS
<1>1. Missing \subseteq Nat
  OBVIOUS
<1>2. PICK n \in Missing : \A m \in Missing : n <= m
  <2> HIDE DEF Missing
  <2> QED BY <1>1, LeastMember
<1>3. n # 0 /\ n \in 0 .. l /\ n \notin S
  OBVIOUS
<1>4. n - 1 \in 0 .. l - 1 /\ n - 1 \in S
  BY <1>2, <1>3
<1> QED BY <1>3, <1>4

(* The values a loop of l iterations goes through: F[<<n, v>>] is what     *)
(* iteration n makes of v.                                                 *)
IsIteration(r, F, x, l) ==
    r = [n \in 0 .. l |-> IF n = 0 THEN x ELSE F[<<n, r[n - 1]>>]]
Iterates(F, x, l) == CHOOSE r : IsIteration(r, F, x, l)

LEMMA IteratesFacts ==
    ASSUME NEW X, NEW x \in X, NEW l \in Nat, NEW F \in [(1 .. l) \X X -> X]
    PROVE  /\ Iterates(F, x, l) \in [0 .. l -> X] /\ Iterates(F, x, l)[0] = x
           /\ \A n \in 1 .. l : Iterates(F, x, l)[n] = F[<<n, Iterates(F, x, l)[n - 1]>>]
<1> DEFINE S == {m \in Nat : \E r : IsIteration(r, F, x, m)}
<1>1. 0 \in S
  <2>1. IsIteration([n \in 0 .. 0 |-> x], F, x, 0)
    BY DEF IsIteration
  <2> QED BY <2>1
<1>2. ASSUME NEW m \in 0 .. l - 1, m \in S PROVE m + 1 \in S
  <2>1. PICK r : IsIteration(r, F, x, m)
    BY <1>2
  <2> DEFINE g == [n \in 0 .. m + 1 |-> IF n = m + 1 THEN F[<<n, r[m]>>] ELSE r[n]]
  <2>2. \A n \in 0 .. m : r[n] = IF n = 0 THEN x ELSE F[<<n, r[n - 1]>>]
    BY <2>1 DEF IsIteration
  <2>3. ASSUME NEW n \in 0 .. m + 1
        PROVE  g[n] = IF n = 0 THEN x ELSE F[<<n, g[n - 1]>>]
    <3>1. CASE n = m + 1
      <4>1. n # 0 /\ n - 1 = m /\ g[n] = F[<<n, r[m]>>] /\ g[m] = r[m]
        BY <3>1
      <4> HIDE DEF g
      <4> QED BY <4>1
    <3>2. CASE n = 0
      <4>1. 0 \in 0 .. m /\ g[0] = r[0]
        BY <3>2
      <4>2. r[0] = x
        BY <2>2, <4>1
      <4> HIDE DEF g
      <4> QED BY <3>2, <4>1, <4>2
    <3>3. CASE n \in 1 .. m
      <4>1. n # 0 /\ g[n] = r[n] /\ g[n - 1] = r[n - 1] /\ r[n] = F[<<n, r[n - 1]>>]
        BY <2>2, <3>3
      <4> HIDE DEF g
      <4> QED BY <4>1
    <3> QED BY <3>1, <3>2, <3>3
  <2>4. g = [n \in 0 .. m + 1 |-> IF n = 0 THEN x ELSE F[<<n, g[n - 1]>>]]
    BY <2>3
  <2>5. IsIteration(g, F, x, m + 1)
    BY <2>4 DEF IsIteration
  <2> QED BY <2>5
<1> HIDE DEF S
<1>3. 0 .. l \subseteq S
  BY <1>1, <1>2, Induction
<1> DEFINE r == Iterates(F, x, l)
<1>4. IsIteration(r, F, x, l)
  BY <1>3 DEF S, Iterates
<1> HIDE DEF r
<1>5. DOMAIN r = 0 .. l /\ r[0] = x /\ \A n \in 1 .. l : r[n] = F[<<n, r[n - 1]>>]
  BY <1>4 DEF IsIteration
<1>6. r = [n \in 0 .. l |-> r[n]]
  BY <1>4 DEF IsIteration
<1> DEFINE T == {n \in 0 .. l : r[n] \in X}
<1>7. 0 \in T
  BY <1>5
<1>8. ASSUME NEW n \in 0 .. l - 1, n \in T PROVE n + 1 \in T
  <2>1. n + 1 \in 1 .. l /\ (n + 1) - 1 = n /\ r[n] \in X
    BY <1>8
  <2>2. r[n + 1] = F[<<n + 1, r[n]>>] /\ <<n + 1, r[n]>> \in (1 .. l) \X X
    BY <1>5, <2>1
  <2> QED BY <2>1, <2>2
<1> HIDE DEF T
<1>9. 0 .. l \subseteq T
  BY <1>7, <1>8, Induction
<1>10. r \in [0 .. l -> X]
  BY <1>6, <1>9 DEF T
<1> QED BY <1>5, <1>10 DEF r

-----------------------------------------------------------------------------
(* The states of aes_encrypt_block and of aes_decrypt_block, of l rounds   *)
(* under the schedule w: the first adds a round key, the last is returned. *)
Encryption(w, l, st) ==
    Iterates([x \in (1 .. l) \X State |-> Round(w, l, x[2], x[1])], Add(w, st, 0), l)
Decryption(w, l, st) ==
    Iterates([x \in (1 .. l) \X State |-> InvRound(w, x[2], l - x[1])], Add(w, st, l), l)

LEMMA RoundFacts ==
    ASSUME NEW w \in Schedule, NEW l \in 0 .. 14, NEW n \in 0 .. l, NEW st \in State
    PROVE  /\ Add(w, st, n) \in State /\ Add(w, Add(w, st, n), n) = st
           /\ Round(w, l, st, n) \in State /\ InvRound(w, st, n) \in State
<1>1. n \in 0 .. 14
  OBVIOUS
<1>2. \A x \in State : Add(w, x, n) \in State /\ Add(w, Add(w, x, n), n) = x
  BY <1>1, KeyRoundTrip
<1>3. ShiftRows(SubBytes(st)) \in State /\ InvSubBytes(InvShiftRows(st)) \in State
  BY SubShiftRoundTrip
<1>4. \A x \in State : MixColumns(x) \in State /\ InvMixColumns(x) \in State
  BY MixRoundTrip
<1> QED BY <1>2, <1>3, <1>4 DEF Round, InvRound

LEMMA EncryptionFacts ==
    ASSUME NEW w \in Schedule, NEW l \in 0 .. 14, NEW st \in State
    PROVE  /\ Encryption(w, l, st) \in [0 .. l -> State]
           /\ Encryption(w, l, st)[0] = Add(w, st, 0)
           /\ \A n \in 1 .. l : Encryption(w, l, st)[n]
                                  = Round(w, l, Encryption(w, l, st)[n - 1], n)
<1> DEFINE F == [x \in (1 .. l) \X State |-> Round(w, l, x[2], x[1])]
           e == Iterates(F, Add(w, st, 0), l)
<1>1. \A n \in 1 .. l, x \in State : Round(w, l, x, n) \in State
  <2>1. \A n \in 1 .. l : n \in 0 .. l
    OBVIOUS
  <2> QED BY <2>1, RoundFacts
<1>2. F \in [(1 .. l) \X State -> State]
  BY <1>1
<1>3. Add(w, st, 0) \in State /\ l \in Nat
  <2>1. 0 \in 0 .. l
    OBVIOUS
  <2> QED BY <2>1, RoundFacts
<1>4. \A n \in 1 .. l, x \in State : F[<<n, x>>] = Round(w, l, x, n)
  OBVIOUS
<1> HIDE DEF F
<1>5. /\ e \in [0 .. l -> State] /\ e[0] = Add(w, st, 0)
      /\ \A n \in 1 .. l : e[n] = F[<<n, e[n - 1]>>]
  BY <1>2, <1>3, IteratesFacts
<1>6. e = Encryption(w, l, st)
  BY DEF Encryption, F
<1> HIDE DEF e
<1>7. \A n \in 1 .. l : n - 1 \in 0 .. l /\ e[n - 1] \in State
  BY <1>5
<1>8. \A n \in 1 .. l : e[n] = Round(w, l, e[n - 1], n)
  BY <1>4, <1>5, <1>7
<1> QED BY <1>5, <1>6, <1>8

LEMMA DecryptionFacts ==
    ASSUME NEW w \in Schedule, NEW l \in 0 .. 14, NEW st \in State
    PROVE  /\ Decryption(w, l, st) \in [0 .. l -> State]
           /\ Decryption(w, l, st)[0] = Add(w, st, l)
           /\ \A n \in 1 .. l : Decryption(w, l, st)[n]
                                  = InvRound(w, Decryption(w, l, st)[n - 1], l - n)
<1> DEFINE F == [x \in (1 .. l) \X State |-> InvRound(w, x[2], l - x[1])]
           d == Iterates(F, Add(w, st, l), l)
<1>1. \A n \in 1 .. l, x \in State : InvRound(w, x, l - n) \in State
  <2>1. \A n \in 1 .. l : l - n \in 0 .. l
    OBVIOUS
  <2> QED BY <2>1, RoundFacts
<1>2. F \in [(1 .. l) \X State -> State]
  BY <1>1
<1>3. Add(w, st, l) \in State /\ l \in Nat
  <2>1. l \in 0 .. l
    OBVIOUS
  <2> QED BY <2>1, RoundFacts
<1>4. \A n \in 1 .. l, x \in State : F[<<n, x>>] = InvRound(w, x, l - n)
  OBVIOUS
<1> HIDE DEF F
<1>5. /\ d \in [0 .. l -> State] /\ d[0] = Add(w, st, l)
      /\ \A n \in 1 .. l : d[n] = F[<<n, d[n - 1]>>]
  BY <1>2, <1>3, IteratesFacts
<1>6. d = Decryption(w, l, st)
  BY DEF Decryption, F
<1> HIDE DEF d
<1>7. \A n \in 1 .. l : n - 1 \in 0 .. l /\ d[n - 1] \in State
  BY <1>5
<1>8. \A n \in 1 .. l : d[n] = InvRound(w, d[n - 1], l - n)
  BY <1>4, <1>5, <1>7
<1> QED BY <1>5, <1>6, <1>8

(* A round of the decryption undoes the round of the encryption before it  *)
(* (the last has no MixColumns), and the other way round.                  *)
LEMMA UndoRound ==
    ASSUME NEW w \in Schedule, NEW l \in 0 .. 14, NEW n \in 1 .. l, NEW st \in State
    PROVE  /\ n < l => InvRound(w, ShiftRows(SubBytes(Round(w, l, st, n))), n)
                         = ShiftRows(SubBytes(st))
           /\ n = l => Add(w, Round(w, l, st, n), n) = ShiftRows(SubBytes(st))
<1>1. n \in 0 .. l /\ n > 0
  OBVIOUS
<1> DEFINE u == ShiftRows(SubBytes(st))
           m == MixColumns(u)
<1>2. u \in State /\ m \in State /\ InvMixColumns(m) = u
  BY SubShiftRoundTrip, MixRoundTrip
<1>3. \A x \in State : Add(w, x, n) \in State /\ Add(w, Add(w, x, n), n) = x
  BY <1>1, RoundFacts
<1>4. Round(w, l, st, n) = Add(w, IF n < l THEN m ELSE u, n)
  BY DEF Round
<1> HIDE DEF u, m
<1>5. CASE n < l
  <2>1. Round(w, l, st, n) = Add(w, m, n)
    BY <1>4, <1>5
  <2>2. InvSubBytes(InvShiftRows(ShiftRows(SubBytes(Add(w, m, n))))) = Add(w, m, n)
    BY <1>2, <1>3, SubShiftRoundTrip
  <2>3. InvRound(w, ShiftRows(SubBytes(Add(w, m, n))), n) = InvMixColumns(m)
    BY <1>1, <1>2, <1>3, <2>2 DEF InvRound
  <2> QED BY <1>2, <1>5, <2>1, <2>3 DEF u
<1>6. CASE n = l
  <2>1. Round(w, l, st, n) = Add(w, u, n)
    BY <1>4, <1>6
  <2> QED BY <1>2, <1>3, <1>6, <2>1 DEF u
<1> QED BY <1>5, <1>6

LEMMA RedoRound ==
    ASSUME NEW w \in Schedule, NEW l \in 0 .. 14, NEW n \in 1 .. l - 1,
           NEW st \in State, NEW x \in State,
           ShiftRows(SubBytes(x)) = InvRound(w, st, n)
    PROVE  ShiftRows(SubBytes(Round(w, l, x, n))) = st
<1>1. n \in 0 .. l /\ n > 0 /\ n < l
  OBVIOUS
<1> DEFINE t == InvSubBytes(InvShiftRows(st))
<1>2. t \in State /\ ShiftRows(SubBytes(t)) = st
  BY SubShiftRoundTrip
<1>3. \A y \in State : Add(w, y, n) \in State /\ Add(w, Add(w, y, n), n) = y
  BY <1>1, RoundFacts
<1>4. InvRound(w, st, n) = InvMixColumns(Add(w, t, n))
  BY <1>1 DEF InvRound
<1> HIDE DEF t
<1>5. MixColumns(ShiftRows(SubBytes(x))) = Add(w, t, n)
  BY <1>2, <1>3, <1>4, MixRoundTrip
<1>6. Round(w, l, x, n) = Add(w, Add(w, t, n), n)
  BY <1>1, <1>5 DEF Round
<1> QED BY <1>2, <1>3, <1>6

(* Decryption of a result goes back through the states of its encryption,  *)
(* and encryption forward through those of the decryption of its text.     *)
LEMMA DecryptionUndoes ==
    ASSUME NEW w \in Schedule, NEW l \in 1 .. 14, NEW st \in State
    PROVE  Decryption(w, l, Encryption(w, l, st)[l])[l] = st
<1> DEFINE e == Encryption(w, l, st)
           d == Decryption(w, l, e[l])
           S == {n \in Nat : d[n] = ShiftRows(SubBytes(e[l - 1 - n]))}
<1>1. l \in 0 .. 14 /\ l - 1 \in Nat /\ l \in 1 .. l /\ l \in 0 .. l /\ 0 \in 0 .. l
  OBVIOUS
<1>2. /\ e \in [0 .. l -> State] /\ e[0] = Add(w, st, 0)
      /\ \A n \in 1 .. l : e[n] = Round(w, l, e[n - 1], n)
  BY <1>1, EncryptionFacts
<1> HIDE DEF e
<1>3. e[l] \in State
  BY <1>1, <1>2
<1>4. /\ d \in [0 .. l -> State] /\ d[0] = Add(w, e[l], l)
      /\ \A n \in 1 .. l : d[n] = InvRound(w, d[n - 1], l - n)
  BY <1>1, <1>3, DecryptionFacts
<1> HIDE DEF d
<1>5. 0 \in S
  <2>1. l - 1 \in 0 .. l /\ (l - 1) - 0 = l - 1
    BY <1>1
  <2>2. e[l] = Round(w, l, e[l - 1], l) /\ e[l - 1] \in State
    BY <1>1, <1>2, <2>1
  <2>3. Add(w, e[l], l) = ShiftRows(SubBytes(e[l - 1]))
    BY <1>1, <2>2, UndoRound
  <2> QED BY <1>4, <2>1, <2>3
<1>6. ASSUME NEW n \in 0 .. (l - 1) - 1, n \in S PROVE n + 1 \in S
  <2> DEFINE k == l - (n + 1)
  <2>1. /\ n + 1 \in 1 .. l /\ (n + 1) - 1 = n /\ n + 1 \in Nat
        /\ k \in 1 .. l /\ k < l /\ k - 1 \in 0 .. l /\ l - 1 - n = k /\ l - 1 - (n + 1) = k - 1
    OBVIOUS
  <2> HIDE DEF k
  <2>2. d[n] = ShiftRows(SubBytes(e[k]))
    BY <1>6, <2>1
  <2>3. d[n + 1] = InvRound(w, d[n], k)
    BY <1>4, <2>1 DEF k
  <2>4. e[k] = Round(w, l, e[k - 1], k) /\ e[k - 1] \in State
    BY <1>2, <2>1
  <2>5. InvRound(w, ShiftRows(SubBytes(e[k])), k) = ShiftRows(SubBytes(e[k - 1]))
    BY <1>1, <2>1, <2>4, UndoRound
  <2> QED BY <2>1, <2>2, <2>3, <2>5
<1> HIDE DEF S
<1>7. 0 .. l - 1 \subseteq S
  BY <1>1, <1>5, <1>6, Induction
<1>8. d[l - 1] = ShiftRows(SubBytes(e[0]))
  <2>1. l - 1 \in 0 .. l - 1 /\ (l - 1) - (l - 1) = 0
    OBVIOUS
  <2> QED BY <1>7, <2>1 DEF S
<1>9. d[l] = InvRound(w, d[l - 1], 0)
  <2>1. l - l = 0
    OBVIOUS
  <2> QED BY <1>1, <1>4, <2>1
<1>10. e[0] \in State /\ Add(w, e[0], 0) = st
  BY <1>1, <1>2, RoundFacts
<1>11. InvRound(w, d[l - 1], 0) = st
  <2>1. InvSubBytes(InvShiftRows(d[l - 1])) = e[0]
    BY <1>8, <1>10, SubShiftRoundTrip
  <2> QED BY <1>10, <2>1 DEF InvRound
<1> QED BY <1>9, <1>11 DEF d, e

LEMMA EncryptionUndoes ==
    ASSUME NEW w \in Schedule, NEW l \in 1 .. 14, NEW st \in State
    PROVE  Encryption(w, l, Decryption(w, l, st)[l])[l] = st
<1> DEFINE d == Decryption(w, l, st)
           e == Encryption(w, l, d[l])
           S == {n \in Nat : ShiftRows(SubBytes(e[n])) = d[l - 1 - n]}
<1>1. l \in 0 .. 14 /\ l - 1 \in Nat /\ l \in 1 .. l /\ l \in 0 .. l /\ 0 \in 0 .. l
      /\ l - 1 \in 0 .. l /\ l - l = 0
  OBVIOUS
<1>2. /\ d \in [0 .. l -> State] /\ d[0] = Add(w, st, l)
      /\ \A n \in 1 .. l : d[n] = InvRound(w, d[n - 1], l - n)
  BY <1>1, DecryptionFacts
<1> HIDE DEF d
<1>3. d[l] \in State /\ d[l - 1] \in State
  BY <1>1, <1>2
<1>4. /\ e \in [0 .. l -> State] /\ e[0] = Add(w, d[l], 0)
      /\ \A n \in 1 .. l : e[n] = Round(w, l, e[n - 1], n)
  BY <1>1, <1>3, EncryptionFacts
<1> HIDE DEF e
<1>5. 0 \in S
  <2> DEFINE t == InvSubBytes(InvShiftRows(d[l - 1]))
  <2>1. t \in State /\ ShiftRows(SubBytes(t)) = d[l - 1]
    BY <1>3, SubShiftRoundTrip
  <2>2. d[l] = Add(w, t, 0)
    BY <1>1, <1>2 DEF InvRound
  <2> HIDE DEF t
  <2>3. e[0] = t
    BY <1>1, <1>4, <2>1, <2>2, RoundFacts
  <2>4. (l - 1) - 0 = l - 1
    OBVIOUS
  <2> QED BY <2>1, <2>3, <2>4
<1>6. ASSUME NEW n \in 0 .. (l - 1) - 1, n \in S PROVE n + 1 \in S
  <2> DEFINE k == l - 1 - (n + 1)
  <2>1. /\ n + 1 \in 1 .. l - 1 /\ n + 1 \in 1 .. l /\ (n + 1) - 1 = n /\ n + 1 \in Nat
        /\ k \in 0 .. l /\ k + 1 \in 1 .. l /\ (k + 1) - 1 = k
        /\ l - 1 - n = k + 1 /\ l - (k + 1) = n + 1 /\ n \in 0 .. l
    OBVIOUS
  <2> HIDE DEF k
  <2>2. ShiftRows(SubBytes(e[n])) = d[k + 1] /\ e[n] \in State /\ d[k] \in State
    BY <1>2, <1>4, <1>6, <2>1
  <2>3. d[k + 1] = InvRound(w, d[k], n + 1)
    BY <1>2, <2>1
  <2>4. e[n + 1] = Round(w, l, e[n], n + 1)
    BY <1>4, <2>1
  <2>5. ShiftRows(SubBytes(e[n + 1])) = d[k]
    BY <1>1, <2>1, <2>2, <2>3, <2>4, RedoRound
  <2> QED BY <2>1, <2>5 DEF k
<1> HIDE DEF S
<1>7. 0 .. l - 1 \subseteq S
  BY <1>1, <1>5, <1>6, Induction
<1>8. ShiftRows(SubBytes(e[l - 1])) = d[0]
  <2>1. l - 1 \in 0 .. l - 1 /\ (l - 1) - (l - 1) = 0
    OBVIOUS
  <2> QED BY <1>7, <2>1 DEF S
<1>9. e[l] = Round(w, l, e[l - 1], l)
  BY <1>1, <1>4
<1>10. e[l] = Add(w, Add(w, st, l), l)
  BY <1>1, <1>2, <1>8, <1>9 DEF Round
<1> QED BY <1>1, <1>10, RoundFacts DEF d, e

-----------------------------------------------------------------------------
(* The expanded key (FIPS 197, section 5.2): w holds it up to word m.      *)
AesKey == Bytes(16) \cup Bytes(32)
Nk(k) == IF DOMAIN k = 0 .. 15 THEN 4 ELSE 8
Nr(k) == IF DOMAIN k = 0 .. 15 THEN 10 ELSE 14

NextWord(w, m, n) ==
    LET temp == w[n - 1]
    IN  XorWord(w[n - m],
          CASE n % m = 0 -> FirstByte(sub_word(rot_word(temp)), RCON[n \div m])
            [] m = 8 /\ n % m = 4 -> sub_word(temp)
            [] OTHER -> temp)

HoldsKey(w, k, m) ==
    /\ \A n \in 0 .. Nk(k) - 1, r \in 0 .. 3 : w[n][r] = k[4 * n + r]
    /\ \A n \in Nk(k) .. m - 1 : w[n] = NextWord(w, Nk(k), n)

Words(k) == 4 * (Nr(k) + 1)
ExpandedKey(k) == CHOOSE w \in Schedule : HoldsKey(w, k, Words(k))

LEMMA KeySizes ==
    ASSUME NEW k \in AesKey
    PROVE  /\ \/ Nk(k) = 4 /\ Nr(k) = 10 /\ Words(k) = 44
              \/ Nk(k) = 8 /\ Nr(k) = 14 /\ Words(k) = 60
           /\ k \in [0 .. 4 * Nk(k) - 1 -> Byte]
<1>1. CASE k \in Bytes(16)
  <2>1. k \in [0 .. 15 -> Byte]
    BY <1>1 DEF Bytes
  <2>2. Nk(k) = 4 /\ Nr(k) = 10
    BY <2>1 DEF Nk, Nr
  <2> QED BY <2>1, <2>2 DEF Words
<1>2. CASE k \in Bytes(32)
  <2>1. k \in [0 .. 31 -> Byte]
    BY <1>2 DEF Bytes
  <2>2. DOMAIN k # 0 .. 15
    <3>1. 31 \in DOMAIN k /\ 31 \notin 0 .. 15
      BY <2>1
    <3> QED BY <3>1
  <2>3. Nk(k) = 8 /\ Nr(k) = 14
    BY <2>2 DEF Nk, Nr
  <2> QED BY <2>1, <2>3 DEF Words
<1> QED BY <1>1, <1>2 DEF AesKey

LEMMA NextWordFacts ==
    ASSUME NEW m \in {4, 8}, NEW n \in m .. 59, n \div m \in 1 .. 10, NEW w \in Schedule
    PROVE  /\ NextWord(w, m, n) \in Word
           /\ \A v : (\A j \in 0 .. n - 1 : v[j] = w[j]) => NextWord(v, m, n) = NextWord(w, m, n)
<1>1. n - 1 \in 0 .. 59 /\ n - m \in 0 .. 59 /\ n - 1 \in 0 .. n - 1 /\ n - m \in 0 .. n - 1
  OBVIOUS
<1>2. w[n - 1] \in Word /\ w[n - m] \in Word /\ RCON[n \div m] \in Byte
  BY <1>1, RconAssumption DEF Schedule
<1>3. \A x \in Word : sub_word(x) \in Word /\ rot_word(x) \in Word
  <2>1. \A r \in 0 .. 3 : (r + 1) % 4 \in 0 .. 3
    BY SMT
  <2> QED BY <2>1, SboxAssumption DEF Word, sub_word, rot_word
<1>4. \A x \in Word, b \in Byte : FirstByte(x, b) \in Word
  BY XorByte DEF Word, FirstByte
<1>5. \A u, v \in Word : XorWord(u, v) \in Word
  BY XorByte DEF Word, XorWord
<1>6. NextWord(w, m, n) \in Word
  <2> DEFINE temp == w[n - 1]
  <2>1. /\ temp \in Word /\ sub_word(temp) \in Word
        /\ FirstByte(sub_word(rot_word(temp)), RCON[n \div m]) \in Word
    BY <1>2, <1>3, <1>4
  <2> HIDE DEF temp
  <2>2. (CASE n % m = 0 -> FirstByte(sub_word(rot_word(temp)), RCON[n \div m])
           [] m = 8 /\ n % m = 4 -> sub_word(temp)
           [] OTHER -> temp) \in Word
    <3> DEFINE a == FirstByte(sub_word(rot_word(temp)), RCON[n \div m])
    <3> HIDE DEF a
    <3>1. a \in Word
      BY <2>1 DEF a
    <3>2. (CASE n % m = 0 -> a [] m = 8 /\ n % m = 4 -> sub_word(temp) [] OTHER -> temp) \in Word
      BY <2>1, <3>1
    <3> QED BY <3>2 DEF a
  <2> QED BY <1>2, <1>5, <2>2 DEF NextWord, temp
<1>7. ASSUME NEW v, \A j \in 0 .. n - 1 : v[j] = w[j]
      PROVE  NextWord(v, m, n) = NextWord(w, m, n)
  <2>1. v[n - 1] = w[n - 1] /\ v[n - m] = w[n - m]
    BY <1>1, <1>7
  <2> QED BY <2>1 DEF NextWord
<1> QED BY <1>6, <1>7

LEMMA ExpansionExists ==
    ASSUME NEW k \in AesKey
    PROVE  ExpandedKey(k) \in Schedule /\ HoldsKey(ExpandedKey(k), k, Words(k))
<1> DEFINE S == {n \in Nat : \E w \in Schedule : HoldsKey(w, k, Nk(k) + n)}
<1>1. /\ Nk(k) \in {4, 8} /\ Words(k) \in {44, 60} /\ Words(k) - Nk(k) \in Nat
      /\ \A n \in 0 .. (Words(k) - Nk(k)) - 1 :
           Nk(k) + n \in Nk(k) .. 59 /\ (Nk(k) + n) \div Nk(k) \in 1 .. 10
  <2>1. CASE Nk(k) = 4 /\ Words(k) = 44
    BY <2>1
  <2>2. CASE Nk(k) = 8 /\ Words(k) = 60
    BY <2>2
  <2> QED BY <2>1, <2>2, KeySizes
<1>2. 0 \in S
  <2> DEFINE w == [n \in 0 .. 59 |-> [r \in 0 .. 3 |-> IF n < Nk(k) THEN k[4 * n + r] ELSE {}]]
  <2>1. \A n \in 0 .. Nk(k) - 1, r \in 0 .. 3 : n < Nk(k) /\ n \in 0 .. 59
                                                /\ 4 * n + r \in 0 .. 4 * Nk(k) - 1
    BY <1>1
  <2>2. {} \in Byte
    BY DEF Byte
  <2>3. ASSUME NEW n \in 0 .. 59, NEW r \in 0 .. 3
        PROVE  (IF n < Nk(k) THEN k[4 * n + r] ELSE {}) \in Byte
    <3>1. n < Nk(k) => 4 * n + r \in 0 .. 4 * Nk(k) - 1
      BY <1>1
    <3> QED BY <2>2, <3>1, KeySizes
  <2>4. w \in Schedule
    BY <2>3 DEF Schedule, Word
  <2>5. \A n \in 0 .. Nk(k) - 1, r \in 0 .. 3 : w[n][r] = k[4 * n + r]
    BY <2>1
  <2>6. Nk(k) .. (Nk(k) + 0) - 1 = {}
    BY <1>1
  <2> HIDE DEF w
  <2>7. HoldsKey(w, k, Nk(k) + 0)
    BY <2>5, <2>6 DEF HoldsKey
  <2> QED BY <2>4, <2>7
<1>3. ASSUME NEW n \in 0 .. (Words(k) - Nk(k)) - 1, n \in S PROVE n + 1 \in S
  <2>1. PICK w \in Schedule : HoldsKey(w, k, Nk(k) + n)
    BY <1>3
  <2> DEFINE m == Nk(k) + n
             v == [w EXCEPT ![m] = NextWord(w, Nk(k), m)]
  <2>2. /\ m \in Nk(k) .. 59 /\ m \div Nk(k) \in 1 .. 10 /\ m \in 0 .. 59
        /\ Nk(k) + (n + 1) = m + 1 /\ n + 1 \in Nat
    <3>1. m \in Nk(k) .. 59 /\ m \div Nk(k) \in 1 .. 10
      BY <1>1
    <3>2. Nk(k) + (n + 1) = m + 1 /\ n + 1 \in Nat
      BY <1>1
    <3> HIDE DEF m
    <3> QED BY <1>1, <3>1, <3>2
  <2> HIDE DEF m
  <2>3. NextWord(w, Nk(k), m) \in Word
    BY <1>1, <2>2, NextWordFacts
  <2>4. v \in Schedule /\ v[m] = NextWord(w, Nk(k), m)
        /\ \A j \in 0 .. 59 : j # m => v[j] = w[j]
    BY <2>2, <2>3 DEF Schedule
  <2> HIDE DEF v
  <2>5. ASSUME NEW j \in 0 .. Nk(k) - 1, NEW r \in 0 .. 3
        PROVE  v[j][r] = k[4 * j + r]
    <3>1. j \in 0 .. 59 /\ j # m
      BY <1>1, <2>2
    <3>2. w[j][r] = k[4 * j + r]
      BY <2>1 DEF HoldsKey
    <3> QED BY <2>4, <3>1, <3>2
  <2>6. ASSUME NEW j \in Nk(k) .. (m + 1) - 1 PROVE v[j] = NextWord(v, Nk(k), j)
    <3>1. j \in Nk(k) .. 59 /\ j \in 0 .. 59 /\ j \div Nk(k) \in 1 .. 10 /\ j <= m
          /\ \A q \in 0 .. j - 1 : q \in 0 .. 59 /\ q # m
      <4>1. j - Nk(k) \in 0 .. (Words(k) - Nk(k)) - 1 /\ j = Nk(k) + (j - Nk(k))
        BY <1>1, <2>2 DEF m
      <4>2. j \in Nk(k) .. 59 /\ j \div Nk(k) \in 1 .. 10
        BY <1>1, <4>1
      <4> QED BY <1>1, <2>2, <4>2
    <3>2. NextWord(v, Nk(k), j) = NextWord(w, Nk(k), j)
      <4>1. \A q \in 0 .. j - 1 : v[q] = w[q]
        BY <2>4, <3>1
      <4> QED BY <1>1, <3>1, <4>1, NextWordFacts
    <3>3. CASE j = m
      BY <2>4, <3>2, <3>3
    <3>4. CASE j # m
      <4>1. j \in Nk(k) .. m - 1
        BY <1>1, <2>2, <3>4
      <4>2. w[j] = NextWord(w, Nk(k), j)
        BY <2>1, <4>1 DEF HoldsKey, m
      <4> QED BY <2>4, <3>1, <3>2, <3>4, <4>2
    <3> QED BY <3>3, <3>4
  <2>7. HoldsKey(v, k, Nk(k) + (n + 1))
    BY <2>2, <2>5, <2>6 DEF HoldsKey
  <2> QED BY <2>2, <2>4, <2>7
<1> HIDE DEF S
<1>4. 0 .. Words(k) - Nk(k) \subseteq S
  BY <1>1, <1>2, <1>3, Induction
<1>5. \E w \in Schedule : HoldsKey(w, k, Words(k))
  <2>1. Words(k) - Nk(k) \in 0 .. Words(k) - Nk(k) /\ Nk(k) + (Words(k) - Nk(k)) = Words(k)
    BY <1>1
  <2> QED BY <1>4, <2>1 DEF S
<1> QED BY <1>5 DEF ExpandedKey

(* Two schedules that hold the same key agree on its words.                *)
LEMMA ExpansionUnique ==
    ASSUME NEW k \in AesKey, NEW w \in Schedule, NEW v \in Schedule,
           HoldsKey(w, k, Words(k)), HoldsKey(v, k, Words(k))
    PROVE  \A n \in 0 .. Words(k) - 1 : w[n] = v[n]
<1> DEFINE S == {n \in Nat : \A j \in 0 .. n - 1 : w[j] = v[j]}
<1>1. /\ Nk(k) \in {4, 8} /\ Words(k) \in Nat
      /\ \A n \in Nk(k) .. Words(k) - 1 : n \in Nk(k) .. 59 /\ n \div Nk(k) \in 1 .. 10
      /\ \A n \in 0 .. Words(k) - 1 : n \in 0 .. 59
  <2>1. CASE Nk(k) = 4 /\ Words(k) = 44
    BY <2>1
  <2>2. CASE Nk(k) = 8 /\ Words(k) = 60
    BY <2>2
  <2> QED BY <2>1, <2>2, KeySizes
<1>2. 0 \in S
  OBVIOUS
<1>3. ASSUME NEW n \in 0 .. Words(k) - 1, n \in S PROVE n + 1 \in S
  <2>1. w[n] \in Word /\ v[n] \in Word
    BY <1>1 DEF Schedule
  <2>2. CASE n < Nk(k)
    <3>1. n \in 0 .. Nk(k) - 1
      BY <1>1, <2>2
    <3>2. \A r \in 0 .. 3 : w[n][r] = v[n][r]
      BY <3>1 DEF HoldsKey
    <3>3. w[n] = v[n]
      BY <2>1, <3>2 DEF Word
    <3> QED BY <1>3, <3>3
  <2>3. CASE ~(n < Nk(k))
    <3>1. n \in Nk(k) .. Words(k) - 1
      BY <1>1, <2>3
    <3>2. NextWord(w, Nk(k), n) = NextWord(v, Nk(k), n)
      BY <1>1, <1>3, <3>1, NextWordFacts
    <3>3. w[n] = v[n]
      BY <3>1, <3>2 DEF HoldsKey
    <3> QED BY <1>3, <3>3
  <2> QED BY <2>2, <2>3
<1> HIDE DEF S
<1>4. 0 .. Words(k) \subseteq S
  BY <1>1, <1>2, <1>3, Induction
<1> QED
  BY <1>1, <1>4 DEF S

(* Only the round keys of the rounds there are matter.                     *)
LEMMA SameRoundKeys ==
    ASSUME NEW k \in AesKey, NEW w \in Schedule, HoldsKey(w, k, Words(k)), NEW st \in State
    PROVE  /\ Encryption(w, Nr(k), st) = Encryption(ExpandedKey(k), Nr(k), st)
           /\ Decryption(w, Nr(k), st) = Decryption(ExpandedKey(k), Nr(k), st)
<1> DEFINE v == ExpandedKey(k)
           l == Nr(k)
<1>1. \A n \in 0 .. Words(k) - 1 : w[n] = v[n]
  BY ExpansionExists, ExpansionUnique
<1>2. l \in Nat /\ \A n \in 0 .. l, c \in 0 .. 3 : 4 * n + c \in 0 .. Words(k) - 1
  BY KeySizes
<1> HIDE DEF v, l
<1>3. \A n \in 0 .. l : \A x : Add(w, x, n) = Add(v, x, n)
  <2>1. \A p \in Cell : p[2] \in 0 .. 3
    BY DEF Cell
  <2> QED BY <1>1, <1>2, <2>1 DEF Add
<1>4. \A n \in 1 .. l : n \in 0 .. l /\ l - n \in 0 .. l
  BY <1>2
<1>5. \A n \in 1 .. l : \A x : /\ Round(w, l, x, n) = Round(v, l, x, n)
                               /\ InvRound(w, x, l - n) = InvRound(v, x, l - n)
  BY <1>3, <1>4 DEF Round, InvRound
<1>6. 0 \in 0 .. l /\ l \in 0 .. l
  BY <1>2
<1>7. /\ [x \in (1 .. l) \X State |-> Round(w, l, x[2], x[1])]
           = [x \in (1 .. l) \X State |-> Round(v, l, x[2], x[1])]
      /\ [x \in (1 .. l) \X State |-> InvRound(w, x[2], l - x[1])]
           = [x \in (1 .. l) \X State |-> InvRound(v, x[2], l - x[1])]
  BY <1>5
<1>8. Add(w, st, 0) = Add(v, st, 0) /\ Add(w, st, l) = Add(v, st, l)
  BY <1>3, <1>6
<1>9. /\ Encryption(w, l, st) = Encryption(v, l, st)
      /\ Decryption(w, l, st) = Decryption(v, l, st)
  BY <1>7, <1>8 DEF Encryption, Decryption
<1> QED BY <1>9 DEF v, l

-----------------------------------------------------------------------------
(* AES as a function of the key and the block, and its inverse.            *)
Store(st) == [n \in 0 .. 15 |-> st[<<n % 4, n \div 4>>]]

Aes == [k \in AesKey |-> [b \in Bytes(16) |->
           Store(Encryption(ExpandedKey(k), Nr(k), Load(b))[Nr(k)])]]
InvAes == [k \in AesKey |-> [b \in Bytes(16) |->
              Store(Decryption(ExpandedKey(k), Nr(k), Load(b))[Nr(k)])]]

LEMMA LoadStore ==
    /\ \A b \in Bytes(16) : Load(b) \in State /\ Store(Load(b)) = b
    /\ \A st \in State : Store(st) \in Bytes(16) /\ Load(Store(st)) = st
<1>1. \A r, c \in 0 .. 3 : /\ r + 4 * c \in 0 .. 15 /\ (r + 4 * c) % 4 = r
                           /\ (r + 4 * c) \div 4 = c
  BY SMT
<1>2. \A n \in 0 .. 15 : n % 4 \in 0 .. 3 /\ n \div 4 \in 0 .. 3 /\ (n % 4) + 4 * (n \div 4) = n
  BY SMT
<1>3. \A p \in Cell : p[1] \in 0 .. 3 /\ p[2] \in 0 .. 3 /\ p = <<p[1], p[2]>>
  BY DEF Cell
<1>4. \A n \in 0 .. 15 : <<n % 4, n \div 4>> \in Cell
  BY <1>2 DEF Cell
<1>5. ASSUME NEW b \in Bytes(16) PROVE Load(b) \in State /\ Store(Load(b)) = b
  <2>1. \A n \in 0 .. 15 : Load(b)[<<n % 4, n \div 4>>] = b[n]
    BY <1>2, <1>4 DEF Load
  <2>2. b = [n \in 0 .. 15 |-> b[n]] /\ \A n \in 0 .. 15 : b[n] \in Byte
    BY DEF Bytes
  <2>3. Load(b) \in State
    BY <1>1, <1>3, <2>2 DEF Load, State
  <2> QED BY <2>1, <2>2, <2>3 DEF Store
<1>6. ASSUME NEW st \in State PROVE Store(st) \in Bytes(16) /\ Load(Store(st)) = st
  <2>1. \A p \in Cell : Store(st)[p[1] + 4 * p[2]] = st[p]
    BY <1>1, <1>3 DEF Store
  <2>2. st = [p \in Cell |-> st[p]] /\ \A p \in Cell : st[p] \in Byte
    BY DEF State
  <2>3. Store(st) \in [0 .. 15 -> Byte]
    BY <1>4, <2>2 DEF Store
  <2> QED BY <2>1, <2>2, <2>3 DEF Load, Bytes
<1> QED BY <1>5, <1>6

(* What AesCbc assumes of its cipher holds of the code's, for all keys of  *)
(* both sizes and all blocks of 16 bytes: aes_encrypt_block under an       *)
(* expanded key is a permutation and aes_decrypt_block its inverse         *)
(* (aes.c:103-257), the XOR of bytes undoes itself, and a key has 10 or 14 *)
(* rounds.                                                                 *)
THEOREM AesIsBlockCipher ==
    /\ IsBlockCipher(AesKey, Bytes(16), Aes, InvAes)
    /\ IsXor(Byte, Xor)
    /\ \A k \in AesKey : Nr(k) \in 1 .. 14
<1>1. \A k \in AesKey : /\ Nr(k) \in 1 .. 14 /\ Nr(k) \in 0 .. 14 /\ Nr(k) \in 0 .. Nr(k)
                        /\ ExpandedKey(k) \in Schedule
  BY KeySizes, ExpansionExists
<1>2. ASSUME NEW k \in AesKey, NEW b \in Bytes(16)
      PROVE  /\ Aes[k][b] \in Bytes(16) /\ InvAes[k][b] \in Bytes(16)
             /\ InvAes[k][Aes[k][b]] = b /\ Aes[k][InvAes[k][b]] = b
  <2> DEFINE l == Nr(k)
             w == ExpandedKey(k)
             e(x) == Encryption(w, l, x)[l]
             d(x) == Decryption(w, l, x)[l]
  <2>1. l \in 1 .. 14 /\ l \in 0 .. 14 /\ l \in 0 .. l /\ w \in Schedule
    BY <1>1
  <2>2. \A x \in Bytes(16) : Aes[k][x] = Store(e(Load(x))) /\ InvAes[k][x] = Store(d(Load(x)))
    BY DEF Aes, InvAes
  <2> HIDE DEF l, w
  <2>3. ASSUME NEW x \in State
        PROVE  e(x) \in State /\ d(x) \in State /\ d(e(x)) = x /\ e(d(x)) = x
    <3>1. Encryption(w, l, x) \in [0 .. l -> State] /\ Decryption(w, l, x) \in [0 .. l -> State]
      BY <2>1, EncryptionFacts, DecryptionFacts
    <3>2. e(x) \in State /\ d(x) \in State
      BY <2>1, <3>1
    <3>3. d(e(x)) = x /\ e(d(x)) = x
      BY <2>1, DecryptionUndoes, EncryptionUndoes
    <3> QED BY <3>2, <3>3
  <2> HIDE DEF e, d
  <2>4. Load(b) \in State /\ Store(Load(b)) = b
    BY LoadStore
  <2>5. /\ e(Load(b)) \in State /\ d(Load(b)) \in State
        /\ d(e(Load(b))) = Load(b) /\ e(d(Load(b))) = Load(b)
    BY <2>3, <2>4
  <2>6. /\ Aes[k][b] \in Bytes(16) /\ Load(Aes[k][b]) = e(Load(b))
        /\ InvAes[k][b] \in Bytes(16) /\ Load(InvAes[k][b]) = d(Load(b))
    BY <2>2, <2>5, LoadStore
  <2> QED BY <2>2, <2>4, <2>5, <2>6
<1>3. Aes \in [AesKey -> [Bytes(16) -> Bytes(16)]] /\ InvAes \in [AesKey -> [Bytes(16) -> Bytes(16)]]
  <2>1. ASSUME NEW k \in AesKey
        PROVE  Aes[k] \in [Bytes(16) -> Bytes(16)] /\ InvAes[k] \in [Bytes(16) -> Bytes(16)]
    <3>1. /\ Aes[k] = [b \in Bytes(16) |-> Aes[k][b]]
          /\ InvAes[k] = [b \in Bytes(16) |-> InvAes[k][b]]
      BY DEF Aes, InvAes
    <3> QED BY <1>2, <3>1
  <2>2. Aes = [k \in AesKey |-> Aes[k]] /\ InvAes = [k \in AesKey |-> InvAes[k]]
    BY DEF Aes, InvAes
  <2> QED BY <2>1, <2>2
<1>4. IsBlockCipher(AesKey, Bytes(16), Aes, InvAes)
  BY <1>2, <1>3 DEF IsBlockCipher
<1>5. IsXor(Byte, Xor)
  BY XorByte, XorFacts DEF IsXor
<1> QED BY <1>1, <1>4, <1>5

-----------------------------------------------------------------------------
(* The inductive invariant.                                                *)
Recurrence(n) == round_keys[n] = NextWord(round_keys, nk, n)

(* The words before word i are those of the expanded key.                  *)
ExpandedSoFar ==
    nk # 0 =>
      /\ \A n \in 0 .. nk - 1, r \in 0 .. 3 : round_keys[n][r] = key[4 * n + r]
      /\ \A n \in nk .. i - 1 : Recurrence(n)
      /\ pc # "expand" => i = 4 * (nr + 1)

RoundOf(st, n) == Round(round_keys, nr, st, n)

(* The states of the latest encryption follow one another by rounds under  *)
(* the schedule that is still in the context.                              *)
TrailIsRounds ==
    trail # <<>> =>
      /\ pc # "expand"
      /\ trail[1] = AddRoundKey(text, 0)
      /\ \A n \in 1 .. Len(trail) - 1 : trail[n + 1] = RoundOf(trail[n], n)
      /\ pc # "encrypt" => Len(trail) = nr + 1

RoundInRange ==
    /\ pc = "encrypt" => /\ trail # <<>> /\ round \in 1 .. nr + 1
                         /\ Len(trail) = round /\ s = trail[round]
    /\ pc = "decrypt" => round \in -1 .. nr - 1
    /\ pc \in {"idle", "expand"} => round = 0

IInv == TypeOK /\ ExpandedSoFar /\ TrailIsRounds /\ RoundInRange /\ DecryptMirrors

LEMMA Sizes ==
    ASSUME TypeOK
    PROVE  /\ nr \in {0, 10, 14} /\ nk \in {0, 4, 8}
           /\ nr \in 0 .. 14 /\ nk \in 0 .. 8
           /\ nk # 0 => /\ i \in nk .. 4 * (nr + 1)
                        /\ (nr = 10 /\ nk = 4) \/ (nr = 14 /\ nk = 8)
<1>1. nr \in {0, 10, 14} /\ nk \in {0, 4, 8}
  BY Zenon DEF TypeOK
<1>2. nk # 0 => (nr = 10 /\ nk = 4) \/ (nr = 14 /\ nk = 8)
  BY Zenon DEF TypeOK
<1>3. nk # 0 => i \in nk .. 4 * (nr + 1)
  BY Zenon DEF TypeOK
<1> QED BY <1>1, <1>2, <1>3

LEMMA LoadState == ASSUME NEW b \in Bytes(16) PROVE Load(b) \in State
<1>1. \A p \in Cell : p[1] + 4 * p[2] \in 0 .. 15
  BY DEF Cell
<1> QED BY <1>1 DEF Load, State, Bytes

LEMMA NoStateIsState == NoState \in State
BY DEF NoState, State, Byte

(* What leaves the schedule and the phase of a call alone.                 *)
LEMMA ExpandedUnchanged ==
    ASSUME ExpandedSoFar, UNCHANGED schedule,
           pc' = pc \/ (pc # "expand" /\ pc' # "expand")
    PROVE  ExpandedSoFar'
<1>1. UNCHANGED <<round_keys, nr, key, nk, i>>
  BY DEF schedule
<1>2. \A n : Recurrence(n)' <=> Recurrence(n)
  BY <1>1 DEF Recurrence, NextWord
<1> QED BY <1>1, <1>2 DEF ExpandedSoFar

LEMMA IInvInit == Init => IInv
<1> SUFFICES ASSUME Init PROVE IInv
  OBVIOUS
<1>1. [r \in 0 .. 3 |-> {}] \in Word
  BY DEF Word, Byte
<1>2. round_keys \in [0 .. 59 -> Word]
  BY <1>1 DEF Init
<1>3. TypeOK
  BY <1>2, NoStateIsState DEF Init, TypeOK
<1> QED BY <1>3 DEF Init, IInv, ExpandedSoFar, TrailIsRounds, RoundInRange, DecryptMirrors

LEMMA KeyWords ==
    ASSUME NEW m \in {4, 8}
    PROVE  m .. m - 1 = {} /\ m # 0 /\ \A n \in 0 .. m - 1 : n \in 0 .. 59 /\ n < m
<1>1. CASE m = 4
  BY <1>1, SMT
<1>2. CASE m = 8
  BY <1>2, SMT
<1> QED BY <1>1, <1>2

LEMMA InitStep == ASSUME IInv, NEW k \in Key, aes_init(k) PROVE IInv'
<1>1. /\ pc' = "expand" /\ key' = k /\ text' = NoState /\ trail' = <<>>
      /\ i' = nk' /\ s' = s /\ round' = round
      /\ nk' = IF DOMAIN k = 0 .. 15 THEN 4 ELSE 8
      /\ nr' = IF DOMAIN k = 0 .. 15 THEN 10 ELSE 14
      /\ round_keys' = [n \in 0 .. 59 |-> IF n < nk' THEN [r \in 0 .. 3 |-> k[4 * n + r]]
                                                     ELSE round_keys[n]]
  BY DEF aes_init
<1>2. /\ DOMAIN k = 0 .. 4 * nk' - 1 /\ k \in [0 .. 4 * nk' - 1 -> Byte]
      /\ (nr' = 10 /\ nk' = 4) \/ (nr' = 14 /\ nk' = 8)
  <2>1. CASE k \in Bytes(16)
    <3>1. DOMAIN k = 0 .. 15 /\ k \in [0 .. 15 -> Byte]
      BY <2>1 DEF Bytes
    <3>2. nk' = 4 /\ nr' = 10
      BY <1>1, <3>1
    <3> QED BY <3>1, <3>2
  <2>2. CASE k \in Bytes(32)
    <3>1. DOMAIN k = 0 .. 31 /\ k \in [0 .. 31 -> Byte]
      BY <2>2 DEF Bytes
    <3>2. 31 \in 0 .. 31 /\ 31 \notin 0 .. 15
      BY SMT
    <3>3. nk' = 8 /\ nr' = 14
      BY <1>1, <3>1, <3>2
    <3> QED BY <3>1, <3>3
  <2> QED BY <2>1, <2>2, BlockAssumption
<1>3. /\ (nr' = 10 /\ nk' = 4) \/ (nr' = 14 /\ nk' = 8)
      /\ i' = nk' /\ i' \in nk' .. 4 * (nr' + 1)
  <2>1. i' = nk'
    BY <1>1
  <2>2. (nr' = 10 /\ nk' = 4) \/ (nr' = 14 /\ nk' = 8)
    BY <1>2
  <2> QED BY <2>1, <2>2
<1>4. nk' \in {4, 8} /\ i' = nk'
  BY <1>3
<1>5. round = 0 /\ round' = 0
  BY <1>1 DEF IInv, RoundInRange, aes_init
<1>6. TypeOK'
  <2>1. round_keys' \in [0 .. 59 -> Word]
    <3>1. ASSUME NEW n \in 0 .. 59, n < nk' PROVE [r \in 0 .. 3 |-> k[4 * n + r]] \in Word
      <4>1. \A r \in 0 .. 3 : 4 * n + r \in 0 .. 4 * nk' - 1
        BY <1>2, <3>1
      <4> QED BY <1>2, <4>1 DEF Word
    <3>2. round_keys \in [0 .. 59 -> Word]
      BY DEF IInv, TypeOK
    <3> QED BY <1>1, <3>1, <3>2
  <2>2. round' \in -1 .. nr' + 1
    BY <1>3, <1>5
  <2>4. s' \in State /\ text' \in State /\ trail' \in Seq(State)
    BY <1>1, NoStateIsState DEF IInv, TypeOK
  <2>3. DOMAIN key' = 0 .. 4 * nk' - 1 /\ key' \in Key /\ pc' = "expand" /\ nk' # 0
    <3>1. DOMAIN k = 0 .. 4 * nk' - 1
      BY <1>2
    <3>2. key' = k /\ pc' = "expand" /\ nk' # 0
      BY <1>1, <1>4, KeyWords
    <3> QED BY <3>1, <3>2
  <2> QED BY <1>3, <2>1, <2>2, <2>3, <2>4 DEF TypeOK
<1>7. ExpandedSoFar'
  <2>1. \A n \in 0 .. nk' - 1, r \in 0 .. 3 : round_keys'[n][r] = k[4 * n + r]
    <3>1. \A n \in 0 .. nk' - 1 : n \in 0 .. 59 /\ n < nk'
      BY <1>4, KeyWords
    <3>2. \A n \in 0 .. 59 : n < nk' => round_keys'[n] = [r \in 0 .. 3 |-> k[4 * n + r]]
      BY <1>1
    <3> SUFFICES ASSUME NEW n \in 0 .. nk' - 1, NEW r \in 0 .. 3
                 PROVE  round_keys'[n][r] = k[4 * n + r]
      OBVIOUS
    <3>3. round_keys'[n] = [q \in 0 .. 3 |-> k[4 * n + q]]
      BY <3>1, <3>2
    <3> QED BY <3>3
  <2>2. nk' .. i' - 1 = {}
    BY <1>4, KeyWords
  <2>3. pc' = "expand" /\ key' = k
    BY <1>1
  <2> QED BY <2>1, <2>2, <2>3 DEF ExpandedSoFar
<1>8. TrailIsRounds' /\ RoundInRange' /\ DecryptMirrors'
  BY <1>1 DEF IInv, aes_init, TrailIsRounds, RoundInRange, DecryptMirrors
<1> QED BY <1>6, <1>7, <1>8 DEF IInv

LEMMA ExpandStep == IInv /\ Expand => IInv'
<1> SUFFICES ASSUME IInv, Expand PROVE IInv'
  OBVIOUS
<1>1. /\ pc = "expand" /\ i < 4 * (nr + 1) /\ i' = i + 1
      /\ round_keys' = [round_keys EXCEPT ![i] = XorWord(round_keys[i - nk],
                                                         Temp(round_keys[i - 1]))]
      /\ UNCHANGED <<nr, key, nk, pc, s, round, text, trail>>
  BY DEF Expand
<1>2. /\ (nr = 10 /\ nk = 4) \/ (nr = 14 /\ nk = 8)
      /\ i \in nk .. 4 * (nr + 1)
      /\ round_keys \in [0 .. 59 -> Word]
  BY <1>1 DEF IInv, TypeOK
<1>3. /\ i \in 0 .. 59 /\ i - 1 \in 0 .. 59 /\ i - nk \in 0 .. 59
      /\ i \div nk \in 1 .. 10
  <2>1. CASE nk = 4
    BY <1>1, <1>2, <2>1
  <2>2. CASE nk = 8
    BY <1>1, <1>2, <2>2
  <2> QED BY <1>2, <2>1, <2>2
<1>4. Temp(round_keys[i - 1]) \in Word
  <2> DEFINE w == round_keys[i - 1]
  <2>1. w \in Word /\ RCON[i \div nk] \in Byte
    BY <1>2, <1>3, RconAssumption
  <2>2. \A r \in 0 .. 3 : (r + 1) % 4 \in 0 .. 3
    BY SMT
  <2>3. \A x \in Word : sub_word(x) \in Word /\ rot_word(x) \in Word
    BY <2>2, SboxAssumption DEF Word, sub_word, rot_word
  <2>4. \A x \in Word, b \in Byte : [x EXCEPT ![0] = Xor(@, b)] \in Word
    BY XorByte DEF Word
  <2> HIDE DEF w
  <2> QED BY <2>1, <2>3, <2>4 DEF Temp, w
<1>5. round_keys' \in [0 .. 59 -> Word]
  <2>1. XorWord(round_keys[i - nk], Temp(round_keys[i - 1])) \in Word
    <3>1. \A u, v \in Word : XorWord(u, v) \in Word
      BY XorByte DEF Word, XorWord
    <3> QED BY <1>2, <1>3, <1>4, <3>1
  <2> QED BY <1>1, <1>2, <2>1
<1>6. TypeOK'
  <2>1. i' \in nk' .. 4 * (nr' + 1)
    BY <1>1, <1>2
  <2> QED BY <1>1, <1>5, <2>1 DEF IInv, TypeOK
<1>7. ExpandedSoFar'
  <2>1. \A n \in 0 .. 59 : n # i => round_keys'[n] = round_keys[n]
    BY <1>1, <1>2
  <2>2. round_keys'[i] = XorWord(round_keys[i - nk], Temp(round_keys[i - 1]))
    BY <1>1, <1>2, <1>3
  <2>3. \A n \in 0 .. nk - 1, r \in 0 .. 3 : round_keys'[n][r] = key'[4 * n + r]
    <3>1. \A n \in 0 .. nk - 1 : n \in 0 .. 59 /\ n # i
      BY <1>2
    <3>2. \A n \in 0 .. nk - 1 : round_keys'[n] = round_keys[n]
      BY <2>1, <3>1
    <3>3. nk # 0
      BY <1>2
    <3>4. \A n \in 0 .. nk - 1, r \in 0 .. 3 : round_keys[n][r] = key[4 * n + r]
      BY <3>3 DEF IInv, ExpandedSoFar
    <3>5. key' = key
      BY <1>1
    <3> QED BY <3>2, <3>4, <3>5
  <2>4. ASSUME NEW n \in nk .. i - 1 PROVE Recurrence(n)'
    <3>1. Recurrence(n)
      BY <1>2, <2>4 DEF IInv, ExpandedSoFar
    <3>2. n \in 0 .. 59 /\ n - 1 \in 0 .. 59 /\ n - nk \in 0 .. 59
          /\ n # i /\ n - 1 # i /\ n - nk # i
      BY <1>2, <1>3
    <3> QED BY <1>1, <2>1, <3>1, <3>2 DEF Recurrence, NextWord
  <2>5. ASSUME NEW n, n = i PROVE Recurrence(n)'
    <3>1. nk > 6 <=> nk = 8
      BY <1>2
    <3>2. round_keys'[i - 1] = round_keys[i - 1] /\ round_keys'[i - nk] = round_keys[i - nk]
      BY <1>2, <1>3, <2>1
    <3> QED BY <1>1, <2>2, <2>5, <3>1, <3>2 DEF Recurrence, NextWord, Temp, FirstByte
  <2>6. \A n \in nk' .. i' - 1 : n \in nk .. i - 1 \/ n = i
    BY <1>1, <1>2
  <2> QED BY <1>1, <2>3, <2>4, <2>5, <2>6 DEF ExpandedSoFar
<1>8. TrailIsRounds' /\ RoundInRange' /\ DecryptMirrors'
  BY <1>1 DEF IInv, TrailIsRounds, RoundInRange, DecryptMirrors
<1> QED BY <1>6, <1>7, <1>8 DEF IInv

LEMMA InitReturnsStep == IInv /\ InitReturns => IInv'
<1> SUFFICES ASSUME IInv, InitReturns PROVE IInv'
  OBVIOUS
<1>1. /\ pc = "expand" /\ pc' = "idle" /\ ~(i < 4 * (nr + 1))
      /\ UNCHANGED <<round_keys, nr, key, nk, i, s, round, text, trail>>
  BY DEF InitReturns, schedule
<1>2. TypeOK'
  BY <1>1 DEF IInv, TypeOK
<1>3. ExpandedSoFar'
  <2>1. i = 4 * (nr + 1) \/ nk = 0
    BY <1>1, Sizes DEF IInv
  <2> QED BY <1>1, <2>1 DEF IInv, ExpandedSoFar, Recurrence, NextWord
<1>4. TrailIsRounds' /\ RoundInRange' /\ DecryptMirrors'
  BY <1>1 DEF IInv, TrailIsRounds, RoundInRange, DecryptMirrors
<1> QED BY <1>2, <1>3, <1>4 DEF IInv

-----------------------------------------------------------------------------
(* What a round makes of a state.                                          *)
LEMMA RoundState ==
    ASSUME TypeOK, NEW st \in State, NEW n \in 0 .. nr
    PROVE  /\ AddRoundKey(st, n) \in State /\ AddRoundKey(AddRoundKey(st, n), n) = st
           /\ ShiftRows(SubBytes(st)) \in State
           /\ InvSubBytes(InvShiftRows(ShiftRows(SubBytes(st)))) = st
           /\ RoundOf(st, n) \in State
<1>1. n \in 0 .. 14 /\ round_keys \in [0 .. 59 -> Word]
  <2>1. nr \in {0, 10, 14} /\ n \in 0 .. nr
    BY Sizes
  <2>2. round_keys \in [0 .. 59 -> Word]
    BY DEF TypeOK
  <2>3. n \in 0 .. 14
    BY <2>1
  <2> QED BY <2>2, <2>3
<1>2. \A x \in State : AddRoundKey(x, n) \in State /\ AddRoundKey(AddRoundKey(x, n), n) = x
  BY <1>1, KeyRoundTrip DEF AddRoundKey, Add, Schedule
<1>3. SubBytes(st) \in State /\ ShiftRows(SubBytes(st)) \in State
  BY SubRoundTrip, ShiftRoundTrip
<1>4. InvSubBytes(InvShiftRows(ShiftRows(SubBytes(st)))) = st
  BY <1>3, SubRoundTrip, ShiftRoundTrip
<1>5. RoundOf(st, n) \in State
  BY <1>2, <1>3, MixRoundTrip DEF RoundOf, Round, AddRoundKey, Add
<1> QED BY <1>2, <1>3, <1>4, <1>5

(* A trail that has not changed, under a schedule that has not.            *)
LEMMA TrailUnchanged ==
    ASSUME TrailIsRounds, UNCHANGED <<schedule, text, trail>>, pc' # "expand",
           pc' # "encrypt" => Len(trail) = nr + 1
    PROVE  TrailIsRounds'
<1>1. nr' = nr /\ round_keys' = round_keys
  BY DEF schedule
<1>2. AddRoundKey(text, 0)' = AddRoundKey(text, 0)
  BY <1>1 DEF AddRoundKey
<1>3. \A n \in 1 .. Len(trail) - 1 : RoundOf(trail[n], n)' = RoundOf(trail[n], n)
  BY <1>1 DEF RoundOf, Round, Add
<1> QED BY <1>1, <1>2, <1>3 DEF TrailIsRounds

LEMMA EncryptStep == ASSUME IInv, NEW b \in Block, Encrypt(b) PROVE IInv'
<1>1. /\ pc = "idle" /\ pc' = "encrypt" /\ s' = AddRoundKey(Load(b), 0)
      /\ round' = 1 /\ text' = Load(b) /\ trail' = <<s'>>
      /\ UNCHANGED schedule
  BY DEF Encrypt
<1>2. TypeOK /\ nr \in {0, 10, 14} /\ UNCHANGED <<round_keys, nr, key, nk, i>>
  BY <1>1, Sizes DEF IInv, schedule
<1>3. Load(b) \in State /\ s' \in State
  BY <1>1, <1>2, LoadState, RoundState, BlockAssumption
<1>4. TypeOK'
  <2>1. trail' \in Seq(State) /\ round' \in -1 .. nr' + 1
    BY <1>1, <1>2, <1>3
  <2> QED BY <1>1, <1>2, <1>3, <2>1 DEF TypeOK
<1>5. ExpandedSoFar'
  BY <1>1, ExpandedUnchanged DEF IInv
<1>6. TrailIsRounds'
  <2>1. Len(trail') = 1 /\ trail'[1] = s' /\ pc' = "encrypt"
    BY <1>1
  <2>2. s' = AddRoundKey(text, 0)'
    BY <1>1, <1>2 DEF AddRoundKey
  <2> QED BY <2>1, <2>2 DEF TrailIsRounds
<1>7. RoundInRange' /\ DecryptMirrors'
  BY <1>1, <1>2 DEF RoundInRange, DecryptMirrors
<1> QED BY <1>4, <1>5, <1>6, <1>7 DEF IInv

LEMMA EncryptRoundStep == IInv /\ EncryptRound => IInv'
<1> SUFFICES ASSUME IInv, EncryptRound PROVE IInv'
  OBVIOUS
<1>1. /\ pc = "encrypt" /\ pc' = pc /\ round <= nr /\ round' = round + 1
      /\ s' = RoundOf(s, round) /\ trail' = Append(trail, s')
      /\ text' = text /\ UNCHANGED schedule
  BY DEF EncryptRound, MoreRounds, RoundOf, Round, AddRoundKey, Add
<1>2. TypeOK /\ nr \in 0 .. 14 /\ UNCHANGED <<round_keys, nr, key, nk, i>>
  BY <1>1, Sizes DEF IInv, schedule
<1>3. /\ trail # <<>> /\ round \in 1 .. nr /\ Len(trail) = round /\ s = trail[round]
      /\ trail \in Seq(State) /\ s \in State
  BY <1>1, <1>2 DEF IInv, RoundInRange, TypeOK
<1>4. s' \in State
  BY <1>1, <1>2, <1>3, RoundState
<1>5. /\ trail' \in Seq(State) /\ Len(trail') = round + 1 /\ trail'[round + 1] = s'
      /\ \A n \in 1 .. round : trail'[n] = trail[n]
  BY <1>1, <1>3, <1>4
<1>6. TypeOK'
  <2>1. round' \in -1 .. nr' + 1
    BY <1>1, <1>2, <1>3
  <2> QED BY <1>1, <1>2, <1>4, <1>5, <2>1 DEF TypeOK
<1>7. ExpandedSoFar'
  BY <1>1, ExpandedUnchanged DEF IInv
<1>8. TrailIsRounds'
  <2>1. trail'[1] = AddRoundKey(text, 0)'
    <3>1. 1 \in 1 .. round /\ trail[1] = AddRoundKey(text, 0)
      BY <1>3 DEF IInv, TrailIsRounds
    <3> QED BY <1>1, <1>2, <1>5, <3>1 DEF AddRoundKey
  <2>2. ASSUME NEW n \in 1 .. Len(trail') - 1
        PROVE  trail'[n + 1] = RoundOf(trail'[n], n)
    <3>1. CASE n = round
      BY <1>1, <1>3, <1>5, <3>1
    <3>2. CASE n # round
      <4>1. n \in 1 .. Len(trail) - 1 /\ n \in 1 .. round /\ n + 1 \in 1 .. round
        BY <1>3, <1>5, <3>2
      <4>2. trail[n + 1] = RoundOf(trail[n], n)
        BY <1>3, <4>1 DEF IInv, TrailIsRounds
      <4> QED BY <1>5, <4>1, <4>2
    <3> QED BY <3>1, <3>2
  <2>3. \A n \in 1 .. Len(trail') - 1 : trail'[n + 1] = RoundOf(trail[n], n)'
    BY <1>1, <1>2, <2>2 DEF RoundOf, Round, Add
  <2> QED BY <1>1, <2>1, <2>3 DEF TrailIsRounds
<1>9. RoundInRange' /\ DecryptMirrors'
  <2>1. trail' # <<>> /\ round' \in 1 .. nr' + 1 /\ Len(trail') = round' /\ s' = trail'[round']
    BY <1>1, <1>2, <1>3, <1>5
  <2> QED BY <1>1, <2>1 DEF RoundInRange, DecryptMirrors
<1> QED BY <1>6, <1>7, <1>8, <1>9 DEF IInv


LEMMA DecryptStep ==
    ASSUME IInv, NEW st, Decrypt(st),
           (\E b \in Block : st = Load(b)) \/ (trail # <<>> /\ st = trail[nr + 1])
    PROVE  IInv'
<1>1. /\ pc = "idle" /\ pc' = "decrypt" /\ s' = AddRoundKey(st, nr)
      /\ round' = nr - 1 /\ UNCHANGED schedule
  BY DEF Decrypt
<1>2. TypeOK /\ nr \in {0, 10, 14} /\ UNCHANGED <<round_keys, nr, key, nk, i>>
  BY <1>1, Sizes DEF IInv, schedule
<1>3. trail # <<>> => /\ trail \in Seq(State) /\ Len(trail) = nr + 1
                      /\ \A n \in 1 .. nr + 1 : trail[n] \in State
  <2>1. trail \in Seq(State) /\ (trail # <<>> => Len(trail) = nr + 1)
    BY <1>1, <1>2 DEF IInv, TypeOK, TrailIsRounds
  <2> QED BY <1>2, <2>1
<1>4. st \in State
  BY <1>2, <1>3, LoadState, BlockAssumption
<1>5. s' \in State /\ round' \in -1 .. nr' + 1
  <2>1. nr \in 0 .. nr /\ nr - 1 \in -1 .. nr + 1
    BY <1>2
  <2>2. AddRoundKey(st, nr) \in State
    BY <1>2, <1>4, <2>1, RoundState
  <2> QED BY <1>1, <1>2, <2>1, <2>2
<1>6. ExpandedSoFar' /\ RoundInRange'
  <2>1. round' \in -1 .. nr' - 1
    BY <1>1, <1>2
  <2> QED BY <1>1, <2>1, ExpandedUnchanged DEF IInv, RoundInRange
<1>7. CASE trail # <<>> /\ st = trail[nr + 1]
  <2>1. UNCHANGED <<text, trail>>
    BY <1>7 DEF Decrypt
  <2>2. TypeOK'
    BY <1>1, <1>2, <1>5, <2>1 DEF TypeOK
  <2>3. TrailIsRounds'
    BY <1>1, <1>3, <1>7, <2>1, TrailUnchanged DEF IInv
  <2>4. DecryptMirrors'
    <3>1. CASE nr = 0
      <4>1. st = AddRoundKey(text, 0) /\ text \in State
        BY <1>2, <1>7, <3>1 DEF IInv, TrailIsRounds, TypeOK
      <4>2. s' = text
        BY <1>1, <1>2, <3>1, <4>1, RoundState
      <4>3. round' = -1
        BY <1>1, <3>1
      <4> QED BY <2>1, <4>2, <4>3 DEF DecryptMirrors
    <3>2. CASE nr # 0
      <4>1. nr \in 1 .. Len(trail) - 1 /\ nr \in 1 .. nr + 1 /\ nr \in 0 .. nr /\ nr # -1
        BY <1>2, <1>3, <1>7, <3>2
      <4>2. st = RoundOf(trail[nr], nr) /\ trail[nr] \in State
        BY <1>3, <1>7, <4>1 DEF IInv, TrailIsRounds
      <4>3. st = AddRoundKey(ShiftRows(SubBytes(trail[nr])), nr)
        BY <1>2, <4>2 DEF RoundOf, Round, AddRoundKey, Add
      <4>4. ShiftRows(SubBytes(trail[nr])) \in State
        BY <1>2, <4>1, <4>2, RoundState
      <4>5. s' = ShiftRows(SubBytes(trail[nr]))
        BY <1>1, <1>2, <4>1, <4>3, <4>4, RoundState
      <4>6. round' # -1 /\ round' + 1 = nr
        BY <1>1, <1>2, <3>2
      <4> QED BY <2>1, <4>5, <4>6 DEF DecryptMirrors
    <3> QED BY <3>1, <3>2
  <2> QED BY <1>6, <2>2, <2>3, <2>4 DEF IInv
<1>8. CASE ~(trail # <<>> /\ st = trail[nr + 1])
  <2>1. text' = st /\ trail' = <<>>
    BY <1>8 DEF Decrypt
  <2>2. TypeOK'
    BY <1>1, <1>2, <1>4, <1>5, <2>1 DEF TypeOK
  <2>3. TrailIsRounds' /\ DecryptMirrors'
    BY <2>1 DEF TrailIsRounds, DecryptMirrors
  <2> QED BY <1>6, <2>2, <2>3 DEF IInv
<1> QED BY <1>7, <1>8

LEMMA DecryptRoundStep == IInv /\ DecryptRound => IInv'
<1> SUFFICES ASSUME IInv, DecryptRound PROVE IInv'
  OBVIOUS
<1> DEFINE t == AddRoundKey(InvSubBytes(InvShiftRows(s)), round)
<1>1. /\ pc = "decrypt" /\ pc' = pc /\ round >= 0 /\ round' = round - 1
      /\ s' = IF round > 0 THEN InvMixColumns(t) ELSE t
      /\ UNCHANGED <<schedule, text, trail>>
  BY DEF DecryptRound
<1>2. TypeOK /\ nr \in {0, 10, 14} /\ UNCHANGED <<round_keys, nr, key, nk, i>>
  BY <1>1, Sizes DEF IInv, schedule
<1>3. round \in 0 .. nr - 1 /\ round \in 0 .. nr
  <2>1. round \in -1 .. nr - 1
    BY <1>1 DEF IInv, RoundInRange
  <2> QED BY <1>1, <1>2, <2>1
<1>4. t \in State
  <2>1. InvSubBytes(InvShiftRows(s)) \in State
    BY <1>2, SubRoundTrip, ShiftRoundTrip DEF TypeOK
  <2> QED BY <1>2, <1>3, <2>1, RoundState
<1>5. s' \in State
  BY <1>1, <1>4, MixRoundTrip
<1>6. TypeOK'
  <2>1. round' \in -1 .. nr' + 1
    BY <1>1, <1>2, <1>3
  <2> QED BY <1>1, <1>2, <1>5, <2>1 DEF TypeOK
<1>7. ExpandedSoFar' /\ RoundInRange'
  <2>1. round' \in -1 .. nr' - 1
    BY <1>1, <1>2, <1>3
  <2> QED BY <1>1, <2>1, ExpandedUnchanged DEF IInv, RoundInRange
<1>8. TrailIsRounds'
  BY <1>1, TrailUnchanged DEF IInv, TrailIsRounds
<1>9. DecryptMirrors'
  <2> SUFFICES ASSUME trail # <<>>
               PROVE  s' = IF round = 0 THEN text ELSE ShiftRows(SubBytes(trail[round]))
    <3>1. round' = -1 <=> round = 0
      BY <1>1, <1>3
    <3>2. round' + 1 = round
      BY <1>1, <1>3
    <3> QED BY <1>1, <3>1, <3>2 DEF DecryptMirrors
  <2>1. /\ trail \in Seq(State) /\ Len(trail) = nr + 1 /\ text \in State
    BY <1>1, <1>2 DEF IInv, TypeOK, TrailIsRounds
  <2>2. /\ round # -1 /\ round + 1 \in 1 .. nr + 1
        /\ trail[round + 1] \in State
    BY <1>2, <1>3, <2>1
  <2>3. s = ShiftRows(SubBytes(trail[round + 1]))
    BY <1>1, <2>2 DEF IInv, DecryptMirrors
  <2>4. InvSubBytes(InvShiftRows(s)) = trail[round + 1]
    BY <1>2, <1>3, <2>2, <2>3, RoundState
  <2>5. CASE round = 0
    <3>1. trail[round + 1] = AddRoundKey(text, 0)
      BY <2>5 DEF IInv, TrailIsRounds
    <3>2. t = text
      <4>1. AddRoundKey(AddRoundKey(text, 0), 0) = text
        BY <1>2, <1>3, <2>1, <2>5, RoundState
      <4>2. t = AddRoundKey(AddRoundKey(text, 0), 0)
        BY <2>4, <2>5, <3>1
      <4> QED BY <4>1, <4>2
    <3> QED BY <1>1, <2>5, <3>2
  <2>6. CASE round # 0
    <3>1. round \in 1 .. Len(trail) - 1 /\ round < nr /\ round > 0 /\ round \in 1 .. nr + 1
      BY <1>2, <1>3, <2>1, <2>6
    <3> DEFINE u == ShiftRows(SubBytes(trail[round]))
    <3>2. trail[round + 1] = AddRoundKey(MixColumns(u), round)
      BY <3>1 DEF IInv, TrailIsRounds, RoundOf, Round, AddRoundKey, Add
    <3>3. u \in State /\ MixColumns(u) \in State
      <4>1. trail[round] \in State
        BY <2>1, <3>1
      <4> QED BY <1>2, <1>3, <4>1, RoundState, MixRoundTrip
    <3>4. t = MixColumns(u)
      <4> HIDE DEF u
      <4>1. AddRoundKey(AddRoundKey(MixColumns(u), round), round) = MixColumns(u)
        BY <1>2, <1>3, <3>3, RoundState
      <4>2. t = AddRoundKey(AddRoundKey(MixColumns(u), round), round)
        BY <2>4, <3>2
      <4> QED BY <4>1, <4>2
    <3>5. InvMixColumns(t) = u
      BY <3>3, <3>4, MixRoundTrip
    <3> QED BY <1>1, <2>6, <3>1, <3>5
  <2> QED BY <2>5, <2>6
<1> QED BY <1>6, <1>7, <1>8, <1>9 DEF IInv

LEMMA BlockReturnsStep == IInv /\ BlockReturns => IInv'
<1> SUFFICES ASSUME IInv, BlockReturns PROVE IInv'
  OBVIOUS
<1>1. /\ pc' = "idle" /\ s' = NoState /\ round' = 0
      /\ UNCHANGED <<schedule, text, trail>>
      /\ \/ pc = "encrypt" /\ ~(round <= nr)
         \/ pc = "decrypt"
  BY DEF BlockReturns, MoreRounds
<1>2. TypeOK /\ nr \in {0, 10, 14} /\ UNCHANGED <<round_keys, nr, key, nk, i>>
  BY <1>1, Sizes DEF IInv, schedule
<1>3. TypeOK'
  <2>1. round' \in -1 .. nr' + 1
    BY <1>1, <1>2
  <2> QED BY <1>1, <1>2, <2>1, NoStateIsState DEF TypeOK
<1>4. ExpandedSoFar' /\ RoundInRange' /\ DecryptMirrors'
  BY <1>1, ExpandedUnchanged DEF IInv, RoundInRange, DecryptMirrors
<1>5. TrailIsRounds'
  <2>1. trail # <<>> => Len(trail) = nr + 1
    <3>1. CASE pc = "encrypt" /\ ~(round <= nr)
      <4>1. round \in 1 .. nr + 1 /\ Len(trail) = round
        BY <3>1 DEF IInv, RoundInRange
      <4> QED BY <1>2, <3>1, <4>1
    <3>2. CASE pc = "decrypt"
      BY <3>2 DEF IInv, TrailIsRounds
    <3> QED BY <1>1, <3>1, <3>2
  <2>2. CASE trail = <<>>
    BY <1>1, <2>2 DEF TrailIsRounds
  <2>3. CASE trail # <<>>
    BY <1>1, <2>1, <2>3, TrailUnchanged DEF IInv
  <2> QED BY <2>2, <2>3
<1> QED BY <1>3, <1>4, <1>5 DEF IInv

LEMMA IInvStep == IInv /\ [Next]_vars => IInv'
<1> SUFFICES ASSUME IInv, [Next]_vars PROVE IInv'
  OBVIOUS
<1>1. CASE UNCHANGED vars
  <2>1. UNCHANGED <<schedule, pc, s, round, text, trail>>
        /\ UNCHANGED <<round_keys, nr, key, nk, i>>
    BY <1>1 DEF vars, schedule
  <2>2. TypeOK' /\ RoundInRange' /\ DecryptMirrors'
    BY <2>1 DEF IInv, TypeOK, RoundInRange, DecryptMirrors
  <2>3. ExpandedSoFar'
    BY <2>1, ExpandedUnchanged DEF IInv
  <2>4. TrailIsRounds'
    <3>1. \A n : RoundOf(trail[n], n)' = RoundOf(trail[n], n)
      BY <2>1 DEF RoundOf, Round, Add
    <3>2. AddRoundKey(text, 0)' = AddRoundKey(text, 0)
      BY <2>1 DEF AddRoundKey
    <3> QED BY <2>1, <3>1, <3>2 DEF IInv, TrailIsRounds
  <2> QED BY <2>2, <2>3, <2>4 DEF IInv
<1>2. CASE \E b \in Block : Decrypt(Load(b))
  BY <1>2, DecryptStep
<1>3. CASE trail # <<>> /\ Decrypt(trail[nr + 1])
  BY <1>3, DecryptStep
<1> QED
  BY <1>1, <1>2, <1>3, InitStep, ExpandStep, InitReturnsStep, EncryptStep,
     EncryptRoundStep, DecryptRoundStep, BlockReturnsStep DEF Next

-----------------------------------------------------------------------------
(* The schedule is right up to the word at hand, and the trail is a chain  *)
(* of rounds, in every reachable state of aes_init, aes_encrypt_block and  *)
(* aes_decrypt_block (aes.c:115-257).                                      *)
THEOREM AesBlockInvariance == Spec => []IInv
BY IInvInit, IInvStep, PTL DEF Spec

(* Every variable keeps its type; no word behind the last round key, and   *)
(* no round behind the last, is ever reached.                              *)
THEOREM BlockTypeCorrect == Spec => []TypeOK
<1>1. IInv => TypeOK BY DEF IInv
<1> QED BY <1>1, AesBlockInvariance, PTL

(* aes_init leaves the key expansion of FIPS 197 in the context, for every *)
(* set of keys and whatever the context held before (aes.c:115-142).       *)
THEOREM ExpandsTheKey == Spec => []ScheduleIsExpansion
<1>1. IInv => ScheduleIsExpansion
  <2> SUFFICES ASSUME IInv, nk # 0, pc # "expand" PROVE ScheduleIsExpansion
    BY DEF ScheduleIsExpansion
  <2>1. /\ \A n \in 0 .. nk - 1, r \in 0 .. 3 : round_keys[n][r] = key[4 * n + r]
        /\ \A n \in nk .. 4 * (nr + 1) - 1 : Recurrence(n)
    BY DEF IInv, ExpandedSoFar
  <2> QED BY <2>1, Zenon DEF ScheduleIsExpansion, Recurrence, NextWord
<1> QED BY <1>1, AesBlockInvariance, PTL

(* aes_decrypt_block undoes aes_encrypt_block round by round, for every    *)
(* key and every block (aes.c:147-257).                                    *)
THEOREM DecryptUndoesEncrypt == Spec => []DecryptMirrors
<1>1. IInv => DecryptMirrors BY DEF IInv
<1> QED BY <1>1, AesBlockInvariance, PTL

-----------------------------------------------------------------------------
(* The state machine computes the functions Aes and InvAes; under the      *)
(* zeroized schedule it returns the block as it is, as AesCbc has it.      *)
Given == IF trail = <<>> THEN text ELSE trail[nr + 1]

EncryptsAes ==
    pc = "encrypt" /\ round > nr =>
        Store(s) = IF nk = 0 THEN Store(text) ELSE Aes[key][Store(text)]
DecryptsAes ==
    pc = "decrypt" /\ round = -1 =>
        Store(s) = IF nk = 0 THEN Store(Given) ELSE InvAes[key][Store(Given)]

(* The invariant this takes: a decryption is under way as the function has *)
(* it, and the schedule is blank until the first key.                      *)
BlankUntilKeyed == nk = 0 => \A n \in 0 .. 59, r \in 0 .. 3 : round_keys[n][r] = {}
DecryptFollows ==
    pc = "decrypt" => s = Decryption(round_keys, nr, Given)[nr - 1 - round]

LEMMA GivenState == ASSUME IInv, pc = "decrypt" PROVE Given \in State
<1>1. TypeOK /\ nr \in 0 .. 14 /\ (trail # <<>> => Len(trail) = nr + 1)
  BY Sizes DEF IInv, TrailIsRounds
<1>2. trail # <<>> => trail[nr + 1] \in State
  <2>1. trail \in Seq(State)
    BY <1>1 DEF TypeOK
  <2>2. trail # <<>> => nr + 1 \in 1 .. Len(trail)
    BY <1>1
  <2> QED BY <2>1, <2>2
<1>3. text \in State
  BY <1>1 DEF TypeOK
<1> QED BY <1>2, <1>3 DEF Given

LEMMA BlankStep == IInv /\ BlankUntilKeyed /\ [Next]_vars => BlankUntilKeyed'
<1> SUFFICES ASSUME IInv, BlankUntilKeyed, [Next]_vars, nk' = 0
             PROVE  round_keys' = round_keys /\ nk = 0
  BY DEF BlankUntilKeyed
<1>1. ASSUME NEW k \in Key, aes_init(k) PROVE FALSE
  <2>1. nk' \in {4, 8}
    BY <1>1 DEF aes_init
  <2> QED BY <2>1
<1>2. CASE Expand
  <2>1. nk # 0 /\ nk' = nk
    BY <1>2 DEF Expand, IInv, TypeOK
  <2> QED BY <2>1
<1>3. CASE UNCHANGED schedule
  BY <1>3 DEF schedule
<1>4. InitReturns => UNCHANGED schedule
  BY DEF InitReturns
<1>5. \A b : Encrypt(b) => UNCHANGED schedule
  BY DEF Encrypt
<1>6. \A st : Decrypt(st) => UNCHANGED schedule
  BY DEF Decrypt
<1>7. (EncryptRound => UNCHANGED schedule) /\ (DecryptRound => UNCHANGED schedule)
  BY DEF EncryptRound, DecryptRound
<1>8. BlockReturns => UNCHANGED schedule
  BY DEF BlockReturns
<1>9. UNCHANGED vars => UNCHANGED schedule
  BY DEF vars, schedule
<1> QED BY <1>1, <1>2, <1>3, <1>4, <1>5, <1>6, <1>7, <1>8, <1>9 DEF Next

LEMMA DecryptBegins ==
    ASSUME IInv, NEW st \in State, Decrypt(st)
    PROVE  DecryptFollows'
<1>1. /\ s' = AddRoundKey(st, nr) /\ round' = nr - 1 /\ UNCHANGED schedule
  BY DEF Decrypt
<1>2. round_keys' = round_keys /\ nr' = nr
  BY <1>1 DEF schedule
<1>3. Given' = st
  <2>1. CASE trail # <<>> /\ st = trail[nr + 1]
    BY <1>2, <2>1 DEF Decrypt, Given
  <2>2. CASE ~(trail # <<>> /\ st = trail[nr + 1])
    BY <2>2 DEF Decrypt, Given
  <2> QED BY <2>1, <2>2
<1>4. nr \in 0 .. 14 /\ round_keys \in Schedule
  BY Sizes DEF IInv, TypeOK, Schedule
<1>5. Decryption(round_keys, nr, st)[0] = Add(round_keys, st, nr)
  BY <1>4, DecryptionFacts
<1>6. nr' - 1 - round' = 0
  BY <1>1, <1>2, <1>4
<1> QED BY <1>1, <1>2, <1>3, <1>5, <1>6 DEF DecryptFollows, AddRoundKey, Add

LEMMA DecryptGoesOn == IInv /\ DecryptFollows /\ DecryptRound => DecryptFollows'
<1> SUFFICES ASSUME IInv, DecryptFollows, DecryptRound PROVE DecryptFollows'
  OBVIOUS
<1>1. /\ pc = "decrypt" /\ round >= 0 /\ round' = round - 1
      /\ s' = InvRound(round_keys, s, round) /\ UNCHANGED <<schedule, text, trail>>
  BY DEF DecryptRound, InvRound, AddRoundKey, Add
<1>2. round_keys' = round_keys /\ nr' = nr /\ Given' = Given
  BY <1>1 DEF schedule, Given
<1>3. /\ nr \in 0 .. 14 /\ round_keys \in Schedule /\ round \in -1 .. nr - 1
  BY <1>1, Sizes DEF IInv, TypeOK, Schedule, RoundInRange
<1> DEFINE d == Decryption(round_keys, nr, Given)
           n == nr - round
<1>4. /\ n \in 1 .. nr /\ nr - n = round /\ n - 1 = nr - 1 - round
      /\ nr' - 1 - round' = n
  BY <1>1, <1>2, <1>3
<1>5. d[n] = InvRound(round_keys, d[n - 1], nr - n)
  <2> HIDE DEF n
  <2> QED BY <1>1, <1>3, <1>4, GivenState, DecryptionFacts
<1>6. s = d[n - 1]
  BY <1>1, <1>4 DEF DecryptFollows
<1>7. s' = d[n]
  BY <1>1, <1>4, <1>5, <1>6
<1> HIDE DEF n
<1> QED BY <1>2, <1>4, <1>7 DEF DecryptFollows

LEMMA DecryptFollowsStep == IInv /\ DecryptFollows /\ [Next]_vars => DecryptFollows'
<1> SUFFICES ASSUME IInv, DecryptFollows, [Next]_vars PROVE DecryptFollows'
  OBVIOUS
<1>1. ASSUME NEW k \in Key, aes_init(k) PROVE pc' # "decrypt"
  BY <1>1 DEF aes_init
<1>2. (Expand => pc' = "expand") /\ (InitReturns => pc' = "idle")
  BY DEF Expand, InitReturns
<1>3. (EncryptRound => pc' = "encrypt") /\ (BlockReturns => pc' = "idle")
  BY DEF EncryptRound, BlockReturns
<1>4. ASSUME NEW b \in Block PROVE /\ Encrypt(b) => pc' = "encrypt"
                                   /\ Decrypt(Load(b)) => DecryptFollows'
  <2>1. Load(b) \in State
    BY BlockAssumption, LoadState
  <2> QED BY <2>1, DecryptBegins DEF Encrypt
<1>5. CASE trail # <<>> /\ Decrypt(trail[nr + 1])
  <2>1. pc = "idle" /\ TypeOK /\ nr \in 0 .. 14 /\ Len(trail) = nr + 1
    BY <1>5, Sizes DEF Decrypt, IInv, TrailIsRounds
  <2>2. trail[nr + 1] \in State
    <3>1. trail \in Seq(State) /\ nr + 1 \in 1 .. Len(trail)
      BY <2>1 DEF TypeOK
    <3> QED BY <3>1
  <2> QED BY <1>5, <2>2, DecryptBegins
<1>6. CASE UNCHANGED vars
  <2>1. DecryptFollows' <=> DecryptFollows
    BY <1>6 DEF vars, DecryptFollows, Given
  <2> QED BY <2>1
<1>7. (pc' # "decrypt") => DecryptFollows'
  BY DEF DecryptFollows
<1> QED BY <1>1, <1>2, <1>3, <1>4, <1>5, <1>6, <1>7, DecryptGoesOn DEF Next

(* An encryption is under way as the function has it: so says its trail.   *)
LEMMA EncryptFollows ==
    ASSUME IInv, pc = "encrypt", round > nr
    PROVE  s = Encryption(round_keys, nr, text)[nr]
<1>1. /\ TypeOK /\ nr \in 0 .. 14 /\ round_keys \in Schedule /\ text \in State
      /\ trail # <<>> /\ round = nr + 1 /\ Len(trail) = nr + 1 /\ s = trail[nr + 1]
  <2>1. TypeOK /\ nr \in 0 .. 14 /\ round \in 1 .. nr + 1
    BY Sizes DEF IInv, RoundInRange
  <2>2. round = nr + 1
    BY <2>1
  <2> QED BY <2>1, <2>2 DEF IInv, TypeOK, Schedule, RoundInRange
<1> DEFINE e == Encryption(round_keys, nr, text)
           S == {n \in Nat : trail[n + 1] = e[n]}
<1>2. e[0] = Add(round_keys, text, 0)
      /\ \A n \in 1 .. nr : e[n] = Round(round_keys, nr, e[n - 1], n)
  BY <1>1, EncryptionFacts
<1> HIDE DEF e
<1>3. /\ trail[1] = Add(round_keys, text, 0)
      /\ \A n \in 1 .. nr : trail[n + 1] = Round(round_keys, nr, trail[n], n)
  <2>1. Len(trail) - 1 = nr
    BY <1>1
  <2> QED BY <1>1, <2>1 DEF IInv, TrailIsRounds, AddRoundKey, Add, RoundOf
<1>4. 0 \in S
  BY <1>2, <1>3
<1>5. ASSUME NEW n \in 0 .. nr - 1, n \in S PROVE n + 1 \in S
  <2>1. n + 1 \in 1 .. nr /\ (n + 1) - 1 = n /\ n + 1 \in Nat
    BY <1>1
  <2>2. trail[(n + 1) + 1] = Round(round_keys, nr, trail[n + 1], n + 1)
    BY <1>3, <2>1
  <2>3. e[n + 1] = Round(round_keys, nr, e[n], n + 1)
    BY <1>2, <2>1
  <2> QED BY <1>5, <2>1, <2>2, <2>3
<1> HIDE DEF S
<1>6. 0 .. nr \subseteq S /\ nr \in 0 .. nr
  BY <1>1, <1>4, <1>5, Induction
<1> QED BY <1>1, <1>6 DEF S, e

(* What the schedule in the context makes of a block.                      *)
LEMMA ContextCipher ==
    ASSUME IInv, BlankUntilKeyed, pc # "expand", NEW st \in State
    PROVE  /\ Store(Encryption(round_keys, nr, st)[nr])
                = IF nk = 0 THEN Store(st) ELSE Aes[key][Store(st)]
           /\ Store(Decryption(round_keys, nr, st)[nr])
                = IF nk = 0 THEN Store(st) ELSE InvAes[key][Store(st)]
<1>1. TypeOK /\ round_keys \in Schedule /\ nr \in 0 .. 14
  BY Sizes DEF IInv, TypeOK, Schedule
<1>2. CASE nk = 0
  <2>1. nr = 0
    BY <1>1, <1>2 DEF TypeOK
  <2>2. Add(round_keys, st, 0) = st
    <3>1. \A p \in Cell : 4 * 0 + p[2] \in 0 .. 59 /\ p[1] \in 0 .. 3
      BY DEF Cell
    <3>2. \A p \in Cell : round_keys[4 * 0 + p[2]][p[1]] = {}
      BY <1>2, <3>1 DEF BlankUntilKeyed
    <3>3. st = [p \in Cell |-> st[p]]
      BY DEF State
    <3> QED BY <3>2, <3>3, XorFacts DEF Add
  <2>3. Encryption(round_keys, 0, st)[0] = st /\ Decryption(round_keys, 0, st)[0] = st
    BY <1>1, <2>1, <2>2, EncryptionFacts, DecryptionFacts
  <2> QED BY <1>2, <2>1, <2>3
<1>3. CASE nk # 0
  <2>1. /\ key \in Key /\ DOMAIN key = 0 .. 4 * nk - 1
        /\ (nr = 10 /\ nk = 4) \/ (nr = 14 /\ nk = 8)
    BY <1>1, <1>3 DEF TypeOK
  <2>2. key \in AesKey
    BY <2>1, BlockAssumption DEF AesKey
  <2>3. nk = Nk(key) /\ nr = Nr(key)
    <3>1. CASE nk = 4
      <4>1. DOMAIN key = 0 .. 15
        BY <2>1, <3>1
      <4> QED BY <2>1, <3>1, <4>1 DEF Nk, Nr
    <3>2. CASE nk = 8
      <4>1. 31 \in DOMAIN key /\ 31 \notin 0 .. 15
        BY <2>1, <3>2
      <4>2. DOMAIN key # 0 .. 15
        BY <4>1
      <4> QED BY <2>1, <3>2, <4>2 DEF Nk, Nr
    <3> QED BY <2>1, <3>1, <3>2
  <2>4. HoldsKey(round_keys, key, Words(key))
    <3>1. i = Words(key)
      BY <1>3, <2>3 DEF IInv, ExpandedSoFar, Words
    <3> QED BY <1>3, <2>3, <3>1 DEF IInv, ExpandedSoFar, HoldsKey, Recurrence
  <2>5. /\ Encryption(round_keys, nr, st) = Encryption(ExpandedKey(key), Nr(key), st)
        /\ Decryption(round_keys, nr, st) = Decryption(ExpandedKey(key), Nr(key), st)
    BY <1>1, <2>2, <2>3, <2>4, SameRoundKeys
  <2>6. Store(st) \in Bytes(16) /\ Load(Store(st)) = st
    BY LoadStore
  <2>7. /\ Aes[key][Store(st)] = Store(Encryption(ExpandedKey(key), Nr(key), st)[Nr(key)])
        /\ InvAes[key][Store(st)] = Store(Decryption(ExpandedKey(key), Nr(key), st)[Nr(key)])
    BY <2>2, <2>6 DEF Aes, InvAes
  <2> QED BY <1>3, <2>3, <2>5, <2>7
<1> QED BY <1>2, <1>3

(* Besides, a context that was never keyed is blank, so that its rounds    *)
(* change nothing, and a decryption follows the rounds of its schedule     *)
(* also when its block comes from outside (aes.c:205-257).                 *)
THEOREM CipherInvariance == Spec => [](IInv /\ BlankUntilKeyed /\ DecryptFollows)
<1>1. Init => BlankUntilKeyed /\ DecryptFollows
  <2> SUFFICES ASSUME Init PROVE BlankUntilKeyed /\ DecryptFollows
    OBVIOUS
  <2>1. \A n \in 0 .. 59, r \in 0 .. 3 : round_keys[n][r] = {}
    BY DEF Init
  <2> QED BY <2>1 DEF Init, BlankUntilKeyed, DecryptFollows
<1> QED BY <1>1, IInvInit, IInvStep, BlankStep, DecryptFollowsStep, PTL DEF Spec

(* aes_encrypt_block returns the AES ciphertext of its block under the key *)
(* of the last aes_init, whatever was in the context before (aes.c:147).   *)
THEOREM EncryptionIsAes == Spec => []EncryptsAes
<1>1. IInv /\ BlankUntilKeyed => EncryptsAes
  <2> SUFFICES ASSUME IInv, BlankUntilKeyed, pc = "encrypt", round > nr
               PROVE  Store(s) = IF nk = 0 THEN Store(text) ELSE Aes[key][Store(text)]
    BY DEF EncryptsAes
  <2>1. text \in State
    BY DEF IInv, TypeOK
  <2> QED BY <2>1, EncryptFollows, ContextCipher
<1> QED BY <1>1, CipherInvariance, PTL

(* aes_decrypt_block returns the block whose ciphertext it was given, also *)
(* when that was none of its own (aes.c:194).                              *)
THEOREM DecryptionIsInverse == Spec => []DecryptsAes
<1>1. IInv /\ BlankUntilKeyed /\ DecryptFollows => DecryptsAes
  <2> SUFFICES ASSUME IInv, BlankUntilKeyed, DecryptFollows, pc = "decrypt", round = -1
               PROVE  Store(s) = IF nk = 0 THEN Store(Given) ELSE InvAes[key][Store(Given)]
    BY DEF DecryptsAes
  <2>1. nr \in 0 .. 14 /\ nr - 1 - round = nr
    BY Sizes DEF IInv
  <2>2. s = Decryption(round_keys, nr, Given)[nr]
    BY <2>1 DEF DecryptFollows
  <2> QED BY <2>2, GivenState, ContextCipher
<1> QED BY <1>1, CipherInvariance, PTL

=============================================================================
