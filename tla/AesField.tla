------------------------------ MODULE AesField ------------------------------
(***************************************************************************)
(* Bytes, tables and the field arithmetic of src/aes.c.  A byte is the set *)
(* of its bits that are 1, so that ^ is symmetric difference; a word is    *)
(* its four bytes, the most significant first, so load32 and store32 have  *)
(* nothing to do.                                                          *)
(***************************************************************************)
EXTENDS Integers, Sequences

Byte == SUBSET (0 .. 7)
Word == [0 .. 3 -> Byte]

Xor(a, b) == (a \ b) \cup (b \ a)
XorWord(u, v) == [r \in 0 .. 3 |-> Xor(u[r], v[r])]

Bits(x) == {i \in 0 .. 7 : (x \div 2^i) % 2 = 1}
Bit(b, i) == IF i \in b THEN 2^i ELSE 0
Number(b) == Bit(b, 0) + Bit(b, 1) + Bit(b, 2) + Bit(b, 3)
             + Bit(b, 4) + Bit(b, 5) + Bit(b, 6) + Bit(b, 7)

Sbox == <<
     99, 124, 119, 123, 242, 107, 111, 197,  48,   1, 103,  43, 254, 215, 171, 118,
    202, 130, 201, 125, 250,  89,  71, 240, 173, 212, 162, 175, 156, 164, 114, 192,
    183, 253, 147,  38,  54,  63, 247, 204,  52, 165, 229, 241, 113, 216,  49,  21,
      4, 199,  35, 195,  24, 150,   5, 154,   7,  18, 128, 226, 235,  39, 178, 117,
      9, 131,  44,  26,  27, 110,  90, 160,  82,  59, 214, 179,  41, 227,  47, 132,
     83, 209,   0, 237,  32, 252, 177,  91, 106, 203, 190,  57,  74,  76,  88, 207,
    208, 239, 170, 251,  67,  77,  51, 133,  69, 249,   2, 127,  80,  60, 159, 168,
     81, 163,  64, 143, 146, 157,  56, 245, 188, 182, 218,  33,  16, 255, 243, 210,
    205,  12,  19, 236,  95, 151,  68,  23, 196, 167, 126,  61, 100,  93,  25, 115,
     96, 129,  79, 220,  34,  42, 144, 136,  70, 238, 184,  20, 222,  94,  11, 219,
    224,  50,  58,  10,  73,   6,  36,  92, 194, 211, 172,  98, 145, 149, 228, 121,
    231, 200,  55, 109, 141, 213,  78, 169, 108,  86, 244, 234, 101, 122, 174,   8,
    186, 120,  37,  46,  28, 166, 180, 198, 232, 221, 116,  31,  75, 189, 139, 138,
    112,  62, 181, 102,  72,   3, 246,  14,  97,  53,  87, 185, 134, 193,  29, 158,
    225, 248, 152,  17, 105, 217, 142, 148, 155,  30, 135, 233, 206,  85,  40, 223,
    140, 161, 137,  13, 191, 230,  66, 104,  65, 153,  45,  15, 176,  84, 187,  22 >>

InvSbox == <<
     82,   9, 106, 213,  48,  54, 165,  56, 191,  64, 163, 158, 129, 243, 215, 251,
    124, 227,  57, 130, 155,  47, 255, 135,  52, 142,  67,  68, 196, 222, 233, 203,
     84, 123, 148,  50, 166, 194,  35,  61, 238,  76, 149,  11,  66, 250, 195,  78,
      8,  46, 161, 102,  40, 217,  36, 178, 118,  91, 162,  73, 109, 139, 209,  37,
    114, 248, 246, 100, 134, 104, 152,  22, 212, 164,  92, 204,  93, 101, 182, 146,
    108, 112,  72,  80, 253, 237, 185, 218,  94,  21,  70,  87, 167, 141, 157, 132,
    144, 216, 171,   0, 140, 188, 211,  10, 247, 228,  88,   5, 184, 179,  69,   6,
    208,  44,  30, 143, 202,  63,  15,   2, 193, 175, 189,   3,   1,  19, 138, 107,
     58, 145,  17,  65,  79, 103, 220, 234, 151, 242, 207, 206, 240, 180, 230, 115,
    150, 172, 116,  34, 231, 173,  53, 133, 226, 249,  55, 232,  28, 117, 223, 110,
     71, 241,  26, 113,  29,  41, 197, 137, 111, 183,  98,  14, 170,  24, 190,  27,
    252,  86,  62,  75, 198, 210, 121,  32, 154, 219, 192, 254, 120, 205,  90, 244,
     31, 221, 168,  51, 136,   7, 199,  49, 177,  18,  16,  89,  39, 128, 236,  95,
     96,  81, 127, 169,  25, 181,  74,  13,  45, 229, 122, 159, 147, 201, 156, 239,
    160, 224,  59,  77, 174,  42, 245, 176, 200, 235, 187,  60, 131,  83, 153,  97,
     23,  43,   4, 126, 186, 119, 214,  38, 225, 105,  20,  99,  85,  33,  12, 125 >>

SBOX == [b \in Byte |-> Bits(Sbox[Number(b) + 1])]
INV_SBOX == [b \in Byte |-> Bits(InvSbox[Number(b) + 1])]

(* The round constants, from index 1 on.                                   *)
RCON == [i \in 1 .. 10 |-> Bits(<<1, 2, 4, 8, 16, 32, 64, 128, 27, 54>>[i])]

sub_word(w) == [r \in 0 .. 3 |-> SBOX[w[r]]]
rot_word(w) == [r \in 0 .. 3 |-> w[(r + 1) % 4]]

\* A plausible slip: another irreducible polynomial, 0x1d for 0x1b.
doubled_OtherPolynomial(a) == Xor({i + 1 : i \in a \ {7}}, IF 7 \in a THEN {0, 2, 3, 4} ELSE {})

(* a << 1, reduced by x^8 + x^4 + x^3 + x + 1.                             *)
doubled(a) == Xor({i + 1 : i \in a \ {7}}, IF 7 \in a THEN {0, 1, 3, 4} ELSE {})

(* One iteration of gmul, on p and the shifted a, and all eight of them.   *)
GmulStep(x, n, b) == [p |-> IF n \in b THEN Xor(x.p, x.a) ELSE x.p, a |-> doubled(x.a)]
FourSteps(x, n, b) ==
    GmulStep(GmulStep(GmulStep(GmulStep(x, n, b), n + 1, b), n + 2, b), n + 3, b)
gmul(a, b) == FourSteps(FourSteps([p |-> {}, a |-> a], 0, b), 4, b).p

(* The factors of MixColumns and of its inverse; row r of the matrix is    *)
(* row 0 moved r places to the right.                                      *)
MixRow == <<2, 3, 1, 1>>
InvMixRow == <<14, 11, 13, 9>>
Times == [k \in {1, 2, 3, 9, 11, 13, 14} |->
             [a \in Byte |-> IF k = 1 THEN a ELSE gmul(a, Bits(k))]]
Mix(r, k) == Times[MixRow[((k - r) % 4) + 1]]
InvMix(r, k) == Times[InvMixRow[((k - r) % 4) + 1]]

Xor4(a, b, c, d) == Xor(Xor(Xor(a, b), c), d)

-----------------------------------------------------------------------------
(* Facts about these tables, over all bytes: INV_SBOX undoes SBOX, and the *)
(* matrices of MixColumns and InvMixColumns are inverse.                   *)
ASSUME SboxAssumption ==
    \A b \in Byte : /\ SBOX[b] \in Byte /\ INV_SBOX[b] \in Byte
                    /\ INV_SBOX[SBOX[b]] = b /\ SBOX[INV_SBOX[b]] = b

ASSUME RconAssumption == RCON \in [1 .. 10 -> Byte]

ASSUME MixAssumption ==
    \A r, k \in 0 .. 3 :
        /\ \A a \in Byte : Mix(r, k)[a] \in Byte /\ InvMix(r, k)[a] \in Byte
        /\ \A a \in Byte :
             /\ Xor4(InvMix(r, 0)[Mix(0, k)[a]], InvMix(r, 1)[Mix(1, k)[a]],
                     InvMix(r, 2)[Mix(2, k)[a]], InvMix(r, 3)[Mix(3, k)[a]])
                  = IF r = k THEN a ELSE {}
             /\ Xor4(Mix(r, 0)[InvMix(0, k)[a]], Mix(r, 1)[InvMix(1, k)[a]],
                     Mix(r, 2)[InvMix(2, k)[a]], Mix(r, 3)[InvMix(3, k)[a]])
                  = IF r = k THEN a ELSE {}

=============================================================================
