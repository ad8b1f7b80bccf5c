----------------------------- MODULE MCAesBlock -----------------------------
(* Instance of AesBlock for TLC: the keys and blocks of FIPS 197, appendix *)
(* B (AES-128), C.1 (AES-128) and C.3 (AES-256), in every order.           *)
EXTENDS AesBlock
MCBytes(q) == [n \in 0 .. Len(q) - 1 |-> Bits(q[n + 1])]
MCUpTo(n) == [p \in 0 .. n - 1 |-> Bits(p)]
MCBlockC == [p \in 0 .. 15 |-> Bits(17 * p)]
MCKnown ==
    {[key |-> MCUpTo(16), block |-> MCBlockC,
      cipher |-> MCBytes(<<105, 196, 224, 216, 106, 123, 4, 48,
                           216, 205, 183, 128, 112, 180, 197, 90>>)],
     [key |-> MCUpTo(32), block |-> MCBlockC,
      cipher |-> MCBytes(<<142, 162, 183, 202, 81, 103, 69, 191,
                           234, 252, 73, 144, 75, 73, 96, 137>>)],
     [key |-> MCBytes(<<43, 126, 21, 22, 40, 174, 210, 166,
                        171, 247, 21, 136, 9, 207, 79, 60>>),
      block |-> MCBytes(<<50, 67, 246, 168, 136, 90, 48, 141,
                          49, 49, 152, 162, 224, 55, 7, 52>>),
      cipher |-> MCBytes(<<57, 37, 132, 29, 2, 220, 9, 251,
                           220, 17, 133, 151, 25, 106, 11, 50>>)]}
MCKey == {v.key : v \in MCKnown}
MCBlock == {v.block : v \in MCKnown}
=============================================================================
