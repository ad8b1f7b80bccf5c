---------------------------- MODULE MCAcvpRunner ----------------------------
(* Instance of AcvpRunner for TLC: for each algorithm every request of one *)
(* group of up to two cases or two groups of one (AES in both directions), *)
(* from a menu of cases as the generator writes them, cases with a wrong   *)
(* expected value, and cases it never writes; and the files that are       *)
(* refused as a whole.                                                     *)
EXTENDS AcvpRunner, TLC

MCHex(v, n) == [form |-> "hex", len |-> n, val |-> v]
MCBad(v, n, f) == [form |-> f, len |-> n, val |-> v]
Good(c, ref) == [c EXCEPT !.expected = ref]

MCAes(key, iv, in, expected, complete) ==
    [key |-> key, iv |-> iv, in |-> in, expected |-> expected, complete |-> complete]
MCAesFor(dir, k, n, v, len) ==
    LET c == MCAes(MCHex(k, n), MCHex("iv", 16), MCHex(v, len), NoOutput, TRUE)
    IN  [c EXCEPT !.expected = Hex(Cbc(dir, c), len)]
MCAesGood(k, n, v, len) == MCAesFor("encrypt", k, n, v, len)
MCAesMenu ==
    {MCAesGood("k1", 32, "m1", 16), MCAesGood("k2", 16, "m2", 256),
     MCAesFor("decrypt", "k2", 16, "m1", 32),
     [MCAesGood("k1", 32, "m2", 32) EXCEPT !.expected = Hex(<<"other">>, 32)],
     MCAesGood("k3", 24, "m1", 16), MCAesGood("k1", 32, "m3", 17),
     [MCAesGood("k2", 16, "m3", 17) EXCEPT !.expected = Hex(<<"left", {}>>, 17)],
     MCAes(MCBad("k1", 32, "nonhex"), MCHex("iv", 16), MCHex("m1", 16), NoOutput, TRUE),
     MCAes(MCHex("k1", 32), MCHex("iv", 8), MCHex("m1", 16), NoOutput, TRUE),
     MCAes(MCHex("k1", 32), MCHex("iv", 16), MCBad("m1", 16, "odd"), NoOutput, TRUE),
     MCAes(MCHex("k1", 32), MCHex("iv", 16), MCHex("m1", 272), NoOutput, TRUE),
     MCAes(MCHex("k1", 32), MCHex("iv", 16), MCHex("m1", 16), NoOutput, FALSE)}

MCSha(msg, len, expected) ==
    [msg |-> msg, len |-> len, expected |-> expected, complete |-> TRUE]
MCShaMenu ==
    {MCSha(MCHex("none", 0), 0, Hex(Sha("empty"), 32)),
     MCSha(MCHex("m1", 64), 512, Hex(Sha("m1"), 32)),
     MCSha(MCHex("m2", 1), 8, Hex(Sha("m1"), 32)),
     MCSha(MCHex("none", 0), 8, NoOutput),
     MCSha(MCHex("m1", 5), 0, Hex(Sha("m1"), 32)), MCSha(MCHex("m1", 5), 80, Hex(Sha("m1"), 32)),
     MCSha(MCBad("m2", 5, "nonhex"), 40, NoOutput),
     MCSha(MCHex("m1", 257), 2056, NoOutput)}

MCHmac(key, msg) ==
    [key |-> key, msg |-> msg, expected |-> NoOutput, complete |-> TRUE]
MCHmacGood(k, n, m, len) ==
    LET c == MCHmac(MCHex(k, n), MCHex(m, len)) IN [c EXCEPT !.expected = Hex(Mac(c), 16)]
MCHmacMenu ==
    {MCHmacGood("k1", 64, "m1", 32), MCHmacGood("k2", 1, "m2", 0),
     [MCHmacGood("k2", 16, "m1", 32) EXCEPT !.expected = Hex(<<"other">>, 16)],
     MCHmac(MCHex("k1", 65), MCHex("m1", 32)), MCHmac(MCHex("k1", 0), MCHex("m1", 32)),
     MCHmac(MCHex("k1", 16), MCBad("m1", 32, "odd")),
     MCHmac(MCBad("k1", 16, "nonhex"), MCHex("m1", 32))}

MCKdf(keyLen, iterations, salt_len, expected) ==
    [password |-> "pw", salt |-> [val |-> "salt", len |-> salt_len],
     iterationCount |-> iterations, keyLen |-> keyLen, expected |-> expected, complete |-> TRUE]
MCKdfGood(keyLen, its) ==
    Good(MCKdf(keyLen, its, 16, NoOutput),
         Hex(Derived(MCKdf(keyLen, its, 16, NoOutput)), keyLen \div 8))
MCKdfMenu ==
    {MCKdfGood(8, 1), MCKdfGood(512, 10000), MCKdf(256, 1, 16, Hex(<<"other">>, 32)),
     MCKdf(0, 1, 16, NoOutput), MCKdfGood(12, 1), MCKdf(520, 1, 16, NoOutput), MCKdf(256, 0, 16, NoOutput),
     MCKdf(256, 1, 513, NoOutput)}

MCMenu == [alg \in {"ACVP-AES-CBC", "ACVP-SHA2-256", "ACVP-HMAC-SHA2-256", "ACVP-KDF-PBKDF2"} |->
             CASE alg = "ACVP-AES-CBC" -> MCAesMenu [] alg = "ACVP-SHA2-256" -> MCShaMenu
               [] alg = "ACVP-HMAC-SHA2-256" -> MCHmacMenu [] OTHER -> MCKdfMenu]
MCTests(cs) == [n \in DOMAIN cs |-> cs[n] @@ [tcId |-> n]]
MCGroup(id, cs) == [tgId |-> id, direction |-> "encrypt", macLen |-> 128, tests |-> MCTests(cs)]
MCDecryptGroup(id, cs) == [MCGroup(id, cs) EXCEPT !.direction = "decrypt"]
MCGroups(m) ==
    {<<>>} \cup {<<MCGroup(1, <<c>>)>> : c \in m}
    \cup {<<MCGroup(1, p)>> : p \in m \X m}
    \cup {<<MCGroup(1, <<p[1]>>), MCGroup(2, <<p[2]>>)>> : p \in m \X m}
    \cup {<<MCGroup(1, <<>>), MCGroup(2, <<c>>)>> : c \in m}
MCDecryptGroups ==
    UNION {{<<MCDecryptGroup(1, <<p[1]>>), MCGroup(2, <<p[2]>>)>>,
            <<MCGroup(1, <<p[1]>>), MCDecryptGroup(2, <<p[2]>>)>>} : p \in MCAesMenu \X MCAesMenu}
MCRequest ==
    {[kind |-> "supported", algorithm |-> alg, groups |-> gs] :
        <<alg, gs>> \in UNION {{a} \X MCGroups(MCMenu[a]) : a \in DOMAIN MCMenu}}
    \cup {[kind |-> "supported", algorithm |-> "ACVP-AES-CBC", groups |-> gs] :
             gs \in MCDecryptGroups}
    \cup {[kind |-> k, algorithm |-> "none", groups |-> <<>>] :
            k \in {"unreadable", "unparsable", "incomplete", "unsupported"}}
=============================================================================
