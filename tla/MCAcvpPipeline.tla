--------------------------- MODULE MCAcvpPipeline ---------------------------
(* Instance of AcvpPipeline for TLC: three algorithms, one with two groups *)
(* that number their cases alike, one with the fixed empty-message case    *)
(* and one with a single group; vectors generated up to twice.             *)
EXTENDS AcvpPipeline
MCAlgOrder == <<"aes_cbc", "sha256", "pbkdf2">>
MCCases == [aes_cbc |-> {<<1, 1>>, <<2, 1>>}, sha256 |-> {<<1, 1>>, <<1, 2>>},
            pbkdf2 |-> {<<1, 1>>}]
MCFixed == {<<"sha256", <<1, 1>>>>}
=============================================================================
