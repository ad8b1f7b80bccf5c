---------------------------- MODULE MCHmacSha256 ----------------------------
(* Instance of HmacSha256 for TLC: blocks of 4 bytes, digests of 2, keys   *)
(* shorter than, equal to and longer than a block, messages up to two      *)
(* blocks, and a bit counter that wraps (at 8 bytes) under a masked block  *)
(* and a full message.                                                     *)
EXTENDS HmacSha256, SequencesExt
MCByte == {<<n>> : n \in 0 .. 3}
MCWeight == <<4, 1>>
MCKey == {<<>>, <<<<1>>>>, <<<<1>>, <<3>>, <<0>>, <<1>>>>,
          <<<<3>>, <<3>>, <<1>>, <<0>>, <<2>>>>,
          [i \in 1 .. 9 |-> <<1>>]}
MCChunk == BoundedSeq({<<0>>, <<2>>}, 2) \cup {<<<<0>>, <<1>>, <<2>>>>, <<<<0>>, <<1>>, <<2>>, <<2>>, <<0>>>>}
MCJunk == {[i \in 1 .. 4 |-> <<0>>], [i \in 1 .. 4 |-> <<3>>]}
=============================================================================
