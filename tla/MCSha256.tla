------------------------------ MODULE MCSha256 ------------------------------
(* Instance of Sha256 for TLC.  Two-bit bytes: 0 and 2 are the zero and    *)
(* the marker of the padding, so a message may look like its own padding.  *)
(* Blocks of 5 bytes with a length field of 2; the counter wraps at 16     *)
(* bits, 8 bytes, inside the message bound.                                *)
EXTENDS Sha256, SequencesExt
MCByte == {<<n>> : n \in 0 .. 3}
MCWeight == <<4, 1>>
MCChunk == BoundedSeq({<<0>>, <<2>>}, 4) \cup {<<<<2>>, <<0>>, <<0>>, <<2>>, <<0>>, <<0>>, <<2>>, <<0>>, <<0>>, <<2>>, <<0>>>>}
=============================================================================
