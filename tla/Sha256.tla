------------------------------- MODULE Sha256 -------------------------------
(***************************************************************************)
(* src/sha256.c: one context under any sequence of sha256_init, _update    *)
(* and _final, including the orders no caller should use (an update after  *)
(* a final, a final twice).  The update loop runs one iteration per step.  *)
(***************************************************************************)
EXTENDS Sha256Ctx

CONSTANTS Chunk,      \* the byte strings passed to one sha256_update
          MaxLen      \* bound on the length of a message
ASSUME ChunkAssumption == Chunk \subseteq Seq(Byte) /\ MaxLen \in Nat

VARIABLES ctx,      \* the SHA256_CTX; starts zero, as static storage does
          data,     \* what sha256_update has not copied yet
          pc,       \* "idle", or "update" while sha256_update loops
          digest    \* what the call that just returned wrote to digest[]

vars == <<ctx, data, pc, digest>>

NoDigest == Digest("none", <<>>)

(* The message of the context: compressed, buffered and still to be copied.*)
Message == Absorbed(ctx) \o data

Init == /\ ctx = ZeroCtx
        /\ data = <<>>
        /\ pc = "idle"
        /\ digest = NoDigest

InitCall == /\ pc = "idle"
            /\ ctx' = sha256_init(ctx)
            /\ digest' = NoDigest
            /\ UNCHANGED <<data, pc>>

\* A plausible slip: the bits are counted only for chunks that fill a block.
UpdateCall_CountsBlocks(chunk) ==
    /\ pc = "idle"
    /\ Len(Message) + Len(chunk) <= MaxLen
    /\ ctx' = IF Len(chunk) < BlockSize THEN ctx ELSE CountBits(ctx, Len(chunk))
    /\ data' = chunk
    /\ pc' = "update"
    /\ digest' = NoDigest

(* Entry of sha256_update: the whole length is counted before the loop.    *)
UpdateCall(chunk) ==
    /\ pc = "idle"
    /\ Len(Message) + Len(chunk) <= MaxLen
    /\ ctx' = CountBits(ctx, Len(chunk))
    /\ data' = chunk
    /\ pc' = "update"
    /\ digest' = NoDigest

UpdateLoop == /\ pc = "update"
              /\ data # <<>>
              /\ ctx' = Absorb(ctx, data)
              /\ data' = Remaining(ctx, data)
              /\ UNCHANGED <<pc, digest>>

UpdateReturn == /\ pc = "update"
                /\ data = <<>>
                /\ pc' = "idle"
                /\ UNCHANGED <<ctx, data, digest>>

\* A plausible slip: the context is cleared as sha256_init would.
FinalCall_Reinitialises ==
    /\ pc = "idle"
    /\ digest' = DigestOf(ctx)
    /\ ctx' = sha256_init(ctx)
    /\ UNCHANGED <<data, pc>>

FinalCall == /\ pc = "idle"
             /\ digest' = DigestOf(ctx)
             /\ ctx' = ZeroCtx
             /\ UNCHANGED <<data, pc>>

Next == \/ InitCall \/ UpdateLoop \/ UpdateReturn \/ FinalCall
        \/ \E chunk \in Chunk : UpdateCall(chunk)

Spec == Init /\ [][Next]_vars

(* sha256_update is straight-line code around its loop: once called it     *)
(* keeps running.                                                          *)
FairSpec == Spec /\ WF_vars(UpdateLoop) /\ WF_vars(UpdateReturn)

-----------------------------------------------------------------------------
TypeOK ==
    /\ ctx \in Ctx
    /\ data \in Seq(Byte)
    /\ pc \in {"idle", "update"}
    /\ digest \in [chain : {"H0", "zero", "none"}, hashed : Seq(Byte)]

(* Between two iterations the buffer always has room: the marker that      *)
(* sha256_final writes at buf[buf_len] and every memcpy stay inside it.    *)
BufferHasRoom == ctx.buf_len < BlockSize

(* However the updates cut the message, the digest is that of the message  *)
(* padded once, from the right chaining value, and a context that is used  *)
(* again without sha256_init carries nothing over.                         *)
Hash == INSTANCE HashStream
            WITH begun <- ctx.chain = "H0", msg <- Message, digest <- digest

RefinesHash == Hash!HashSpec

(* Every sha256_update returns: each iteration takes at least one byte.    *)
UpdateReturns == pc = "update" ~> pc = "idle"

=============================================================================
