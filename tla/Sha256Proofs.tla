---------------------------- MODULE Sha256Proofs ----------------------------
(***************************************************************************)
(* Proofs about Sha256, for every block size, length field, counter width, *)
(* byte set and set of chunks.  The inductive invariant says that what has *)
(* been compressed is whole blocks, that the buffer has room, and that the *)
(* bit counter is the length of the message the context stands for.        *)
(***************************************************************************)
EXTENDS Sha256, Sha256CtxProofs

IInv == /\ TypeOK
        /\ pc = "idle" => data = <<>>
        /\ BufferHasRoom
        /\ Aligned(Len(ctx.hashed))
        /\ ctx.bit_count = (Len(Message) * ByteBits) % CtrMod

-----------------------------------------------------------------------------
(* What the lemmas about contexts say of those of this module.             *)
LEMMA MessageDef == Message = Absorbed(ctx) ** data
BY DEF Message, **

LEMMA MessageOfIdle ==
  ASSUME ctx \in Ctx, data = <<>>
  PROVE  Absorbed(ctx) \in Seq(Byte) /\ Message = Absorbed(ctx)
BY CtxFacts, AbsorbedType, ConcatEmpty, MessageDef

LEMMA ZeroFacts ==
  /\ ZeroCtx \in Ctx /\ ZeroCtx.buf_len = 0 /\ ZeroCtx.hashed = <<>>
  /\ ZeroCtx.bit_count = 0 /\ ZeroCtx.chain = "zero" /\ Absorbed(ZeroCtx) = <<>>
BY CtxFacts, ZeroCtxFacts

LEMMA IInvInit == Init => IInv
<1> SUFFICES ASSUME Init PROVE IInv
  OBVIOUS
<1>1. ctx \in Ctx /\ data \in Seq(Byte) /\ pc \in {"idle", "update"}
  BY ZeroFacts DEF Init
<1>2. digest \in [chain : {"H0", "zero", "none"}, hashed : Seq(Byte)]
  BY DEF Init, NoDigest, Digest
<1>3. Message = <<>>
  BY ZeroFacts, ConcatEmptySeq, EmptySeq DEF Init, Message
<1>4. 0 = (0 * ByteBits) % CtrMod
  BY EmptyCount
<1>5. ctx.bit_count = (Len(Message) * ByteBits) % CtrMod
  BY <1>3, <1>4, ZeroFacts DEF Init
<1>6. BufferHasRoom /\ Aligned(Len(ctx.hashed))
  BY ZeroFacts, AlignedFacts, SizeAssumption DEF Init, BufferHasRoom
<1> QED
  BY <1>1, <1>2, <1>5, <1>6 DEF IInv, TypeOK, Init

(* One step of the machine at a time.                                      *)
LEMMA InitCallStep == IInv /\ InitCall => IInv'
<1> SUFFICES ASSUME IInv, InitCall PROVE IInv'
  OBVIOUS
<1>1. ctx \in Ctx /\ data = <<>> /\ ctx' = sha256_init(ctx) /\ data' = <<>> /\ pc' = "idle"
  BY DEF IInv, TypeOK, InitCall
<1>2. /\ ctx' \in Ctx /\ ctx'.buf_len = 0 /\ ctx'.hashed = <<>>
      /\ ctx'.bit_count = 0 /\ Absorbed(ctx') = <<>>
  BY <1>1, CtxFacts, InitFacts
<1>3. digest' \in [chain : {"H0", "zero", "none"}, hashed : Seq(Byte)]
  BY EmptySeq DEF InitCall, NoDigest, Digest
<1>4. Message' = <<>>
  BY <1>1, <1>2, ConcatEmptySeq, EmptySeq DEF Message
<1>5. 0 = (0 * ByteBits) % CtrMod
  BY EmptyCount
<1>6. Len(<<>>) = 0
  BY EmptySeq
<1>7. (ctx.bit_count = (Len(Message) * ByteBits) % CtrMod)'
  BY <1>2, <1>4, <1>5, <1>6
<1>8. BufferHasRoom' /\ Aligned(Len(ctx.hashed))'
  BY <1>2, <1>6, AlignedFacts, SizeAssumption DEF BufferHasRoom
<1>9. data' \in Seq(Byte)
  BY <1>1, EmptySeq
<1> QED
  BY <1>1, <1>2, <1>3, <1>7, <1>8, <1>9 DEF IInv, TypeOK

LEMMA UpdateCallStep ==
  ASSUME NEW chunk \in Chunk, IInv, UpdateCall(chunk)
  PROVE  IInv' /\ Message' = Message \o chunk
<1>1. /\ ctx \in Ctx /\ data = <<>> /\ chunk \in Seq(Byte)
      /\ ctx' = CountBits(ctx, Len(chunk)) /\ data' = chunk /\ pc' = "update"
      /\ digest' = NoDigest
  BY ChunkAssumption DEF IInv, TypeOK, UpdateCall
<1>2. Absorbed(ctx) \in Seq(Byte) /\ Message = Absorbed(ctx)
  BY <1>1, MessageOfIdle
<1>3. /\ Len(Message) \in Nat /\ Len(chunk) \in Nat
      /\ Message \o chunk \in Seq(Byte)
      /\ Len(Message \o chunk) = Len(Message) + Len(chunk)
  BY <1>1, <1>2, Concat
<1>4. ctx.bit_count = (Len(Message) * ByteBits) % CtrMod
  BY DEF IInv
<1>5. /\ ctx' \in Ctx
      /\ ctx'.bit_count = ((Len(Message) + Len(chunk)) * ByteBits) % CtrMod
      /\ ctx'.hashed = ctx.hashed /\ ctx'.chain = ctx.chain
      /\ ctx'.buf_len = ctx.buf_len
      /\ Absorbed(ctx') = Absorbed(ctx)
  BY <1>1, <1>3, <1>4, CtxFacts, CountFacts
<1>6. Message' = Message \o chunk
  BY <1>1, <1>2, <1>5 DEF Message
<1>7. (ctx.bit_count = (Len(Message) * ByteBits) % CtrMod)'
  BY <1>3, <1>5, <1>6
<1>8. BufferHasRoom' /\ Aligned(Len(ctx.hashed))'
  BY <1>5 DEF IInv, BufferHasRoom
<1>9. digest' \in [chain : {"H0", "zero", "none"}, hashed : Seq(Byte)]
  BY <1>1, EmptySeq DEF NoDigest, Digest
<1> QED
  BY <1>1, <1>5, <1>6, <1>7, <1>8, <1>9 DEF IInv, TypeOK

LEMMA UpdateLoopStep ==
  ASSUME IInv, UpdateLoop
  PROVE  IInv' /\ Message' = Message /\ ctx'.chain = ctx.chain
<1>1. /\ ctx \in Ctx /\ data \in Seq(Byte) /\ data # <<>> /\ pc' = "update"
      /\ ctx' = Absorb(ctx, data) /\ data' = Remaining(ctx, data)
      /\ digest' = digest /\ ctx.buf_len < BlockSize /\ Aligned(Len(ctx.hashed))
  BY DEF IInv, TypeOK, UpdateLoop, BufferHasRoom
<1>2. /\ ctx' \in Ctx /\ ctx'.buf_len < BlockSize
      /\ Aligned(Len(ctx'.hashed))
      /\ ctx'.bit_count = ctx.bit_count /\ ctx'.chain = ctx.chain
      /\ data' \in Seq(Byte)
      /\ Absorbed(ctx') ** data' = Absorbed(ctx) ** data
  BY <1>1, CtxFacts, AbsorbFacts
<1>3. Message' = Message
  BY <1>2 DEF Message, **
<1>4. (ctx.bit_count = (Len(Message) * ByteBits) % CtrMod)'
  BY <1>2, <1>3 DEF IInv
<1>5. BufferHasRoom' /\ Aligned(Len(ctx.hashed))'
  BY <1>2 DEF BufferHasRoom
<1> QED
  BY <1>1, <1>2, <1>3, <1>4, <1>5 DEF IInv, TypeOK

LEMMA UpdateReturnStep ==
  ASSUME IInv, UpdateReturn
  PROVE  IInv' /\ Message' = Message
<1>1. /\ ctx' = ctx /\ data' = data /\ digest' = digest /\ data = <<>> /\ pc' = "idle"
  BY DEF UpdateReturn
<1> QED
  BY <1>1 DEF IInv, TypeOK, BufferHasRoom, Message

LEMMA FinalCallStep ==
  ASSUME IInv, FinalCall
  PROVE  /\ IInv' /\ Message' = <<>> /\ ctx'.chain = "zero"
         /\ digest' = Digest(ctx.chain, Finished(ctx).hashed)
         /\ IsPadding(Finished(ctx).hashed, Message)
<1>1. /\ ctx \in Ctx /\ data = <<>> /\ ctx' = ZeroCtx /\ data' = <<>>
      /\ pc' = "idle" /\ digest' = DigestOf(ctx)
      /\ ctx.buf_len < BlockSize /\ Aligned(Len(ctx.hashed))
  BY DEF IInv, TypeOK, FinalCall, BufferHasRoom
<1>2. Absorbed(ctx) \in Seq(Byte) /\ Message = Absorbed(ctx)
  BY <1>1, MessageOfIdle
<1>3. ctx.bit_count = (Len(Absorbed(ctx)) * ByteBits) % CtrMod
  BY <1>2 DEF IInv
<1>4. Finished(ctx).chain = ctx.chain /\ IsPadding(Finished(ctx).hashed, Message)
  BY <1>1, <1>2, <1>3, CtxFacts, FinishedIsPadded
<1>5. digest' = Digest(ctx.chain, Finished(ctx).hashed)
  BY <1>1, <1>4 DEF DigestOf
<1>6. digest' \in [chain : {"H0", "zero", "none"}, hashed : Seq(Byte)]
  <2>1. Finished(ctx).hashed \in Seq(Byte)
    BY <1>2, <1>4, CtxFacts, PaddingIsSeq
  <2>2. ctx.chain \in {"H0", "zero"}
    BY <1>1 DEF Ctx
  <2> QED BY <1>5, <2>1, <2>2 DEF Digest
<1>7. Message' = <<>>
  BY <1>1, ZeroFacts, ConcatEmptySeq, EmptySeq DEF Message
<1>8. (ctx.bit_count = (Len(Message) * ByteBits) % CtrMod)'
  <2>1. Len(<<>>) = 0 BY EmptySeq
  <2> QED BY <1>1, <1>7, <2>1, ZeroFacts, EmptyCount
<1>9. BufferHasRoom' /\ Aligned(Len(ctx.hashed))'
  <2>1. Len(<<>>) = 0 BY EmptySeq
  <2> QED BY <1>1, <2>1, ZeroFacts, AlignedFacts, SizeAssumption DEF BufferHasRoom
<1>10. ctx' \in Ctx /\ ctx'.chain = "zero" /\ data' \in Seq(Byte)
  BY <1>1, ZeroFacts, EmptySeq
<1>11. IInv'
  BY <1>1, <1>6, <1>8, <1>9, <1>10 DEF IInv, TypeOK
<1> QED
  BY <1>4, <1>5, <1>7, <1>10, <1>11

LEMMA StutterStep == IInv /\ UNCHANGED vars => IInv' /\ Message' = Message
BY DEF vars, IInv, TypeOK, BufferHasRoom, Message

LEMMA IInvStep == IInv /\ [Next]_vars => IInv'
<1> SUFFICES ASSUME IInv, [Next]_vars PROVE IInv'
  OBVIOUS
<1>1. CASE InitCall                           BY <1>1, InitCallStep
<1>2. CASE UpdateLoop                         BY <1>2, UpdateLoopStep
<1>3. CASE UpdateReturn                       BY <1>3, UpdateReturnStep
<1>4. CASE FinalCall                          BY <1>4, FinalCallStep
<1>5. ASSUME NEW chunk \in Chunk, UpdateCall(chunk) PROVE IInv'
  BY <1>5, UpdateCallStep
<1>6. CASE UNCHANGED vars                     BY <1>6, StutterStep
<1> QED
  BY <1>1, <1>2, <1>3, <1>4, <1>5, <1>6 DEF Next

(* The strengthening is an invariant of every behaviour of the context.    *)
THEOREM Sha256Invariance == Spec => []IInv
BY IInvInit, IInvStep, PTL DEF Spec

(* bit_count stays in range, buf_len within the buffer and the digest is   *)
(* one of whole byte strings, for every instance.                          *)
THEOREM Sha256TypeCorrect == Spec => []TypeOK
<1>1. IInv => TypeOK
  BY DEF IInv
<1> QED BY <1>1, Sha256Invariance, PTL

(* The marker and every memcpy of sha256.c stay inside buf, for every      *)
(* block size, every cutting of the input and every order of calls.        *)
THEOREM BufferNeverFull == Spec => []BufferHasRoom
<1>1. IInv => BufferHasRoom
  BY DEF IInv
<1> QED BY <1>1, Sha256Invariance, PTL

-----------------------------------------------------------------------------
(* The operators of the abstract hash are those of Padding.                *)
LEMMA SamePadding ==
  ASSUME NEW m, NEW k, NEW n
  PROVE  Hash!Padded(m, k) = Padded(m, k) /\ Hash!Aligned(n) = Aligned(n)
BY DEF Hash!Padded, Hash!Zeros, Hash!Zero, Hash!Num, Hash!Marker, Hash!store64be,
       Hash!CtrMod, Hash!Aligned, Padded, Zeros, Zero, Num, Marker, store64be,
       CtrMod, Aligned

LEMMA HashRefinedStep == IInv /\ [Next]_vars
                         => [Hash!HashNext]_<<ctx.chain = "H0", Message, digest>>
<1> SUFFICES ASSUME IInv, [Next]_vars
             PROVE  \/ Hash!HashNext
                    \/ UNCHANGED <<ctx.chain = "H0", Message, digest>>
  OBVIOUS
<1>1. CASE InitCall
  <2>1. ctx \in Ctx /\ ctx' = sha256_init(ctx) /\ data' = <<>> /\ digest' = NoDigest
    BY <1>1 DEF IInv, TypeOK, InitCall
  <2>2. Message' = <<>> /\ ctx'.chain = "H0"
    BY <2>1, CtxFacts, InitFacts, ConcatEmptySeq, EmptySeq DEF Message
  <2>3. Hash!Begin
    BY <2>1, <2>2 DEF Hash!Begin, Hash!NoDigest, NoDigest, Hash!Digest, Digest
  <2> QED BY <2>3 DEF Hash!HashNext
<1>2. CASE UpdateLoop
  <2>1. Message' = Message /\ ctx'.chain = ctx.chain
    BY <1>2, UpdateLoopStep
  <2> QED BY <1>2, <2>1 DEF UpdateLoop
<1>3. CASE UpdateReturn
  <2>1. Message' = Message
    BY <1>3, UpdateReturnStep
  <2> QED BY <1>3, <2>1 DEF UpdateReturn
<1>4. CASE FinalCall
  <2>1. /\ Message' = <<>> /\ ctx'.chain = "zero"
        /\ digest' = Digest(ctx.chain, Finished(ctx).hashed)
        /\ IsPadding(Finished(ctx).hashed, Message)
    BY <1>4, FinalCallStep
  <2>2. PICK k \in 0 .. BlockSize - 1 :
            /\ Finished(ctx).hashed = Padded(Message, k)
            /\ Aligned(Len(Padded(Message, k)))
    BY <2>1 DEF IsPadding
  <2>3. ctx.chain = IF ctx.chain = "H0" THEN "H0" ELSE "zero"
    BY DEF IInv, TypeOK, Ctx
  <2>4. Hash!Aligned(Len(Hash!Padded(Message, k)))
    BY <2>2, SamePadding
  <2>5. digest' = Hash!Digest(IF ctx.chain = "H0" THEN "H0" ELSE "zero",
                              Hash!Padded(Message, k))
    BY <2>1, <2>2, <2>3, SamePadding DEF Hash!Digest, Digest
  <2>6. (ctx.chain = "H0")' = FALSE
    BY <2>1
  <2>7. Hash!Conclude
    BY <2>1, <2>4, <2>5, <2>6 DEF Hash!Conclude
  <2> QED BY <2>7 DEF Hash!HashNext
<1>5. ASSUME NEW chunk \in Chunk, UpdateCall(chunk) PROVE Hash!HashNext
  <2>1. Message' = Message \o chunk
    BY <1>5, UpdateCallStep
  <2>2. ctx'.chain = ctx.chain /\ digest' = NoDigest
    <3>1. ctx \in Ctx /\ ctx' = CountBits(ctx, Len(chunk)) /\ digest' = NoDigest
      BY <1>5 DEF IInv, TypeOK, UpdateCall
    <3> QED BY <3>1 DEF CountBits, Ctx
  <2>3. Hash!Feed(chunk)
    BY <2>1, <2>2 DEF Hash!Feed, Hash!NoDigest, NoDigest, Hash!Digest, Digest
  <2> QED BY <2>3 DEF Hash!HashNext
<1>6. CASE UNCHANGED vars
  <2>1. Message' = Message
    BY <1>6, StutterStep
  <2> QED BY <1>6, <2>1 DEF vars
<1> QED
  BY <1>1, <1>2, <1>3, <1>4, <1>5, <1>6 DEF Next

(* sha256.c implements the streaming hash: the digest depends on the       *)
(* message and the initialisation alone, never on how the message was cut, *)
(* for every block, length-field and counter size.                         *)
THEOREM ImplementsHash == Spec => RefinesHash
<1>1. Init => Hash!HashInit
  <2> SUFFICES ASSUME Init PROVE Hash!HashInit
    OBVIOUS
  <2>1. Message = <<>>
    BY ZeroFacts, ConcatEmptySeq, EmptySeq DEF Init, Message
  <2>2. (ctx.chain = "H0") = FALSE
    BY ZeroFacts DEF Init
  <2> QED BY <2>1, <2>2 DEF Init, Hash!HashInit, Hash!NoDigest, NoDigest, Hash!Digest, Digest
<1> QED
  BY <1>1, HashRefinedStep, Sha256Invariance, PTL DEF Spec, RefinesHash, Hash!HashSpec

-----------------------------------------------------------------------------
(* An upper bound on the steps sha256_update still takes.                  *)
StepsLeft == IF pc = "idle" THEN 0 ELSE Len(data) + 1

LEMMA EveryStepShortens ==
  ASSUME IInv, [Next]_vars, pc # "idle", vars' # vars
  PROVE  StepsLeft' < StepsLeft
<1>1. data \in Seq(Byte) /\ Len(data) \in Nat
  BY DEF IInv, TypeOK
<1>2. CASE UpdateLoop
  <2>1. /\ ctx \in Ctx /\ data # <<>> /\ pc' = pc /\ data' = Remaining(ctx, data)
        /\ ctx.buf_len < BlockSize /\ Aligned(Len(ctx.hashed))
    BY <1>2 DEF IInv, TypeOK, UpdateLoop, BufferHasRoom
  <2>2. data' \in Seq(Byte) /\ Len(data') < Len(data)
    BY <1>1, <2>1, CtxFacts, AbsorbFacts
  <2>3. Len(data') \in Nat
    BY <2>2
  <2> QED BY <1>1, <2>1, <2>2, <2>3 DEF StepsLeft
<1>3. CASE UpdateReturn
  BY <1>1, <1>3 DEF UpdateReturn, StepsLeft
<1>4. ~InitCall /\ ~FinalCall /\ \A chunk \in Chunk : ~UpdateCall(chunk)
  BY DEF InitCall, FinalCall, UpdateCall
<1> QED
  BY <1>2, <1>3, <1>4 DEF Next

(* sha256_update is over after at most one step for each byte it was given *)
(* and one more, whatever the buffer held before: every iteration takes at *)
(* least one byte (sha256.c:119-135).  UpdateReturns adds only that the    *)
(* loop keeps running.                                                     *)
THEOREM UpdatesAreBounded ==
  Spec => /\ [](StepsLeft \in Nat /\ (StepsLeft = 0 <=> pc = "idle"))
          /\ [][pc # "idle" => StepsLeft' < StepsLeft]_vars
<1>1. IInv => StepsLeft \in Nat /\ (StepsLeft = 0 <=> pc = "idle")
  <2>1. IInv => Len(data) \in Nat
    BY DEF IInv, TypeOK
  <2> QED BY <2>1 DEF StepsLeft
<1>2. IInv /\ [Next]_vars => [pc # "idle" => StepsLeft' < StepsLeft]_vars
  BY EveryStepShortens
<1> QED
  BY <1>1, <1>2, Sha256Invariance, PTL DEF Spec

=============================================================================
