-------------------------- MODULE AcvpRunnerProofs --------------------------
(***************************************************************************)
(* Proofs about AcvpRunner for every set of requests.  The inductive       *)
(* invariant counts the answers: those of the groups before g are          *)
(* complete, that of group g has the cases before t, and each answer is    *)
(* right for the case it answers.                                          *)
(***************************************************************************)
EXTENDS AcvpRunner, FiniteSetTheorems, SequenceTheorems, TLAPS

(* The answer the output and the verdict make to a case.                   *)
IsRight(output, passed, alg, gr, c) ==
    /\ passed \in BOOLEAN
    /\ IF WellFormed(alg, c)
       THEN output = Reference(alg, gr, c) /\ passed = (c.expected = output)
       ELSE passed => PassesByLuck(alg, c)

IsAnswer(answer, alg, gr, c) ==
    /\ answer = [tcId |-> c.tcId, output |-> answer.output, passed |-> answer.passed]
    /\ IsRight(answer.output, answer.passed, alg, gr, c)

AnswersFirst(count, answer, alg, gr) ==
    /\ answer = [tgId |-> gr.tgId, tests |-> answer.tests]
    /\ IsList(answer.tests) /\ Len(answer.tests) = count
    /\ \A m \in 1 .. count : IsAnswer(answer.tests[m], alg, gr, gr.tests[m])

(* With the handler at case t of group g of a request: how many cases of   *)
(* group n it has answered, and that these are its answers.                *)
AnsweredOf(r, at, next, n) == IF n < at THEN Len(r.groups[n].tests) ELSE next - 1
AnswersUpTo(list, r, at, next) ==
    /\ IsList(list) /\ Len(list) = at
    /\ \A n \in 1 .. at :
         AnswersFirst(AnsweredOf(r, at, next, n), list[n], r.algorithm, r.groups[n])

AnswersSoFar == AnswersUpTo(answers, request, g, t)

CountersInRange ==
    /\ g \in 0 .. Len(request.groups) /\ t \in Nat \ {0}
    /\ g > 0 => t <= Len(group.tests) + 1

AllAnswered == /\ g = Len(request.groups)
               /\ g > 0 => t = Len(group.tests) + 1

(* What the control point says of the rest.                                *)
StagesAreOrdered ==
    /\ pc \in {"start", "handle", "write", "done"}
    /\ pc = "start" => g = 0
    /\ pc \in {"handle", "write"} => request.kind = "supported"
    /\ pc = "write" \/ response # "old" => AllAnswered
    /\ pc # "done" => response = "old"

IInv == /\ request \in Request
        /\ CountersInRange
        /\ StagesAreOrdered
        /\ AnswersSoFar
        /\ frame = [b \in Buffer |-> frame[b]]
        /\ CaseLeavesNoSecret
        /\ ExitCodeIsVerdict

-----------------------------------------------------------------------------
(* Lists: what SequenceTheorems says, for lists of anything.               *)
LEMMA SeqIsList ==
  ASSUME NEW S, NEW s \in Seq(S)
  PROVE  IsList(s)
<1> DEFINE T == {s[n] : n \in DOMAIN s}
<1>1. Len(s) \in Nat /\ s \in [1 .. Len(s) -> S] /\ DOMAIN s = 1 .. Len(s)
  BY LenProperties
<1>2. s \in [1 .. Len(s) -> T]
  BY <1>1
<1>3. s \in Seq(T)
  BY <1>1, <1>2, SeqDef
<1> QED
  BY <1>3 DEF IsList

LEMMA ListFacts ==
  ASSUME NEW s, IsList(s)
  PROVE  Len(s) \in Nat /\ DOMAIN s = 1 .. Len(s)
BY LenProperties DEF IsList

LEMMA AppendToList ==
  ASSUME NEW s, IsList(s), NEW e
  PROVE  /\ IsList(Append(s, e)) /\ Len(Append(s, e)) = Len(s) + 1
         /\ \A n \in 1 .. Len(s) : Append(s, e)[n] = s[n]
         /\ Append(s, e)[Len(s) + 1] = e
<1> DEFINE S == {s[n] : n \in DOMAIN s} \cup {e}
<1>1. s \in Seq(S) /\ e \in S
  <2>1. s \in Seq({s[n] : n \in DOMAIN s})
    BY DEF IsList
  <2> QED
    BY <2>1
<1>2. Append(s, e) \in Seq(S)
  BY <1>1, AppendProperties
<1> HIDE DEF S
<1>3. /\ Len(Append(s, e)) = Len(s) + 1
      /\ \A n \in 1 .. Len(s) : Append(s, e)[n] = s[n]
      /\ Append(s, e)[Len(s) + 1] = e
  BY <1>1, AppendProperties
<1> QED
  BY <1>2, <1>3, SeqIsList

LEMMA EmptyList == IsList(<<>>) /\ Len(<<>>) = 0
<1>1. <<>> \in Seq({}) /\ Len(<<>>) = 0
  BY EmptySeq
<1> QED
  BY <1>1, SeqIsList

(* The request is a list of lists.                                         *)
LEMMA RequestFacts ==
  ASSUME request \in Request
  PROVE  /\ IsList(request.groups)
         /\ Len(request.groups) \in Nat /\ DOMAIN request.groups = 1 .. Len(request.groups)
         /\ \A n \in DOMAIN request.groups :
              LET tests == request.groups[n].tests
              IN  Len(tests) \in Nat /\ DOMAIN tests = 1 .. Len(tests)
<1>1. IsList(request.groups)
  BY RequestAssumption
<1>2. \A n \in DOMAIN request.groups : IsList(request.groups[n].tests)
  BY RequestAssumption
<1> QED
  BY <1>1, <1>2, ListFacts

-----------------------------------------------------------------------------
LEMMA IInvInit == Init => IInv
<1> SUFFICES ASSUME Init PROVE IInv
  OBVIOUS
<1>1. request \in Request /\ g = 0 /\ t = 1 /\ pc = "start" /\ answers = <<>> /\ response = "old"
  BY DEF Init
<1>2. CountersInRange /\ StagesAreOrdered
  BY <1>1, RequestFacts DEF CountersInRange, StagesAreOrdered
<1>3. AnswersSoFar
  BY <1>1, EmptyList DEF AnswersSoFar, AnswersUpTo
<1>4. frame = [b \in Buffer |-> frame[b]] /\ CaseLeavesNoSecret
  BY DEF Init, CaseLeavesNoSecret
<1>5. ExitCodeIsVerdict
  BY <1>1 DEF ExitCodeIsVerdict
<1> QED
  BY <1>1, <1>2, <1>3, <1>4, <1>5 DEF IInv

-----------------------------------------------------------------------------
(* The handlers: each answers the case it is at, rightly, and wipes.       *)
LEMMA FrameFacts ==
  ASSUME frame = [b \in Buffer |-> frame[b]], CaseLeavesNoSecret
  PROVE  /\ DOMAIN frame = Buffer
         /\ \A b \in Buffer \ {"msg"} : frame[b] \in SUBSET Uninitialised
BY DEF CaseLeavesNoSecret

(* A wiped frame, if what was not wiped was already clean.                 *)
LEMMA WipedFrame ==
  ASSUME frame = [b \in Buffer |-> frame[b]], CaseLeavesNoSecret,
         NEW f, NEW names, frame' = Zeroed(f, names),
         \A b \in Buffer \ (names \cup {"msg"}) : f[b] = frame[b]
  PROVE  frame' = [b \in Buffer |-> frame'[b]] /\ CaseLeavesNoSecret'
BY DEF CaseLeavesNoSecret, Zeroed

(* A case that is refused is not well formed.                              *)
LEMMA RefusalIsRight ==
  ASSUME ~WellFormed(request.algorithm, case), NEW f, NEW names, Refuse(f, names)
  PROVE  \E output, passed : /\ Answer(output, passed)
                             /\ IsRight(output, passed, request.algorithm, group, case)
<1>1. Answer(NoOutput, FALSE)
  BY DEF Refuse
<1>2. IsRight(NoOutput, FALSE, request.algorithm, group, case)
  BY DEF IsRight
<1> QED
  BY <1>1, <1>2

(* A case that is computed is well formed and computed as its reference    *)
(* says, or one that only luck could let pass.                             *)
LEMMA ComputationIsRight ==
  ASSUME NEW f, NEW names, NEW output, Compute(f, names, output),
         \/ WellFormed(request.algorithm, case) /\ output = Reference(request.algorithm, group, case)
         \/ ~WellFormed(request.algorithm, case) /\ (output = case.expected => PassesByLuck(request.algorithm, case))
  PROVE  \E o, passed : Answer(o, passed) /\ IsRight(o, passed, request.algorithm, group, case)
<1> DEFINE passed == output = case.expected
<1>1. Answer(output, passed)
  BY DEF Compute
<1>2. IsRight(output, passed, request.algorithm, group, case)
  BY DEF IsRight
<1> QED
  BY <1>1, <1>2

LEMMA CaseFacts ==
  ASSUME request \in Request, InCase, case.complete
  PROVE  HasNumbers(request.algorithm, case)
BY RequestAssumption DEF InCase, group, case

CaseAnswered ==
    /\ InCase
    /\ \E output, passed : Answer(output, passed) /\ IsRight(output, passed, request.algorithm, group, case)
    /\ frame' = [b \in Buffer |-> frame'[b]] /\ CaseLeavesNoSecret'

LEMMA AesFacts ==
  ASSUME IInv, handle_aes_cbc
  PROVE  CaseAnswered
<1> DEFINE key_len == hex_decode(case.key, 32)
           iv_len == hex_decode(case.iv, AES_BLOCK_SIZE)
           in_len == hex_decode(case.in, MAX_PT_CT_BYTES)
           decoded == [frame EXCEPT !["key"] = Loaded(@, case.key, 32),
                                    !["iv"] = Loaded(@, case.iv, AES_BLOCK_SIZE),
                                    !["in"] = Loaded(@, case.in, MAX_PT_CT_BYTES)]
           refused == key_len <= 0 \/ iv_len # AES_BLOCK_SIZE \/ in_len <= 0
           wiped == {"key", "iv", "in", "out"}
<1>1. InCase /\ request.algorithm = "ACVP-AES-CBC" /\ case.complete
  BY DEF handle_aes_cbc, Handles
<1>2. /\ \A b \in Buffer \ (wiped \cup {"msg"}) : decoded[b] = frame[b]
      /\ frame["out"] \in SUBSET Uninitialised
  BY FrameFacts DEF IInv, Buffer
<1>3. case.key.len \in Nat /\ case.iv.len \in Nat /\ case.in.len \in Nat
  BY <1>1, CaseFacts DEF IInv, HasNumbers
<1>4. CASE refused
  <2>1. Refuse(decoded, wiped)
    BY <1>4 DEF handle_aes_cbc
  <2>2. ~WellFormed(request.algorithm, case)
    BY <1>1, <1>3, <1>4 DEF WellFormed, IsHex, hex_decode, AES_BLOCK_SIZE, MAX_PT_CT_BYTES
  <2>3. frame' = Zeroed(decoded, wiped)
    BY <2>1 DEF Refuse
  <2> HIDE DEF decoded, wiped
  <2>4. frame' = [b \in Buffer |-> frame'[b]] /\ CaseLeavesNoSecret'
    BY <1>2, <2>3, WipedFrame DEF IInv
  <2> QED
    BY <1>1, <2>1, <2>2, <2>4, RefusalIsRight DEF CaseAnswered
<1>5. CASE ~refused
  <2>1. PICK output \in AesOutputs(key_len, in_len, frame["out"]) :
            Compute(decoded, wiped \cup {"ctx"}, output)
    BY <1>5 DEF handle_aes_cbc
  <2>2. /\ IsHex(case.key, 1 .. 32) /\ IsHex(case.iv, {16}) /\ IsHex(case.in, 1 .. 256)
        /\ key_len = case.key.len /\ in_len = case.in.len
    BY <1>3, <1>5 DEF IsHex, hex_decode, AES_BLOCK_SIZE, MAX_PT_CT_BYTES
  <2>3. WellFormed(request.algorithm, case) <=> key_len \in AesKeySize /\ in_len % 16 = 0
    <3>1. in_len \in {16 * n : n \in 1 .. 16} <=> in_len % 16 = 0
      BY <2>2 DEF IsHex
    <3> HIDE DEF in_len
    <3> QED
      BY <1>1, <2>2, <3>1 DEF WellFormed, IsHex, AesKeySize
  <2>4. \/ WellFormed(request.algorithm, case) /\ output = Reference(request.algorithm, group, case)
        \/ ~WellFormed(request.algorithm, case) /\ (output = case.expected => PassesByLuck(request.algorithm, case))
    <3>1. CASE in_len % 16 # 0
      <4>1. output.val \in Unknown
        BY <1>2, <2>1, <3>1 DEF AesOutputs, Hex, Unknown, AES_BLOCK_SIZE
      <4> QED
        BY <1>1, <2>3, <3>1, <4>1 DEF PassesByLuck
    <3>2. CASE in_len % 16 = 0 /\ key_len \notin AesKeySize
      <4>1. output.val \in Unknown
        BY <2>1, <3>2 DEF AesOutputs, Hex, Unknown, AES_BLOCK_SIZE
      <4> QED
        BY <1>1, <2>3, <3>2, <4>1 DEF PassesByLuck
    <3>3. CASE in_len % 16 = 0 /\ key_len \in AesKeySize
      <4>1. output = Hex(Cbc(group.direction, case), in_len)
        BY <2>1, <3>3 DEF AesOutputs, AES_BLOCK_SIZE
      <4> QED
        BY <1>1, <2>2, <2>3, <3>3, <4>1 DEF Reference
    <3> QED
      BY <3>1, <3>2, <3>3
  <2>5. frame' = Zeroed(decoded, wiped \cup {"ctx"})
    BY <2>1 DEF Compute
  <2> HIDE DEF decoded, wiped
  <2>6. frame' = [b \in Buffer |-> frame'[b]] /\ CaseLeavesNoSecret'
    <3> DEFINE names == wiped \cup {"ctx"}
    <3>1. \A b \in Buffer \ (names \cup {"msg"}) : decoded[b] = frame[b]
      BY <1>2
    <3>2. frame' = Zeroed(decoded, names)
      BY <2>5
    <3> HIDE DEF names
    <3> QED
      BY <3>1, <3>2, WipedFrame DEF IInv
  <2> QED
    BY <1>1, <2>1, <2>4, <2>6, ComputationIsRight DEF CaseAnswered
<1> QED
  BY <1>4, <1>5

LEMMA ShaFacts ==
  ASSUME IInv, handle_sha256
  PROVE  CaseAnswered
<1> DEFINE msg_len == hex_decode(case.msg, MAX_MSG_BYTES)
           decoded == [frame EXCEPT !["msg"] = Loaded(@, case.msg, MAX_MSG_BYTES)]
           digest(msg) == Hex(Sha(msg), SHA256_DIGEST_BYTES)
           none == {}
<1>1. InCase /\ request.algorithm = "ACVP-SHA2-256" /\ case.complete
  BY DEF handle_sha256, Handles
<1>2. \A b \in Buffer \ (none \cup {"msg"}) : decoded[b] = frame[b]
  BY FrameFacts DEF IInv, Buffer
<1>3. case.msg.len \in Nat
  BY <1>1, CaseFacts DEF IInv, HasNumbers
<1>4. CASE case.len # 0 /\ msg_len <= 0
  <2>1. Refuse(decoded, none)
    BY <1>4 DEF handle_sha256
  <2>2. ~WellFormed(request.algorithm, case)
    BY <1>1, <1>3, <1>4 DEF WellFormed, IsHex, hex_decode, MAX_MSG_BYTES
  <2>3. frame' = Zeroed(decoded, none)
    BY <2>1 DEF Refuse
  <2> HIDE DEF decoded, none
  <2>4. frame' = [b \in Buffer |-> frame'[b]] /\ CaseLeavesNoSecret'
    BY <1>2, <2>3, WipedFrame DEF IInv
  <2> QED
    BY <1>1, <2>1, <2>2, <2>4, RefusalIsRight DEF CaseAnswered
<1>5. CASE case.len = 0 \/ (case.len # 0 /\ ~(msg_len <= 0))
  <2>1. WellFormed(request.algorithm, case)
    BY <1>1, <1>3, <1>5 DEF WellFormed, IsHex, hex_decode, MAX_MSG_BYTES
  <2>2. \E f : /\ \A b \in Buffer \ (none \cup {"msg"}) : f[b] = frame[b]
               /\ Compute(f, none, Reference(request.algorithm, group, case))
    <3>1. CASE case.len = 0
      <4>1. Compute(frame, none, digest("empty"))
        BY <3>1 DEF handle_sha256
      <4> QED
        BY <1>1, <3>1, <4>1 DEF Reference, SHA256_DIGEST_BYTES
    <3>2. CASE case.len # 0
      <4>1. Compute(decoded, none, digest(case.msg.val))
        BY <1>5, <3>2 DEF handle_sha256
      <4> HIDE DEF decoded
      <4> QED
        BY <1>1, <1>2, <3>2, <4>1 DEF Reference, SHA256_DIGEST_BYTES
    <3> QED
      BY <3>1, <3>2
  <2>3. PICK f : /\ \A b \in Buffer \ (none \cup {"msg"}) : f[b] = frame[b]
                 /\ Compute(f, none, Reference(request.algorithm, group, case))
    BY <2>2
  <2>4. frame' = Zeroed(f, none)
    BY <2>3 DEF Compute
  <2> HIDE DEF none
  <2>5. frame' = [b \in Buffer |-> frame'[b]] /\ CaseLeavesNoSecret'
    BY <2>3, <2>4, WipedFrame DEF IInv
  <2> QED
    BY <1>1, <2>1, <2>3, <2>5, ComputationIsRight DEF CaseAnswered
<1> QED
  BY <1>4, <1>5

LEMMA HmacFacts ==
  ASSUME IInv, handle_hmac_sha256
  PROVE  CaseAnswered
<1> DEFINE key_len == hex_decode(case.key, 64)
           msg_len == hex_decode(case.msg, MAX_MSG_BYTES)
           decoded == [frame EXCEPT !["key"] = Loaded(@, case.key, 64),
                                    !["msg"] = Loaded(@, case.msg, MAX_MSG_BYTES)]
           wiped == {"key", "mac"}
           refused == key_len <= 0 \/ msg_len < 0
<1>1. InCase /\ request.algorithm = "ACVP-HMAC-SHA2-256" /\ case.complete
  BY DEF handle_hmac_sha256, Handles
<1>2. \A b \in Buffer \ (wiped \cup {"msg"}) : decoded[b] = frame[b]
  BY FrameFacts DEF IInv, Buffer
<1>3. case.key.len \in Nat /\ case.msg.len \in Nat
  BY <1>1, CaseFacts DEF IInv, HasNumbers
<1>4. WellFormed(request.algorithm, case) <=> ~refused
  <2>1. IsHex(case.key, 1 .. 64) <=> ~(key_len <= 0)
    BY <1>3 DEF IsHex, hex_decode
  <2>2. IsHex(case.msg, 0 .. 256) <=> ~(msg_len < 0)
    BY <1>3 DEF IsHex, hex_decode, MAX_MSG_BYTES
  <2> QED
    BY <1>1, <2>1, <2>2 DEF WellFormed
<1>5. CASE refused
  <2>1. Refuse(decoded, wiped)
    BY <1>5 DEF handle_hmac_sha256
  <2>2. frame' = Zeroed(decoded, wiped)
    BY <2>1 DEF Refuse
  <2> HIDE DEF decoded, wiped, refused
  <2>3. frame' = [b \in Buffer |-> frame'[b]] /\ CaseLeavesNoSecret'
    BY <1>2, <2>2, WipedFrame DEF IInv
  <2> QED
    BY <1>1, <1>4, <1>5, <2>1, <2>3, RefusalIsRight DEF CaseAnswered
<1>6. CASE ~refused
  <2>1. Compute(decoded, wiped, Reference(request.algorithm, group, case))
    BY <1>1, <1>6 DEF handle_hmac_sha256, Reference
  <2>2. frame' = Zeroed(decoded, wiped)
    BY <2>1 DEF Compute
  <2> HIDE DEF decoded, wiped, refused
  <2>3. frame' = [b \in Buffer |-> frame'[b]] /\ CaseLeavesNoSecret'
    BY <1>2, <2>2, WipedFrame DEF IInv
  <2> QED
    BY <1>1, <1>4, <1>6, <2>1, <2>3, ComputationIsRight DEF CaseAnswered
<1> QED
  BY <1>5, <1>6

LEMMA PbkdfFacts ==
  ASSUME IInv, handle_pbkdf2
  PROVE  CaseAnswered
<1> DEFINE key_len_bytes == case.keyLen \div 8
           rc == IF case.iterationCount = 0 \/ case.salt.len > MAX_SALT THEN -1 ELSE 0
           refused == key_len_bytes <= 0 \/ key_len_bytes > MAX_PBKDF2_KEY_BYTES \/ rc # 0
           wiped == {"dk"}
<1>1. /\ InCase /\ case.complete
      /\ request.algorithm = "ACVP-KDF-PBKDF2"
  BY DEF handle_pbkdf2, Handles
<1>2. \A b \in Buffer \ (wiped \cup {"msg"}) : frame[b] = frame[b]
  OBVIOUS
<1>3. case.keyLen \in Int /\ case.salt.len \in Int
  BY <1>1, CaseFacts DEF IInv, HasNumbers
<1>4. WellFormed(request.algorithm, case) <=> ~refused
  BY <1>1, <1>3 DEF WellFormed, MAX_SALT, MAX_PBKDF2_KEY_BYTES
<1>5. CASE refused
  <2>1. Refuse(frame, wiped)
    BY <1>5 DEF handle_pbkdf2
  <2>2. frame' = Zeroed(frame, wiped)
    BY <2>1 DEF Refuse
  <2> HIDE DEF wiped, refused
  <2>3. frame' = [b \in Buffer |-> frame'[b]] /\ CaseLeavesNoSecret'
    BY <1>2, <2>2, WipedFrame DEF IInv
  <2> QED
    BY <1>1, <1>4, <1>5, <2>1, <2>3, RefusalIsRight DEF CaseAnswered
<1>6. CASE ~refused
  <2>1. Compute(frame, wiped, Reference(request.algorithm, group, case))
    BY <1>1, <1>6 DEF handle_pbkdf2, Reference
  <2>2. frame' = Zeroed(frame, wiped)
    BY <2>1 DEF Compute
  <2> HIDE DEF wiped, refused
  <2>3. frame' = [b \in Buffer |-> frame'[b]] /\ CaseLeavesNoSecret'
    BY <1>2, <2>2, WipedFrame DEF IInv
  <2> QED
    BY <1>1, <1>4, <1>6, <2>1, <2>3, ComputationIsRight DEF CaseAnswered
<1> QED
  BY <1>5, <1>6

-----------------------------------------------------------------------------
(* The actions.                                                            *)
LEMMA StartStep ==
  ASSUME IInv, Start
  PROVE  IInv'
<1>1. /\ pc = "start" /\ g = 0
      /\ UNCHANGED <<request, g, t, frame, answers, response>>
  BY DEF Start, IInv, StagesAreOrdered
<1>2. CountersInRange' /\ StagesAreOrdered'
  BY <1>1 DEF Start, Exit, IInv, CountersInRange, StagesAreOrdered, AllAnswered, group
<1>3. AnswersSoFar'
  BY <1>1, RequestFacts DEF IInv, AnswersSoFar
<1>4. ExitCodeIsVerdict'
  <2>1. CASE request.kind = "supported"
    BY <1>1, <2>1 DEF Start, ExitCodeIsVerdict
  <2>2. CASE request.kind # "supported"
    BY <1>1, <2>2 DEF Start, Exit, ExitCodeIsVerdict
  <2> QED
    BY <2>1, <2>2
<1> QED
  BY <1>1, <1>2, <1>3, <1>4 DEF IInv, CaseLeavesNoSecret

(* Where the handler is answering, the current group is one of the answers.*)
LEMMA PositionFacts ==
  ASSUME IInv, g > 0
  PROVE  /\ g \in 1 .. Len(request.groups) /\ g \in DOMAIN request.groups
         /\ group = request.groups[g]
         /\ Len(group.tests) \in Nat /\ DOMAIN group.tests = 1 .. Len(group.tests)
         /\ t \in 1 .. Len(group.tests) + 1
         /\ AnsweredOf(request, g, t, g) = t - 1
BY RequestFacts DEF IInv, CountersInRange, group, AnsweredOf

LEMMA NextGroupStep ==
  ASSUME IInv, NextGroup
  PROVE  IInv'
<1>1. /\ pc = "handle" /\ UNCHANGED <<request, frame, response, exit>>
      /\ response = "old" /\ g \in Nat /\ t \in Nat \ {0}
      /\ Len(request.groups) \in Nat
      /\ IsList(answers) /\ Len(answers) = g
  BY RequestFacts DEF NextGroup, IInv, StagesAreOrdered, CountersInRange, AnswersSoFar, AnswersUpTo
<1>2. g > 0 => t = Len(group.tests) + 1
  BY PositionFacts DEF NextGroup
<1>3. CASE g < Len(request.groups)
  <2>1. /\ g' = g + 1 /\ t' = 1 /\ pc' = pc
        /\ answers' = Append(answers, [tgId |-> request.groups[g + 1].tgId, tests |-> <<>>])
    BY <1>3 DEF NextGroup
  <2>2. CountersInRange' /\ StagesAreOrdered'
    <3>1. Len(request.groups[g + 1].tests) \in Nat
      BY <1>1, <1>3, RequestFacts DEF IInv
    <3> QED
      BY <1>1, <1>3, <2>1, <3>1 DEF IInv, CountersInRange, StagesAreOrdered, group
  <2>3. /\ IsList(answers') /\ Len(answers') = g + 1
        /\ \A n \in 1 .. g : answers'[n] = answers[n]
        /\ answers'[g + 1] = [tgId |-> request.groups[g + 1].tgId, tests |-> <<>>]
    BY <1>1, <2>1, AppendToList
  <2>4. ASSUME NEW n \in 1 .. g
        PROVE  AnswersFirst(AnsweredOf(request, g', t', n), answers'[n], request.algorithm, request.groups[n])
    <3>1. AnswersFirst(AnsweredOf(request, g, t, n), answers[n], request.algorithm, request.groups[n])
      BY DEF IInv, AnswersSoFar, AnswersUpTo
    <3>2. AnsweredOf(request, g', t', n) = AnsweredOf(request, g, t, n)
      <4>1. CASE n < g
        BY <1>1, <2>1, <4>1 DEF AnsweredOf
      <4>2. CASE n = g
        <5>1. t - 1 = Len(request.groups[n].tests) /\ n < g' /\ ~(n < g)
          BY <1>1, <1>2, <2>1, PositionFacts, <4>2
        <5> QED
          BY <5>1 DEF AnsweredOf
      <4> QED
        BY <1>1, <4>1, <4>2
    <3>3. answers'[n] = answers[n]
      BY <2>3
    <3> QED
      BY <1>1, <3>1, <3>2, <3>3
  <2>5. AnswersFirst(AnsweredOf(request, g', t', g'), answers'[g'],
                     request.algorithm, request.groups[g'])
    <3>1. AnsweredOf(request, g', t', g') = 0
      BY <1>1, <2>1 DEF AnsweredOf
    <3>2. AnswersFirst(0, answers'[g + 1], request.algorithm, request.groups[g + 1])
      BY <1>1, <2>3, EmptyList DEF AnswersFirst
    <3> QED
      BY <1>1, <2>1, <3>1, <3>2
  <2>6. AnswersUpTo(answers', request, g', t')
    <3>1. \A n \in 1 .. g' : AnswersFirst(AnsweredOf(request, g', t', n), answers'[n],
                                          request.algorithm, request.groups[n])
      <4>1. \A n \in 1 .. g' : n \in 1 .. g \/ n = g'
        BY <1>1, <2>1
      <4> QED
        BY <2>4, <2>5, <4>1
    <3> QED
      BY <2>1, <2>3, <3>1 DEF AnswersUpTo
  <2> QED
    BY <1>1, <2>1, <2>2, <2>6 DEF IInv, AnswersSoFar, CaseLeavesNoSecret, ExitCodeIsVerdict
<1>4. CASE ~(g < Len(request.groups))
  <2>1. pc' = "write" /\ UNCHANGED <<g, t, answers>>
    BY <1>4 DEF NextGroup
  <2>2. AllAnswered
    BY <1>1, <1>2, <1>4 DEF IInv, CountersInRange, AllAnswered
  <2>3. CountersInRange' /\ StagesAreOrdered'
    BY <1>1, <2>1, <2>2 DEF IInv, CountersInRange, StagesAreOrdered, AllAnswered, group
  <2>4. AnswersSoFar'
    BY <1>1, <2>1 DEF IInv, AnswersSoFar
  <2> QED
    BY <1>1, <2>1, <2>3, <2>4 DEF IInv, CaseLeavesNoSecret, ExitCodeIsVerdict
<1> QED
  BY <1>3, <1>4

(* One more answer.                                                        *)
LEMMA OneMore ==
  ASSUME NEW count \in Nat, NEW list, NEW alg, NEW gr, AnswersFirst(count, list, alg, gr),
         NEW answer, IsAnswer(answer, alg, gr, gr.tests[count + 1])
  PROVE  AnswersFirst(count + 1, [list EXCEPT !.tests = Append(@, answer)], alg, gr)
<1> DEFINE tests == Append(list.tests, answer)
<1>1. list = [tgId |-> gr.tgId, tests |-> list.tests] /\ IsList(list.tests)
      /\ Len(list.tests) = count
  BY DEF AnswersFirst
<1>2. /\ IsList(tests) /\ Len(tests) = count + 1
      /\ \A m \in 1 .. count : tests[m] = list.tests[m]
      /\ tests[count + 1] = answer
  BY ONLY <1>1, AppendToList
<1>3. \A m \in 1 .. count + 1 : IsAnswer(tests[m], alg, gr, gr.tests[m])
  <2>1. \A m \in 1 .. count : IsAnswer(list.tests[m], alg, gr, gr.tests[m])
    BY DEF AnswersFirst
  <2>2. \A m \in 1 .. count + 1 : m \in 1 .. count \/ m = count + 1
    OBVIOUS
  <2> HIDE DEF tests
  <2> QED
    BY <1>2, <2>1, <2>2
<1>4. [list EXCEPT !.tests = Append(@, answer)] = [tgId |-> gr.tgId, tests |-> tests]
  <2>1. PICK id, old : list = [tgId |-> id, tests |-> old] /\ id = gr.tgId
    BY <1>1
  <2> QED
    BY <2>1
<1> HIDE DEF tests
<1>5. AnswersFirst(count + 1, [tgId |-> gr.tgId, tests |-> tests], alg, gr)
  BY <1>2, <1>3 DEF AnswersFirst
<1> QED
  BY <1>4, <1>5

LEMMA AnswerStep ==
  ASSUME IInv, CaseAnswered
  PROVE  IInv'
<1>1. PICK output, passed : Answer(output, passed) /\ IsRight(output, passed, request.algorithm, group, case)
  BY DEF CaseAnswered
<1> DEFINE answer == [tcId |-> case.tcId, output |-> output, passed |-> passed]
<1>2. /\ UNCHANGED <<request, pc, g, response, exit>> /\ t' = t + 1
      /\ answers' = [answers EXCEPT ![g].tests = Append(@, answer)]
  BY <1>1 DEF Answer
<1>3. /\ pc = "handle" /\ response = "old" /\ g > 0 /\ t <= Len(group.tests)
      /\ g \in DOMAIN request.groups /\ t \in Nat \ {0} /\ g \in Nat
      /\ Len(group.tests) \in Nat /\ AnsweredOf(request, g, t, g) = t - 1
      /\ group = request.groups[g] /\ case = group.tests[t]
  <2>1. g > 0 /\ pc = "handle"
    BY RequestFacts DEF CaseAnswered, InCase, IInv
  <2> QED
    BY <2>1, PositionFacts DEF CaseAnswered, InCase, IInv, StagesAreOrdered, case, CountersInRange
<1>4. CountersInRange' /\ StagesAreOrdered'
  BY <1>2, <1>3 DEF IInv, CountersInRange, StagesAreOrdered, group
<1>5. /\ IsList(answers) /\ Len(answers) = g
      /\ AnswersFirst(t - 1, answers[g], request.algorithm, group)
  BY <1>3 DEF IInv, AnswersSoFar, AnswersUpTo
<1> DEFINE more == [answers[g] EXCEPT !.tests = Append(@, answer)]
<1>6. answers' = [n \in 1 .. g |-> IF n = g THEN more ELSE answers[n]]
  <2>1. answers \in [1 .. g -> {answers[n] : n \in DOMAIN answers}]
    BY <1>5, LenProperties DEF IsList
  <2> HIDE DEF answer
  <2> QED
    BY <1>2, <1>3, <2>1
<1>7. IsAnswer(answer, request.algorithm, group, case)
  BY <1>1 DEF IsAnswer
<1> HIDE DEF answer
<1>8. IsList(answers') /\ Len(answers') = g
  <2> DEFINE S == {answers'[n] : n \in 1 .. g}
  <2>1. answers' \in [1 .. g -> S]
    BY <1>6
  <2>2. answers' \in Seq(S)
    BY <1>3, <2>1, SeqDef
  <2>3. Len(answers') = g
    BY <1>3, <2>1, <2>2, LenProperties
  <2> HIDE DEF S
  <2> QED
    BY <2>2, <2>3, SeqIsList DEF IsList
<1>9. AnswersFirst(AnsweredOf(request, g', t', g), answers'[g], request.algorithm, request.groups[g])
  <2>1. PICK count \in Nat : count = t - 1 /\ t = count + 1
    BY <1>3
  <2>2. AnswersFirst(count + 1, more, request.algorithm, group)
    <3>1. AnswersFirst(count, answers[g], request.algorithm, group)
      BY <1>5, <2>1
    <3>2. IsAnswer(answer, request.algorithm, group, group.tests[count + 1])
      BY <1>3, <1>7, <2>1
    <3> QED
      BY <3>1, <3>2, OneMore
  <2> HIDE DEF more
  <2>3. answers'[g] = more
    BY <1>3, <1>6
  <2>4. AnsweredOf(request, g', t', g) = t
    BY <1>2, <1>3 DEF AnsweredOf
  <2> QED
    BY <1>3, <2>1, <2>2, <2>3, <2>4
<1>10. ASSUME NEW n \in 1 .. g - 1
       PROVE  AnswersFirst(AnsweredOf(request, g', t', n), answers'[n], request.algorithm, request.groups[n])
  <2>1. AnswersFirst(AnsweredOf(request, g, t, n), answers[n], request.algorithm, request.groups[n])
    BY <1>3 DEF IInv, AnswersSoFar, AnswersUpTo
  <2> HIDE DEF more
  <2>2. AnsweredOf(request, g', t', n) = AnsweredOf(request, g, t, n) /\ answers'[n] = answers[n]
    BY <1>2, <1>3, <1>6 DEF AnsweredOf
  <2> QED
    BY <1>2, <2>1, <2>2
<1>11. AnswersUpTo(answers', request, g', t')
  <2>1. \A n \in 1 .. g' : n \in 1 .. g - 1 \/ n = g
    BY <1>2, <1>3
  <2>2. \A n \in 1 .. g' : AnswersFirst(AnsweredOf(request, g', t', n), answers'[n],
                                        request.algorithm, request.groups[n])
    BY <1>9, <1>10, <2>1
  <2> QED
    BY <1>2, <1>8, <2>2 DEF AnswersUpTo
<1> QED
  BY <1>2, <1>3, <1>4, <1>11 DEF IInv, CaseAnswered, ExitCodeIsVerdict, AnswersSoFar

(* A case the runner crashes at is not right, and no other is asked.       *)
LEMMA CrashStep ==
  ASSUME IInv, Crash
  PROVE  IInv'
<1>1. /\ InCase /\ pc' = "done" /\ exit' = 139 /\ response = "old" /\ pc = "handle"
      /\ UNCHANGED <<request, g, t, frame, answers, response>>
  BY DEF Crash, InCase, IInv, StagesAreOrdered
<1>2. ~WellFormed(request.algorithm, case)
  <2>1. CASE ~case.complete
    BY <2>1 DEF WellFormed
  <2>2. CASE /\ request.algorithm = "ACVP-AES-CBC"
             /\ hex_decode(case.key, 32) \in (1 .. 32) \ AesKeySize
    BY <2>2 DEF WellFormed, IsHex, AesKeySize, hex_decode
  <2> QED
    BY <2>1, <2>2 DEF Crash
<1>3. ~AllRight(request)
  BY <1>1, <1>2 DEF AllRight, AllMayPass, Right, InCase, group, case
<1>4. ExitCodeIsVerdict'
  BY <1>1, <1>3 DEF ExitCodeIsVerdict
<1>5. AnswersSoFar'
  BY <1>1 DEF IInv, AnswersSoFar
<1>6. CountersInRange' /\ StagesAreOrdered'
  BY <1>1 DEF IInv, CountersInRange, StagesAreOrdered, AllAnswered, group
<1> QED
  BY <1>1, <1>4, <1>5, <1>6 DEF IInv, CaseLeavesNoSecret

(* With every case answered, all passed if all are right, and only if each *)
(* may pass.                                                               *)
LEMMA VerdictFacts ==
  ASSUME IInv, AllAnswered
  PROVE  /\ AllPassed => AllMayPass(request)
         /\ AllRight(request) => AllPassed
<1>1. /\ g = Len(request.groups) /\ g \in Nat
      /\ DOMAIN answers = 1 .. g /\ DOMAIN request.groups = 1 .. g
  BY RequestFacts, ListFacts DEF IInv, AllAnswered, AnswersSoFar, AnswersUpTo
<1>2. ASSUME NEW n \in 1 .. g
      PROVE  /\ DOMAIN answers[n].tests = DOMAIN request.groups[n].tests
             /\ \A m \in DOMAIN answers[n].tests :
                   LET answer == answers[n].tests[m]
                   IN  IsRight(answer.output, answer.passed, request.algorithm, request.groups[n],
                               request.groups[n].tests[m])
  <2>1. AnswersFirst(AnsweredOf(request, g, t, n), answers[n], request.algorithm, request.groups[n])
    BY DEF IInv, AnswersSoFar, AnswersUpTo
  <2>2. AnsweredOf(request, g, t, n) = Len(request.groups[n].tests)
    BY <1>1, RequestFacts DEF IInv, AllAnswered, AnsweredOf, group
  <2>3. DOMAIN request.groups[n].tests = 1 .. AnsweredOf(request, g, t, n)
    BY <1>1, <2>2, RequestFacts DEF IInv
  <2>4. DOMAIN answers[n].tests = 1 .. AnsweredOf(request, g, t, n)
    BY <2>1, ListFacts DEF AnswersFirst
  <2> QED
    BY <2>1, <2>3, <2>4 DEF AnswersFirst, IsAnswer
<1>3. ASSUME NEW n \in 1 .. g, NEW m \in DOMAIN request.groups[n].tests
      PROVE  LET gr == request.groups[n]
             IN  /\ answers[n].tests[m].passed => MayPass(request.algorithm, gr, gr.tests[m])
                 /\ Right(request.algorithm, gr, gr.tests[m]) => answers[n].tests[m].passed
  BY <1>2 DEF IsRight, Right, MayPass
<1>4. AllPassed => AllMayPass(request)
  BY <1>1, <1>2, <1>3 DEF AllPassed, AllRight, AllMayPass
<1>5. AllRight(request) => AllPassed
  BY <1>1, <1>2, <1>3 DEF AllPassed, AllRight, AllMayPass
<1> QED
  BY <1>4, <1>5

LEMMA WriteResponseStep ==
  ASSUME IInv, WriteResponse
  PROVE  IInv'
<1>1. /\ AllAnswered /\ request.kind = "supported" /\ response = "old" /\ pc = "write"
      /\ UNCHANGED <<request, g, t, frame, answers>> /\ pc' = "done"
  BY DEF WriteResponse, Exit, IInv, StagesAreOrdered
<1>2. /\ exit' \in {0, 1}
      /\ exit' = 0 => AllPassed /\ response' # "old"
      /\ AllPassed => (exit' = 0 <=> response' # "old")
  BY <1>1 DEF WriteResponse, Exit, Verdict
<1>3. ExitCodeIsVerdict'
  <2>1. /\ AllRight(request)' <=> AllRight(request)
        /\ AllMayPass(request)' <=> AllMayPass(request)
    BY <1>1 DEF AllRight, AllMayPass, Right, MayPass, WellFormed, Reference, PassesByLuck
  <2> QED
    BY <1>1, <1>2, <2>1, VerdictFacts DEF ExitCodeIsVerdict
<1>4. AnswersSoFar'
  BY <1>1 DEF IInv, AnswersSoFar
<1>5. CountersInRange' /\ StagesAreOrdered'
  BY <1>1 DEF IInv, CountersInRange, StagesAreOrdered, AllAnswered, group
<1> QED
  BY <1>1, <1>3, <1>4, <1>5 DEF IInv, CaseLeavesNoSecret

LEMMA IInvUnchanged == IInv /\ UNCHANGED vars => IInv'
<1> SUFFICES ASSUME IInv, UNCHANGED vars PROVE IInv'
  OBVIOUS
<1>1. UNCHANGED <<request, pc, g, t, frame, answers, response, exit>>
  BY DEF vars
<1>2. AnswersSoFar'
  BY <1>1 DEF IInv, AnswersSoFar
<1>3. ExitCodeIsVerdict'
  BY <1>1 DEF IInv, ExitCodeIsVerdict
<1>4. CountersInRange' /\ StagesAreOrdered'
  BY <1>1 DEF IInv, CountersInRange, StagesAreOrdered, AllAnswered, group
<1> QED
  BY <1>1, <1>2, <1>3, <1>4 DEF IInv, CaseLeavesNoSecret

LEMMA IInvNext == IInv /\ [Next]_vars => IInv'
<1> SUFFICES ASSUME IInv, [Next]_vars PROVE IInv'
  OBVIOUS
<1>1. CASE Start
  BY <1>1, StartStep
<1>2. CASE NextGroup
  BY <1>2, NextGroupStep
<1>3. CASE Handler
  BY <1>3, AesFacts, ShaFacts, HmacFacts, PbkdfFacts, AnswerStep DEF Handler
<1>4. CASE Crash
  BY <1>4, CrashStep
<1>5. CASE WriteResponse
  BY <1>5, WriteResponseStep
<1>6. CASE UNCHANGED vars
  BY <1>6, IInvUnchanged
<1> QED
  BY <1>1, <1>2, <1>3, <1>4, <1>5, <1>6 DEF Next, Step, Finished

-----------------------------------------------------------------------------
LEMMA IInvImplies ==
  ASSUME IInv
  PROVE  AnswersAreIsolated /\ ResponseMirrorsRequest
<1>1. g \in Nat /\ DOMAIN answers = 1 .. g /\ Len(answers) = g
  BY ListFacts, RequestFacts DEF IInv, AnswersSoFar, AnswersUpTo, CountersInRange
<1>2. ASSUME NEW n \in 1 .. g
      PROVE  /\ DOMAIN answers[n].tests = 1 .. Len(answers[n].tests)
             /\ Len(answers[n].tests) = AnsweredOf(request, g, t, n)
             /\ answers[n].tgId = request.groups[n].tgId
             /\ \A m \in 1 .. AnsweredOf(request, g, t, n) :
                    IsAnswer(answers[n].tests[m], request.algorithm,
                             request.groups[n], request.groups[n].tests[m])
  <2>1. AnswersFirst(AnsweredOf(request, g, t, n), answers[n], request.algorithm, request.groups[n])
    BY DEF IInv, AnswersSoFar, AnswersUpTo
  <2>2. answers[n].tgId = request.groups[n].tgId
    BY <2>1 DEF AnswersFirst
  <2> QED
    BY <2>1, <2>2, ListFacts DEF AnswersFirst
<1>3. AnswersAreIsolated
  <2> SUFFICES ASSUME NEW n \in 1 .. g, NEW m \in 1 .. AnsweredOf(request, g, t, n)
               PROVE  LET gr == request.groups[n]
                          answer == answers[n].tests[m]
                      IN  IF WellFormed(request.algorithm, gr.tests[m])
                          THEN /\ answer.output = Reference(request.algorithm, gr, gr.tests[m])
                               /\ answer.passed = (gr.tests[m].expected = answer.output)
                          ELSE answer.passed => PassesByLuck(request.algorithm, gr.tests[m])
    BY <1>1, <1>2 DEF AnswersAreIsolated
  <2> QED
    BY <1>2 DEF IsAnswer, IsRight
<1>4. ResponseMirrorsRequest
  <2> SUFFICES ASSUME response # "old"
               PROVE  /\ Len(answers) = Len(request.groups)
                      /\ \A n \in 1 .. g :
                           LET gr == request.groups[n]
                           IN  /\ answers[n].tgId = gr.tgId
                               /\ Len(answers[n].tests) = Len(gr.tests)
                               /\ \A m \in DOMAIN gr.tests :
                                      answers[n].tests[m].tcId = gr.tests[m].tcId
    BY <1>1 DEF ResponseMirrorsRequest
  <2>1. AllAnswered
    BY DEF IInv, StagesAreOrdered
  <2>2. \A n \in 1 .. g : /\ AnsweredOf(request, g, t, n) = Len(request.groups[n].tests)
                          /\ DOMAIN request.groups[n].tests = 1 .. AnsweredOf(request, g, t, n)
    BY <1>1, <2>1, RequestFacts DEF IInv, AllAnswered, AnsweredOf, group
  <2>3. \A n \in 1 .. g : \A m \in 1 .. AnsweredOf(request, g, t, n) :
            answers[n].tests[m].tcId = request.groups[n].tests[m].tcId
    <3>1. \A answer, alg, gr, c : IsAnswer(answer, alg, gr, c) => answer.tcId = c.tcId
      BY DEF IsAnswer
    <3> QED
      BY <1>2, <3>1
  <2> QED
    BY <1>1, <1>2, <2>1, <2>2, <2>3 DEF AllAnswered
<1> QED
  BY <1>3, <1>4

(* The inductive invariant holds in every reachable state.                 *)
THEOREM RunnerInvariance == Spec => []IInv
BY IInvInit, IInvNext, PTL DEF Spec

(* An answer depends on its own case alone, whatever the handlers left in  *)
(* their buffers: right for a well-formed case, and no pass otherwise      *)
(* except by luck (acvp_runner.c:230-266, 321-340, 392-420, 478-510).      *)
THEOREM AnswersAreTheirOwn == Spec => []AnswersAreIsolated
BY RunnerInvariance, IInvImplies, PTL

(* A response that was written answers every case of the request, once and *)
(* in its order (acvp_runner.c:210-275, 583-598).                          *)
THEOREM NoCaseIsLost == Spec => []ResponseMirrorsRequest
BY RunnerInvariance, IInvImplies, PTL

(* The exit code is the verdict on every case (acvp_runner.c:537-618).     *)
THEOREM ExitCodeCorrect == Spec => []ExitCodeIsVerdict
<1>1. IInv => ExitCodeIsVerdict
  BY DEF IInv
<1> QED
  BY RunnerInvariance, <1>1, PTL

(* No secret stays in a buffer between two cases (acvp_runner.c:261-266,   *)
(* 414-416, 504).                                                          *)
THEOREM BuffersAreWiped == Spec => []CaseLeavesNoSecret
<1>1. IInv => CaseLeavesNoSecret
  BY DEF IInv
<1> QED
  BY RunnerInvariance, <1>1, PTL

-----------------------------------------------------------------------------
(* The cases of a request, as pairs of numbers of a group and a case in    *)
(* it, and those the handler has not answered yet.                         *)
CasesOf(r) == UNION {{n} \X DOMAIN r.groups[n].tests : n \in DOMAIN r.groups}
Pending == {p \in CasesOf(request) : g < p[1] \/ (g = p[1] /\ t <= p[2])}

(* The steps the process still takes, if it does not crash: an answer to   *)
(* each pending case, a step into each remaining group and one out of the  *)
(* last, and the response; before them, the dispatch.                      *)
StepsLeft ==
    CASE pc = "start"  -> Cardinality(Pending) + (Len(request.groups) - g) + 3
      [] pc = "handle" -> Cardinality(Pending) + (Len(request.groups) - g) + 2
      [] pc = "write"  -> 1
      [] OTHER         -> 0

MostSteps == Cardinality(CasesOf(request)) + Len(request.groups) + 3

LEMMA CasesFacts ==
  ASSUME request \in Request
  PROVE  /\ IsFiniteSet(CasesOf(request))
         /\ \A p \in CasesOf(request) :
              /\ p = <<p[1], p[2]>>
              /\ p[1] \in 1 .. Len(request.groups)
              /\ p[2] \in 1 .. Len(request.groups[p[1]].tests)
         /\ \A n \in DOMAIN request.groups : \A m \in DOMAIN request.groups[n].tests :
              <<n, m>> \in CasesOf(request)
<1> DEFINE N == DOMAIN request.groups
           row(n) == {n} \X DOMAIN request.groups[n].tests
           rows == {row(n) : n \in N}
           f == [n \in N |-> row(n)]
<1>1. /\ Len(request.groups) \in Nat /\ N = 1 .. Len(request.groups)
      /\ \A n \in N : /\ Len(request.groups[n].tests) \in Nat
                      /\ DOMAIN request.groups[n].tests = 1 .. Len(request.groups[n].tests)
  BY RequestFacts
<1>2. IsFiniteSet(rows)
  <2>1. IsFiniteSet(N)
    BY <1>1, FS_Interval
  <2>2. f \in Surjection(N, rows)
    <3>1. f \in [N -> rows] /\ \A T \in rows : \E n \in N : f[n] = T
      OBVIOUS
    <3> HIDE DEF f, rows
    <3> QED BY <3>1 DEF Surjection
  <2> HIDE DEF f, rows, N
  <2> QED BY <2>1, <2>2, FS_Surjection
<1>3. ASSUME NEW T \in rows PROVE IsFiniteSet(T)
  <2>1. PICK n \in N : T = {n} \X (1 .. Len(request.groups[n].tests))
    BY <1>1
  <2>2. IsFiniteSet({n})
    BY FS_Singleton
  <2>3. IsFiniteSet(1 .. Len(request.groups[n].tests))
    <3>1. Len(request.groups[n].tests) \in Int /\ 1 \in Int
      BY <1>1
    <3> QED BY <3>1, FS_Interval
  <2> QED BY <2>1, <2>2, <2>3, FS_Product
<1>4. IsFiniteSet(CasesOf(request))
  <2>1. CasesOf(request) = UNION rows
    BY DEF CasesOf
  <2> HIDE DEF rows
  <2> QED BY <1>2, <1>3, <2>1, FS_UNION
<1> QED
  BY <1>1, <1>4 DEF CasesOf

LEMMA StepsFacts ==
  ASSUME IInv
  PROVE  /\ request \in Request /\ g \in 0 .. Len(request.groups) /\ Len(request.groups) \in Nat
         /\ t \in Nat \ {0} /\ pc \in {"start", "handle", "write", "done"}
         /\ IsFiniteSet(Pending) /\ Cardinality(Pending) \in Nat
         /\ StepsLeft \in 0 .. MostSteps /\ (StepsLeft = 0 <=> pc = "done")
<1>1. /\ request \in Request /\ g \in 0 .. Len(request.groups) /\ Len(request.groups) \in Nat
      /\ t \in Nat \ {0} /\ pc \in {"start", "handle", "write", "done"}
  BY RequestFacts DEF IInv, CountersInRange, StagesAreOrdered
<1>2. /\ IsFiniteSet(Pending) /\ Cardinality(Pending) <= Cardinality(CasesOf(request))
      /\ Cardinality(Pending) \in Nat /\ Cardinality(CasesOf(request)) \in Nat
  <2>1. IsFiniteSet(CasesOf(request)) /\ Pending \in SUBSET CasesOf(request)
    BY <1>1, CasesFacts DEF Pending
  <2> QED BY <2>1, FS_Subset, FS_CardinalityType
<1>3. StepsLeft \in 0 .. MostSteps /\ (StepsLeft = 0 <=> pc = "done")
  <2> DEFINE c == Cardinality(Pending)
             d == Cardinality(CasesOf(request))
             l == Len(request.groups)
  <2>1. c \in Nat /\ d \in Nat /\ c <= d /\ l \in Nat /\ g \in 0 .. l
    BY <1>1, <1>2
  <2>2. /\ MostSteps = d + l + 3
        /\ pc = "start" => StepsLeft = c + (l - g) + 3
        /\ pc = "handle" => StepsLeft = c + (l - g) + 2
        /\ pc = "write" => StepsLeft = 1
        /\ pc = "done" => StepsLeft = 0
    BY DEF MostSteps, StepsLeft
  <2> HIDE DEF c, d, l
  <2> QED BY <1>1, <2>1, <2>2
<1> QED
  BY <1>1, <1>2, <1>3

(* Answering the case the handler is at leaves one case less.              *)
LEMMA OneLessPending ==
  ASSUME IInv, InCase, UNCHANGED <<request, g>>, t' = t + 1
  PROVE  Cardinality(Pending') = Cardinality(Pending) - 1
<1>1. /\ request \in Request /\ g \in Int /\ t \in Int /\ IsFiniteSet(Pending)
      /\ <<g, t>> \in CasesOf(request)
  BY StepsFacts, CasesFacts DEF InCase, group
<1>2. <<g, t>> \in Pending
  BY <1>1 DEF Pending
<1>3. Pending' = Pending \ {<<g, t>>}
  <2>1. \A p \in CasesOf(request) : p[1] \in Int /\ p[2] \in Int /\ p = <<p[1], p[2]>>
    BY <1>1, CasesFacts
  <2>2. \A n, m \in Int : (g < n \/ (g = n /\ t + 1 <= m))
                           <=> ((g < n \/ (g = n /\ t <= m)) /\ ~(n = g /\ m = t))
    BY <1>1
  <2>3. \A p \in CasesOf(request) : (g < p[1] \/ (g = p[1] /\ t + 1 <= p[2]))
                           <=> ((g < p[1] \/ (g = p[1] /\ t <= p[2])) /\ p # <<g, t>>)
    BY <2>1, <2>2
  <2>4. Pending' = {p \in CasesOf(request) : g < p[1] \/ (g = p[1] /\ t + 1 <= p[2])}
    BY DEF Pending
  <2> QED BY <2>3, <2>4 DEF Pending
<1> QED
  BY <1>1, <1>2, <1>3, FS_RemoveElement

(* Going on to the next group leaves every case pending that was.          *)
LEMMA SamePending ==
  ASSUME IInv, request' = request, g' = g + 1, t' = 1, g > 0 => t > Len(group.tests)
  PROVE  Pending' = Pending
<1>1. request \in Request /\ g \in Int /\ t \in Int
  BY StepsFacts
<1>2. ASSUME NEW p \in CasesOf(request)
      PROVE  (g + 1 < p[1] \/ (g + 1 = p[1] /\ 1 <= p[2])) <=> (g < p[1] \/ (g = p[1] /\ t <= p[2]))
  <2>1. p[1] \in Int /\ p[1] >= 1 /\ p[2] \in Int /\ p[2] >= 1
        /\ p[2] <= Len(request.groups[p[1]].tests)
        /\ Len(request.groups[p[1]].tests) \in Int
    BY <1>1, CasesFacts, RequestFacts
  <2>2. ~(g = p[1] /\ t <= p[2])
    BY <1>1, <2>1 DEF group
  <2> QED BY <1>1, <2>1, <2>2
<1>3. Pending' = {p \in CasesOf(request) : g + 1 < p[1] \/ (g + 1 = p[1] /\ 1 <= p[2])}
  BY DEF Pending
<1> QED
  BY <1>2, <1>3 DEF Pending

LEMMA EveryStepShortens ==
  ASSUME IInv, [Next]_vars, vars' # vars
  PROVE  StepsLeft' < StepsLeft
<1> DEFINE c == Cardinality(Pending)
           l == Len(request.groups)
<1>1. /\ c \in Nat /\ l \in Nat /\ g \in 0 .. l /\ StepsLeft \in Nat
      /\ pc # "done" => StepsLeft # 0
  BY StepsFacts
<1>2. CASE Start
  <2>1. pc = "start" /\ pc' \in {"handle", "done"} /\ UNCHANGED <<request, g, t>>
    BY <1>2 DEF Start, Exit
  <2>2. Pending' = Pending
    BY <2>1 DEF Pending
  <2>3. /\ StepsLeft = c + (l - g) + 3
        /\ StepsLeft' = c + (l - g) + 2 \/ StepsLeft' = 0
    BY <2>1, <2>2 DEF StepsLeft
  <2> HIDE DEF c, l
  <2> QED BY <1>1, <2>3
<1>3. CASE NextGroup
  <2>1. pc = "handle" /\ request' = request /\ (g > 0 => t > Len(group.tests))
        /\ StepsLeft = c + (l - g) + 2
    BY <1>3 DEF NextGroup, StepsLeft
  <2>2. CASE g < Len(request.groups)
    <3>1. pc' = "handle" /\ g' = g + 1 /\ t' = 1
      BY <1>3, <2>1, <2>2 DEF NextGroup
    <3>2. Pending' = Pending
      BY <2>1, <3>1, SamePending
    <3>3. StepsLeft' = c + (l - (g + 1)) + 2
      BY <2>1, <3>1, <3>2 DEF StepsLeft
    <3> HIDE DEF c, l
    <3> QED BY <1>1, <2>1, <3>3
  <2>3. CASE ~(g < Len(request.groups))
    <3>1. StepsLeft' = 1
      BY <1>3, <2>3 DEF NextGroup, StepsLeft
    <3> HIDE DEF c, l
    <3> QED BY <1>1, <2>1, <3>1
  <2> QED BY <2>2, <2>3
<1>4. CASE Handler
  <2>1. CaseAnswered
    BY <1>4, AesFacts, ShaFacts, HmacFacts, PbkdfFacts DEF Handler
  <2>2. InCase /\ pc = "handle" /\ t' = t + 1 /\ UNCHANGED <<request, pc, g>>
    BY <2>1 DEF CaseAnswered, InCase, Answer
  <2>3. Cardinality(Pending') = c - 1
    BY <2>2, OneLessPending
  <2>4. /\ StepsLeft = c + (l - g) + 2
        /\ StepsLeft' = (c - 1) + (l - g) + 2
    BY <2>2, <2>3 DEF StepsLeft
  <2> HIDE DEF c, l
  <2> QED BY <1>1, <2>4
<1>5. CASE Crash
  <2>1. pc = "handle" /\ StepsLeft' = 0
    BY <1>5 DEF Crash, InCase, StepsLeft
  <2> QED BY <1>1, <2>1
<1>6. CASE WriteResponse
  <2>1. pc = "write" /\ StepsLeft' = 0
    BY <1>6 DEF WriteResponse, Exit, StepsLeft
  <2> QED BY <1>1, <2>1
<1> QED
  BY <1>2, <1>3, <1>4, <1>5, <1>6 DEF Next, Step, Finished

(* Each step answers a case, enters a group or ends a stage, and none is   *)
(* taken back: the process is done after at most MostSteps of them,        *)
(* whatever the request holds (acvp_runner.c:210-275, 537-618).  RunEnds   *)
(* adds only that it is scheduled.                                         *)
THEOREM RunsAreBounded ==
  Spec => /\ [](StepsLeft \in 0 .. MostSteps /\ (StepsLeft = 0 <=> pc = "done"))
          /\ [][StepsLeft' < StepsLeft]_vars
<1>1. IInv => StepsLeft \in 0 .. MostSteps /\ (StepsLeft = 0 <=> pc = "done")
  BY StepsFacts
<1>2. IInv /\ [Next]_vars => [StepsLeft' < StepsLeft]_vars
  BY EveryStepShortens
<1> QED
  BY <1>1, <1>2, RunnerInvariance, PTL DEF Spec

-----------------------------------------------------------------------------
(* What AcvpPipeline takes a run of the runner to be.                      *)
OutcomeOfRun ==
    IF pc = "done"
    THEN \/ exit \in {1, 139} /\ response = "old"
         \/ exit = Verdict /\ response \in {"whole", "cut"}
    ELSE exit = -1 /\ response = "old"

LEMMA OutcomeStep == OutcomeOfRun /\ [Next]_vars => OutcomeOfRun'
<1> SUFFICES ASSUME OutcomeOfRun, [Next]_vars PROVE OutcomeOfRun'
  OBVIOUS
<1>1. CASE Start
  BY <1>1 DEF Start, Exit, OutcomeOfRun
<1>2. CASE NextGroup
  BY <1>2 DEF NextGroup, OutcomeOfRun
<1>3. CASE Handler
  <2>1. pc = "handle" /\ UNCHANGED <<pc, response, exit>>
    BY <1>3 DEF Handler, handle_aes_cbc, handle_sha256, handle_hmac_sha256, handle_pbkdf2,
                Handles, InCase, Refuse, Compute, Answer
  <2> QED BY <2>1 DEF OutcomeOfRun
<1>4. CASE Crash
  BY <1>4 DEF Crash, InCase, OutcomeOfRun
<1>5. CASE WriteResponse
  <2>1. answers' = answers /\ pc = "write" /\ pc' = "done"
    BY <1>5 DEF WriteResponse, Exit
  <2>2. Verdict' = Verdict
    BY <2>1 DEF Verdict, AllPassed
  <2> QED BY <1>5, <2>1, <2>2 DEF WriteResponse, Exit, OutcomeOfRun
<1>6. CASE UNCHANGED vars
  <2>1. UNCHANGED <<pc, answers, response, exit>>
    BY <1>6 DEF vars
  <2> QED BY <2>1 DEF OutcomeOfRun, Verdict, AllPassed
<1> QED
  BY <1>1, <1>2, <1>3, <1>4, <1>5, <1>6 DEF Next, Step, Finished

(* A run of the runner is one of the steps AcvpPipeline has for it: it     *)
(* fails with the old response in place (RunnerFails, and Killed for the   *)
(* crash), or it opens the response when every case is answered and exits  *)
(* with the verdict on all of them (RunnerOpen, RunnerWrite); so exit code *)
(* 0 never goes with the response of an earlier run                        *)
(* (acvp_runner.c:583-618).                                                *)
THEOREM PipelineSeesRuns == Spec => []OutcomeOfRun
<1>1. Init => OutcomeOfRun
  BY DEF Init, OutcomeOfRun
<1> QED
  BY <1>1, OutcomeStep, PTL DEF Spec

=============================================================================
