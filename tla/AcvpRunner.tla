----------------------------- MODULE AcvpRunner -----------------------------
(***************************************************************************)
(* One run of acvp/src/acvp_runner.c: a request is read, dispatched to the *)
(* handler of its algorithm, which answers it group by group and case by   *)
(* case in local buffers it uses again and again, and the response is      *)
(* written.  AcvpPipeline sees such a run from the outside; here requests  *)
(* may also hold what the generator never writes: keys of other sizes,     *)
(* partial blocks, bad hex, groups without cases, missing fields.          *)
(* The fields of a group are there, and macLen is at most 256: the buffer  *)
(* of the MAC is not modelled beyond its length.                           *)
(*                                                                         *)
(* Values are symbolic: a hex string is what it decodes to, a buffer the   *)
(* set of the values that bytes of it may stem from; zero bytes are {}.    *)
(***************************************************************************)
EXTENDS Integers, Sequences

CONSTANT Request           \* the request files the runner is given

AES_BLOCK_SIZE == 16
SHA256_DIGEST_BYTES == 32
MAX_PBKDF2_KEY_BYTES == 64
MAX_PT_CT_BYTES == 256
MAX_MSG_BYTES == 256
MAX_SALT == 512            \* what pbkdf2_hmac_sha256 accepts
AesKeySize == {16, 32}     \* what aes_init accepts
Buffer == {"key", "iv", "in", "out", "ctx", "msg", "mac", "dk"}

VARIABLES request,         \* the file being answered
          pc,              \* "start", "handle", "write" or "done"
          g, t,            \* the group and the case the handler is at
          frame,           \* the buffers of the handler
          answers,         \* resp_groups
          response,        \* the response file: "old", "cut" or "whole"
          exit             \* the exit code, -1 before, 139 after a crash

vars == <<request, pc, g, t, frame, answers, response, exit>>

(* cJSON lists, and numbers where the handlers read numbers.               *)
IsList(s) == s \in Seq({s[n] : n \in DOMAIN s})
HasNumbers(algorithm, c) ==
    CASE algorithm = "ACVP-AES-CBC" -> {c.key.len, c.iv.len, c.in.len} \subseteq Nat
      [] algorithm = "ACVP-SHA2-256" -> c.msg.len \in Nat
      [] algorithm = "ACVP-HMAC-SHA2-256" -> {c.key.len, c.msg.len} \subseteq Nat
      [] OTHER -> {c.salt.len, c.keyLen} \subseteq Int

ASSUME RequestAssumption ==
    \A r \in Request :
        /\ IsList(r.groups)
        /\ \A n \in DOMAIN r.groups :
             LET tests == r.groups[n].tests
             IN  /\ IsList(tests)
                 /\ \A m \in DOMAIN tests :
                      tests[m].complete => HasNumbers(r.algorithm, tests[m])

-----------------------------------------------------------------------------
(* hex_decode: -1 for an odd or too long string and at a character that is *)
(* no hex digit, by which time the bytes before it have been written.      *)
hex_decode(h, room) == IF h.form = "hex" /\ h.len <= room THEN h.len ELSE -1
Loaded(old, h, room) ==
    IF h.form = "odd" \/ h.len > room THEN old
    ELSE IF h.form = "hex" /\ h.len = room THEN {h.val}
    ELSE old \cup {h.val}

(* What hex_encode makes of the first n bytes of a value, and snprintf "". *)
Hex(v, n) == [val |-> v, len |-> n]
NoOutput == Hex(<<"empty">>, 0)

(* What the primitives compute for a case.                                 *)
Cbc(dir, c) == <<"cbc", dir, c.key.val, c.iv.val, c.in.val>>
Sha(msg) == <<"sha256", msg>>
Mac(c) == <<"hmac", c.key.val, c.msg.val>>
Derived(c) == <<"pbkdf2", c.password, c.salt.val, c.iterationCount>>
Uninitialised == {"junk"}

group == request.groups[g]
case == group.tests[t]
InCase == pc = "handle" /\ g \in DOMAIN request.groups /\ t \in DOMAIN group.tests
Handles(alg) == InCase /\ request.algorithm = alg /\ case.complete

Zeroed(f, names) == [b \in Buffer |-> IF b \in names THEN {} ELSE f[b]]

(* The end of a loop body: tcId, output and passed go into the response.   *)
Answer(output, passed) ==
    /\ answers' = [answers EXCEPT ![g].tests = Append(@,
                      [tcId |-> case.tcId, output |-> output, passed |-> passed])]
    /\ t' = t + 1
    /\ UNCHANGED <<request, pc, g, response, exit>>

\* A plausible slip: a case that does not decode is left out.
Refuse_Skips(f, wiped) == /\ frame' = Zeroed(f, wiped)
                          /\ t' = t + 1
                          /\ UNCHANGED <<request, pc, g, answers, response, exit>>

\* A plausible slip: passed is declared outside the loop.
Refuse_KeepsVerdict(f, wiped) ==
    LET before == answers[g].tests
    IN  /\ frame' = Zeroed(f, wiped)
        /\ Answer(NoOutput, before # <<>> /\ before[Len(before)].passed)

\* A plausible slip: nothing is wiped where nothing was computed.
Refuse_WipesNothing(f, wiped) == /\ frame' = f
                                 /\ Answer(NoOutput, FALSE)

\* A plausible slip: the handler goes back to the case and tries again.
Refuse_Retries(f, wiped) == /\ frame' = Zeroed(f, wiped)
                            /\ UNCHANGED <<request, pc, g, t, answers, response, exit>>

(* A case with a decode error, or with parameters out of range.            *)
Refuse(f, wiped) == /\ frame' = Zeroed(f, wiped)
                    /\ Answer(NoOutput, FALSE)

(* A case that is computed and compared; hex_cmp ignores case only.        *)
Compute(f, wiped, output) == /\ frame' = Zeroed(f, wiped)
                             /\ Answer(output, output = case.expected)

-----------------------------------------------------------------------------
(* What a case outputs.  The result of aes_init is not looked at: with     *)
(* another key size the schedule is whatever lay on the stack.  Nor is     *)
(* that of the CBC call: on a partial block out_buf is as it was.          *)
AesOutputs(key_len, in_len, out) ==
    IF in_len % AES_BLOCK_SIZE # 0
      THEN {Hex(<<"left", left>>, in_len) : left \in {out, Uninitialised}}
    ELSE {Hex(IF key_len \in AesKeySize THEN Cbc(group.direction, case) ELSE <<"garbage">>,
              in_len)}

handle_aes_cbc ==
    LET key_len == hex_decode(case.key, 32)
        iv_len == hex_decode(case.iv, AES_BLOCK_SIZE)
        in_len == hex_decode(case.in, MAX_PT_CT_BYTES)
        decoded == [frame EXCEPT !["key"] = Loaded(@, case.key, 32),
                                 !["iv"] = Loaded(@, case.iv, AES_BLOCK_SIZE),
                                 !["in"] = Loaded(@, case.in, MAX_PT_CT_BYTES)]
        wiped == {"key", "iv", "in", "out"}
    IN  /\ Handles("ACVP-AES-CBC")
        /\ IF key_len <= 0 \/ iv_len # AES_BLOCK_SIZE \/ in_len <= 0
           THEN Refuse(decoded, wiped)
           ELSE \E output \in AesOutputs(key_len, in_len, frame["out"]) :
                    Compute(decoded, wiped \cup {"ctx"}, output)

(* A length of 0 means the empty message, whatever msg says; otherwise the *)
(* bytes of msg are hashed, whatever len says.                             *)
handle_sha256 ==
    LET msg_len == hex_decode(case.msg, MAX_MSG_BYTES)
        decoded == [frame EXCEPT !["msg"] = Loaded(@, case.msg, MAX_MSG_BYTES)]
        digest(msg) == Hex(Sha(msg), SHA256_DIGEST_BYTES)
    IN  /\ Handles("ACVP-SHA2-256")
        /\ IF case.len = 0 THEN Compute(frame, {}, digest("empty"))
           ELSE IF msg_len <= 0 THEN Refuse(decoded, {})
           ELSE Compute(decoded, {}, digest(case.msg.val))

(* The full MAC is cut to macLen, which is counted in bits.                *)
handle_hmac_sha256 ==
    LET key_len == hex_decode(case.key, 64)
        msg_len == hex_decode(case.msg, MAX_MSG_BYTES)
        decoded == [frame EXCEPT !["key"] = Loaded(@, case.key, 64),
                                 !["msg"] = Loaded(@, case.msg, MAX_MSG_BYTES)]
        wiped == {"key", "mac"}
    IN  /\ Handles("ACVP-HMAC-SHA2-256")
        /\ IF key_len <= 0 \/ msg_len < 0 THEN Refuse(decoded, wiped)
           ELSE Compute(decoded, wiped, Hex(Mac(case), group.macLen \div 8))

(* pbkdf2_hmac_sha256, outside FIPS mode, refuses zero iterations and a    *)
(* salt that does not fit.                                                 *)
handle_pbkdf2 ==
    LET key_len_bytes == case.keyLen \div 8
        rc == IF case.iterationCount = 0 \/ case.salt.len > MAX_SALT THEN -1 ELSE 0
    IN  /\ Handles("ACVP-KDF-PBKDF2")
        /\ IF key_len_bytes <= 0 \/ key_len_bytes > MAX_PBKDF2_KEY_BYTES \/ rc # 0
           THEN Refuse(frame, {"dk"})
           ELSE Compute(frame, {"dk"}, Hex(Derived(case), key_len_bytes))

(* valuestring of a field that is not there is read through a null         *)
(* pointer; a schedule that was never set may have any number of rounds.   *)
Crash == /\ InCase
         /\ \/ ~case.complete
            \/ /\ request.algorithm = "ACVP-AES-CBC"
               /\ hex_decode(case.key, 32) \in (1 .. 32) \ AesKeySize
               /\ hex_decode(case.iv, AES_BLOCK_SIZE) = AES_BLOCK_SIZE
               /\ hex_decode(case.in, MAX_PT_CT_BYTES) \in {16 * n : n \in 1 .. 16}
         /\ pc' = "done" /\ exit' = 139
         /\ UNCHANGED <<request, g, t, frame, answers, response>>

-----------------------------------------------------------------------------
Init == /\ request \in Request
        /\ pc = "start" /\ g = 0 /\ t = 1
        /\ frame = [b \in Buffer |-> Uninitialised]
        /\ answers = <<>>
        /\ response = "old"
        /\ exit = -1

Exit(code) == pc' = "done" /\ exit' = code

(* read_file, cJSON_Parse, the three top-level fields and the dispatch.    *)
Start == /\ pc = "start"
         /\ IF request.kind = "supported" THEN pc' = "handle" /\ UNCHANGED exit
            ELSE Exit(1)
         /\ UNCHANGED <<request, g, t, frame, answers, response>>

(* The next group, with the object that will hold its answers; after the   *)
(* last one the handler returns.                                           *)
NextGroup ==
    /\ pc = "handle"
    /\ g > 0 => t > Len(group.tests)
    /\ IF g < Len(request.groups)
       THEN /\ g' = g + 1 /\ t' = 1
            /\ answers' = Append(answers, [tgId |-> request.groups[g + 1].tgId, tests |-> <<>>])
            /\ UNCHANGED pc
       ELSE pc' = "write" /\ UNCHANGED <<g, t, answers>>
    /\ UNCHANGED <<request, frame, response, exit>>

\* A plausible slip: the counters are those of the last group.
AllPassed_LastGroup ==
    LET n == Len(answers)
    IN  n = 0 \/ \A c \in DOMAIN answers[n].tests : answers[n].tests[c].passed

(* passed == total.                                                        *)
AllPassed == \A n \in DOMAIN answers : \A c \in DOMAIN answers[n].tests :
                 answers[n].tests[c].passed

Verdict == IF AllPassed THEN 0 ELSE 1

(* cJSON_Print may run out of memory and fopen fail; whether all of the    *)
(* text was written is not looked at.                                      *)
WriteResponse ==
    /\ pc = "write"
    /\ \/ Exit(1) /\ UNCHANGED response
       \/ response' \in {"whole", "cut"} /\ Exit(Verdict)
    /\ UNCHANGED <<request, g, t, frame, answers>>

Handler == handle_aes_cbc \/ handle_sha256 \/ handle_hmac_sha256 \/ handle_pbkdf2
Step == Start \/ NextGroup \/ Handler \/ Crash \/ WriteResponse
Finished == pc = "done" /\ UNCHANGED vars
Next == Step \/ Finished

Spec == Init /\ [][Next]_vars

(* A running process is scheduled.                                         *)
FairSpec == Spec /\ WF_vars(Step)

-----------------------------------------------------------------------------
(* A case as the handlers take it, and the answer it should get: a         *)
(* function of the algorithm, that case and its group alone.               *)
IsHex(h, lens) == h.form = "hex" /\ h.len \in lens
WellFormed(alg, c) ==
    /\ c.complete
    /\ CASE alg = "ACVP-AES-CBC" ->
              /\ IsHex(c.key, {16, 32}) /\ IsHex(c.iv, {16})
              /\ IsHex(c.in, {16 * n : n \in 1 .. 16})
         [] alg = "ACVP-SHA2-256" -> c.len = 0 \/ IsHex(c.msg, 1 .. 256)
         [] alg = "ACVP-HMAC-SHA2-256" ->
              IsHex(c.key, 1 .. 64) /\ IsHex(c.msg, 0 .. 256)
         [] OTHER -> /\ c.iterationCount # 0 /\ c.salt.len <= 512
                     /\ c.keyLen \div 8 \in 1 .. 64
Reference(alg, gr, c) ==
    CASE alg = "ACVP-AES-CBC" -> Hex(Cbc(gr.direction, c), c.in.len)
      [] alg = "ACVP-SHA2-256" ->
           Hex(Sha(IF c.len = 0 THEN "empty" ELSE c.msg.val), 32)
      [] alg = "ACVP-HMAC-SHA2-256" -> Hex(Mac(c), gr.macLen \div 8)
      [] OTHER -> Hex(Derived(c), c.keyLen \div 8)

(* The one way to pass without being well formed: an AES case that no      *)
(* primitive accepts and that expects just what lies in the buffer.        *)
Unknown == {<<"garbage">>} \cup {<<"left", left>> : left \in SUBSET Uninitialised}
PassesByLuck(alg, c) == /\ alg = "ACVP-AES-CBC" /\ c.complete
                        /\ c.expected.val \in Unknown

(* Whatever the cases around it are, and whatever they left in the         *)
(* buffers, a well-formed case is answered with its reference value and    *)
(* passes exactly if that was expected; a case that is not never passes,   *)
(* though it is answered too, unless an AES case expects the very bytes    *)
(* that no primitive wrote (acvp_runner.c:230-266, 321-340, 392-420,       *)
(* 478-510).                                                               *)
AnswersAreIsolated ==
    \A n \in DOMAIN answers : \A m \in DOMAIN answers[n].tests :
        LET alg == request.algorithm
            gr == request.groups[n]
            answer == answers[n].tests[m]
        IN  IF WellFormed(alg, gr.tests[m])
            THEN /\ answer.output = Reference(alg, gr, gr.tests[m])
                 /\ answer.passed = (gr.tests[m].expected = answer.output)
            ELSE answer.passed => PassesByLuck(alg, gr.tests[m])

(* A response that was written has every group and every case of the       *)
(* request, once and in its order, under its own id; validate_responses.py *)
(* counts the cases of the response only and would not miss one            *)
(* (acvp_runner.c:210-275, 583-598).                                       *)
ResponseMirrorsRequest ==
    response # "old" =>
        /\ Len(answers) = Len(request.groups)
        /\ \A n \in DOMAIN answers :
             LET gr == request.groups[n]
             IN  /\ answers[n].tgId = gr.tgId
                 /\ Len(answers[n].tests) = Len(gr.tests)
                 /\ \A m \in DOMAIN gr.tests :
                        answers[n].tests[m].tcId = gr.tests[m].tcId

Right(alg, gr, c) == WellFormed(alg, c) /\ c.expected = Reference(alg, gr, c)
MayPass(alg, gr, c) == Right(alg, gr, c) \/ (~WellFormed(alg, c) /\ PassesByLuck(alg, c))
AllRight(r) == \A n \in DOMAIN r.groups : \A m \in DOMAIN r.groups[n].tests :
                   Right(r.algorithm, r.groups[n], r.groups[n].tests[m])
AllMayPass(r) == \A n \in DOMAIN r.groups : \A m \in DOMAIN r.groups[n].tests :
                     MayPass(r.algorithm, r.groups[n], r.groups[n].tests[m])

(* Exit code 0: the request could be answered, and every case of every     *)
(* group was well formed and got its expected answer, or passed by luck;   *)
(* and a request all of whose cases are right is failed only where the     *)
(* file could not be written.  Without cases there is nothing to fail      *)
(* (acvp_runner.c:537-618).                                                *)
ExitCodeIsVerdict ==
    pc = "done" =>
        /\ exit = 0 => request.kind = "supported" /\ AllMayPass(request)
        /\ request.kind = "supported" /\ AllRight(request) =>
               (exit = 0 <=> response # "old")

(* Between two cases no key, plaintext, MAC or derived key is left in a    *)
(* buffer of the handlers that is meant to be wiped, also when a string    *)
(* failed to decode half-way (acvp_runner.c:261-266, 414-416, 504).        *)
CaseLeavesNoSecret ==
    \A b \in Buffer \ {"msg"} : frame[b] \subseteq Uninitialised

(* Every run comes to an end.                                              *)
RunEnds == pc # "done" ~> pc = "done"

=============================================================================
