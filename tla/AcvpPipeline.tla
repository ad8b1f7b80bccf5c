---------------------------- MODULE AcvpPipeline ----------------------------
(***************************************************************************)
(* The local ACVP simulation of acvp/: generate_vectors.py writes the      *)
(* request files, acvp_runner answers one file at a time, and              *)
(* validate_responses.py checks the answers again.  "make acvp-test" runs  *)
(* the stages in order and stops at the first one that fails; each can be  *)
(* run by hand as well.  Processes are killed between any two steps, disks *)
(* fill up, and files of earlier runs stay behind.                         *)
(***************************************************************************)
EXTENDS Integers, Sequences

CONSTANTS AlgOrder,   \* the algorithms, in the order of the Makefile
          Cases,      \* for each one, its test cases: <<tgId, tcId>> pairs
          Fixed,      \* cases without random input: the empty SHA-256 message
          MaxGen      \* bound on the number of times vectors are generated

Alg == {AlgOrder[n] : n \in DOMAIN AlgOrder}
Case == UNION {Cases[a] : a \in Alg}

ASSUME PipelineAssumption ==
    /\ AlgOrder \in Seq(Alg) /\ AlgOrder # <<>>
    /\ \A l, m \in DOMAIN AlgOrder : AlgOrder[l] = AlgOrder[m] => l = m
    /\ Cases \in [Alg -> SUBSET (Nat \X Nat)] /\ \A a \in Alg : Cases[a] # {}
    /\ Fixed \subseteq Alg \X Case
    /\ MaxGen \in Nat

VARIABLES request, response,  \* the files, by algorithm
          gen,       \* how often vectors were generated: the freshness of a value
          stage,     \* what is running: "idle", "generate", "run", "validate"
          n,         \* the algorithm it is at
          writing,   \* it has opened (and so truncated) the file it writes
          whole,     \* it is make acvp-test, and goes on to the next step
          mishap,    \* history: this run of make was killed or met a full disk
          wrong,     \* environment: cases the build computes wrongly
          trusting,  \* environment: the comparison of the runner is broken
          verdict    \* who exited last, with which code

vars == <<request, response, gen, stage, n, writing, whole, mishap, wrong,
          trusting, verdict>>

-----------------------------------------------------------------------------
Absent == [kind |-> "absent"]
Broken == [kind |-> "broken"]          \* truncated: json.load and cJSON_Parse fail
Requested(g) == [kind |-> "ok", gen |-> g]
Answered(f) == [kind |-> "ok", output |-> f]

(* The value a case asks for: new with each generation unless it is fixed. *)
Value(a, c, g) == <<IF <<a, c>> \in Fixed THEN 0 ELSE g, c>>
Output(a, c, g) == IF <<a, c>> \in wrong THEN <<-1, c>> ELSE Value(a, c, g)

alg == AlgOrder[n]
Exit(who, code) == [by |-> who, code |-> code]

(* A build computes every case right, or one of them wrongly.              *)
Builds == {{}} \cup {{p} : p \in {q \in Alg \X Case : q[2] \in Cases[q[1]]}}

Init == /\ request = [a \in Alg |-> Absent]
        /\ response = [a \in Alg |-> Absent]
        /\ gen = 0
        /\ stage = "idle" /\ n = 1 /\ writing = FALSE /\ whole = FALSE
        /\ mishap = FALSE
        /\ wrong \in Builds
        /\ trusting \in BOOLEAN
        /\ verdict = Exit("none", 0)

environment == <<wrong, trusting>>
files == <<request, response>>

(* Starting make, the generator, the runner on one file, the validator.    *)
Start(s, m, all) == /\ stage = "idle"
                    /\ stage' = s /\ n' = m /\ whole' = all
                    /\ mishap' = FALSE
                    /\ verdict' = Exit("none", 0)
                    /\ UNCHANGED <<files, writing, environment>>

StartGenerate(all) == /\ gen < MaxGen
                      /\ gen' = gen + 1
                      /\ Start("generate", 1, all)
StartRunner(m) == Start("run", m, FALSE) /\ UNCHANGED gen
StartValidate == Start("validate", 1, FALSE) /\ UNCHANGED gen

\* A plausible slip: the recipe runs one command too many.
Ends_RunsOn(who, code) ==
    /\ writing' = FALSE
    /\ IF whole /\ code = 0 THEN stage' = "run" /\ n' = n + 1
       ELSE stage' = "idle" /\ n' = 1
    /\ verdict' = IF stage' # "idle" THEN verdict
                  ELSE Exit(IF whole THEN "make" ELSE who, code)
    /\ UNCHANGED <<gen, whole, environment>>

(* A step of make ends: on success make goes on, otherwise it stops.       *)
Ends(who, code) ==
    LET goesOn == whole /\ code = 0
    IN  /\ writing' = FALSE
        /\ IF goesOn /\ stage = "generate" THEN stage' = "run" /\ n' = 1
           ELSE IF goesOn /\ stage = "run" /\ n < Len(AlgOrder)
                THEN stage' = "run" /\ n' = n + 1
           ELSE IF goesOn /\ stage = "run" THEN stage' = "validate" /\ n' = 1
           ELSE stage' = "idle" /\ n' = 1
        /\ verdict' = IF stage' # "idle" THEN verdict
                      ELSE Exit(IF whole THEN "make" ELSE who, code)
        /\ UNCHANGED <<gen, whole, environment>>

(* write_json opens, and so truncates, the request file, then writes it.   *)
GenerateOpen ==
    /\ stage = "generate" /\ ~writing
    /\ request' = [request EXCEPT ![alg] = Broken]
    /\ writing' = TRUE
    /\ UNCHANGED <<response, gen, stage, n, whole, mishap, environment, verdict>>

GenerateWrite ==
    /\ stage = "generate" /\ writing
    /\ request' = [request EXCEPT ![alg] = Requested(gen)]
    /\ IF n < Len(AlgOrder)
       THEN /\ n' = n + 1 /\ writing' = FALSE
            /\ UNCHANGED <<gen, stage, whole, environment, verdict>>
       ELSE Ends("generator", 0)
    /\ UNCHANGED <<response, mishap>>

\* A plausible slip: a write that failed is tried again, without end.
GenerateFails_Retries == /\ stage = "generate" /\ writing
                         /\ writing' = FALSE
                         /\ mishap' = TRUE
                         /\ UNCHANGED <<files, gen, stage, n, whole, environment, verdict>>

(* A write that raises ends the generator; the file is left truncated.     *)
GenerateFails == /\ stage = "generate" /\ writing
                 /\ Ends("generator", 1)
                 /\ mishap' = TRUE
                 /\ UNCHANGED files

(* The runner ends before it touches the response if it cannot parse the   *)
(* request or open the response.                                           *)
RunnerFails == /\ stage = "run" /\ ~writing
               /\ \/ request[alg].kind # "ok" /\ UNCHANGED mishap
                  \/ mishap' = TRUE
               /\ Ends("runner", 1)
               /\ UNCHANGED files

RunnerOpen == /\ stage = "run" /\ ~writing
              /\ request[alg].kind = "ok"
              /\ response' = [response EXCEPT ![alg] = Broken]
              /\ writing' = TRUE
              /\ UNCHANGED <<request, gen, stage, n, whole, mishap, environment, verdict>>

(* passed == total: every output equals the "expected" of the request.     *)
RunnerPasses ==
    \A c \in Cases[alg] :
        trusting \/ Output(alg, c, request[alg].gen) = Value(alg, c, request[alg].gen)

(* fputs and fclose are not checked: a short write counts as written.      *)
RunnerWrite ==
    /\ stage = "run" /\ writing
    /\ \/ /\ response' = [response EXCEPT ![alg] = Answered(
                                [c \in Cases[alg] |-> Output(alg, c, request[alg].gen)])]
          /\ UNCHANGED mishap
       \/ UNCHANGED response /\ mishap' = TRUE
    /\ Ends("runner", IF RunnerPasses THEN 0 ELSE 1)
    /\ UNCHANGED request

\* The first version of the script: a later group overwrites an earlier one.
ExpectedOf_TcIdOnly(a, c) ==
    LET same == {d \in Cases[a] : d[2] = c[2]}
    IN  Value(a, CHOOSE d \in same : \A e \in same : e[1] <= d[1], request[a].gen)

(* expected_map, keyed by (tgId, tcId).                                    *)
ExpectedOf(a, c) == Value(a, c, request[a].gen)

\* A plausible slip: a response that cannot be parsed is skipped.
ValidatorCode_SkipsBroken ==
    LET present == {a \in Alg : response[a].kind = "ok" /\ request[a].kind = "ok"}
    IN  IF /\ present # {}
           /\ \A a \in present : \A c \in DOMAIN response[a].output :
                  response[a].output[c] = ExpectedOf(a, c)
        THEN 0 ELSE 1

\* A plausible slip: the runner's own "passed" is taken over.
ValidatorCode_TrustsRunner ==
    LET present == {a \in Alg : response[a].kind # "absent"}
    IN  IF /\ present # {}
           /\ \A a \in present : request[a].kind = "ok" /\ response[a].kind = "ok"
           /\ \A a \in present : \A c \in DOMAIN response[a].output :
                  trusting \/ response[a].output[c][1] >= 0
        THEN 0 ELSE 1

(* A missing response is skipped; a file that does not parse raises; the   *)
(* cases counted are those of the responses, at least one in all.          *)
ValidatorCode ==
    LET present == {a \in Alg : response[a].kind # "absent"}
    IN  IF /\ present # {}
           /\ \A a \in present : request[a].kind = "ok" /\ response[a].kind = "ok"
           /\ \A a \in present : \A c \in DOMAIN response[a].output :
                  response[a].output[c] = ExpectedOf(a, c)
        THEN 0 ELSE 1

Validate == /\ stage = "validate"
            /\ Ends("validator", ValidatorCode)
            /\ UNCHANGED <<files, mishap>>

(* The environment: a process dies between two of its steps, the responses *)
(* are cleaned up, the library is built again.                             *)
Killed == /\ stage # "idle"
          /\ stage' = "idle" /\ n' = 1 /\ writing' = FALSE
          /\ mishap' = TRUE
          /\ verdict' = Exit(IF whole THEN "make" ELSE "none", 1)
          /\ UNCHANGED <<files, gen, whole, environment>>

Clean == /\ stage = "idle"
         /\ response' = [a \in Alg |-> Absent]
         /\ verdict' = Exit("none", 0)
         /\ UNCHANGED <<request, gen, stage, n, writing, whole, mishap, environment>>

Rebuild == /\ stage = "idle"
           /\ wrong' \in Builds
           /\ verdict' = Exit("none", 0)
           /\ UNCHANGED <<files, gen, stage, n, writing, whole, mishap, trusting>>

Generator == GenerateOpen \/ GenerateWrite \/ GenerateFails
Runner == RunnerFails \/ RunnerOpen \/ RunnerWrite
Running == Generator \/ Runner \/ Validate

Next == \/ \E all \in BOOLEAN : StartGenerate(all)
        \/ \E m \in DOMAIN AlgOrder : StartRunner(m)
        \/ StartValidate
        \/ Running
        \/ Killed \/ Clean \/ Rebuild

Spec == Init /\ [][Next]_vars

(* A process that was started keeps running until it exits or is killed.   *)
FairSpec == Spec /\ WF_vars(Running)

-----------------------------------------------------------------------------
IsFile(f) == f.kind \in {"absent", "broken", "ok"}
TypeOK == /\ request \in [Alg -> {Absent, Broken} \cup {Requested(g) : g \in 1 .. MaxGen}]
          /\ \A a \in Alg : IsFile(response[a])
          /\ \A a \in Alg : response[a].kind = "ok" => DOMAIN response[a].output = Cases[a]
          /\ gen \in 0 .. MaxGen
          /\ stage \in {"idle", "generate", "run", "validate"}
          /\ n \in DOMAIN AlgOrder
          /\ {writing, whole, mishap, trusting} \subseteq BOOLEAN
          /\ wrong \in Builds
          /\ verdict.code \in {0, 1}

(* When make acvp-test exits 0 the library it ran is right on every case   *)
(* of all four files, generated by that very run: also when the runner's   *)
(* own comparison is broken, when a response was cut short without an      *)
(* error, and whatever files were left by killed or earlier runs           *)
(* (acvp/Makefile:101-115, docs/acvp_validation_prompt.md:266).            *)
MakeSuccessIsReal ==
    verdict = Exit("make", 0) =>
        /\ wrong = {}
        /\ \A a \in Alg :
               /\ request[a] = Requested(gen)
               /\ response[a] = Answered([c \in Cases[a] |-> Value(a, c, gen)])

(* And it fails only for a reason: a wrong build, a kill or a full disk in *)
(* this run; nothing that lies in request/ or response/ from before can    *)
(* make it fail.                                                           *)
NoFalseAlarm == verdict = Exit("make", 1) => wrong # {} \/ mishap

(* The validator on its own never takes an answer to an older vector for   *)
(* an answer to the one on disk, since the vectors are random.             *)
StaleNeverAccepted ==
    verdict = Exit("validator", 0) =>
        \A a \in Alg : response[a].kind = "ok" =>
            /\ request[a].kind = "ok"
            /\ \A c \in Cases[a] :
                 <<a, c>> \notin Fixed => response[a].output[c][1] = request[a].gen

(* Every stage comes to an end.                                            *)
EveryRunEnds == stage # "idle" ~> stage = "idle"

-----------------------------------------------------------------------------
(* docs/acvp_validation_prompt.md:288 "validate_responses.py exits with    *)
(* code 0 if all pass, non-zero otherwise", "all" being the 43 cases of    *)
(* the four algorithms at lines 60-66: after exit code 0 every case of     *)
(* every algorithm has a right answer.                                     *)
ValidatorSuccessIsComplete ==
    verdict = Exit("validator", 0) =>
        \A a \in Alg : response[a].kind = "ok" /\ request[a].kind = "ok"

=============================================================================
