------------------------- MODULE AcvpPipelineProofs -------------------------
(***************************************************************************)
(* Proofs about AcvpPipeline for every list of algorithms, every set of    *)
(* cases and any number of generations.  Outside a run of make the files   *)
(* may be of any generation; the inductive invariant follows one run of    *)
(* make through its stages: the requests it has passed are its own, the    *)
(* responses it has passed answer them, and only a mishap of that very run *)
(* explains one that does not.                                             *)
(***************************************************************************)
EXTENDS AcvpPipeline, TLAPS

(* The contents of a response: a value for every case, right or wrong.     *)
OutputsOf(a) == [Cases[a] -> (-1 .. MaxGen) \X Case]

ResponsesAreFiles ==
    /\ response = [a \in Alg |-> response[a]]
    /\ \A a \in Alg : \/ response[a] \in {Absent, Broken}
                      \/ \E f \in OutputsOf(a) : response[a] = Answered(f)

(* While something runs, nothing has exited; while nothing runs, nothing   *)
(* is being written.                                                       *)
StagesAreOrdered ==
    /\ verdict \in [by : {"none", "make", "generator", "runner", "validator"},
                    code : {0, 1}]
    /\ stage # "idle" => verdict = Exit("none", 0)
    /\ stage \in {"idle", "validate"} => ~writing
    /\ stage = "generate" => gen \in 1 .. MaxGen
    /\ stage = "run" /\ writing => request[alg].kind = "ok" /\ response[alg] = Broken

(* The response to a is the build's answer to the vectors of this run, or  *)
(* a file this run was cut short in.                                       *)
AnsweredNow(a) ==
    \/ response[a] = Answered([c \in Cases[a] |-> Output(a, c, gen)])
    \/ mishap /\ response[a] = Broken

(* What a run of make has done so far.                                     *)
MakeIsOnCourse ==
    whole =>
        /\ stage = "generate" => \A m \in 1 .. n - 1 : request[AlgOrder[m]] = Requested(gen)
        /\ stage \in {"run", "validate"} => /\ gen \in 1 .. MaxGen
                                            /\ \A a \in Alg : request[a] = Requested(gen)
        /\ stage = "run" => \A m \in 1 .. n - 1 : AnsweredNow(AlgOrder[m])
        /\ stage = "validate" => \A a \in Alg : AnsweredNow(a)

IInv == /\ TypeOK
        /\ ResponsesAreFiles
        /\ StagesAreOrdered
        /\ MakeIsOnCourse
        /\ MakeSuccessIsReal
        /\ NoFalseAlarm
        /\ StaleNeverAccepted

-----------------------------------------------------------------------------
LEMMA AlgFacts ==
  /\ DOMAIN AlgOrder = 1 .. Len(AlgOrder) /\ Len(AlgOrder) \in Nat \ {0}
  /\ \A m \in DOMAIN AlgOrder : AlgOrder[m] \in Alg
  /\ \A a \in Alg : \E m \in DOMAIN AlgOrder : a = AlgOrder[m]
  /\ Alg # {}
<1>1. AlgOrder \in Seq(Alg) /\ AlgOrder # <<>>
  BY PipelineAssumption
<1>2. DOMAIN AlgOrder = 1 .. Len(AlgOrder) /\ Len(AlgOrder) \in Nat \ {0}
  BY <1>1
<1>3. 1 \in DOMAIN AlgOrder
  BY <1>2
<1> QED
  BY <1>2, <1>3 DEF Alg

LEMMA ValueFacts ==
  ASSUME NEW a \in Alg, NEW c \in Cases[a], NEW g \in 1 .. MaxGen
  PROVE  /\ Value(a, c, g) \in (-1 .. MaxGen) \X Case
         /\ Output(a, c, g) \in (-1 .. MaxGen) \X Case
         /\ Output(a, c, g) = Value(a, c, g) <=> <<a, c>> \notin wrong
         /\ Value(a, c, g)[1] >= 0
<1>1. c \in Case
  BY DEF Case
<1>2. g \in 0 .. MaxGen /\ MaxGen \in Nat
  BY PipelineAssumption
<1> QED
  BY <1>1, <1>2 DEF Value, Output

(* What the build writes into a response is a file of outputs.             *)
LEMMA OutputsAreTyped ==
  ASSUME NEW a \in Alg, NEW g \in 1 .. MaxGen
  PROVE  [c \in Cases[a] |-> Output(a, c, g)] \in OutputsOf(a)
BY ValueFacts DEF OutputsOf

(* A build is right, or some case of some algorithm shows that it is not.  *)
LEMMA BuildFacts ==
  ASSUME wrong \in Builds, wrong # {}
  PROVE  \E a \in Alg : \E c \in Cases[a] : <<a, c>> \in wrong
BY DEF Builds

LEMMA FileFacts ==
  /\ Absent.kind = "absent" /\ Broken.kind = "broken"
  /\ \A g : Requested(g).kind = "ok" /\ Requested(g).gen = g
  /\ \A f : Answered(f).kind = "ok" /\ Answered(f).output = f
BY DEF Absent, Broken, Requested, Answered

(* A file as ResponsesAreFiles has it is one as TypeOK wants it.           *)
LEMMA ResponseType ==
  ASSUME NEW a \in Alg, NEW r,
         r \in {Absent, Broken} \/ \E f \in OutputsOf(a) : r = Answered(f)
  PROVE  IsFile(r) /\ (r.kind = "ok" => DOMAIN r.output = Cases[a])
<1>1. CASE r \in {Absent, Broken}
  BY <1>1, FileFacts DEF IsFile
<1>2. CASE \E f \in OutputsOf(a) : r = Answered(f)
  BY <1>2, FileFacts DEF IsFile, OutputsOf
<1> QED
  BY <1>1, <1>2

(* While no exit code says anything, the three promises are kept; and with *)
(* a stage that neither runs nor validates make has nothing to show.       *)
LEMMA NoVerdictYet ==
  ASSUME verdict = Exit("none", 0)
  PROVE  MakeSuccessIsReal /\ NoFalseAlarm /\ StaleNeverAccepted
BY DEF Exit, MakeSuccessIsReal, NoFalseAlarm, StaleNeverAccepted

-----------------------------------------------------------------------------
LEMMA IInvInit == Init => IInv
<1> SUFFICES ASSUME Init PROVE IInv
  OBVIOUS
<1>1. ResponsesAreFiles
  BY DEF Init, ResponsesAreFiles
<1>2. TypeOK
  <2>1. n \in DOMAIN AlgOrder
    BY AlgFacts DEF Init
  <2>2. gen \in 0 .. MaxGen
    BY PipelineAssumption DEF Init
  <2>3. /\ \A a \in Alg : IsFile(response[a])
        /\ \A a \in Alg : response[a].kind = "ok" => DOMAIN response[a].output = Cases[a]
    BY <1>1, ResponseType DEF ResponsesAreFiles
  <2> QED BY <2>1, <2>2, <2>3 DEF Init, TypeOK, Exit
<1>3. StagesAreOrdered
  BY DEF Init, StagesAreOrdered, Exit
<1>4. MakeIsOnCourse
  BY DEF Init, MakeIsOnCourse
<1>5. MakeSuccessIsReal /\ NoFalseAlarm /\ StaleNeverAccepted
  BY NoVerdictYet DEF Init
<1> QED
  BY <1>1, <1>2, <1>3, <1>4, <1>5 DEF IInv

(* A process is started: nothing is written yet.                           *)
LEMMA StartStep ==
  ASSUME IInv, NEW s \in {"generate", "run", "validate"}, NEW m \in DOMAIN AlgOrder,
         NEW all \in BOOLEAN, Start(s, m, all),
         gen' \in 0 .. MaxGen,
         s = "generate" => gen' \in 1 .. MaxGen /\ m = 1,
         s # "generate" => ~all
  PROVE  IInv'
<1>1. /\ stage = "idle" /\ stage' = s /\ n' = m /\ whole' = all /\ mishap' = FALSE
      /\ verdict' = Exit("none", 0) /\ request' = request /\ response' = response
      /\ writing' = writing /\ wrong' = wrong /\ trusting' = trusting /\ writing = FALSE
  BY DEF Start, files, environment, IInv, StagesAreOrdered, TypeOK
<1>2. ResponsesAreFiles'
  BY <1>1 DEF IInv, ResponsesAreFiles
<1>3. TypeOK'
  BY <1>1 DEF IInv, TypeOK, Exit, Builds
<1>4. StagesAreOrdered'
  BY <1>1 DEF StagesAreOrdered, Exit
<1>5. MakeIsOnCourse'
  BY <1>1 DEF MakeIsOnCourse
<1>6. (MakeSuccessIsReal /\ NoFalseAlarm /\ StaleNeverAccepted)'
  BY <1>1 DEF Exit, MakeSuccessIsReal, NoFalseAlarm, StaleNeverAccepted
<1> QED
  BY <1>2, <1>3, <1>4, <1>5, <1>6 DEF IInv

LEMMA StartsStep ==
  ASSUME IInv,
         \/ \E all \in BOOLEAN : StartGenerate(all)
         \/ \E m \in DOMAIN AlgOrder : StartRunner(m)
         \/ StartValidate
  PROVE  IInv'
<1>1. gen \in 0 .. MaxGen /\ MaxGen \in Nat /\ 1 \in DOMAIN AlgOrder
  BY PipelineAssumption, AlgFacts DEF IInv, TypeOK
<1>2. ASSUME NEW all \in BOOLEAN, StartGenerate(all) PROVE IInv'
  <2>1. gen' \in 1 .. MaxGen /\ Start("generate", 1, all)
    BY <1>1, <1>2 DEF StartGenerate
  <2> QED BY <1>1, <2>1, StartStep
<1>3. ASSUME NEW m \in DOMAIN AlgOrder, StartRunner(m) PROVE IInv'
  <2>1. gen' \in 0 .. MaxGen /\ Start("run", m, FALSE)
    BY <1>1, <1>3 DEF StartRunner
  <2> QED BY <2>1, StartStep
<1>4. ASSUME StartValidate PROVE IInv'
  <2>1. gen' \in 0 .. MaxGen /\ Start("validate", 1, FALSE)
    BY <1>1, <1>4 DEF StartValidate
  <2> QED BY <1>1, <2>1, StartStep
<1> QED
  BY <1>2, <1>3, <1>4

(* Back to "idle": what is left to show is what the exit code says.        *)
LEMMA StopsStep ==
  ASSUME TypeOK, StagesAreOrdered, stage' = "idle", n' = 1, writing' = FALSE,
         NEW by \in {"none", "make", "generator", "runner", "validator"},
         NEW code \in {0, 1}, verdict' = Exit(by, code),
         UNCHANGED <<gen, environment>>, whole' \in BOOLEAN, mishap' \in BOOLEAN,
         ResponsesAreFiles',
         request' \in [Alg -> {Absent, Broken} \cup {Requested(g) : g \in 1 .. MaxGen}],
         by = "make" /\ code = 0 => MakeSuccessIsReal',
         by = "make" /\ code = 1 => wrong # {} \/ mishap',
         by = "validator" /\ code = 0 => StaleNeverAccepted'
  PROVE  IInv'
<1>1. TypeOK'
  <2>1. /\ \A a \in Alg : IsFile(response'[a])
        /\ \A a \in Alg : response'[a].kind = "ok" => DOMAIN response'[a].output = Cases[a]
    BY ResponseType DEF ResponsesAreFiles
  <2>2. n' \in DOMAIN AlgOrder
    BY AlgFacts
  <2> QED BY <2>1, <2>2 DEF TypeOK, Exit, environment, Builds
<1>2. StagesAreOrdered'
  BY DEF StagesAreOrdered, Exit
<1>3. MakeIsOnCourse'
  BY DEF MakeIsOnCourse
<1>4. MakeSuccessIsReal' /\ StaleNeverAccepted'
  BY DEF Exit, MakeSuccessIsReal, StaleNeverAccepted
<1>5. NoFalseAlarm'
  BY DEF Exit, NoFalseAlarm, environment
<1> QED
  BY <1>1, <1>2, <1>3, <1>4, <1>5 DEF IInv

LEMMA EndsFacts ==
  ASSUME IInv, NEW who, NEW code \in {0, 1}, Ends(who, code),
         stage \in {"generate", "run", "validate"}
  PROVE  /\ writing' = FALSE /\ UNCHANGED <<gen, whole, environment>>
         /\ \/ /\ stage' = "idle" /\ n' = 1
               /\ verdict' = Exit(IF whole THEN "make" ELSE who, code)
               /\ whole /\ code = 0 => stage = "validate"
            \/ /\ whole /\ code = 0 /\ verdict' = verdict
               /\ \/ stage = "generate" /\ stage' = "run" /\ n' = 1
                  \/ stage = "run" /\ n < Len(AlgOrder) /\ stage' = "run" /\ n' = n + 1
                  \/ stage = "run" /\ n = Len(AlgOrder) /\ stage' = "validate" /\ n' = 1
<1>1. n \in DOMAIN AlgOrder /\ DOMAIN AlgOrder = 1 .. Len(AlgOrder) /\ Len(AlgOrder) \in Nat
  BY AlgFacts DEF IInv, TypeOK
<1> QED
  BY <1>1 DEF Ends

-----------------------------------------------------------------------------
(* The stage that goes on, or the next one of a run of make: still nothing *)
(* has exited.                                                             *)
LEMMA GoesOnStep ==
  ASSUME IInv, stage # "idle", verdict' = verdict, UNCHANGED <<gen, whole, environment>>,
         stage' \in {"generate", "run", "validate"}, n' \in DOMAIN AlgOrder,
         writing' \in BOOLEAN, mishap' \in BOOLEAN,
         stage' = "validate" => ~writing', stage' = "generate" => stage = "generate",
         stage' = "run" /\ writing' => (request[alg].kind = "ok" /\ response[alg] = Broken)',
         ResponsesAreFiles',
         request' \in [Alg -> {Absent, Broken} \cup {Requested(g) : g \in 1 .. MaxGen}],
         MakeIsOnCourse'
  PROVE  IInv'
<1>1. verdict' = Exit("none", 0)
  BY DEF IInv, StagesAreOrdered
<1>2. TypeOK'
  <2>1. /\ \A a \in Alg : IsFile(response'[a])
        /\ \A a \in Alg : response'[a].kind = "ok" => DOMAIN response'[a].output = Cases[a]
    BY ResponseType DEF ResponsesAreFiles
  <2> QED BY <1>1, <2>1 DEF IInv, TypeOK, Exit, environment, Builds
<1>3. StagesAreOrdered'
  BY <1>1 DEF IInv, StagesAreOrdered, Exit
<1>4. (MakeSuccessIsReal /\ NoFalseAlarm /\ StaleNeverAccepted)'
  BY <1>1 DEF Exit, MakeSuccessIsReal, NoFalseAlarm, StaleNeverAccepted
<1> QED
  BY <1>2, <1>3, <1>4 DEF IInv

LEMMA GenerateOpenStep == IInv /\ GenerateOpen => IInv'
<1> SUFFICES ASSUME IInv, GenerateOpen PROVE IInv'
  OBVIOUS
<1>1. /\ stage = "generate" /\ request' = [request EXCEPT ![alg] = Broken] /\ writing' = TRUE
      /\ UNCHANGED <<response, gen, stage, n, whole, mishap, environment, verdict>>
      /\ n \in DOMAIN AlgOrder /\ alg \in Alg
  BY AlgFacts DEF GenerateOpen, IInv, TypeOK, alg
<1>2. ResponsesAreFiles'
  BY <1>1 DEF IInv, ResponsesAreFiles
<1>3. request' \in [Alg -> {Absent, Broken} \cup {Requested(g) : g \in 1 .. MaxGen}]
  BY <1>1 DEF IInv, TypeOK
<1>4. MakeIsOnCourse'
  <2> SUFFICES ASSUME whole, NEW m \in 1 .. n - 1
               PROVE  request'[AlgOrder[m]] = Requested(gen)
    BY <1>1 DEF MakeIsOnCourse
  <2>1. m \in DOMAIN AlgOrder /\ m # n
    BY <1>1, AlgFacts
  <2>2. AlgOrder[m] \in Alg /\ AlgOrder[m] # alg
    BY <1>1, <2>1, AlgFacts, PipelineAssumption DEF alg
  <2> QED BY <1>1, <2>2 DEF IInv, MakeIsOnCourse, TypeOK
<1> QED
  BY <1>1, <1>2, <1>3, <1>4, GoesOnStep DEF IInv, TypeOK

LEMMA GenerateWriteStep == IInv /\ GenerateWrite => IInv'
<1> SUFFICES ASSUME IInv, GenerateWrite PROVE IInv'
  OBVIOUS
<1>1. /\ stage = "generate" /\ request' = [request EXCEPT ![alg] = Requested(gen)]
      /\ UNCHANGED <<response, mishap>>
      /\ n \in DOMAIN AlgOrder /\ alg \in Alg /\ gen \in 1 .. MaxGen
  BY AlgFacts DEF GenerateWrite, IInv, TypeOK, alg, StagesAreOrdered
<1>2. ResponsesAreFiles'
  BY <1>1 DEF IInv, ResponsesAreFiles
<1>3. request' \in [Alg -> {Absent, Broken} \cup {Requested(g) : g \in 1 .. MaxGen}]
  BY <1>1 DEF IInv, TypeOK
<1>4. ASSUME whole, NEW m \in 1 .. n PROVE request'[AlgOrder[m]] = Requested(gen)
  <2>1. m \in DOMAIN AlgOrder /\ AlgOrder[m] \in Alg
    BY <1>1, AlgFacts
  <2>2. CASE m = n
    BY <1>1, <2>2 DEF IInv, TypeOK, alg
  <2>3. CASE m # n
    <3>1. AlgOrder[m] # alg /\ m \in 1 .. n - 1
      <4>1. n \in Nat /\ m \in 1 .. n - 1
        BY <1>1, <2>3, AlgFacts
      <4> QED BY <1>1, <2>1, <2>3, <4>1, PipelineAssumption DEF alg
    <3> QED BY <1>1, <1>4, <2>1, <3>1 DEF IInv, MakeIsOnCourse, TypeOK
  <2> QED BY <2>2, <2>3
<1>5. CASE /\ n < Len(AlgOrder) /\ n' = n + 1 /\ writing' = FALSE
           /\ UNCHANGED <<gen, stage, whole, environment, verdict>>
  <2>1. n' \in DOMAIN AlgOrder /\ n' - 1 = n
    BY <1>1, <1>5, AlgFacts
  <2>2. MakeIsOnCourse'
    BY <1>1, <1>4, <1>5, <2>1 DEF MakeIsOnCourse
  <2> QED BY <1>1, <1>2, <1>3, <1>5, <2>1, <2>2, GoesOnStep DEF IInv, TypeOK
<1>6. CASE ~(n < Len(AlgOrder)) /\ Ends("generator", 0)
  <2>1. /\ writing' = FALSE /\ UNCHANGED <<gen, whole, environment>>
        /\ \/ /\ stage' = "idle" /\ n' = 1
              /\ verdict' = Exit(IF whole THEN "make" ELSE "generator", 0)
              /\ ~whole
           \/ whole /\ verdict' = verdict /\ stage' = "run" /\ n' = 1
    BY <1>1, <1>6, EndsFacts
  <2>2. CASE stage' = "idle"
    BY <1>1, <1>2, <1>3, <2>1, <2>2, StopsStep DEF IInv, TypeOK
  <2>3. CASE stage' = "run"
    <3>1. \A a \in Alg : request'[a] = Requested(gen)
      BY <1>1, <1>4, <1>6, <2>1, <2>3, AlgFacts
    <3>2. MakeIsOnCourse'
      BY <1>1, <2>1, <2>3, <3>1 DEF MakeIsOnCourse
    <3>3. n' \in DOMAIN AlgOrder
      BY <2>1, <2>3, AlgFacts
    <3> QED BY <1>1, <1>2, <1>3, <2>1, <2>3, <3>2, <3>3, GoesOnStep DEF IInv, TypeOK
  <2> QED BY <2>1, <2>2, <2>3
<1> QED
  BY <1>1, <1>5, <1>6 DEF GenerateWrite

LEMMA GenerateFailsStep == IInv /\ GenerateFails => IInv'
<1> SUFFICES ASSUME IInv, GenerateFails PROVE IInv'
  OBVIOUS
<1>1. /\ stage = "generate" /\ Ends("generator", 1) /\ mishap' = TRUE
      /\ UNCHANGED <<request, response>>
  BY DEF GenerateFails, files
<1>2. /\ writing' = FALSE /\ UNCHANGED <<gen, whole, environment>>
      /\ stage' = "idle" /\ n' = 1
      /\ verdict' = Exit(IF whole THEN "make" ELSE "generator", 1)
  <2>1. 1 \in {0, 1} /\ 1 # 0 /\ stage \in {"generate", "run", "validate"}
    BY <1>1
  <2> QED BY <1>1, <2>1, EndsFacts
<1>3. ResponsesAreFiles'
  BY <1>1 DEF IInv, ResponsesAreFiles
<1>4. /\ request' \in [Alg -> {Absent, Broken} \cup {Requested(g) : g \in 1 .. MaxGen}]
      /\ whole \in BOOLEAN /\ whole' \in BOOLEAN /\ mishap' \in BOOLEAN
      /\ TypeOK /\ StagesAreOrdered
  BY <1>1, <1>2 DEF IInv, TypeOK
<1> DEFINE by == IF whole THEN "make" ELSE "generator"
<1>5. /\ by \in {"none", "make", "generator", "runner", "validator"} /\ by # "validator"
      /\ verdict' = Exit(by, 1) /\ (by = "make" => mishap') /\ 1 \in {0, 1} /\ 1 # 0
  BY <1>1, <1>2, <1>3, <1>4
<1> HIDE DEF by
<1> QED
  BY <1>1, <1>2, <1>3, <1>4, <1>5, StopsStep

LEMMA RunnerFailsStep == IInv /\ RunnerFails => IInv'
<1> SUFFICES ASSUME IInv, RunnerFails PROVE IInv'
  OBVIOUS
<1>1. /\ stage = "run" /\ Ends("runner", 1) /\ UNCHANGED <<request, response>>
      /\ \/ request[alg].kind # "ok" /\ mishap' = mishap
         \/ mishap' = TRUE
  BY DEF RunnerFails, files
<1>2. /\ writing' = FALSE /\ UNCHANGED <<gen, whole, environment>>
      /\ stage' = "idle" /\ n' = 1
      /\ verdict' = Exit(IF whole THEN "make" ELSE "runner", 1)
  <2>1. 1 \in {0, 1} /\ 1 # 0 /\ stage \in {"generate", "run", "validate"}
    BY <1>1
  <2> QED BY <1>1, <2>1, EndsFacts
<1>3. ResponsesAreFiles'
  BY <1>1 DEF IInv, ResponsesAreFiles
<1>4. whole => mishap'
  <2>1. alg \in Alg
    BY AlgFacts DEF IInv, TypeOK, alg
  <2>2. whole => request[alg].kind = "ok"
    BY <1>1, <2>1, FileFacts DEF IInv, MakeIsOnCourse
  <2> QED BY <1>1, <2>2
<1>5. /\ request' \in [Alg -> {Absent, Broken} \cup {Requested(g) : g \in 1 .. MaxGen}]
      /\ whole \in BOOLEAN /\ whole' \in BOOLEAN /\ mishap' \in BOOLEAN
      /\ TypeOK /\ StagesAreOrdered
  BY <1>1, <1>2 DEF IInv, TypeOK
<1> DEFINE by == IF whole THEN "make" ELSE "runner"
<1>6. /\ by \in {"none", "make", "generator", "runner", "validator"} /\ by # "validator"
      /\ verdict' = Exit(by, 1) /\ (by = "make" => mishap') /\ 1 \in {0, 1} /\ 1 # 0
  BY <1>1, <1>2, <1>3, <1>4, <1>5
<1> HIDE DEF by
<1> QED
  BY <1>1, <1>2, <1>3, <1>5, <1>6, StopsStep

LEMMA RunnerOpenStep == IInv /\ RunnerOpen => IInv'
<1> SUFFICES ASSUME IInv, RunnerOpen PROVE IInv'
  OBVIOUS
<1>1. /\ stage = "run" /\ request[alg].kind = "ok"
      /\ response' = [response EXCEPT ![alg] = Broken] /\ writing' = TRUE
      /\ UNCHANGED <<request, gen, stage, n, whole, mishap, environment, verdict>>
      /\ n \in DOMAIN AlgOrder /\ alg \in Alg
  BY AlgFacts DEF RunnerOpen, IInv, TypeOK, alg
<1>2. /\ response' = [a \in Alg |-> response'[a]]
      /\ \A a \in Alg : response'[a] = IF a = alg THEN Broken ELSE response[a]
  BY <1>1 DEF IInv, ResponsesAreFiles
<1>3. ResponsesAreFiles'
  BY <1>2 DEF IInv, ResponsesAreFiles
<1>4. (request[alg].kind = "ok" /\ response[alg] = Broken)'
  BY <1>1, <1>2 DEF alg
<1>5. MakeIsOnCourse'
  <2>1. ASSUME whole, NEW m \in 1 .. n - 1 PROVE AnsweredNow(AlgOrder[m])'
    <3>1. m \in DOMAIN AlgOrder /\ m # n
      BY <1>1, AlgFacts
    <3>2. AlgOrder[m] \in Alg /\ AlgOrder[m] # alg
      BY <1>1, <3>1, AlgFacts, PipelineAssumption DEF alg
    <3>3. response'[AlgOrder[m]] = response[AlgOrder[m]]
      BY <1>2, <3>2
    <3>4. AnsweredNow(AlgOrder[m])
      BY <1>1, <2>1 DEF IInv, MakeIsOnCourse
    <3> QED BY <1>1, <3>3, <3>4 DEF AnsweredNow, Output, Value, environment
  <2> QED BY <1>1, <2>1 DEF IInv, MakeIsOnCourse
<1> QED
  BY <1>1, <1>3, <1>4, <1>5, GoesOnStep DEF IInv, TypeOK

LEMMA RunnerWriteStep == IInv /\ RunnerWrite => IInv'
<1> SUFFICES ASSUME IInv, RunnerWrite PROVE IInv'
  OBVIOUS
<1> DEFINE code == IF RunnerPasses THEN 0 ELSE 1
           g == request[alg].gen
<1>1. /\ stage = "run" /\ writing /\ request' = request /\ Ends("runner", code)
      /\ \/ /\ response' = [response EXCEPT ![alg] = Answered([c \in Cases[alg] |-> Output(alg, c, g)])]
            /\ mishap' = mishap
         \/ response' = response /\ mishap' = TRUE
      /\ n \in DOMAIN AlgOrder /\ alg \in Alg
      /\ request[alg].kind = "ok" /\ response[alg] = Broken
  BY AlgFacts DEF RunnerWrite, IInv, TypeOK, alg, StagesAreOrdered
<1>2. g \in 1 .. MaxGen
  <2>1. request[alg] \in {Absent, Broken} \cup {Requested(h) : h \in 1 .. MaxGen}
    BY <1>1 DEF IInv, TypeOK
  <2> QED BY <1>1, <2>1, FileFacts
<1>3. /\ response' = [a \in Alg |-> response'[a]]
      /\ \A a \in Alg : a # alg => response'[a] = response[a]
      /\ \/ response'[alg] = Answered([c \in Cases[alg] |-> Output(alg, c, g)]) /\ mishap' = mishap
         \/ response'[alg] = Broken /\ mishap' = TRUE
  BY <1>1 DEF IInv, ResponsesAreFiles
<1>4. ResponsesAreFiles'
  BY <1>1, <1>2, <1>3, OutputsAreTyped DEF IInv, ResponsesAreFiles
<1>5. mishap' \in BOOLEAN /\ (mishap => mishap')
  <2>1. mishap \in BOOLEAN
    BY DEF IInv, TypeOK
  <2>2. mishap' = mishap \/ mishap' = TRUE
    BY <1>1
  <2> QED BY <2>1, <2>2
<1>6. ASSUME whole, code = 1 PROVE wrong # {}
  <2>1. PICK c \in Cases[alg] : Output(alg, c, g) # Value(alg, c, g)
    BY <1>6 DEF RunnerPasses
  <2> QED BY <1>1, <1>2, <2>1, ValueFacts
<1>7. ASSUME whole, UNCHANGED <<gen, environment>>, NEW m \in 1 .. n
      PROVE  AnsweredNow(AlgOrder[m])'
  <2>1. m \in DOMAIN AlgOrder /\ AlgOrder[m] \in Alg /\ n \in Nat
    BY <1>1, AlgFacts
  <2>2. CASE m = n
    <3>1. g = gen
      BY <1>1, <1>7, FileFacts DEF IInv, MakeIsOnCourse
    <3>2. AlgOrder[m] = alg
      BY <2>2 DEF alg
    <3> QED BY <1>3, <1>7, <3>1, <3>2 DEF AnsweredNow, Output, Value, environment
  <2>3. CASE m # n
    <3>1. m \in 1 .. n - 1
      BY <2>1, <2>3
    <3>2. AlgOrder[m] # alg
      BY <1>1, <2>1, <2>3, PipelineAssumption DEF alg
    <3>3. response'[AlgOrder[m]] = response[AlgOrder[m]]
      BY <1>3, <2>1, <3>2
    <3>4. AnsweredNow(AlgOrder[m])
      BY <1>1, <1>7, <3>1 DEF IInv, MakeIsOnCourse
    <3> QED BY <1>5, <1>7, <3>3, <3>4 DEF AnsweredNow, Output, Value, environment
  <2> QED BY <2>2, <2>3
<1>8. /\ code \in {0, 1} /\ writing' = FALSE /\ UNCHANGED <<gen, whole, environment>>
      /\ \/ /\ stage' = "idle" /\ n' = 1
            /\ verdict' = Exit(IF whole THEN "make" ELSE "runner", code)
            /\ ~(whole /\ code = 0)
         \/ /\ whole /\ verdict' = verdict
            /\ \/ n < Len(AlgOrder) /\ stage' = "run" /\ n' = n + 1
               \/ n = Len(AlgOrder) /\ stage' = "validate" /\ n' = 1
  <2>1. code \in {0, 1}
    OBVIOUS
  <2> HIDE DEF code
  <2> QED BY <1>1, <2>1, EndsFacts
<1> HIDE DEF code, g
<1>9. CASE stage' = "idle"
  <2>1. request' \in [Alg -> {Absent, Broken} \cup {Requested(h) : h \in 1 .. MaxGen}]
    BY <1>1 DEF IInv, TypeOK
  <2>2. /\ verdict' = Exit(IF whole THEN "make" ELSE "runner", code)
        /\ ~(whole /\ code = 0) /\ n' = 1
    BY <1>1, <1>8, <1>9
  <2> QED BY <1>4, <1>5, <1>6, <1>8, <1>9, <2>1, <2>2, StopsStep DEF IInv, TypeOK
<1>10. CASE stage' \in {"run", "validate"}
  <2>1. request' \in [Alg -> {Absent, Broken} \cup {Requested(h) : h \in 1 .. MaxGen}]
    BY <1>1 DEF IInv, TypeOK
  <2>2. n' \in DOMAIN AlgOrder /\ whole /\ verdict' = verdict
    BY <1>1, <1>8, <1>10, AlgFacts
  <2>3. stage' = "run" => n' - 1 = n
    BY <1>1, <1>8, AlgFacts
  <2>4. stage' = "validate" => \A a \in Alg : AnsweredNow(a)'
    BY <1>1, <1>7, <1>8, <2>2, AlgFacts
  <2>5. gen \in 1 .. MaxGen /\ \A a \in Alg : request[a] = Requested(gen)
    BY <1>1, <2>2 DEF IInv, MakeIsOnCourse
  <2>6. MakeIsOnCourse'
    BY <1>1, <1>7, <1>8, <1>10, <2>2, <2>3, <2>4, <2>5 DEF MakeIsOnCourse
  <2> QED BY <1>1, <1>4, <1>5, <1>8, <1>10, <2>1, <2>2, <2>6, GoesOnStep
<1> QED
  BY <1>8, <1>9, <1>10

(* What the validator's exit code says, whoever started it.                *)
LEMMA ValidatorFacts ==
  ASSUME IInv, ValidatorCode = 0
  PROVE  /\ StaleNeverAccepted
         /\ \A a \in Alg : response[a].kind # "absent" =>
                /\ request[a].kind = "ok" /\ response[a].kind = "ok"
                /\ \A c \in Cases[a] : response[a].output[c] = Value(a, c, request[a].gen)
<1>1. \A a \in Alg : response[a].kind # "absent" =>
          /\ request[a].kind = "ok" /\ response[a].kind = "ok"
          /\ \A c \in DOMAIN response[a].output : response[a].output[c] = ExpectedOf(a, c)
  BY DEF ValidatorCode
<1>2. \A a \in Alg : response[a].kind # "absent" =>
          /\ request[a].kind = "ok" /\ response[a].kind = "ok"
          /\ \A c \in Cases[a] : response[a].output[c] = Value(a, c, request[a].gen)
  BY <1>1 DEF IInv, TypeOK, ExpectedOf
<1>3. StaleNeverAccepted
  BY <1>2 DEF StaleNeverAccepted, Value
<1> QED
  BY <1>2, <1>3

(* At the end of a run of make, exit code 0 means a right build ...        *)
LEMMA AcceptedRunIsRight ==
  ASSUME IInv, whole, stage = "validate", ValidatorCode = 0
  PROVE  /\ wrong = {}
         /\ \A a \in Alg : /\ request[a] = Requested(gen)
                           /\ response[a] = Answered([c \in Cases[a] |-> Value(a, c, gen)])
<1>1. /\ gen \in 1 .. MaxGen /\ wrong \in Builds
      /\ \A a \in Alg : request[a] = Requested(gen) /\ AnsweredNow(a)
  BY DEF IInv, MakeIsOnCourse, TypeOK
<1>2. ASSUME NEW a \in Alg
      PROVE  /\ response[a] = Answered([c \in Cases[a] |-> Output(a, c, gen)])
             /\ \A c \in Cases[a] : Output(a, c, gen) = Value(a, c, gen)
  <2>1. response[a].kind # "absent"
    BY <1>1, FileFacts DEF AnsweredNow
  <2>2. /\ response[a].kind = "ok"
        /\ \A c \in Cases[a] : response[a].output[c] = Value(a, c, gen)
    BY <1>1, <2>1, ValidatorFacts, FileFacts
  <2>3. response[a] = Answered([c \in Cases[a] |-> Output(a, c, gen)])
    BY <1>1, <2>2, FileFacts DEF AnsweredNow
  <2> QED BY <2>2, <2>3, FileFacts
<1>3. wrong = {}
  <2> SUFFICES ASSUME wrong # {} PROVE FALSE
    OBVIOUS
  <2>1. PICK a \in Alg : \E c \in Cases[a] : <<a, c>> \in wrong
    BY <1>1, BuildFacts
  <2>2. PICK c \in Cases[a] : <<a, c>> \in wrong
    BY <2>1
  <2> QED BY <1>1, <1>2, <2>2, ValueFacts
<1>4. \A a \in Alg : [c \in Cases[a] |-> Output(a, c, gen)] = [c \in Cases[a] |-> Value(a, c, gen)]
  BY <1>2
<1> QED
  BY <1>1, <1>2, <1>3, <1>4

(* ... and any other code a wrong build, or a mishap in this run.          *)
LEMMA RejectedRunHasReason ==
  ASSUME IInv, whole, stage = "validate", ValidatorCode # 0, ~mishap
  PROVE  wrong # {}
<1> SUFFICES ASSUME wrong = {} PROVE FALSE
  OBVIOUS
<1>1. gen \in 1 .. MaxGen /\ \A a \in Alg : request[a] = Requested(gen) /\ AnsweredNow(a)
  BY DEF IInv, MakeIsOnCourse
<1>2. \A a \in Alg : response[a] = Answered([c \in Cases[a] |-> Output(a, c, gen)])
  BY <1>1 DEF AnsweredNow
<1>3. \A a \in Alg : /\ response[a].kind = "ok" /\ request[a].kind = "ok"
                     /\ response[a].kind # "absent"
                     /\ response[a].output = [c \in Cases[a] |-> Output(a, c, gen)]
                     /\ request[a].gen = gen
  BY <1>1, <1>2, FileFacts
<1>4. \A a \in Alg : \A c \in Cases[a] : Output(a, c, gen) = Value(a, c, gen)
  BY <1>1, ValueFacts
<1>5. \A a \in Alg : \A c \in DOMAIN response[a].output :
          response[a].output[c] = ExpectedOf(a, c)
  BY <1>3, <1>4 DEF ExpectedOf
<1>6. {a \in Alg : response[a].kind # "absent"} # {}
  BY <1>3, AlgFacts
<1> QED
  BY <1>3, <1>5, <1>6 DEF ValidatorCode

LEMMA ValidateStep == IInv /\ Validate => IInv'
<1> SUFFICES ASSUME IInv, Validate PROVE IInv'
  OBVIOUS
<1> DEFINE code == ValidatorCode
           by == IF whole THEN "make" ELSE "validator"
<1>1. /\ stage = "validate" /\ Ends("validator", code)
      /\ UNCHANGED <<request, response, mishap>>
  BY DEF Validate, files
<1>2. code \in {0, 1}
  BY DEF ValidatorCode
<1>3. /\ writing' = FALSE /\ UNCHANGED <<gen, whole, environment>>
      /\ stage' = "idle" /\ n' = 1 /\ verdict' = Exit(by, code)
  <2> HIDE DEF code
  <2> QED BY <1>1, <1>2, EndsFacts
<1>4. ResponsesAreFiles'
  BY <1>1 DEF IInv, ResponsesAreFiles
<1>5. /\ request' \in [Alg -> {Absent, Broken} \cup {Requested(g) : g \in 1 .. MaxGen}]
      /\ whole \in BOOLEAN /\ whole' \in BOOLEAN /\ mishap' \in BOOLEAN
      /\ TypeOK /\ StagesAreOrdered
  BY <1>1, <1>3 DEF IInv, TypeOK
<1>6. ASSUME by = "make", code = 0 PROVE MakeSuccessIsReal'
  <2>1. /\ wrong = {}
        /\ \A a \in Alg : /\ request[a] = Requested(gen)
                          /\ response[a] = Answered([c \in Cases[a] |-> Value(a, c, gen)])
    BY <1>1, <1>5, <1>6, AcceptedRunIsRight
  <2> QED BY <1>1, <1>3, <2>1 DEF MakeSuccessIsReal, Value, environment
<1>7. ASSUME by = "make", code = 1 PROVE wrong # {} \/ mishap'
  BY <1>1, <1>5, <1>7, RejectedRunHasReason
<1>8. ASSUME code = 0 PROVE StaleNeverAccepted'
  <2>1. \A a \in Alg : response[a].kind # "absent" =>
            /\ request[a].kind = "ok" /\ response[a].kind = "ok"
            /\ \A c \in Cases[a] : response[a].output[c] = Value(a, c, request[a].gen)
    BY <1>8, ValidatorFacts
  <2> QED BY <1>1, <2>1 DEF StaleNeverAccepted, Value
<1>9. by \in {"none", "make", "generator", "runner", "validator"}
  OBVIOUS
<1> HIDE DEF code, by
<1> QED
  BY <1>1, <1>2, <1>3, <1>4, <1>5, <1>6, <1>7, <1>8, <1>9, StopsStep

-----------------------------------------------------------------------------
LEMMA KilledStep == IInv /\ Killed => IInv'
<1> SUFFICES ASSUME IInv, Killed PROVE IInv'
  OBVIOUS
<1> DEFINE by == IF whole THEN "make" ELSE "none"
<1>1. /\ stage' = "idle" /\ n' = 1 /\ writing' = FALSE /\ mishap' = TRUE
      /\ verdict' = Exit(by, 1)
      /\ UNCHANGED <<request, response, gen, whole, environment>>
  BY DEF Killed, files
<1>2. ResponsesAreFiles'
  BY <1>1 DEF IInv, ResponsesAreFiles
<1>3. /\ request' \in [Alg -> {Absent, Broken} \cup {Requested(g) : g \in 1 .. MaxGen}]
      /\ whole \in BOOLEAN /\ whole' \in BOOLEAN /\ mishap' \in BOOLEAN
      /\ TypeOK /\ StagesAreOrdered
  BY <1>1 DEF IInv, TypeOK
<1>4. by \in {"none", "make", "generator", "runner", "validator"} /\ 1 \in {0, 1} /\ 1 # 0
  OBVIOUS
<1> HIDE DEF by
<1> QED
  BY <1>1, <1>2, <1>3, <1>4, StopsStep

LEMMA CleanStep == IInv /\ Clean => IInv'
<1> SUFFICES ASSUME IInv, Clean PROVE IInv'
  OBVIOUS
<1>1. /\ stage = "idle" /\ response' = [a \in Alg |-> Absent] /\ verdict' = Exit("none", 0)
      /\ UNCHANGED <<request, gen, stage, n, writing, whole, mishap, environment>>
  BY DEF Clean
<1>2. ResponsesAreFiles'
  BY <1>1 DEF ResponsesAreFiles
<1>3. TypeOK'
  <2>1. /\ \A a \in Alg : IsFile(response'[a])
        /\ \A a \in Alg : response'[a].kind = "ok" => DOMAIN response'[a].output = Cases[a]
    BY <1>2, ResponseType DEF ResponsesAreFiles
  <2> QED BY <1>1, <2>1 DEF IInv, TypeOK, Exit, environment, Builds
<1>4. StagesAreOrdered' /\ MakeIsOnCourse'
  BY <1>1 DEF IInv, StagesAreOrdered, Exit, MakeIsOnCourse
<1>5. (MakeSuccessIsReal /\ NoFalseAlarm /\ StaleNeverAccepted)'
  BY <1>1 DEF Exit, MakeSuccessIsReal, NoFalseAlarm, StaleNeverAccepted
<1> QED
  BY <1>2, <1>3, <1>4, <1>5 DEF IInv

LEMMA RebuildStep == IInv /\ Rebuild => IInv'
<1> SUFFICES ASSUME IInv, Rebuild PROVE IInv'
  OBVIOUS
<1>1. /\ stage = "idle" /\ wrong' \in Builds /\ verdict' = Exit("none", 0)
      /\ UNCHANGED <<request, response, gen, stage, n, writing, whole, mishap, trusting>>
  BY DEF Rebuild, files
<1>2. ResponsesAreFiles'
  BY <1>1 DEF IInv, ResponsesAreFiles
<1>3. TypeOK'
  BY <1>1 DEF IInv, TypeOK, Exit, Builds
<1>4. StagesAreOrdered' /\ MakeIsOnCourse'
  BY <1>1 DEF IInv, StagesAreOrdered, Exit, MakeIsOnCourse
<1>5. (MakeSuccessIsReal /\ NoFalseAlarm /\ StaleNeverAccepted)'
  BY <1>1 DEF Exit, MakeSuccessIsReal, NoFalseAlarm, StaleNeverAccepted
<1> QED
  BY <1>2, <1>3, <1>4, <1>5 DEF IInv

LEMMA IInvStep == IInv /\ [Next]_vars => IInv'
<1> SUFFICES ASSUME IInv, [Next]_vars PROVE IInv'
  OBVIOUS
<1>1. CASE \/ \E all \in BOOLEAN : StartGenerate(all)
           \/ \E m \in DOMAIN AlgOrder : StartRunner(m)
           \/ StartValidate
  BY <1>1, StartsStep
<1>2. CASE Generator
  BY <1>2, GenerateOpenStep, GenerateWriteStep, GenerateFailsStep DEF Generator
<1>3. CASE Runner
  BY <1>3, RunnerFailsStep, RunnerOpenStep, RunnerWriteStep DEF Runner
<1>4. CASE Validate                           BY <1>4, ValidateStep
<1>5. CASE Killed                             BY <1>5, KilledStep
<1>6. CASE Clean                              BY <1>6, CleanStep
<1>7. CASE Rebuild                            BY <1>7, RebuildStep
<1>8. CASE UNCHANGED vars
  <2>1. /\ UNCHANGED <<request, response, gen, stage, n, writing, whole, mishap>>
        /\ UNCHANGED <<wrong, trusting, verdict>>
    BY <1>8 DEF vars
  <2>2. TypeOK' /\ ResponsesAreFiles' /\ StagesAreOrdered'
    BY <2>1 DEF IInv, TypeOK, ResponsesAreFiles, StagesAreOrdered, alg, Builds
  <2>3. MakeIsOnCourse'
    BY <2>1 DEF IInv, MakeIsOnCourse, AnsweredNow, Output, Value
  <2>4. (MakeSuccessIsReal /\ NoFalseAlarm /\ StaleNeverAccepted)'
    BY <2>1 DEF IInv, MakeSuccessIsReal, NoFalseAlarm, StaleNeverAccepted, Value
  <2> QED BY <2>2, <2>3, <2>4 DEF IInv
<1> QED
  BY <1>1, <1>2, <1>3, <1>4, <1>5, <1>6, <1>7, <1>8 DEF Next, Running

(* The strengthening is an invariant of every behaviour of the pipeline.   *)
THEOREM PipelineInvariance == Spec => []IInv
BY IInvInit, IInvStep, PTL DEF Spec

(* Files, stages and exit codes keep their types: the runner never looks   *)
(* at a request that is not there, the validator never at a response whose *)
(* cases are not those of its algorithm (validate_responses.py:23-50).     *)
THEOREM PipelineTypeCorrect == Spec => []TypeOK
<1>1. IInv => TypeOK
  BY DEF IInv
<1> QED BY <1>1, PipelineInvariance, PTL

(* "make acvp-test" exits 0 only for a library that is right on every      *)
(* case, tested by that very run (acvp/Makefile:101-115), for every set of *)
(* algorithms and cases, however often it was killed before.               *)
THEOREM MakeCannotBeFooled == Spec => []MakeSuccessIsReal
<1>1. IInv => MakeSuccessIsReal
  BY DEF IInv
<1> QED BY <1>1, PipelineInvariance, PTL

(* And it fails only for a wrong build or a mishap of that run, whatever   *)
(* earlier runs left in request/ and response/.                            *)
THEOREM MakeRaisesNoFalseAlarm == Spec => []NoFalseAlarm
<1>1. IInv => NoFalseAlarm
  BY DEF IInv
<1> QED BY <1>1, PipelineInvariance, PTL

(* validate_responses.py on its own accepts no answer to an older vector.  *)
THEOREM ValidatorRejectsStale == Spec => []StaleNeverAccepted
<1>1. IInv => StaleNeverAccepted
  BY DEF IInv
<1> QED BY <1>1, PipelineInvariance, PTL

-----------------------------------------------------------------------------
(* Steps a file at a time still takes: two for each file not yet begun,    *)
(* one for the file that is open.                                          *)
FilesLeft == 2 * (Len(AlgOrder) - n + 1) - (IF writing THEN 1 ELSE 0)

(* An upper bound on the steps before nothing is running any more.         *)
StepsLeft == CASE stage = "idle"     -> 0
               [] stage = "validate" -> 1
               [] stage = "run"      -> FilesLeft + 1
               [] OTHER              -> FilesLeft + 2 * Len(AlgOrder) + 1

LEMMA StepsFacts ==
  ASSUME IInv
  PROVE  /\ Len(AlgOrder) \in Nat /\ n \in 1 .. Len(AlgOrder)
         /\ FilesLeft \in 1 .. 2 * Len(AlgOrder)
         /\ StepsLeft \in 0 .. 4 * Len(AlgOrder) + 1
         /\ StepsLeft = 0 <=> stage = "idle"
         /\ stage \in {"idle", "generate", "run", "validate"} /\ writing \in BOOLEAN
<1>1. /\ Len(AlgOrder) \in Nat /\ n \in 1 .. Len(AlgOrder)
      /\ stage \in {"idle", "generate", "run", "validate"} /\ writing \in BOOLEAN
  BY AlgFacts DEF IInv, TypeOK
<1>2. FilesLeft \in 1 .. 2 * Len(AlgOrder)
  BY <1>1 DEF FilesLeft
<1>3. CASE stage = "idle"
  BY <1>1, <1>2, <1>3 DEF StepsLeft
<1>4. CASE stage = "generate"
  BY <1>1, <1>2, <1>4 DEF StepsLeft
<1>5. CASE stage = "run"
  BY <1>1, <1>2, <1>5 DEF StepsLeft
<1>6. CASE stage = "validate"
  BY <1>1, <1>2, <1>6 DEF StepsLeft
<1> QED
  BY <1>1, <1>2, <1>3, <1>4, <1>5, <1>6

(* The end of a step of make leaves fewer steps than there were: to the    *)
(* next file, to the next stage, or to none.                               *)
LEMMA EndsShortens ==
  ASSUME IInv, IInv', NEW who, NEW code \in {0, 1}, Ends(who, code),
         stage \in {"generate", "run", "validate"},
         stage = "generate" => n = Len(AlgOrder) \/ code = 1
  PROVE  StepsLeft' < StepsLeft
<1>1. /\ Len(AlgOrder) \in Nat /\ n \in 1 .. Len(AlgOrder) /\ writing \in BOOLEAN
      /\ FilesLeft \in 1 .. 2 * Len(AlgOrder) /\ StepsLeft \in Nat /\ StepsLeft # 0
  BY StepsFacts
<1>0. writing' = FALSE
  BY DEF Ends
<1>2. CASE stage' = "idle"
  BY <1>1, <1>2 DEF StepsLeft
<1>3. CASE stage = "generate" /\ stage' = "run" /\ n' = 1
  BY <1>0, <1>1, <1>3 DEF StepsLeft, FilesLeft
<1>4. CASE stage = "run" /\ stage' = "run" /\ n' = n + 1
  BY <1>0, <1>1, <1>4 DEF StepsLeft, FilesLeft
<1>5. CASE stage = "run" /\ stage' = "validate"
  BY <1>1, <1>5 DEF StepsLeft
<1> QED
  BY <1>2, <1>3, <1>4, <1>5, EndsFacts

LEMMA EveryStepShortens ==
  ASSUME IInv, IInv', [Next]_vars, stage # "idle", vars' # vars
  PROVE  StepsLeft' < StepsLeft
<1>1. /\ Len(AlgOrder) \in Nat /\ n \in 1 .. Len(AlgOrder) /\ writing \in BOOLEAN
      /\ FilesLeft \in 1 .. 2 * Len(AlgOrder) /\ StepsLeft \in Nat /\ StepsLeft # 0
  BY StepsFacts
<1>2. CASE GenerateOpen
  BY <1>1, <1>2 DEF GenerateOpen, StepsLeft, FilesLeft
<1>3. CASE GenerateWrite
  <2>1. CASE n < Len(AlgOrder)
    BY <1>1, <1>3, <2>1 DEF GenerateWrite, StepsLeft, FilesLeft
  <2>2. CASE ~(n < Len(AlgOrder))
    <3>1. Ends("generator", 0) /\ stage = "generate" /\ n = Len(AlgOrder)
      BY <1>1, <1>3, <2>2 DEF GenerateWrite
    <3> QED BY <3>1, EndsShortens
  <2> QED BY <2>1, <2>2
<1>4. CASE GenerateFails
  <2>1. Ends("generator", 1) /\ stage = "generate"
    BY <1>4 DEF GenerateFails
  <2> QED BY <2>1, EndsShortens
<1>5. CASE RunnerFails
  <2>1. Ends("runner", 1) /\ stage = "run"
    BY <1>5 DEF RunnerFails
  <2> QED BY <2>1, EndsShortens
<1>6. CASE RunnerOpen
  BY <1>1, <1>6 DEF RunnerOpen, StepsLeft, FilesLeft
<1>7. CASE RunnerWrite
  <2>1. stage = "run" /\ \E code \in {0, 1} : Ends("runner", code)
    BY <1>7 DEF RunnerWrite
  <2> QED BY <2>1, EndsShortens
<1>8. CASE Validate
  <2>1. stage = "validate" /\ \E code \in {0, 1} : Ends("validator", code)
    BY <1>8 DEF Validate, ValidatorCode
  <2> QED BY <2>1, EndsShortens
<1>9. CASE Killed
  BY <1>1, <1>9 DEF Killed, StepsLeft
<1>10. ~Clean /\ ~Rebuild /\ ~StartValidate
       /\ (\A all \in BOOLEAN : ~StartGenerate(all))
       /\ (\A m \in DOMAIN AlgOrder : ~StartRunner(m))
  BY DEF Clean, Rebuild, StartValidate, StartGenerate, StartRunner, Start
<1> QED
  BY <1>2, <1>3, <1>4, <1>5, <1>6, <1>7, <1>8, <1>9, <1>10
     DEF Next, Running, Generator, Runner

(* Whatever runs is over after at most 4 * Len(AlgOrder) + 1 steps: no     *)
(* full disk, broken file or wrong answer makes a stage repeat itself.     *)
(* EveryRunEnds adds only that a process which can go on does.             *)
THEOREM RunsAreBounded ==
  Spec => /\ [](StepsLeft \in 0 .. 4 * Len(AlgOrder) + 1 /\ (StepsLeft = 0 <=> stage = "idle"))
          /\ [][stage # "idle" => StepsLeft' < StepsLeft]_vars
<1>1. IInv => /\ StepsLeft \in 0 .. 4 * Len(AlgOrder) + 1
              /\ StepsLeft = 0 <=> stage = "idle"
  BY StepsFacts
<1>2. IInv /\ IInv' /\ [Next]_vars => [stage # "idle" => StepsLeft' < StepsLeft]_vars
  BY EveryStepShortens
<1> QED
  BY <1>1, <1>2, PipelineInvariance, PTL DEF Spec

=============================================================================
