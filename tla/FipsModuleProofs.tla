-------------------------- MODULE FipsModuleProofs --------------------------
(***************************************************************************)
(* Proofs about FipsMode for every MaxFaults, and about FipsModule for     *)
(* every MaxFaults and Asked.                                              *)
(*                                                                         *)
(* The flag of fips.c says nothing by itself; the inductive invariant ties *)
(* it to the history: the flag is set exactly when no run is in progress   *)
(* and the latest one passed all KATs, a running test has failed = 0       *)
(* exactly when every KAT so far passed, and a KAT that passed met none of *)
(* the lasting faults.  The module keeps that invariant, whatever the User *)
(* does in between; on top of it the answers that are not overtaken and    *)
(* the record of the latest service are inductive, because a service never *)
(* touches the flags and the Crypto Officer never touches the record.      *)
(***************************************************************************)
EXTENDS FipsModule, TLAPS

PassedBefore(n) == {KatOrder[i] : i \in 1 .. n - 1}

FlagIsVerdict == self_test_ok <=> idle /\ ran = Kat

CounterIsExact ==
    running => /\ ran \subseteq PassedBefore(at)
               /\ failed = 0 <=> ran = PassedBefore(at)

PassedMetNoLastingFault == \A kat \in ran : Exercises(kat) \cap stuck = {}

IInv == /\ TypeOK
        /\ FlagIsVerdict
        /\ CounterIsExact
        /\ PassedMetNoLastingFault

-----------------------------------------------------------------------------
LEMMA KatFacts ==
    /\ Len(KatOrder) + 1 = 4 /\ DOMAIN KatOrder = 1 .. 3
    /\ Kat = {KatOrder[1], KatOrder[2], KatOrder[3]}
    /\ KatOrder[1] # KatOrder[2] /\ KatOrder[1] # KatOrder[3]
    /\ KatOrder[2] # KatOrder[3]
    /\ \A i \in 1 .. 3 : KatOrder[i] \in Kat
<1>1. Len(KatOrder) + 1 = 4 /\ DOMAIN KatOrder = 1 .. 3
  BY DEF KatOrder
<1>2. KatOrder[1] = "kat_aes" /\ KatOrder[2] = "kat_sha256"
      /\ KatOrder[3] = "kat_hmac_sha256"
  BY DEF KatOrder
<1>3. Kat = {KatOrder[1], KatOrder[2], KatOrder[3]}
  BY <1>1 DEF Kat
<1> QED
  BY <1>1, <1>2, <1>3

(* What the loop over the KATs has covered at each point of the run.       *)
LEMMA PassedBeforeFacts ==
    /\ PassedBefore(1) = {}
    /\ PassedBefore(4) = Kat
    /\ \A n \in 1 .. 3 : /\ PassedBefore(n + 1) = PassedBefore(n) \cup {KatOrder[n]}
                         /\ KatOrder[n] \notin PassedBefore(n)
<1>1. PassedBefore(1) = {}
  BY DEF PassedBefore
<1>2. PassedBefore(2) = {KatOrder[1]}
  BY DEF PassedBefore
<1>3. PassedBefore(3) = {KatOrder[1], KatOrder[2]}
  BY DEF PassedBefore
<1>4. PassedBefore(4) = {KatOrder[1], KatOrder[2], KatOrder[3]}
  BY DEF PassedBefore
<1>5. ASSUME NEW n \in 1 .. 3
      PROVE  /\ PassedBefore(n + 1) = PassedBefore(n) \cup {KatOrder[n]}
             /\ KatOrder[n] \notin PassedBefore(n)
  <2>1. CASE n = 1 BY <2>1, <1>1, <1>2, 1 + 1 = 2
  <2>2. CASE n = 2 BY <2>2, <1>2, <1>3, 2 + 1 = 3, KatFacts
  <2>3. CASE n = 3 BY <2>3, <1>3, <1>4, 3 + 1 = 4, KatFacts
  <2> QED BY <2>1, <2>2, <2>3
<1> QED
  BY <1>1, <1>4, <1>5, KatFacts

LEMMA IInvInit == Init => IInv
<1> SUFFICES ASSUME Init PROVE IInv
  OBVIOUS
<1>1. TypeOK
  <2>1. fips_mode_on \in BOOLEAN /\ self_test_ok \in BOOLEAN
    BY DEF Init
  <2> QED BY <2>1, KatFacts DEF Init, TypeOK
<1>2. FlagIsVerdict
  <2>1. Kat # {} BY KatFacts
  <2> QED BY <2>1, Zenon DEF Init, FlagIsVerdict, idle
<1>3. CounterIsExact /\ PassedMetNoLastingFault
  BY DEF Init, CounterIsExact, PassedMetNoLastingFault, running
<1> QED BY <1>1, <1>2, <1>3 DEF IInv

LEMMA IInvStep == IInv /\ [Next]_vars => IInv'
<1> SUFFICES ASSUME IInv, [Next]_vars PROVE IInv'
  OBVIOUS
<1> USE DEF IInv, idle, running
<1>1. CASE fips_mode_enable
  BY <1>1, KatFacts DEF fips_mode_enable, TypeOK, FlagIsVerdict, CounterIsExact,
                        PassedMetNoLastingFault
<1>2. CASE fips_mode_disable
  BY <1>2 DEF fips_mode_disable, TypeOK, FlagIsVerdict, CounterIsExact,
              PassedMetNoLastingFault
<1>3. CASE SelfTestBegin
  <2>1. at' = 1 /\ failed' = 0 /\ ran' = {} /\ self_test_ok' = FALSE
    BY <1>3 DEF SelfTestBegin
  <2>2. TypeOK'
    <3>1. fips_mode_on' \in BOOLEAN /\ self_test_ok' \in BOOLEAN
      BY <1>3 DEF SelfTestBegin, TypeOK
    <3> QED BY <1>3, <3>1, KatFacts DEF SelfTestBegin, TypeOK
  <2>3. FlagIsVerdict'
    BY <2>1 DEF FlagIsVerdict
  <2>4. CounterIsExact'
    BY <2>1, PassedBeforeFacts DEF CounterIsExact
  <2>5. PassedMetNoLastingFault'
    BY <2>1 DEF PassedMetNoLastingFault
  <2> QED BY <2>2, <2>3, <2>4, <2>5
<1>4. CASE RunKat
  <2>1. at \in 1 .. 3 /\ at' = at + 1
    BY <1>4, KatFacts DEF RunKat
  <2>2. /\ PassedBefore(at') = PassedBefore(at) \cup {KatOrder[at]}
        /\ KatOrder[at] \notin PassedBefore(at)
        /\ KatOrder[at] \in Kat
    BY <2>1, PassedBeforeFacts, KatFacts
  <2>3. TypeOK'
    BY <1>4, <2>1, <2>2, KatFacts DEF RunKat, TypeOK
  <2>4. FlagIsVerdict'
    BY <1>4, <2>1 DEF RunKat, FlagIsVerdict
  <2>5. CounterIsExact'
    <3>1. ran \subseteq PassedBefore(at) /\ (failed = 0 <=> ran = PassedBefore(at))
      BY <2>1 DEF CounterIsExact
    <3>2. CASE KatPasses(KatOrder[at], faulty)
      <4>1. ran' = ran \cup {KatOrder[at]} /\ failed' = failed
        BY <1>4, <3>2 DEF RunKat
      <4> QED BY <4>1, <3>1, <2>2 DEF CounterIsExact
    <3>3. CASE ~KatPasses(KatOrder[at], faulty)
      <4>1. ran' = ran /\ failed' = failed + 1 /\ failed \in Nat
        BY <1>4, <3>3 DEF RunKat, TypeOK
      <4>2. failed' # 0
        BY <4>1
      <4> QED BY <4>1, <4>2, <3>1, <2>2 DEF CounterIsExact
    <3> QED BY <3>2, <3>3
  <2>6. PassedMetNoLastingFault'
    BY <1>4 DEF RunKat, PassedMetNoLastingFault, KatPasses, TypeOK
  <2> QED BY <2>3, <2>4, <2>5, <2>6
<1>5. CASE SelfTestEnd
  <2>1. at = 4 /\ at' = 0
    BY <1>5, KatFacts DEF SelfTestEnd
  <2>2. failed = 0 <=> ran = Kat
    BY <2>1, PassedBeforeFacts DEF CounterIsExact
  <2>3. ~self_test_ok
    BY <2>1 DEF FlagIsVerdict, TypeOK
  <2>4. TypeOK'
    <3>1. fips_mode_on' \in BOOLEAN /\ self_test_ok' \in BOOLEAN
      BY <1>5 DEF SelfTestEnd, TypeOK
    <3>2. ret' \in {"none", "0", "-1"}
      BY <1>5, Zenon DEF SelfTestEnd
    <3>3. at' \in 0 .. Len(KatOrder) + 1 /\ failed' \in Nat
      BY <1>5, KatFacts DEF SelfTestEnd
    <3>4. faulty' \subseteq Unit /\ ran' \subseteq Kat /\ stuck' \subseteq faulty'
      BY <1>5 DEF SelfTestEnd, TypeOK
    <3> QED BY <3>1, <3>2, <3>3, <3>4, Zenon DEF TypeOK
  <2>5. FlagIsVerdict'
    <3>1. ran' = ran /\ (self_test_ok' <=> failed = 0)
      BY <1>5, <2>3 DEF SelfTestEnd
    <3> QED BY <3>1, <2>1, <2>2 DEF FlagIsVerdict
  <2>6. CounterIsExact' /\ PassedMetNoLastingFault'
    BY <1>5 DEF SelfTestEnd, CounterIsExact, PassedMetNoLastingFault
  <2> QED BY <2>4, <2>5, <2>6
<1>6. CASE Restart
  <2>1. TypeOK'
    <3>1. fips_mode_on' \in BOOLEAN /\ self_test_ok' \in BOOLEAN
      BY <1>6 DEF Restart
    <3> QED BY <1>6, <3>1, KatFacts DEF Restart, TypeOK
  <2>2. FlagIsVerdict'
    <3>1. Kat # {} BY KatFacts
    <3> QED BY <1>6, <3>1, Zenon DEF Restart, FlagIsVerdict
  <2>3. CounterIsExact' /\ PassedMetNoLastingFault'
    BY <1>6 DEF Restart, CounterIsExact, PassedMetNoLastingFault
  <2> QED BY <2>1, <2>2, <2>3
<1>7. ASSUME NEW u \in Unit, Break(u) PROVE IInv'
  BY <1>7 DEF Break, TypeOK, FlagIsVerdict, CounterIsExact, PassedMetNoLastingFault
<1>8. ASSUME NEW u \in Unit, Heal(u) PROVE IInv'
  BY <1>8 DEF Heal, TypeOK, FlagIsVerdict, CounterIsExact, PassedMetNoLastingFault
<1>9. CASE UNCHANGED vars
  BY <1>9 DEF vars, TypeOK, FlagIsVerdict, CounterIsExact, PassedMetNoLastingFault
<1> QED
  BY <1>1, <1>2, <1>3, <1>4, <1>5, <1>6, <1>7, <1>8, <1>9
     DEF Next, fips_self_test_run, Environment

(* The flag is the verdict of the latest run, the counter is exact, and a  *)
(* KAT that passed met no fault that has lasted, in every reachable state  *)
(* of fips.c and self_test.c (self_test.c:96-126).                         *)
THEOREM Invariance == Spec => []IInv
BY IInvInit, IInvStep, PTL DEF Spec

(* Every variable keeps its type, and a lasting fault is a present fault.  *)
THEOREM TypeCorrect == Spec => []TypeOK
<1>1. IInv => TypeOK BY DEF IInv
<1> QED BY <1>1, Invariance, PTL

(* Approved exactly on the evidence of a complete, successful run begun    *)
(* since the mode was last enabled (fips.c:27-35, self_test.c:96-124).     *)
THEOREM ApprovalNeedsEvidence == Spec => []ApprovedOnEvidence
<1>1. IInv => ApprovedOnEvidence
  BY DEF IInv, FlagIsVerdict, ApprovedOnEvidence, fips_mode_status
<1> QED BY <1>1, Invariance, PTL

(* A fault that outlasts a run in code some KAT executes blocks approval.  *)
THEOREM LastingFaultIsCaught == Spec => []LastingFaultBlocksApproval
<1>1. IInv => LastingFaultBlocksApproval
  <2> SUFFICES ASSUME IInv, fips_mode_status = "approved"
               PROVE  stuck \cap Covered = {}
    BY DEF LastingFaultBlocksApproval
  <2>1. ran = Kat
    BY DEF IInv, FlagIsVerdict, fips_mode_status
  <2> QED
    BY <2>1 DEF IInv, PassedMetNoLastingFault, Covered
<1> QED BY <1>1, Invariance, PTL

-----------------------------------------------------------------------------
(* FipsMode implements the three-state policy: every step maps to a step   *)
(* of FipsPolicy or to a stutter.                                          *)
THEOREM ImplementsPolicy == Spec => RefinesPolicy
<1> USE DEF Policy!policyVars, Policy!PolicyNext, fips_mode_status, idle, running
<1>1. Init => Policy!PolicyInit
  BY Zenon DEF Init, Policy!PolicyInit
<1>2. IInv /\ [Next]_vars => [Policy!PolicyNext]_(Policy!policyVars)
  <2> SUFFICES ASSUME IInv, [Next]_vars
               PROVE  Policy!PolicyNext \/ UNCHANGED Policy!policyVars
    OBVIOUS
  <2>1. CASE fips_mode_enable
    BY <2>1, Zenon DEF fips_mode_enable, Policy!EnterFipsMode
  <2>2. CASE fips_mode_disable
    BY <2>2, Zenon DEF fips_mode_disable, Policy!LeaveFipsMode
  <2>3. CASE SelfTestBegin
    <3>1. at' # 0 /\ at = 0
      BY <2>3 DEF SelfTestBegin
    <3> QED BY <2>3, <3>1, Zenon DEF SelfTestBegin, Policy!StartTest
  <2>4. CASE RunKat
    <3>1. at' # 0 /\ at # 0
      BY <2>4, KatFacts DEF RunKat
    <3> QED BY <2>4, <3>1, Zenon DEF RunKat
  <2>5. CASE SelfTestEnd
    <3>1. at' = 0 /\ at # 0
      BY <2>5, KatFacts DEF SelfTestEnd
    <3>2. ~self_test_ok
      BY <3>1, Zenon DEF IInv, FlagIsVerdict
    <3>3. fips_mode_on' = fips_mode_on /\ (self_test_ok' \in BOOLEAN)
      BY <2>5, <3>2, Zenon DEF SelfTestEnd, IInv, TypeOK
    <3> QED BY <3>1, <3>2, <3>3, Zenon DEF Policy!ConcludeTest
  <2>6. CASE Restart
    BY <2>6, Zenon DEF Restart, Policy!LeaveFipsMode
  <2>7. ASSUME NEW u \in Unit, Break(u) \/ Heal(u)
        PROVE  UNCHANGED Policy!policyVars
    <3>1. at' = at /\ fips_mode_on' = fips_mode_on /\ self_test_ok' = self_test_ok
      BY <2>7 DEF Break, Heal
    <3> QED BY <3>1, Zenon
  <2>8. CASE UNCHANGED vars
    BY <2>8, Zenon DEF vars
  <2> QED
    BY <2>1, <2>2, <2>3, <2>4, <2>5, <2>6, <2>7, <2>8
       DEF Next, fips_self_test_run, Environment
<1> QED
  BY <1>1, <1>2, Invariance, PTL DEF Spec, RefinesPolicy, Policy!PolicySpec

-----------------------------------------------------------------------------
(* The module: mode, self-tests and services together.                    *)
ModuleInv == /\ IInv
             /\ ModuleTypeOK
             /\ ClearanceLasts
             /\ ClearedServiceIsSound
             /\ DerivedKeyIsTrustworthy

-----------------------------------------------------------------------------
LEMMA AlgorithmFacts ==
    /\ Primitive \subseteq Approved
    /\ "ALG_PBKDF2_SHA256" \in Approved
    /\ "ALG_PBKDF2_SHA256" \notin Primitive
BY DEF Primitive, Approved

(* What IInv says of a module that reports itself approved.                *)
LEMMA ApprovedMeansTested ==
    ASSUME IInv, fips_mode_status = "approved" PROVE stuck \cap Covered = {}
<1>1. ran = Kat
  BY DEF IInv, FlagIsVerdict, fips_mode_status
<1> QED BY <1>1 DEF IInv, PassedMetNoLastingFault, Covered

(* A call of PBKDF2 that succeeds while FIPS mode is on.                   *)
LEMMA DerivedInFipsMode ==
    ASSUME NEW saltOk \in BOOLEAN, NEW iterOk \in BOOLEAN, fips_mode_on,
           Pbkdf2Code(saltOk, iterOk) = 0
    PROVE  fips_mode_status = "approved" /\ saltOk /\ iterOk
<1>1. /\ fips_check_algorithm("ALG_PBKDF2_SHA256") = "FIPS_OK"
      /\ saltOk /\ iterOk
  BY DEF Pbkdf2Code
<1>2. self_test_ok
  BY <1>1 DEF fips_check_algorithm
<1> QED BY <1>1, <1>2 DEF fips_mode_status

LEMMA ModuleInvInit == ModuleInit => ModuleInv
<1> SUFFICES ASSUME ModuleInit PROVE ModuleInv
  OBVIOUS
<1>1. IInv
  BY IInvInit DEF ModuleInit
<1>2. ModuleTypeOK
  BY <1>1 DEF ModuleInit, ModuleTypeOK, NoService, IInv
<1>3. ClearanceLasts
  BY DEF ModuleInit, ClearanceLasts
<1>4. DerivedKeyIsTrustworthy
  BY DEF ModuleInit, DerivedKeyIsTrustworthy, NoService
<1>5. ClearedServiceIsSound
  BY DEF ModuleInit, ClearedServiceIsSound, NoService
<1> QED BY <1>1, <1>2, <1>3, <1>4, <1>5 DEF ModuleInv

(* A service carried out in the error state: no answer that still stands   *)
(* lets it through, and PBKDF2 refuses with or without one.                *)
LEMMA ServedInError ==
    ASSUME ClearanceLasts, fips_mode_status = "error"
    PROVE  /\ \A alg : Answer(alg) # "fresh"
           /\ \A saltOk, iterOk \in BOOLEAN : Pbkdf2Code(saltOk, iterOk) = -1
<1>1. fips_mode_on /\ ~self_test_ok
  BY DEF fips_mode_status
<1>2. \A alg : fips_check_algorithm(alg) = "FIPS_ERR_SELF_TEST"
  BY <1>1 DEF fips_check_algorithm
<1>3. \A alg : alg \notin cleared \ overtaken
  BY <1>2 DEF ClearanceLasts
<1>4. \A alg : Answer(alg) # "fresh"
  BY <1>3 DEF Answer
<1>5. \A saltOk, iterOk \in BOOLEAN : Pbkdf2Code(saltOk, iterOk) = -1
  BY <1>1, <1>2 DEF Pbkdf2Code
<1> QED BY <1>4, <1>5

LEMMA AnswerType == \A alg : Answer(alg) \in {"none", "fresh", "overtaken"}
BY DEF Answer

-----------------------------------------------------------------------------
(* The Crypto Officer's calls and the environment.                         *)
LEMMA ClearanceKept ==
    ASSUME ModuleInv, Next, cleared' = cleared,
           overtaken' = IF fips_mode_enable \/ SelfTestBegin THEN cleared ELSE overtaken
    PROVE  ClearanceLasts'
<1> SUFFICES ASSUME NEW alg \in (cleared \ overtaken)'
             PROVE  fips_check_algorithm(alg)' = "FIPS_OK"
  BY DEF ClearanceLasts
<1>1. alg \in cleared \ overtaken /\ ~fips_mode_enable /\ ~SelfTestBegin
  OBVIOUS
<1>2. fips_check_algorithm(alg) = "FIPS_OK"
  BY <1>1 DEF ModuleInv, ClearanceLasts
<1>3. \/ fips_mode_on' = FALSE
      \/ /\ fips_mode_on' = fips_mode_on
         /\ self_test_ok' = self_test_ok \/ self_test_ok'
  <2>1. CASE fips_mode_disable BY <2>1 DEF fips_mode_disable
  <2>2. CASE RunKat BY <2>2 DEF RunKat
  <2>3. CASE SelfTestEnd BY <2>3 DEF SelfTestEnd
  <2>4. CASE Restart BY <2>4 DEF Restart
  <2>5. ASSUME NEW u \in Unit, Break(u) \/ Heal(u)
        PROVE  fips_mode_on' = fips_mode_on /\ self_test_ok' = self_test_ok
    BY <2>5 DEF Break, Heal
  <2> QED
    BY <1>1, <2>1, <2>2, <2>3, <2>4, <2>5 DEF Next, fips_self_test_run, Environment
<1>4. CASE fips_mode_on' = FALSE
  BY <1>4 DEF fips_check_algorithm
<1>5. CASE /\ fips_mode_on' = fips_mode_on
           /\ self_test_ok' = self_test_ok \/ self_test_ok'
  BY <1>2, <1>5 DEF fips_check_algorithm
<1> QED BY <1>3, <1>4, <1>5

LEMMA OfficerStep == ModuleInv /\ Officer => ModuleInv'
<1> SUFFICES ASSUME ModuleInv, Officer PROVE ModuleInv'
  OBVIOUS
<1>1. /\ Next /\ service' = service /\ cleared' = cleared
      /\ overtaken' = IF fips_mode_enable \/ SelfTestBegin THEN cleared ELSE overtaken
  BY DEF Officer
<1>2. IInv'
  BY <1>1, IInvStep DEF ModuleInv
<1>3. ModuleTypeOK'
  BY <1>1, <1>2 DEF ModuleInv, ModuleTypeOK, IInv
<1>4. ClearanceLasts'
  BY <1>1, ClearanceKept
<1>5. DerivedKeyIsTrustworthy' /\ ClearedServiceIsSound'
  BY <1>1 DEF ModuleInv, DerivedKeyIsTrustworthy, ClearedServiceIsSound
<1> QED BY <1>2, <1>3, <1>4, <1>5 DEF ModuleInv

(* The User's calls.                                                       *)
LEMMA UserStep == ModuleInv /\ User => ModuleInv'
<1> SUFFICES ASSUME ModuleInv, User PROVE ModuleInv'
  OBVIOUS
<1>1. UNCHANGED vars
  BY DEF User, CheckAlgorithm, UsePrimitive, DeriveKey
<1>2. IInv'
  BY <1>1, IInvStep DEF ModuleInv
<1>3. \A alg : fips_check_algorithm(alg)' = fips_check_algorithm(alg)
  BY <1>1 DEF vars, fips_check_algorithm
<1>4. ASSUME NEW asked \in Asked, CheckAlgorithm(asked) PROVE ModuleInv'
  <2>1. service' = service
    BY <1>4 DEF CheckAlgorithm
  <2>2. /\ cleared' \subseteq cleared \cup {asked}
        /\ overtaken' = overtaken \ {asked} /\ overtaken' \subseteq cleared'
    BY <1>4 DEF CheckAlgorithm, ModuleInv, ModuleTypeOK
  <2>3. asked \in cleared' => fips_check_algorithm(asked) = "FIPS_OK"
    BY <1>4 DEF CheckAlgorithm
  <2>4. ClearanceLasts'
    BY <1>3, <2>2, <2>3 DEF ModuleInv, ClearanceLasts
  <2>5. ModuleTypeOK'
    BY <1>2, <2>1, <2>2 DEF ModuleInv, ModuleTypeOK, IInv
  <2>6. DerivedKeyIsTrustworthy' /\ ClearedServiceIsSound'
    BY <2>1 DEF ModuleInv, DerivedKeyIsTrustworthy, ClearedServiceIsSound
  <2> QED BY <1>2, <2>4, <2>5, <2>6 DEF ModuleInv
<1>5. ASSUME NEW alg \in Primitive, UsePrimitive(alg) PROVE ModuleInv'
  <2>1. /\ cleared' = cleared /\ overtaken' = overtaken
        /\ service' = Served(alg, 0, TRUE, TRUE)
    BY <1>5 DEF UsePrimitive
  <2>2. /\ service'.alg = alg /\ service'.ret = 0
        /\ service'.answer = Answer(alg) /\ service'.status = fips_mode_status
    BY <2>1 DEF Served
  <2>3. alg \in Approved /\ alg # "ALG_PBKDF2_SHA256"
    BY AlgorithmFacts
  <2>4. ClearanceLasts'
    BY <1>3, <2>1 DEF ModuleInv, ClearanceLasts
  <2>5. ModuleTypeOK'
    BY <1>2, <2>1, <2>2, <2>3 DEF ModuleInv, ModuleTypeOK, IInv
  <2>6. DerivedKeyIsTrustworthy'
    BY <2>2, <2>3 DEF DerivedKeyIsTrustworthy
  <2>7. ClearedServiceIsSound'
    BY <2>2, ServedInError, AnswerType DEF ModuleInv, ClearedServiceIsSound
  <2> QED BY <1>2, <2>4, <2>5, <2>6, <2>7 DEF ModuleInv
<1>6. ASSUME NEW saltOk \in BOOLEAN, NEW iterOk \in BOOLEAN, DeriveKey(saltOk, iterOk)
      PROVE  ModuleInv'
  <2> DEFINE code == Pbkdf2Code(saltOk, iterOk)
  <2>1. /\ cleared' = cleared /\ overtaken' = overtaken
        /\ service' = Served("ALG_PBKDF2_SHA256", code, saltOk, iterOk)
    BY <1>6 DEF DeriveKey
  <2>2. code \in {0, -1}
    BY DEF Pbkdf2Code
  <2> HIDE DEF code
  <2>3. /\ service'.alg = "ALG_PBKDF2_SHA256" /\ service'.ret = code
        /\ service'.status = fips_mode_status
        /\ service'.answer = Answer("ALG_PBKDF2_SHA256")
        /\ service'.salt = saltOk /\ service'.iter = iterOk
        /\ service'.old = Executes("ALG_PBKDF2_SHA256") \cap stuck
    BY <2>1 DEF Served
  <2>4. ClearanceLasts'
    BY <1>3, <2>1 DEF ModuleInv, ClearanceLasts
  <2>5. ModuleTypeOK'
    BY <1>2, <2>1, <2>2, <2>3, AlgorithmFacts DEF ModuleInv, ModuleTypeOK, IInv
  <2>6. DerivedKeyIsTrustworthy'
    <3> SUFFICES ASSUME code = 0, fips_mode_status # "non-approved"
                 PROVE  /\ fips_mode_status = "approved" /\ saltOk /\ iterOk
                        /\ stuck \cap Covered = {}
      BY <2>3 DEF DerivedKeyIsTrustworthy
    <3>1. fips_mode_on
      BY DEF fips_mode_status
    <3>2. fips_mode_status = "approved" /\ saltOk /\ iterOk
      BY <3>1, DerivedInFipsMode DEF code
    <3> QED BY <3>2, ApprovedMeansTested DEF ModuleInv
  <2>7. ClearedServiceIsSound'
    <3>1. fips_mode_status = "error" => code # 0
      BY ServedInError DEF ModuleInv, code
    <3> QED BY <2>3, <3>1 DEF ClearedServiceIsSound
  <2> QED BY <1>2, <2>4, <2>5, <2>6, <2>7 DEF ModuleInv
<1> QED BY <1>4, <1>5, <1>6 DEF User

LEMMA ModuleInvStep == ModuleInv /\ [ModuleNext]_moduleVars => ModuleInv'
<1> SUFFICES ASSUME ModuleInv, [ModuleNext]_moduleVars PROVE ModuleInv'
  OBVIOUS
<1>1. CASE UNCHANGED moduleVars
  <2>1. UNCHANGED vars /\ cleared' = cleared /\ overtaken' = overtaken /\ service' = service
    BY <1>1 DEF moduleVars, vars
  <2>2. IInv'
    BY <2>1, IInvStep DEF ModuleInv
  <2>3. ModuleTypeOK'
    BY <2>1, <2>2 DEF ModuleInv, ModuleTypeOK, IInv
  <2>4. ClearanceLasts'
    BY <2>1 DEF ModuleInv, ClearanceLasts, fips_check_algorithm, vars
  <2>5. DerivedKeyIsTrustworthy' /\ ClearedServiceIsSound'
    BY <2>1 DEF ModuleInv, DerivedKeyIsTrustworthy, ClearedServiceIsSound
  <2> QED BY <2>2, <2>3, <2>4, <2>5 DEF ModuleInv
<1> QED BY <1>1, OfficerStep, UserStep DEF ModuleNext

(* The invariant of the composed module.                                   *)
THEOREM ModuleInvariance == ModuleSpec => []ModuleInv
BY ModuleInvInit, ModuleInvStep, PTL DEF ModuleSpec

(* Every variable of the composed module keeps its type.                   *)
THEOREM ModuleTypeCorrect == ModuleSpec => []ModuleTypeOK
<1>1. ModuleInv => ModuleTypeOK BY DEF ModuleInv
<1> QED BY <1>1, ModuleInvariance, PTL

(* A clearance given by fips_check_algorithm stays true until the mode is  *)
(* next enabled or a self-test begins (fips.c:59-70).                      *)
THEOREM ClearanceStays == ModuleSpec => []ClearanceLasts
<1>1. ModuleInv => ClearanceLasts BY DEF ModuleInv
<1> QED BY <1>1, ModuleInvariance, PTL

(* A cleared User is served by a module in the error state only on an      *)
(* answer older than the latest enable or self-test, and only by a         *)
(* primitive (fips.c:59-70, pbkdf2.c:39-46).                               *)
THEOREM ClearedServicesAreSound == ModuleSpec => []ClearedServiceIsSound
<1>1. ModuleInv => ClearedServiceIsSound BY DEF ModuleInv
<1> QED BY <1>1, ModuleInvariance, PTL

(* PBKDF2 hands out no key in the error state or under weak parameters,    *)
(* and none that a lasting fault a KAT executes has spoilt                 *)
(* (pbkdf2.c:39-46).                                                       *)
THEOREM KeysAreTrustworthy == ModuleSpec => []DerivedKeyIsTrustworthy
<1>1. ModuleInv => DerivedKeyIsTrustworthy BY DEF ModuleInv
<1> QED BY <1>1, ModuleInvariance, PTL

-----------------------------------------------------------------------------
(* The User takes no part in the mode: seen through the two statics of     *)
(* fips.c and the KATs alone, the module is FipsMode, so that every        *)
(* theorem about it holds of the module in use (fips.c:22-23).             *)
THEOREM ModuleImplementsMode == ModuleSpec => Spec
<1>1. ModuleInit => Init
  BY DEF ModuleInit
<1>2. [ModuleNext]_moduleVars => [Next]_vars
  <2>1. Officer => Next
    BY DEF Officer
  <2>2. User => UNCHANGED vars
    BY DEF User, CheckAlgorithm, UsePrimitive, DeriveKey
  <2>3. UNCHANGED moduleVars => UNCHANGED vars
    BY DEF moduleVars, vars
  <2> QED BY <2>1, <2>2, <2>3 DEF ModuleNext
<1> QED
  BY <1>1, <1>2, PTL DEF ModuleSpec, Spec

(* The three-state policy is kept whatever the two roles do, in whichever  *)
(* order they do it (docs/security-policy.md, B.2.10).                     *)
THEOREM ModuleImplementsPolicy == ModuleSpec => RefinesPolicy
BY ModuleImplementsMode, ImplementsPolicy, PTL

-----------------------------------------------------------------------------
(* No false alarm.  As long as the code the KATs execute is sound, whatever*)
(* is broken besides, no run counts a failure or returns -1, and each run  *)
(* that ends sets the flag (self_test.c:96-126).  SoundRunConcludes adds   *)
(* that a run does end.                                                    *)
THEOREM SoundCodePasses ==
  Spec /\ [](faulty \cap Covered = {})
    => /\ [](failed = 0 /\ ret # "-1")
       /\ [][SelfTestEnd => self_test_ok']_vars
<1> DEFINE Sound == faulty \cap Covered = {}
           Quiet == failed = 0 /\ ret # "-1"
<1>1. Init => Quiet
  BY DEF Init
<1>2. Sound /\ Quiet /\ [Next]_vars => Quiet'
  <2> SUFFICES ASSUME Sound, Quiet, [Next]_vars PROVE Quiet'
    OBVIOUS
  <2>1. CASE fips_mode_enable \/ fips_mode_disable
    BY <2>1 DEF fips_mode_enable, fips_mode_disable
  <2>2. CASE SelfTestBegin
    BY <2>2 DEF SelfTestBegin
  <2>3. CASE RunKat
    <3>1. KatOrder[at] \in Kat
      BY <2>3 DEF RunKat, Kat
    <3>2. KatPasses(KatOrder[at], faulty)
      BY <3>1 DEF KatPasses, Covered
    <3> QED BY <2>3, <3>2 DEF RunKat
  <2>4. CASE SelfTestEnd
    BY <2>4 DEF SelfTestEnd
  <2>5. CASE Environment
    BY <2>5 DEF Environment, Restart, Break, Heal
  <2>6. CASE UNCHANGED vars
    BY <2>6 DEF vars
  <2> QED
    BY <2>1, <2>2, <2>3, <2>4, <2>5, <2>6 DEF Next, fips_self_test_run
<1>3. Quiet => [SelfTestEnd => self_test_ok']_vars
  BY DEF SelfTestEnd
<1> HIDE DEF Quiet, Sound
<1>4. Spec /\ []Sound => []Quiet /\ [][SelfTestEnd => self_test_ok']_vars
  BY <1>1, <1>2, <1>3, PTL DEF Spec
<1> QED
  BY <1>4 DEF Quiet, Sound

=============================================================================
