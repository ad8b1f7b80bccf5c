----------------------------- MODULE FipsModule -----------------------------
(***************************************************************************)
(* The module as its two roles use it (docs/security-policy.md, B.2.4).    *)
(* The Crypto Officer switches the mode and runs the self-tests            *)
(* (FipsMode); the User asks fips_check_algorithm for clearance, calls the *)
(* AES, SHA-256 and HMAC primitives, which never look at the mode, and     *)
(* pbkdf2_hmac_sha256, which does.  Calls of the two roles come in any     *)
(* order, so a clearance can be out of date when the User acts on it.      *)
(***************************************************************************)
EXTENDS FipsMode, Integers

CONSTANT Asked   \* the algorithms the User asks clearance for
ASSUME AskedAssumption == Asked \subseteq Algorithm

VARIABLES cleared,   \* the User's knowledge: the algorithms whose latest answer
                     \* was FIPS_OK; nobody tells the User when it expires
          overtaken, \* history: those of them whose answer is older than the
                     \* latest enable or self-test
          service    \* the latest service: which one, its parameters and result,
                     \* the User's answer for it when it was called, and the
                     \* status and the broken paths it met

moduleVars == <<fips_mode_on, self_test_ok, at, failed, faulty, ran, stuck, ret,
                cleared, overtaken, service>>

(* What each service executes.                                             *)
Executes(alg) ==
    CASE alg = "ALG_AES_128_CBC"   -> {"aes128_key", "aes_encrypt", "aes_decrypt",
                                       "cbc_chaining"}
      [] alg = "ALG_AES_256_CBC"   -> {"aes256_key", "aes_encrypt", "aes_decrypt",
                                       "cbc_chaining"}
      [] alg = "ALG_SHA256"        -> {"sha256_block", "sha256_long_pad"}
      [] alg = "ALG_HMAC_SHA256"   -> {"sha256_block", "sha256_long_pad",
                                       "hmac_key", "hmac_long_key"}
      [] alg = "ALG_PBKDF2_SHA256" -> {"sha256_block", "sha256_long_pad",
                                       "hmac_key", "hmac_long_key", "pbkdf2_loop"}

Primitive == {"ALG_AES_128_CBC", "ALG_AES_256_CBC", "ALG_SHA256", "ALG_HMAC_SHA256"}

Answer(alg) == IF alg \notin cleared THEN "none"
               ELSE IF alg \in overtaken THEN "overtaken" ELSE "fresh"

NoService == [alg |-> "none", answer |-> "none", status |-> "non-approved", ret |-> -1,
              bad |-> {}, old |-> {}, salt |-> FALSE, iter |-> FALSE]

Served(alg, code, saltOk, iterOk) ==
    [alg |-> alg, answer |-> Answer(alg), status |-> fips_mode_status, ret |-> code,
     bad |-> Executes(alg) \cap faulty, old |-> Executes(alg) \cap stuck,
     salt |-> saltOk, iter |-> iterOk]

ModuleInit == Init /\ cleared = {} /\ overtaken = {} /\ service = NoService

-----------------------------------------------------------------------------
(* The User.  All three calls are made when no self-test is on the stack.  *)
CheckAlgorithm(alg) ==
    /\ idle
    /\ cleared' = IF fips_check_algorithm(alg) = "FIPS_OK"
                  THEN cleared \cup {alg} ELSE cleared \ {alg}
    /\ overtaken' = overtaken \ {alg}
    /\ UNCHANGED <<vars, service>>

(* aes_init .. aes_cbc_*, sha256_*, hmac_sha256_*: no check on the way.    *)
UsePrimitive(alg) ==
    /\ idle
    /\ service' = Served(alg, 0, TRUE, TRUE)
    /\ UNCHANGED <<vars, cleared, overtaken>>

\* A plausible slip: the parameters are checked, the module's state is not.
Pbkdf2Code_SkipsSelfTest(saltOk, iterOk) ==
    IF fips_mode_on /\ ~(saltOk /\ iterOk) THEN -1 ELSE 0

\* A plausible slip: the answer of the gate is passed on to the caller.
Pbkdf2Code_PassesGateOn(saltOk, iterOk) ==
    IF fips_mode_on /\ fips_check_algorithm("ALG_PBKDF2_SHA256") # "FIPS_OK" THEN -2
    ELSE IF fips_mode_on /\ ~(saltOk /\ iterOk) THEN -1
    ELSE 0

(* The FIPS parameter checks of pbkdf2_hmac_sha256: salt_len at least 16   *)
(* (saltOk) and iterations at least 1000 (iterOk) bind in FIPS mode only.  *)
Pbkdf2Code(saltOk, iterOk) ==
    IF fips_mode_on /\ \/ fips_check_algorithm("ALG_PBKDF2_SHA256") # "FIPS_OK"
                       \/ ~saltOk
                       \/ ~iterOk
    THEN -1 ELSE 0

DeriveKey(saltOk, iterOk) ==
    /\ idle
    /\ service' = Served("ALG_PBKDF2_SHA256", Pbkdf2Code(saltOk, iterOk), saltOk, iterOk)
    /\ UNCHANGED <<vars, cleared, overtaken>>

User == \/ \E alg \in Asked : CheckAlgorithm(alg)
        \/ \E alg \in Primitive : UsePrimitive(alg)
        \/ \E saltOk, iterOk \in BOOLEAN : DeriveKey(saltOk, iterOk)

(* The Crypto Officer and the environment: enabling the mode and beginning *)
(* a self-test are the calls after which a User should ask again; the      *)
(* User's answers stay as they are.                                        *)
Officer == /\ Next
           /\ overtaken' = IF fips_mode_enable \/ SelfTestBegin THEN cleared ELSE overtaken
           /\ UNCHANGED <<cleared, service>>

ModuleNext == Officer \/ User

ModuleSpec == ModuleInit /\ [][ModuleNext]_moduleVars

-----------------------------------------------------------------------------
ModuleTypeOK ==
    /\ TypeOK
    /\ cleared \subseteq Asked /\ overtaken \subseteq cleared
    /\ service.ret \in {0, -1}
    /\ service.alg \in Approved \cup {"none"}

(* A clearance holds until the mode is next enabled or a self-test begins: *)
(* turning the mode off, a restart of the process, further checks and      *)
(* services never turn a cleared algorithm into a refused one.             *)
ClearanceLasts ==
    \A alg \in cleared \ overtaken : fips_check_algorithm(alg) = "FIPS_OK"

(* A cleared User gets a service out of a module in the error state in one *)
(* way only: the Crypto Officer has enabled the mode or begun a self-test  *)
(* between the answer and the call, and the service is a primitive, which  *)
(* has no check of its own.  No other call makes an answer stale (a        *)
(* disable, a restart, a fault, the end of a run), and PBKDF2 asks again   *)
(* and refuses however old the answer is (fips.c:59-70, pbkdf2.c:39-46).   *)
ClearedServiceIsSound ==
    (service.status = "error" /\ service.answer # "none" /\ service.ret = 0) =>
      service.answer = "overtaken" /\ service.alg \in Primitive

(* A key that PBKDF2 derives in FIPS mode comes from an approved module    *)
(* (never from one in error, whatever the parameters), under parameters    *)
(* SP 800-132 allows, and is wrong only through a path no KAT executes or  *)
(* a fault younger than the latest self-test (pbkdf2.c:39-46).             *)
DerivedKeyIsTrustworthy ==
    (service.alg = "ALG_PBKDF2_SHA256" /\ service.ret = 0
        /\ service.status # "non-approved") =>
      /\ service.status = "approved"
      /\ service.salt /\ service.iter
      /\ service.old \cap Covered = {}

(* include/fips.h:21 "If self-tests have not passed, all operations return *)
(* FIPS_ERR_SELF_TEST": in the error state no operation succeeds.          *)
NoServiceInErrorState == service.status = "error" => service.ret # 0

=============================================================================
