------------------------------ MODULE FipsMode ------------------------------
(***************************************************************************)
(* The mode flags and the approval gate of src/fips.c, and the known-      *)
(* answer-test run of src/self_test.c.  The library is single threaded, so *)
(* no other call is served while fips_self_test_run is on the stack; the   *)
(* run is nevertheless split at each KAT because the environment (memory,  *)
(* hardware, a bad build) can break or heal a code path between two of     *)
(* them.                                                                   *)
(***************************************************************************)
EXTENDS Naturals, FiniteSets, Sequences

CONSTANT MaxFaults   \* how many code paths may be broken at the same time
ASSUME MaxFaultsAssumption == MaxFaults \in Nat

VARIABLES fips_mode_on,   \* the two statics of fips.c
          self_test_ok,
          at,             \* where fips_self_test_run is: 0 not running,
                          \* i the i-th KAT is next, Len(KatOrder) + 1 the verdict
          failed,         \* its local failure counter
          faulty,         \* environment: the code paths that compute wrongly now
          ran,            \* history: the KATs passed by the latest run since the
                          \* mode was last enabled or the process started
          stuck,          \* history: the paths broken without a break since the
                          \* latest run began
          ret             \* what the latest run returned to its caller

vars == <<fips_mode_on, self_test_ok, at, failed, faulty, ran, stuck, ret>>

-----------------------------------------------------------------------------
(* The code paths of the primitives that can be wrong independently.       *)
Unit == {"aes128_key", "aes256_key", "aes_encrypt", "aes_decrypt",
         "cbc_chaining", "sha256_block", "sha256_long_pad", "hmac_key", "hmac_long_key",
         "pbkdf2_loop"}

(* The KATs, in the order fips_self_test_run calls them, and what each one *)
(* executes: AES-128 key schedule and one block under a zero IV (which     *)
(* hides the chaining); SHA-256("abc"), one block; HMAC of an 8-byte       *)
(* message under a 20-byte key.                                            *)
KatOrder == <<"kat_aes", "kat_sha256", "kat_hmac_sha256">>
Kat == {KatOrder[i] : i \in DOMAIN KatOrder}

Exercises(kat) ==
    CASE kat = "kat_aes"         -> {"aes128_key", "aes_encrypt"}
      [] kat = "kat_sha256"      -> {"sha256_block"}
      [] kat = "kat_hmac_sha256" -> {"sha256_block", "hmac_key"}

Covered == UNION {Exercises(kat) : kat \in Kat}

(* A KAT returns 0 iff what it executes computes the known answer.         *)
KatPasses(kat, broken) == Exercises(kat) \cap broken = {}

-----------------------------------------------------------------------------
(* The approval table and the gate.                                        *)
Approved == {"ALG_AES_128_CBC", "ALG_AES_256_CBC", "ALG_SHA256",
             "ALG_HMAC_SHA256", "ALG_PBKDF2_SHA256"}
Algorithm == Approved \cup
             {"ALG_MD5", "ALG_SHA1", "ALG_DES", "ALG_RC4", "ALG_BLOWFISH"}

fips_mode_status ==
    IF ~fips_mode_on THEN "non-approved"
    ELSE IF ~self_test_ok THEN "error"
    ELSE "approved"

\* A plausible slip: the gate looks at the table and not at the verdict.
fips_check_algorithm_SkipsSelfTest(alg) ==
    IF ~fips_mode_on THEN "FIPS_OK"
    ELSE IF alg \in Approved THEN "FIPS_OK"
    ELSE "FIPS_ERR_NOT_APPROVED"

fips_check_algorithm(alg) ==
    IF ~fips_mode_on THEN "FIPS_OK"
    ELSE IF ~self_test_ok THEN "FIPS_ERR_SELF_TEST"
    ELSE IF alg \in Approved THEN "FIPS_OK"
    ELSE "FIPS_ERR_NOT_APPROVED"

-----------------------------------------------------------------------------
(* The process starts with both statics 0, on a machine or build that may  *)
(* already be faulty.                                                      *)
Init == /\ fips_mode_on = FALSE
        /\ self_test_ok = FALSE
        /\ at = 0
        /\ failed = 0
        /\ faulty \in {F \in SUBSET Unit : Cardinality(F) <= MaxFaults}
        /\ ran = {}
        /\ stuck = {}
        /\ ret = "none"

idle == at = 0
running == at # 0

\* A plausible slip: enabling the mode keeps the verdict of an earlier run.
fips_mode_enable_KeepsVerdict ==
    /\ idle
    /\ fips_mode_on' = TRUE
    /\ ran' = {}
    /\ UNCHANGED <<self_test_ok, at, failed, faulty, stuck, ret>>

fips_mode_enable ==
    /\ idle
    /\ fips_mode_on' = TRUE
    /\ self_test_ok' = FALSE
    /\ ran' = {}
    /\ UNCHANGED <<at, failed, faulty, stuck, ret>>

fips_mode_disable ==
    /\ idle
    /\ fips_mode_on' = FALSE
    /\ UNCHANGED <<self_test_ok, at, failed, faulty, ran, stuck, ret>>

\* A plausible slip: the old verdict stands while the KATs run again.
SelfTestBegin_KeepsVerdict ==
    /\ idle
    /\ at' = 1
    /\ failed' = 0
    /\ ran' = {}
    /\ stuck' = faulty
    /\ UNCHANGED <<fips_mode_on, self_test_ok, faulty, ret>>

(* fips_self_test_run: "mark self-tests as not passed while running".      *)
SelfTestBegin ==
    /\ idle
    /\ at' = 1
    /\ failed' = 0
    /\ self_test_ok' = FALSE
    /\ ran' = {}
    /\ stuck' = faulty
    /\ UNCHANGED <<fips_mode_on, faulty, ret>>

\* A plausible slip: the counter only remembers the last KAT.
RunKat_LastWins ==
    /\ at \in DOMAIN KatOrder
    /\ at' = at + 1
    /\ IF KatPasses(KatOrder[at], faulty)
       THEN failed' = 0 /\ ran' = ran \cup {KatOrder[at]}
       ELSE failed' = 1 /\ UNCHANGED ran
    /\ UNCHANGED <<fips_mode_on, self_test_ok, faulty, stuck, ret>>

(* The next KAT; a failure is counted and the run goes on to the next one. *)
RunKat ==
    /\ at \in DOMAIN KatOrder
    /\ at' = at + 1
    /\ IF KatPasses(KatOrder[at], faulty)
       THEN ran' = ran \cup {KatOrder[at]} /\ UNCHANGED failed
       ELSE failed' = failed + 1 /\ UNCHANGED ran
    /\ UNCHANGED <<fips_mode_on, self_test_ok, faulty, stuck, ret>>

\* A plausible slip: success is returned but never recorded in fips.c.
SelfTestEnd_NotRecorded ==
    /\ at = Len(KatOrder) + 1
    /\ at' = 0
    /\ failed' = 0
    /\ ret' = IF failed = 0 THEN "0" ELSE "-1"
    /\ UNCHANGED <<fips_mode_on, self_test_ok, faulty, ran, stuck>>

\* A plausible slip: the run goes on past its last KAT.
SelfTestEnd_RunsOn ==
    /\ at = Len(KatOrder) + 1
    /\ at' = at + 1
    /\ failed' = 0
    /\ self_test_ok' = IF failed = 0 THEN TRUE ELSE self_test_ok
    /\ ret' = IF failed = 0 THEN "0" ELSE "-1"
    /\ UNCHANGED <<fips_mode_on, faulty, ran, stuck>>

(* The verdict, and the return to the caller: the flag is set only when    *)
(* nothing failed and is otherwise left as SelfTestBegin put it.           *)
SelfTestEnd ==
    /\ at = Len(KatOrder) + 1
    /\ at' = 0
    /\ failed' = 0
    /\ self_test_ok' = IF failed = 0 THEN TRUE ELSE self_test_ok
    /\ ret' = IF failed = 0 THEN "0" ELSE "-1"
    /\ UNCHANGED <<fips_mode_on, faulty, ran, stuck>>

fips_self_test_run == SelfTestBegin \/ RunKat \/ SelfTestEnd

-----------------------------------------------------------------------------
(* The environment.  A broken path computes a wrong result on every input; *)
(* healing is a transient fault going away.  Restart is the process ending *)
(* (at any instant, also inside a self-test) and starting again.           *)
Break(u) ==
    /\ u \notin faulty
    /\ Cardinality(faulty) < MaxFaults
    /\ faulty' = faulty \cup {u}
    /\ UNCHANGED <<fips_mode_on, self_test_ok, at, failed, ran, stuck, ret>>

Heal(u) ==
    /\ u \in faulty
    /\ faulty' = faulty \ {u}
    /\ stuck' = stuck \ {u}
    /\ UNCHANGED <<fips_mode_on, self_test_ok, at, failed, ran, ret>>

Restart ==
    /\ fips_mode_on' = FALSE
    /\ self_test_ok' = FALSE
    /\ at' = 0
    /\ failed' = 0
    /\ ran' = {}
    /\ stuck' = {}
    /\ ret' = "none"
    /\ UNCHANGED faulty

Environment == Restart \/ \E u \in Unit : Break(u) \/ Heal(u)

Next == fips_mode_enable \/ fips_mode_disable \/ fips_self_test_run \/ Environment

Spec == Init /\ [][Next]_vars

(* The KATs are straight-line code: a run that has begun is carried on.    *)
FairSpec == Spec /\ WF_vars(RunKat) /\ WF_vars(SelfTestEnd)

-----------------------------------------------------------------------------
TypeOK ==
    /\ fips_mode_on \in BOOLEAN
    /\ self_test_ok \in BOOLEAN
    /\ at \in 0 .. Len(KatOrder) + 1
    /\ failed \in Nat
    /\ faulty \subseteq Unit
    /\ ran \subseteq Kat
    /\ stuck \subseteq faulty
    /\ ret \in {"none", "0", "-1"}

(* The module is approved exactly when FIPS mode is on and a run that      *)
(* began after it was last turned on has finished with every KAT passed:   *)
(* no verdict survives a re-enable, a running test or a failed re-run      *)
(* (fips.c:27, self_test.c:100), and no complete success is forgotten.     *)
ApprovedOnEvidence ==
    fips_mode_status = "approved" <=> fips_mode_on /\ idle /\ ran = Kat

(* A fault that lasts through a whole run, in code some KAT executes,      *)
(* keeps the module out of the approved state, whichever of the three KATs *)
(* meets it and whatever comes and goes besides (self_test.c:102-124).     *)
LastingFaultBlocksApproval ==
    fips_mode_status = "approved" => stuck \cap Covered = {}

(* No call moves the module from error to approved but the end of a run,   *)
(* and nothing happens to the verdict of a run from begin to end besides   *)
(* this run's own steps: the module behaves as the three-state policy.     *)
Policy == INSTANCE FipsPolicy WITH state <- fips_mode_status, testing <- running

RefinesPolicy == Policy!PolicySpec

(* A run that begins while covered code is sound and stays so ends with    *)
(* the module approved if the mode is on: the KATs raise no false alarm    *)
(* and always reach a verdict (unless the process dies or a fault occurs). *)
SoundRunConcludes ==
    (at = 1 /\ fips_mode_on /\ faulty \cap Covered = {})
        ~> \/ fips_mode_status = "approved"
           \/ ~fips_mode_on
           \/ faulty \cap Covered # {}

=============================================================================
