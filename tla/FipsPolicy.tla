----------------------------- MODULE FipsPolicy -----------------------------
(***************************************************************************)
(* What the module promises its operator (docs/security-policy.md, B.2.10; *)
(* include/fips.h): it is in one of three states, and the only way into    *)
(* "approved" is a self-test that starts while FIPS mode is on and         *)
(* concludes successfully.  FipsMode refines this specification.           *)
(***************************************************************************)
VARIABLES state,   \* what fips_mode_status() reports
          testing  \* a self-test is in progress

policyVars == <<state, testing>>

ModuleState == {"non-approved", "error", "approved"}

PolicyTypeOK == state \in ModuleState /\ testing \in BOOLEAN

PolicyInit == state = "non-approved" /\ testing = FALSE

\* The Crypto Officer turns FIPS mode on: nothing is approved until tested.
EnterFipsMode == /\ ~testing
                 /\ state' = "error"
                 /\ UNCHANGED testing

\* FIPS mode is turned off, or the process (and so the module) restarts.
LeaveFipsMode == /\ state' = "non-approved"
                 /\ testing' = FALSE

\* A self-test withdraws the approval for as long as it runs.
StartTest == /\ ~testing
             /\ testing' = TRUE
             /\ state' = IF state = "approved" THEN "error" ELSE state

ConcludeTest == /\ testing
                /\ testing' = FALSE
                /\ \/ UNCHANGED state
                   \/ state = "error" /\ state' = "approved"

PolicyNext == EnterFipsMode \/ LeaveFipsMode \/ StartTest \/ ConcludeTest

PolicySpec == PolicyInit /\ [][PolicyNext]_policyVars

=============================================================================
