----------------------------- MODULE MCFipsMode -----------------------------
(* Instance of FipsMode for TLC: up to two code paths broken at once, so   *)
(* that faults in different KATs meet, come and go independently.          *)
EXTENDS FipsMode
MCMaxFaults == 2
=============================================================================
