---------------------------- MODULE MCFipsModule ----------------------------
(* Instance of FipsModule for TLC: one broken path at a time (which path   *)
(* is wrong is what matters here), and clearance asked for a primitive,    *)
(* which never looks at the mode, and for PBKDF2, which does.              *)
EXTENDS FipsModule
MCMaxFaults == 1
MCAsked == {"ALG_AES_128_CBC", "ALG_PBKDF2_SHA256"}
=============================================================================
