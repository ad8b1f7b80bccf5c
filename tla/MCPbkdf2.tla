------------------------------ MODULE MCPbkdf2 ------------------------------
(* Instance of Pbkdf2 for TLC: output lengths on and off the boundaries of *)
(* 3-byte blocks up to the length limit and past it, where the 2-bit block *)
(* index wraps; salts and iteration counts on both sides of every check;   *)
(* output over the password, over the salt, or apart from both.            *)
EXTENDS Pbkdf2
MCSaltLen == {1, 2, 3}
MCIterations == {0, 1, 2, 3}
MCOutLen == {0, 1, 3, 4, 9, 10}
=============================================================================
