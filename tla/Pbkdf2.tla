------------------------------- MODULE Pbkdf2 -------------------------------
(***************************************************************************)
(* src/pbkdf2.c: pbkdf2_hmac_sha256 called again and again with any        *)
(* parameters, in and out of FIPS mode; the loops run one iteration per    *)
(* step.  HMAC is symbolic: the PRF applied n times under a password, from *)
(* salt || INT(b), is Prf(input, n), a buffer is the set of such values it *)
(* is the XOR of, and the zero buffer is {}.  That different PRF values    *)
(* never cancel is the usual assumption on HMAC.  The output may be        *)
(* written over the password or the salt, each at least as long as it; an  *)
(* input then is told by how many of its bytes the output has replaced.    *)
(***************************************************************************)
EXTENDS Integers

CONSTANTS HLEN,            \* SHA256_DIGEST_SIZE: 32
          IntMod,          \* values of the unsigned block_i: 2^32
          SaltRoom,        \* room for the salt in salt_block[]: 512
          MinSaltLen,      \* PBKDF2_MIN_SALT_LEN: 16
          MinIterations,   \* PBKDF2_MIN_ITERATIONS: 1000
          SaltLen, Iterations, OutLen   \* the parameters callers may pass

ASSUME Pbkdf2Assumption ==
    /\ HLEN \in Nat \ {0}
    /\ IntMod \in Nat \ {0, 1}
    /\ SaltRoom \in Nat /\ MinSaltLen \in Nat /\ MinIterations \in Nat
    /\ SaltLen \subseteq Nat /\ Iterations \subseteq Nat /\ OutLen \subseteq Nat

VARIABLES pc,        \* "idle", or the loop the call is in: "while", "for"
          mode,      \* the two statics of fips.c
          arg,       \* the parameters of the latest call
          salt_block, \* the copy of the salt, before INT(block_i)
          U, T,      \* the other local buffers
          j, block_i, out_pos,
          out,       \* the caller's buffer, as long as arg.out_len
          ret        \* what the latest call that returned returned

vars == <<pc, mode, arg, salt_block, U, T, j, block_i, out_pos, out, ret>>

-----------------------------------------------------------------------------
Mode == [fips_mode_on : BOOLEAN, self_test_ok : BOOLEAN]
Overlap == {"none", "password", "salt"}       \* what out is written over
Arg == [salt_len : SaltLen, iterations : Iterations, out_len : OutLen,
        overlap : Overlap]

Prf(input, n) == <<input, n>>
Input(password, salt, b) == [password |-> password, salt |-> salt, block |-> b]
CallersInput(b) == Input(0, 0, b)
Uninitialised == {Prf(CallersInput(0), 0)}
Xor(s, t) == (s \ t) \cup (t \ s)
PrfAgain(password, u) ==
    {Prf([p[1] EXCEPT !.password = password], p[2] + 1) : p \in u}
OutByte(t, k) == <<t, k>>             \* byte k of the buffer t
CallersByte == OutByte(Uninitialised, 0)

(* The checks of FIPS mode, then those that hold in any mode.              *)
Refused(m, a) ==
    \/ m.fips_mode_on /\ \/ ~m.self_test_ok
                         \/ a.salt_len < MinSaltLen
                         \/ a.iterations < MinIterations
    \/ a.iterations = 0
    \/ a.out_len = 0
    \/ a.salt_len > SaltRoom

Init == /\ pc = "idle"
        /\ mode = [fips_mode_on |-> FALSE, self_test_ok |-> FALSE]
        /\ arg = [salt_len |-> 0, iterations |-> 0, out_len |-> 0, overlap |-> "none"]
        /\ salt_block = 0 /\ U = {} /\ T = {}
        /\ j = 0 /\ block_i = 0 /\ out_pos = 0
        /\ out = [p \in 1 .. 0 |-> CallersByte]
        /\ ret = -1

(* Between two calls the Crypto Officer leaves the module in any mode.     *)
SetMode(m) == /\ pc = "idle"
              /\ mode' = m
              /\ UNCHANGED <<pc, arg, salt_block, U, T, j, block_i, out_pos, out, ret>>

\* A plausible slip: the output is cleared before the parameters are checked.
Call_ClearsOutput(a) ==
    /\ pc = "idle"
    /\ arg' = a
    /\ out' = [p \in 1 .. a.out_len |-> OutByte({}, 0)]
    /\ IF Refused(mode, a)
       THEN /\ ret' = -1
            /\ UNCHANGED <<pc, salt_block, U, T, j, block_i, out_pos>>
       ELSE /\ pc' = "while"
            /\ salt_block' = 0
            /\ U' = Uninitialised /\ T' = Uninitialised
            /\ j' = 0 /\ block_i' = 1 /\ out_pos' = 0
            /\ UNCHANGED ret
    /\ UNCHANGED mode

(* Entry.  A refused call returns before it has touched anything; any other *)
(* copies the salt before a byte is written.                               *)
Call(a) ==
    /\ pc = "idle"
    /\ arg' = a
    /\ out' = [p \in 1 .. a.out_len |-> CallersByte]
    /\ IF Refused(mode, a)
       THEN /\ ret' = -1
            /\ UNCHANGED <<pc, salt_block, U, T, j, block_i, out_pos>>
       ELSE /\ pc' = "while"
            /\ salt_block' = 0
            /\ U' = Uninitialised /\ T' = Uninitialised
            /\ j' = 0 /\ block_i' = 1 /\ out_pos' = 0
            /\ UNCHANGED ret
    /\ UNCHANGED mode

(* The password is read where the caller put it, at every PRF.             *)
Password == IF arg.overlap = "password" THEN out_pos ELSE 0

\* A plausible slip: the salt is read where the caller put it as well.
FirstPrf_ReadsSaltAgain ==
    /\ pc = "while"
    /\ out_pos < arg.out_len
    /\ U' = {Prf(Input(Password, IF arg.overlap = "salt" THEN out_pos ELSE 0, block_i), 1)}
    /\ T' = U'
    /\ j' = 1
    /\ pc' = "for"
    /\ UNCHANGED <<mode, arg, salt_block, block_i, out_pos, out, ret>>

\* A plausible slip: T keeps the previous block and U1 is added to it.
FirstPrf_AccumulatesT ==
    /\ pc = "while"
    /\ out_pos < arg.out_len
    /\ U' = {Prf(Input(Password, salt_block, block_i), 1)}
    /\ T' = IF out_pos = 0 THEN U' ELSE Xor(T, U')
    /\ j' = 1
    /\ pc' = "for"
    /\ UNCHANGED <<mode, arg, salt_block, block_i, out_pos, out, ret>>

(* The head of the while loop: INT(block_i), U1, and T = U1.               *)
FirstPrf ==
    /\ pc = "while"
    /\ out_pos < arg.out_len
    /\ U' = {Prf(Input(Password, salt_block, block_i), 1)}
    /\ T' = U'
    /\ j' = 1
    /\ pc' = "for"
    /\ UNCHANGED <<mode, arg, salt_block, block_i, out_pos, out, ret>>

(* U2 .. Uc: the PRF of the previous U, in place, added to T.              *)
NextPrf ==
    /\ pc = "for"
    /\ j < arg.iterations
    /\ U' = PrfAgain(Password, U)
    /\ T' = Xor(T, U')
    /\ j' = j + 1
    /\ UNCHANGED <<pc, mode, arg, salt_block, block_i, out_pos, out, ret>>

Copied == IF arg.out_len - out_pos > HLEN THEN HLEN ELSE arg.out_len - out_pos

\* A plausible slip: a whole T is copied, whatever room is left.
CopyBlock_WholeBlock ==
    /\ pc = "for"
    /\ ~(j < arg.iterations)
    /\ out' = [p \in 1 .. out_pos + HLEN |->
                 IF p <= out_pos THEN out[p] ELSE OutByte(T, p - out_pos)]
    /\ out_pos' = out_pos + HLEN
    /\ block_i' = (block_i + 1) % IntMod
    /\ pc' = "while"
    /\ UNCHANGED <<mode, arg, salt_block, U, T, j, ret>>

\* A plausible slip: the position advances by whole blocks only.
CopyBlock_ForgetsPartial ==
    /\ pc = "for"
    /\ ~(j < arg.iterations)
    /\ out' = [p \in 1 .. arg.out_len |->
                 IF out_pos < p /\ p <= out_pos + Copied
                 THEN OutByte(T, p - out_pos) ELSE out[p]]
    /\ out_pos' = IF Copied = HLEN THEN out_pos + HLEN ELSE out_pos
    /\ block_i' = (block_i + 1) % IntMod
    /\ pc' = "while"
    /\ UNCHANGED <<mode, arg, salt_block, U, T, j, ret>>

CopyBlock ==
    /\ pc = "for"
    /\ ~(j < arg.iterations)
    /\ out' = [p \in 1 .. arg.out_len |->
                 IF out_pos < p /\ p <= out_pos + Copied
                 THEN OutByte(T, p - out_pos) ELSE out[p]]
    /\ out_pos' = out_pos + Copied
    /\ block_i' = (block_i + 1) % IntMod
    /\ pc' = "while"
    /\ UNCHANGED <<mode, arg, salt_block, U, T, j, ret>>

\* A plausible slip: only U is wiped.
Return_KeepsT ==
    /\ pc = "while"
    /\ ~(out_pos < arg.out_len)
    /\ U' = {}
    /\ ret' = 0
    /\ pc' = "idle"
    /\ UNCHANGED <<mode, arg, salt_block, T, j, block_i, out_pos, out>>

(* U and T are zeroized, 0 is returned.                                    *)
Return ==
    /\ pc = "while"
    /\ ~(out_pos < arg.out_len)
    /\ U' = {} /\ T' = {}
    /\ ret' = 0
    /\ pc' = "idle"
    /\ UNCHANGED <<mode, arg, salt_block, j, block_i, out_pos, out>>

Body == FirstPrf \/ NextPrf \/ CopyBlock \/ Return

Next == (\E m \in Mode : SetMode(m)) \/ (\E a \in Arg : Call(a)) \/ Body

Spec == Init /\ [][Next]_vars

(* A call that has passed its checks runs on to its return.                *)
FairSpec == Spec /\ WF_vars(Body)

-----------------------------------------------------------------------------
(* The longest key SP 800-132 allows, and the key RFC 8018, section 5.2,   *)
(* defines: byte p comes from block l, T_l being the XOR of U_1 .. U_c.    *)
LengthLimit == (IntMod - 1) * HLEN

(* From the second block on, a password under the output is lost.          *)
PasswordLasts(a) == a.overlap = "password" => a.out_len <= HLEN

DerivedKey(a) ==
    [p \in 1 .. a.out_len |->
        LET l == (p - 1) \div HLEN
        IN  OutByte({Prf(CallersInput(l + 1), n) : n \in 1 .. a.iterations}, p - l * HLEN)]

TypeOK ==
    /\ pc \in {"idle", "while", "for"}
    /\ mode \in Mode
    /\ arg.salt_len \in Nat /\ arg.iterations \in Nat /\ arg.out_len \in Nat
    /\ arg.salt_len <= SaltRoom \/ pc = "idle"
    /\ salt_block \in Nat
    /\ j \in 0 .. arg.iterations \/ pc = "idle"
    /\ block_i \in 0 .. IntMod - 1
    /\ out_pos \in 0 .. arg.out_len \/ pc = "idle"
    /\ DOMAIN out = 1 .. arg.out_len
    /\ ret \in {0, -1}

(* Within the length limit, a call that returns 0 has written the derived  *)
(* key, all of it and nothing else, wherever the last block is cut and     *)
(* whatever earlier calls left in the frame; also when it replaces the     *)
(* salt, or a password while one block is enough (pbkdf2.c:59-86).         *)
KeyIsReference ==
    (pc = "idle" /\ ret = 0 /\ arg.out_len <= LengthLimit /\ PasswordLasts(arg))
        => out = DerivedKey(arg)

(* A call that returns -1 has not written a byte of out[] (pbkdf2.c:39-57).*)
RefusalWritesNothing ==
    (pc = "idle" /\ ret = -1) => \A p \in DOMAIN out : out[p] = CallersByte

(* No call, whichever way it returns, leaves PRF output in U or T          *)
(* (docs/security-policy.md:314, pbkdf2.c:91-95).                          *)
NoIntermediateLeft == pc = "idle" => U = {} /\ T = {}

(* Every call returns, also one whose block index wraps.                   *)
EveryCallReturns == pc # "idle" ~> pc = "idle"

=============================================================================
