# A TLA+ model of fips-crypto

These modules model the cryptographic library of this repository (`src/`,
`include/`) and the local ACVP simulation around it (`acvp/`). TLC checks them on
small instances; TLAPS proves the central properties for every value of the
constants. The models are about control: the order of calls, what state survives
them, where a message or a key is cut, what a failure leaves behind. The AES
block cipher is modelled on bytes, since its inverse, its schedule and its tables
are things no self-test covers; the SHA-256 compression function is kept
abstract.

Paths below are relative to the repository root.

## 1. Inventory

The library is single threaded and keeps two words of global state. Everything
else lives in contexts the caller owns. There is no concurrency inside a process;
what is hard is the *order of calls* of two roles, reuse of contexts, boundary
lengths, failures half-way, and (in `acvp/`) several processes that communicate
through files.

| Component | State | Operations | Interacts with | Hard part |
|---|---|---|---|---|
| `src/fips.c` mode and gate | `fips_mode_on`, `self_test_ok` | `fips_mode_enable/_disable/_active/_status`, `fips_set_self_test_passed`, `fips_check_algorithm` | called by self-test, PBKDF2, callers | a verdict or a clearance that outlives its reason |
| `src/self_test.c` | a local counter; writes `self_test_ok` | `fips_self_test_run`, three KATs | AES, SHA-256, HMAC; `fips.c` | repeated runs, partial failure, faults that come and go, what is *not* tested |
| `src/sha256.c` | `SHA256_CTX`: chaining state, bit count, buffer, fill | `sha256_init/_update/_final`, `sha256` | HMAC | cutting at block boundaries, padding, 64-bit wrap, reuse after final |
| `src/hmac.c` | two `SHA256_CTX` | `hmac_sha256_init/_update/_final`, `hmac_sha256` | SHA-256, PBKDF2 | re-keying a live context, key lengths around a block, key residue |
| `src/pbkdf2.c` | locals only; reads the two flags | `pbkdf2_hmac_sha256` | HMAC, `fips.c` | refusals, last partial block, block index, wiping |
| `src/aes.c` | `AES_CTX`: round keys, `nr` | `aes_init`, `aes_cbc_encrypt/_decrypt`, `aes_zeroize` | self-test, callers | keys of two sizes on one context, aliasing buffers |
| `src/aes.c` block functions | the 4x4 state | `aes_encrypt_block`, `aes_decrypt_block`, key expansion | CBC, self-test | AES-256 and decryption, which no KAT executes; table entries |
| `acvp/src/acvp_runner.c` | local buffers, the response being built | `main`, four handlers, hex helpers | every primitive; files | malformed cases, buffers used again, ignored results, the exit code |
| `acvp/` pipeline | request and response files, exit codes | generate, run (per algorithm), validate, `make acvp-test` | the library; files | killed steps, full disks, stale files, masked failures |
| `tools/`, `setup.sh`, tests | none | one-shot scripts | - | not modelled |

What makes each of them correct:

* **Mode and self-test:** approved if and only if FIPS mode is on and a complete
  run begun since it was last turned on has passed; a lasting fault in tested code
  blocks approval; a sound module does get approved.
* **Gate and services:** an answer of the gate is good until the mode is enabled
  again or a self-test begins, and only acting on an older one gets a cleared User
  served in the error state; a key PBKDF2 hands out in FIPS mode is trustworthy.
* **SHA-256:** the digest does not depend on how a message is cut or on what the
  context was used for before; no write leaves the buffer; every call returns.
* **HMAC:** the MAC is that of FIPS 198-1 for the key of the latest init; a
  context holds no key but the current one, and an init leaves no unmasked key behind.
* **PBKDF2:** the key of RFC 8018 at every length; a refusal writes nothing;
  nothing secret is left in the buffers; every call returns.
* **AES:** the schedule in use is all of one key; zeroization leaves none of any;
  CBC of what the input held at the call.
* **AES block:** the schedule is the expansion of the latest key whatever the
  context held; decryption undoes encryption for both key sizes; the tables are
  the standard's.
* **Runner:** an answer depends on its own case only; the response has every case;
  exit code 0 is the verdict on all of them; no secret stays behind a case.
* **ACVP:** success means the library is right on the vectors just generated;
  failure has a reason; every run ends.

PROJECT.json lists the hazards behind these, each at its line.

## 2. Modules

| Module | Models | Notes |
|---|---|---|
| `FipsPolicy` | the promise: three states, approval only by a concluded test | abstract |
| `FipsMode` | `fips.c`, `self_test.c` | refines `FipsPolicy` |
| `FipsModule` | both roles on top of `FipsMode`: the gate, the primitives, PBKDF2's check | extends `FipsMode` |
| `Sha256Ctx` | `SHA256_CTX` and the steps of `sha256.c` as operators | shared by SHA-256 and HMAC |
| `Padding` | FIPS 180-4 5.1.1, the reference | |
| `HashStream` | a streaming hash: a message, then its digest | abstract |
| `Sha256` | one context under any calls, one loop iteration per step | refines `HashStream` |
| `HmacSha256` | `hmac.c` on two contexts | extends `Padding` |
| `Pbkdf2` | `pbkdf2.c` loop by loop | |
| `BlockCipher` | what CBC needs of a block cipher and of the XOR of bytes | assumed by `AesCbc`, proved of `AesBlock` |
| `AesCbc` | contexts and CBC of `aes.c` | |
| `AesField` | bytes, GF(2^8) and the tables of `aes.c` | used by `AesBlock` |
| `AesBlock` | key expansion and the block functions of `aes.c` | proved to be a cipher as `AesCbc` assumes it |
| `AcvpRunner` | one run of `acvp_runner.c`, case by case | the runner `AcvpPipeline` sees from outside |
| `AcvpPipeline` | `acvp/Makefile`, the scripts, the runner's files and exit codes | |
| `MC*` | instances for TLC | |
| `Sha256CtxProofs` | lemmas on contexts, byte strings and wrapping counters | used by the next two |
| `FipsModuleProofs`, `Sha256Proofs`, `HmacPbkdf2Proofs`, `AesCbcProofs`, `AesBlockProofs`, `AcvpRunnerProofs`, `AcvpPipelineProofs` | proofs | section 5 |

How the state corresponds to the code:

* **FipsMode.** `fips_mode_on` and `self_test_ok` are the statics. `at` is the
  program counter of `fips_self_test_run` and `failed` its local. `faulty` is the
  environment: the code paths that compute wrongly at the moment (`Unit` names the
  paths that can be wrong independently). A KAT passes if and only if no path it
  executes is broken; `Exercises` is read off `self_test.c:31-91`: one AES-128 block under a
  zero IV, one SHA-256 block, HMAC with a 20-byte key. `ran`, `stuck` and `ret`
  are history. A caller cannot call in while a self-test is on the stack, so mode
  calls need `idle`; faults and a restart can strike between any two KATs.
* **FipsModule.** `service` records the latest service with the status it met and the
  answer of the gate the User had for it. `cleared` is what the User knows: the algorithms
  whose latest answer was `FIPS_OK`. No call of the Crypto Officer changes it, so the
  window in which an answer is out of date exists; `overtaken`, which is history, marks
  the answers older than the latest enable or self-test. `UsePrimitive` has no guard
  because the code has none; `Pbkdf2Code` is `pbkdf2.c:39-46`.
* **Sha256Ctx.** `state[8]` is represented by the value it started from (`chain`:
  the initial value, or zero after a final) and the bytes compressed since
  (`hashed`). `buf`, `buf_len` and `bit_count` (modulo `CtrMod`, 2^64 in the code)
  are the fields. Stale buffer bytes are kept as the code keeps them.
* **HmacSha256.** A byte XORed with a pad and a byte of a digest are symbolic
  bytes, so a key that leaks into a digest or a buffer is visible. `locals` is what
  `hmac_sha256_init` left in `k0`, `ipad` and `opad` of its frame, until the next call.
* **Pbkdf2.** A buffer is the set of PRF values it is the XOR of, so a missing,
  doubled or foreign term is visible; `U` and `T` begin as garbage and must end
  empty. The FIPS checks read `mode`, which changes between calls only.
  `arg.overlap` says what the output is written over. The password is read at
  every PRF (`Password`), the salt once (`salt_block`): each input of the PRF
  carries the number of its bytes the output has replaced by then.
* **AesCbc.** Each round key is tagged with the key it came from. A block is a string
  of bytes, and buffers are ranges of one memory of bytes at any address, so they coincide
  and overlap at every distance, also by less than a block. A step of a loop computes on
  copies (`tmp`, `prev`, the 4x4 state), so its one block of output can be written at
  once; `DecryptLoop` reads `prev` from the memory as it is after that write. The cipher is any
  keyed permutation with its inverse (`IsBlockCipher`). Key `"zero"` is a zeroized context:
  `nr = 0` makes the block functions the identity, which is what the code does.
* **AesBlock.** `round_keys` and `nr` are `AES_CTX`; `nk`, `i`, `s` and `round` the
  locals of the loops, one iteration per step. A byte is the set of its bits, so
  `^` is symmetric difference and `gmul` can be computed and reasoned about; a
  word is its four bytes. `trail` is history: the states of the latest
  encryption, which the decryption of its result has to go back through. A call
  that fails its length check is part of `AesCbc`.
* **AcvpRunner.** `request` is the parsed file; `g` and `t` are where the handler
  is, `frame` its buffers, `answers` the response being built. A hex string has a
  length, a form (`hex`, `odd`, `nonhex`) and the value it decodes to; a buffer is
  the set of values its bytes may stem from, so a string that fails half-way
  leaves a mixture. The output of a primitive is a term over its inputs. An
  unchecked `aes_init` leaves a schedule of garbage or crashes (`Crash`); an
  unchecked CBC call leaves the output buffer as it was.
* **AcvpPipeline.** A file is absent, truncated or complete. A vector is its
  freshness (the generation it comes from); a case without random input
  (`Fixed`, the empty SHA-256 message) is the same in every generation. `stage`
  is the process that runs, `whole` says that it is a step of `make acvp-test`.

## 3. Runs

| Run | States | Shows |
|---|---|---|
| `FipsMode` | 16 216 | approval on evidence only, faults caught, the policy refined, sound runs conclude |
| `FipsModule` | 3 079 700 | who is served in the error state, PBKDF2's keys are trustworthy |
| `Sha256` | 61 441 | the streaming hash is implemented, buffer bounds, termination |
| `HmacSha256` | 10 361 | FIPS 198-1 for streaming and one-shot use; only the current key is held |
| `Pbkdf2` | 17 446 | RFC 8018 at all lengths and overlaps, refusals, wiping, termination |
| `AesCbc` | 606 208 | one key per schedule, zeroization, CBC on buffers overlapping byte by byte |
| `AesBlock` | 1 123 | FIPS 197 key expansion, decryption mirrors encryption, published ciphertexts, the S-box |
| `AcvpRunner` | 9 680 | isolated answers, complete responses, the exit code, wiping between cases, termination |
| `AcvpPipeline` | 278 415 | no false success, no false alarm, stale answers refused, termination |

Deadlock is checked in all of them.

Three more runs each state what a document of the repository says and show that
the code does otherwise:

| Run | Says | Does |
|---|---|---|
| `FipsModule_NoServiceInErrorState` | "all operations return FIPS_ERR_SELF_TEST" (`include/fips.h:21`) | the primitives never ask |
| `AesCbc_OverlappingDecryptSucceeds` | "Returns 0 on success, -1 on invalid length" (`include/aes.h:52`) | decrypting in place, or to an output 1 to 15 bytes below the input, returns 0 with a wrong plaintext (`aes.c:293`); encrypting so is right |
| `AcvpPipeline_ValidatorSuccessIsComplete` | "exits with code 0 if all pass" (`docs/acvp_validation_prompt.md:288`) | missing responses are skipped |

Further disagreements were noticed, which are visible in the text and need no run:

* "The module must be restarted to attempt the self-tests again"
  (`docs/security-policy.md:338-339`): `fips_self_test_run` may be called again at any
  time, as lines 353-355 of the same document describe.
* "A KAT must be run for every approved algorithm" (`include/self_test.h:19`): AES-256,
  decryption and PBKDF2 have none; `Exercises` of `FipsMode` says what is executed.
* "`hmac_sha256_init()` - local key schedule zeroed after setup"
  (`docs/security-policy.md:315`): `k0` is wiped, `ipad` and `opad`
  (`hmac.c:30-31`) are not. `locals` of `HmacSha256` shows them full of masked key
  bytes after every init; `OnlyCurrentKeyHeld` says that nothing else is there.
* "All intermediate buffers that hold key material are zeroed before free"
  (`acvp_runner.c:34`): the request text with the keys is freed as it is (line 543).
* A runner given a request without any test case exits 0 with "0/0 passed"
  (`acvp_runner.c:618`); `ExitCodeIsVerdict` allows it, as no text forbids it.

### Bounds, and why they are enough

* `MaxFaults`: 2 in `FipsMode`, so that faults met by different KATs occur in one
  run and come and go separately; 1 in `FipsModule`, where only *which* path is
  broken matters. Clearance is asked there for one primitive and for PBKDF2, the two kinds of
  service; answers about non-approved algorithms are covered by the theorems. The theorems hold for every value.
* SHA-256: bytes of 2 bits (`Radix` 4, so that the zero byte and the marker are
  both possible message bytes), blocks of 5 bytes with a length field of 2, a
  counter that wraps at 8 bytes, messages up to `MaxLen` 11 bytes, i.e. over two
  blocks. Every fill of a block meets the marker, the spill and an exact end. The theorems
  hold for all sizes, 64, 8 and 256 included, and for chunks of any length.
* HMAC: blocks of 4 bytes, digests of 2, keys of 0, 1, 4, 5 and 9 bytes, messages
  up to `MaxLen` 8. `Junk` is two contents of an uninitialised stack buffer.
* PBKDF2: `HLEN` 3, a block index of 2 bits (`IntMod` 4), output lengths on both
  sides of every block boundary, at the limit of 9 and beyond it, where the index
  wraps; salts and iteration counts on both sides of every check. The output may
  lie over the password or the salt; the buffer it lies over is taken to be at least
  as long.
* AES: blocks of two bytes of one bit (`BlockBytes` 2), two keys with 1 and 2 rounds
  (`MaxRounds` 2), a memory of 8 bytes (`Cells`) and any `in`, `out` and `len` in it:
  buffers of up to three blocks that coincide, overlap by a whole block or by one byte in
  either direction, or are disjoint. The theorems hold for blocks and memories of any size. One initial memory with four different blocks and
  one IV: other contents arise by running.
* AES block: the real sizes and tables, the three keys and two blocks of FIPS 197
  appendices B, C.1 and C.3, in every order on one context; a decryption is of a
  block from outside or of the result before it. All keys and blocks are covered by proof.
* Runner: per algorithm a menu of six to eleven cases on both sides of every check of
  its handler, well formed, malformed and wrongly expected, in one group of up
  to two cases or two groups of one: a case can be spoilt only by the one before.
  `macLen` is 128; above 256 bits the code would write past `out_hex`, which is
  outside the model. Two groups of AES cases also
  come in different directions, so that one group's direction could be used for the other.
* ACVP: three algorithms (one with two groups that number alike, one with a fixed
  case, one plain) and vectors generated at most `MaxGen` 2 times, so that files
  of two generations and none can lie side by side. Only one pipeline runs at a time.

### Fairness

Safety properties are checked without need of fairness. Weak fairness is assumed only of
code that runs to its end once entered, and of nothing the environment or a
caller does: the remaining KATs and the verdict of a begun self-test
(`FipsMode`), the loop and return of a begun `sha256_update`, the loops of a begun
`pbkdf2_hmac_sha256`, the steps of the runner once started (`AcvpRunner`), and
those of a started process of the pipeline. All of
these are straight-line code or loops in a process that is scheduled. No call is
assumed ever to be made.

## 4. What stays with TLC

* Liveness (`SoundRunConcludes`, `UpdateReturns`, `EveryCallReturns`, `RunEnds`,
  `EveryRunEnds`), which needs fairness and `ENABLED`, which the provers do not reason
  about. What is proved of each of the five is its safety half: `SoundCodePasses`,
  `UpdatesAreBounded`, `CallsAreBounded` and the two `RunsAreBounded` give the rest of
  a run a measure in the naturals that every step of it makes smaller (or, for the
  self-test, its only possible verdict). TLC adds that the run is never stuck, so that
  with fairness it ends.
* The published ciphertexts and the S-box of `AesBlock` (`PublishedCiphertext`,
  `SboxIsStandard`): calculations on given values. TLC does them; the provers
  cannot compute ten rounds on sixteen bytes.

Every other invariant and action property of the passing runs, and every
refinement, is also a theorem. `HmacSha256` and `AcvpRunner` have no type invariant:
their state is checked by the properties that compare all of it with a reference,
or with the request.

## 5. What is proved

Assumptions are the named `ASSUME`s of the modules, which TLC evaluates for the
instances: sizes are positive naturals, the length field is shorter than a
block, numbers below `Radix` are bytes, and three facts about the AES tables (both S-boxes
and both matrices undo each other, in either order). Keys
and chunks of HMAC are strings of numeric bytes (`HmacAssumption`). The order of the
algorithms is one-to-one (`PipelineAssumption`). Requests are lists whose numeric
fields are numbers where a handler reads them (`RequestAssumption`): cJSON gives a
number for any numeric field, and a field of another type is outside the model.
Nothing is assumed of the environment.

* **`FipsModuleProofs`, the mode.** `ApprovedOnEvidence` is not inductive: the flag alone does
  not know how it was set. `IInv` adds that the flag is set exactly when no run is
  in progress and the latest passed everything (`FlagIsVerdict`), that within a
  run `failed = 0` exactly when every KAT so far passed (`CounterIsExact`), and
  that a passed KAT met no fault that has lasted since the run began
  (`PassedMetNoLastingFault`). From it: `TypeCorrect`, `ApprovalNeedsEvidence`,
  `LastingFaultIsCaught`, and step by step `ImplementsPolicy`.
* **`FipsModuleProofs`, the module.** The User's calls leave the state of `FipsMode`
  alone, so `IInv` carries over; `ClearanceLasts` is inductive because only enabling and
  beginning a self-test turn an answer from yes to no; `DerivedKeyIsTrustworthy`
  holds at the call because an approved module was tested, and stays true as a
  record; so does `ClearedServiceIsSound`, because in the error state no answer that is not
  overtaken says yes (`ServedInError`). Theorems `ModuleTypeCorrect`, `ClearanceStays`,
  `ClearedServicesAreSound`, `KeysAreTrustworthy`.
  `ModuleImplementsMode` says the same as a refinement, so that the policy holds of the
  module in use (`ModuleImplementsPolicy`). `SoundCodePasses` is the promise in the other
  direction, as far as it is safety: as long as no path the KATs execute is broken, no
  run counts a failure and every run that ends sets the flag.
* **`Sha256CtxProofs`.** `FinishedIsPadded`: from a context whose compressed bytes are
  whole blocks and whose counter is the message length modulo 2^64, the marker,
  the spill and the length field amount to the padding of FIPS 180-4, for every
  block size and fill. It rests on lemmas on copying into the buffer
  (`CopyInFacts`, `ZeroFillFacts`) and on modular addition (`ModAdd`). All of them hold for
  contexts over any set of bytes that has the numeric ones (`CtxOver`), so that HMAC
  can use them for masked keys and digests. Concatenation and prefixes
  have names of their own there (`**`, `Prefix`): the solver expands `\o` and `SubSeq`
  point by point wherever it sees them, and works with `Assoc`, `Concat`,
  `PrefixGrows` instead when it does not. `PaddingIsInjective`: two padded forms can only be
  equal if the lengths are, because the marker is the last byte that is not zero before
  the length field; the length field itself is not needed, so this holds past the wrap of
  `bit_count` too. `DigestsDetermineMessages` concludes that equal digests mean equal
  messages if the compression function does not collide (which is so by construction
  for the symbolic digests of the models).
* **`Sha256Proofs`.** The invariant says just that of every reachable context:
  hashed bytes are block aligned, the buffer has room, and the counter equals the
  length of the message modulo its width, counting at once what is still to be
  copied. Hence `Sha256TypeCorrect`, `BufferNeverFull` and `ImplementsHash`: the
  code implements `HashStream` for every cut of every message. `UpdatesAreBounded`: each
  iteration takes a byte at least, because the buffer has room.
* **`HmacPbkdf2Proofs`, HMAC.** `sha256_update` is defined by recursion over the
  iterations of its loop. The theorems of the library on induction take a formula as
  a parameter, which no prover here can instantiate; `Induction` is stated for a *set*
  of numbers instead and follows from the least member of a set (`WFMin`).
  With it, `LoopExists` shows that the recursive function exists and `UpdateFacts` that
  an update appends its bytes to the message: `LoopState` keeps what is absorbed
  and what is left equal to the whole after every iteration. `HashIsPadding` says
  that the padding `sha256_final` arrives at is the only aligned one (`OnlyPadding`),
  and `BlockFills` that a masked key block replaces every byte of the buffer and
  of the chaining value, whatever an older key left there. `HmacIInv` says of each
  context: without a key, inner stands for the bytes fed since the final and outer
  is zero; under key k, inner stands for the ipad block and the bytes fed, outer
  for the opad block, and both consist of bytes and masked bytes of k alone
  (`HeldUnder`). What an init leaves in its frame is inductive by itself
  (`LocalsAreMasked`). Theorems `MacCorrect`, `OneShotCorrect`, `OldKeysAreGone`.
* **`HmacPbkdf2Proofs`, PBKDF2.** `KeyIsReference` speaks of finished calls, so it is not
  inductive. `Position` says that `out_pos` is at the start of a block whose index,
  wrapped, is `block_i`, or at the end; `Accumulated` that `T` is the XOR of the
  first `j` PRF values of that block; `Written` that all bytes before `out_pos` are
  those of the derived key. `IndexIsBlock` shows that below the length limit the
  index has not wrapped, which is where the limit is needed. Theorems
  `DerivesTheKey`, `RefusesCleanly`, `LeavesNothing`, `Pbkdf2TypeCorrect`. The output
  may lie over the salt, because the salt is copied before a byte is written
  (`SaltCopied`), and over the password as long as one block is enough
  (`PasswordLasts`): from the second block on the code derives from what it wrote.
  `CallsAreBounded` bounds a call by `out_len * (iterations + 1) + 1` steps without
  regard to the index, so a call ends also where the index has wrapped.
* **`AesCbcProofs`.** For every block size, memory and distance of the buffers in bytes.
  `RestKept` says that a running call has changed only the output blocks that have had
  their turn; by `InputIntact` the next input block is then still what it was, unless the
  output begins inside the input past its start. With it `EncryptProgress` and
  `DecryptProgress` say that the blocks done are right and what `prev` holds: a ciphertext
  block of the output when encrypting, of the original input when decrypting. The latter
  reads its block a second time after the write, and gets the same only if the output block
  has no byte in common with it (`SecondRead`). That is so on disjoint buffers and when the
  output begins a whole block or more below the input, and it does not matter for a
  single block; in place and at 1 to 15 bytes below it fails, which is the finding of
  section 3 and why `EncryptFits` and `DecryptFits` differ. That the loops stop at whole
  blocks is a fact about multiples of the block size (`Multiples`). Theorems
  `EncryptIsCbc`, `DecryptUndoesCbc`, `ScheduleStaysCurrent`, `ZeroizeIsComplete`,
  `CbcTypeCorrect`; the cipher is any keyed permutation of the blocks and XOR any operation
  on bytes that undoes itself (`CbcAssumption`); `AesIsBlockCipher` below shows that the
  code's are such.
* **`AesBlockProofs`.** For every set of keys of both sizes and every set of blocks.
  `ExpandedSoFar` says that the words up to `i` are those of the expansion and that
  the ones before are never written again, whatever an older key left behind
  them; at the end it is `ScheduleIsExpansion`. `TrailIsRounds` says that `trail` holds
  the rounds of the encryption under the present schedule; then a round of
  `aes_decrypt_block` goes one state back, because InvShiftRows moves every cell
  back (`ShiftRoundTrip`), INV_SBOX undoes SBOX (`SubRoundTrip`), a round key added
  twice cancels (`KeyRoundTrip`), and InvMixColumns, being linear (`GmulLinear`,
  `InvMixLinear`), undoes MixColumns (`MixRoundTrip`). What these rest on are three
  statements about the tables and the matrices, over all 256 bytes
  (`SboxAssumption`, `RconAssumption`, `MixAssumption`): they have no parameters, and TLC
  evaluates them completely. Theorems `BlockTypeCorrect`, `ExpandsTheKey`,
  `DecryptUndoesEncrypt`.
* **`AesBlockProofs`, the cipher.** The above is about an encryption and the decryption of its
  result on one context. As a cipher, AES is a function of key and block:
  `ExpandedKey` is the expansion of a key, which exists (`ExpansionExists`, one word
  after another) and is the only one (`ExpansionUnique`), so a schedule the state
  machine has finished is it; `Aes` and `InvAes` are the rounds under it, on 16
  bytes. Both orders of the two are the identity: each round is undone by its
  counterpart in either order, and induction over the rounds, as a set of numbers,
  does the rest. That is `AesIsBlockCipher`, in the words of
  `BlockCipher` in which `AesCbc` assumes it, so the theorems about CBC hold of AES.
  `EncryptionIsAes` and `DecryptionIsInverse` tie the functions to the state machine:
  whatever keys the context held before, `aes_encrypt_block` returns `Aes` of the latest
  one, `aes_decrypt_block` `InvAes`, also of a block nobody encrypted here; a context never
  keyed gives the block back, which is how `AesCbc` has it. Their invariant adds to
  `IInv` that a schedule without key is blank and that a decryption follows the
  rounds of its own (`BlankUntilKeyed`, `DecryptFollows`).
* **`AcvpRunnerProofs`.** For every set of requests, not only those the generator writes.
  `AnswersSoFar` counts: the groups before `g` are answered completely, group `g` up
  to the case before `t`, every answer carries the id of the case it answers, and
  it is right for it (`IsRight`), which does not mention the buffers. `StagesAreOrdered` says
  that a response is written, or about to be, only when all cases are answered. Each
  handler has its lemma (`AesFacts`, `ShaFacts`, `HmacFacts`, `PbkdfFacts`): whatever the
  buffers held, its answer is right and the buffers to be wiped are. The proof showed that
  an earlier wording of `AnswersAreIsolated` was too strong: an AES case on a partial
  block, which the runner encodes from an unwritten buffer, passes if it
  expects just those bytes. `PassesByLuck` now names that case, and the menu of the run has
  one. Theorems `AnswersAreTheirOwn`, `NoCaseIsLost`, `ExitCodeCorrect`, `BuffersAreWiped`.
  `RunsAreBounded` counts the cases still to be answered (`Pending`, a finite set that loses
  one at each case), the groups to be entered and the stages left. `PipelineSeesRuns` links the two
  models of the runner: what `AcvpPipeline` allows it from outside is what a run here
  can do.
* **`AcvpPipelineProofs`.** For every list of algorithms, set of cases and number of
  generations. Outside a run of `make` the files may be of any generation, so
  `MakeSuccessIsReal` needs to know what the run at hand has done: `MakeIsOnCourse`
  says which requests and responses are already its own at each stage
  (`AnsweredNow`), and that only a kill or a full disk of this run explains one that
  is not. `AcceptedRunIsRight` and `RejectedRunHasReason` draw the two conclusions at
  the validator. Theorems `PipelineTypeCorrect`, `MakeCannotBeFooled`,
  `MakeRaisesNoFalseAlarm`, `ValidatorRejectsStale`, and `RunsAreBounded`: stages only
  follow one another, so a run of `make` takes at most four steps per algorithm and one.

## 6. Not modelled

* The SHA-256 compression function (`sha256.c:23-98`): no control flow depends on its data,
  published vectors cover every line of it, and its 32-bit additions have no
  representation that TLC can compute and the provers can reason about at once.
* cJSON and the Python `cryptography` package, which are taken to be right; request
  fields of another JSON type than expected, and a missing field of a group.
* A `macLen` above 256 bits in the runner, where the MAC buffers end.
* Stack residue other than `U` and `T` of PBKDF2 and the locals of `hmac_sha256_init`;
  whether a compiler keeps the volatile writes.
* Threads: the library has no locks and does not promise thread safety.
* An AES context that was never initialised (uninitialised caller memory): a
  context starts zeroized, as static storage does. The same holds of a SHA-256 context.
* `tools/analyze_boundary.py`: it classifies the output of `nm` by a table of symbol
  letters once and prints a report; a model would restate the table. `tools/add_headers.py`,
  `setup.sh`, tests and documentation tooling.

## 7. Plan

Done: models of the mode, its gate and services, SHA-256 with its refinement, HMAC,
PBKDF2 with overlapping buffers, AES as a cipher and in CBC mode, the runner and the
pipeline; theorems for every safety property of all of them but two calculations.

Loops and runs are proved to be bounded, the block cipher `AesCbc` assumes is proved of
the code, and the module with both roles to implement the mode and its policy.

Next, in this order:

1. `UpdateFacts` for the one-shot functions the runner and the self-test call, so that the
   symbolic primitives of `AcvpRunner` rest on the theorems about the models below.
2. Zeroization as a whole: what the other functions leave on the stack (the state of
   the AES block functions, `tmp` and `prev` of CBC, the message schedule of SHA-256) against
   the table in `docs/security-policy.md:290-298`.
3. The length limit of `include/pbkdf2.h:24`, which the code does not enforce.
