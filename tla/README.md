# Apex Cipher: specifications

TLA+ specifications of Apex Cipher, a C command line tool that encrypts and decrypts files (AES-256 in
CBC mode, PKCS#7 padding, HMAC-SHA256 over header and ciphertext, PBKDF2 for the keys). TLC checks them on
small instances; TLAPS proves the safety properties for every size and every cipher. Paths and lines are those of the
repository.

## The system

One process, one thread, one command per run. There is no shared memory between threads; what makes the
program hard is stdio and the file system: every library call can fail, stdio writes late, the process can be
killed, and another program, or the call itself through a second name of the same file, can change the input
while it is read.

| Component | State it keeps | Operations | Talks to | Correct when |
|---|---|---|---|---|
| `main.c`, `source/cli/args.c` | the key array, the two paths | `encode`, `decode` | the two file operations, `utils.c` | the key that was typed, or the one that was printed, opens the file again; the output is beside the input; no sequence of commands loses a document |
| `cipher_encrypt_file` (`cipher.c`) | two streams, read buffer, pending block, previous block, whole ciphertext, context | one call | keygen, kdf, cipher_ops, hmac, stdio | 0 means the output is the encryption of the input; whatever else happens, nothing that looks complete is left |
| `cipher_decrypt_file` (`cipher.c`) | two streams, header, MAC buffer, chunk buffer, previous block, context | one call | the same | 0 means the whole plaintext is there; nothing is written for a file that is not authentic |
| `cipher_ops.c` | `CipherContext` | two keys, CBC block, padding, comparison, wiping | kdf, AES | encryption and decryption are inverse; padding is unambiguous |
| `hash.c` | `HASH_CTX` | init, update, final | - | the digest depends on the message alone |
| `hmac.c` | none | `hmac_compute` | three hash contexts in turn | RFC 2104 |
| `kdf.c` | none | `kdf_derive` | hmac | RFC 2898 |
| `keygen.c` | none | random bytes, key schedule | the operating system, hmac, S-box | never fewer random bytes than asked; abort otherwise |
| `encrypt_decrypt.c`, `round_ops.c`, `sbox.c` | tables built at first use | block encryption and decryption | each other | a bijection under each key; tables built before use |
| `crypto_context.c` | a default key | init, get | keygen | (no caller reads it) |
| `utils.c` | none | prints a key | the terminal | the print, typed, is the key |

Hard behaviours, and where they bite, are listed in `PROJECT.json` under `hazards`; the properties are there
for them. Where the code lets one happen, no passing run can include it: the note of that hazard says which property fails then, with
the line of a configuration that shows it under "Other disagreements", or why none can be stated.

## The modules

`Container` is the vocabulary the file operations share: bytes and blocks, the CBC step, padding, the size
field, the header's fields, and two definitions on whole files with no chunk, position or buffer in them:
`Sealed` (the file that encryption should produce) and `Authentic` (a file that passes every check before
decryption). The block cipher, xor, MAC and key derivation are constant operators with the laws stated in
its assumptions; sizes are constants. `GenuineFile` is what the two calls agree on: what encryption returns 0 for
(`SuccessIsGenuine` of `EncryptFile`) and what decryption calls genuine (`GenuineFiles`, an assumption of `DecryptFile`).

`OutputFile` is what both calls promise to who looks at the file at `output_path` from outside, with no block, stream or key in it: the file
is left alone while there is nothing to write (`Refuse`), is emptied once (`Empty`), and from there on only grows, from start to start of one
complete output (`Write`); a call that gives up leaves what it got to (`GiveUp`), and 0 is returned when the output is complete (`Complete`). A complete output is
the encryption of the input under some salt and IV, or the plaintext as far as the size in the header goes; of an empty input, and of a
file that is not genuine, there is none. `EncryptFile` and `DecryptFile` implement it (`ImplementsOutputFile`): their places before the output
is open are the phase `before`, those after it `writing`, the end of the call or of the process `over`.

`EncryptFile` is one call of `cipher_encrypt_file`, `DecryptFile` one call of `cipher_decrypt_file`. A step
is one library call that can fail, or the work on one block:

| `pc` in EncryptFile | action | cipher.c |
|---|---|---|
| `open_input` | OpenInput | 35-43 |
| `open_output` | OpenOutput | 45-49 |
| `size`, `salt`, `iv` | WriteSize, WriteSalt, WriteIv, Abort | 51-97 |
| `alloc_data`, `alloc_buffer` | AllocCiphertext, AllocBuffer | 99-131 |
| `read` | ReadChunk | 133-136 |
| `fill` | FillPending | 138-162 |
| `whole` | EncryptWhole, SavePending | 164-192 |
| `final`, `mac`, `finish` | EncryptFinal, WriteMac, Finish | 194-249 |

| `pc` in DecryptFile | action | cipher.c |
|---|---|---|
| `open_input` | OpenInput | 260-261 |
| `size`, `salt`, `iv` | ReadSize, ReadSalt, ReadIv | 263-295 |
| `measure`, `stored_mac` | Measure, ReadStoredMac | 297-319 |
| `alloc_chunk`, `alloc_hmac` | AllocChunk, AllocHmac | 321-346 |
| `mac_read`, `verify` | ReadForMac, Verify | 344-371 |
| `open_output` | OpenOutput | 373-395 |
| `read`, `blocks` | ReadChunk, DecryptWhole, EndOfChunk | 397-420 |
| `last`, `finish` | DecryptLast, Finish | 422-468 |

Variables have the names of the C variables where there is one. Arrays with a length are sequences:
`chunk` is `buffer[0 .. bytes_read)`, `pending` is `pending_block[0 .. pending_len)`, `encrypted` is
`encrypted_data[0 .. encrypted_len)`. `taken` is what has been read so far, `total_read` its length. `output` is what `fwrite` has accepted and `disk` what the file holds:
`Flush` moves bytes from one to the other early, `fclose` moves the rest or, failing, a part; a crash loses
the difference. `held` is what is open, allocated or secret and not yet closed, freed or wiped. `plain`,
`origin` and `message` are history: no action's guard reads them, except where stdio may still hold what
the file used to contain.

The constant `Env` says what the surroundings may do in a run: which library calls fail, whether stdio flushes
early, whether the process is killed, whether another program appends to, truncates or modifies the input.

Three details of stdio matter. `ftell` and a read before it may fill stdio's buffer, so a call that empties its
own input (`SameFile`) may still read the old start of it: `ReadChunk` and `Delivered` choose between the
old and the new content. A read of a file that changes between two steps behaves as one at a later or earlier
moment; the change is a step of its own and can come at any time. A short `fwrite` leaves a prefix of its data.
In `DecryptFile`, the part of `hmac_data` that an early end of the first pass leaves unwritten
is memory as `malloc` returns it: `Verify` chooses among `Uninitialised` and the file's own bytes,
which the stdio buffer just freed by `args_decrypt_file` can have left there.

`MerkleDamgard` states what a hash of this kind computes of a whole message, and a specification of an
incremental one with three actions: open, extend, close with the digest. `HashStream` is `hash.c`: one context,
the loop of `hash_update` turn by turn, the one or two blocks of `hash_final`, and a buffer that starts
uninitialised and is kept over `hash_init`. It implements `MerkleDamgard` (`ImplementsOneShot`).

`SecureRandom` is `secure_random` as compiled for Linux, with the callers that abort when it fails: the parts in which
`getrandom` and `/dev/urandom` deliver are what it is about, so a byte is only known to be set by the system or not. Its two
outcomes are the actions `WriteSalt`, `WriteIv` and `Abort` of `EncryptFile`.

`Hmac` is `hmac_compute` over a hash that is a parameter. `KeyDerivation` is `kdf_derive`, one step per turn of its
loops, over it. It is compared with PBKDF2 as RFC 2898 defines it, byte by byte.

`Sha256` is the compression function of `hash.c` and its initial state at their real size: a word of 32 bits is the set of the
places of its ones, so that shifts, rotations and Boolean functions are set operations and only sums are numbers.
`AesTables` has the other numbers of the source: the S-box, the multiplication in GF(2^8) that fills the MixColumns tables, and the key
schedule, with the HMAC that stretches a short key.

`AesBlock` is what is done with them: the rounds of `encrypt_block` and `decrypt_block` one by one, and the chaining of blocks
in `cipher_cbc_encrypt_block` and `cipher_cbc_decrypt_block`, in two processes. The first encodes a message, the second
decodes what the first has made, with tables that hold zeros until it builds them itself: `sbox_init` when the file operation
starts, `init_gf_tables` at the first mix. `trace` is history: each block before each of its rounds. `InPlace` says whether a
block is decrypted into the buffer it comes from, as `cipher_ops.h:47` allows and no caller does.

| action of AesBlock | code |
|---|---|
| Prepare | `sbox_init`, sbox.c:54-73; `keygen_expand`, cipher_ops.c:75 |
| BeginEncrypt, EncryptRound, EndEncrypt | cipher_ops.c:93-107, encrypt_decrypt.c:17-37 |
| NewProcess | the program is run again |
| BeginDecrypt, DecryptRound, EndDecrypt | cipher_ops.c:114-133, encrypt_decrypt.c:43-61 |

`CommandLine` is what the commands make of their arguments: `prepare_key` and the copy of it in `args_decrypt_file`,
`hex_to_bytes`, `utils_show_key` and `make_output_name`. `Session` is a user at the shell who runs one command after another over a
disk of named files:

| `pc` in Session | action | code |
|---|---|---|
| `shell` | Enter, RemoveInput | the user |
| `main` | main | main.c:21-66 |
| `measure`, `key`, `name` | MeasureInput, PrepareKey, NameOutput | args.c:128-155, 174-210 |
| `call`, `writing` | OpenOutput, WriteOutput | args.c:157-167, 212-224 and the call |
| any but `shell` | Kill | the process is killed, or aborts in `keygen.c` or `crypto_context.c` |

A file holds a document under any number of layers of encryption, each with its key, what was printed of it and what was
typed. The two calls into the cipher take two steps, one that empties the output and one that completes it, and do what
`EncryptFile` and `DecryptFile` are shown to do in the surroundings where the code keeps its promise (`ImplementsOutputFile`): `OpenOutput` is
`Empty`, `WriteOutput` is `Complete`, a failing call is `Refuse` or `GiveUp`; a file opens with its own key (`GenuineOpens`) and is refused otherwise
with the output untouched (`RejectedUntouched`). A call that is killed leaves a part or, when it was about to return, the whole (`Kill`); a part
is never taken for a whole (`LeftoverNeverAuthentic`). The user is
careful in one way: a command is only run when the name that its output is expected to have is free.

`ToyCrypto`, `MCEncrypt`, `MCDecrypt`, `MCHash`, `MCKey` and `MCRandom` give TLC small primitives and inputs; `MCAes` and
`MCSha` put the real ones together; `MCSession` has short alphabets.
The modules whose names end in `Proofs` hold the proofs. Operators marked `slip:` are plausible mistakes in the definition that
follows them; nothing uses them, and each is there because some property fails when it takes the place of the
real one.

## What is checked

Passing runs:

| Run | Question | Answer |
|---|---|---|
| `enc_core` | Is a return of 0 a promise kept? | Every content of up to six bytes over two values, one of each length up to seven and one of eighteen, chunks of five and blocks of two: the output is `Sealed`, byte for byte, and nothing of the input is missing (`SuccessMeansSealed`), with salt, IV and size as decryption counts on them (`SuccessIsGenuine`); the output file is emptied once and only grows, to that encryption (`ImplementsOutputFile`); types. Surroundings: failing `fopen`, a failing random source, early flushes, crashes. |
| `enc_cut` | What if the input ends early or late? | Reads of every length, read errors, and truncation and growth at every moment, blocks of three: the file is `Sealed` of the bytes read (`SuccessSealsWhatWasRead`), every step brings the call closer to its end and only a longer input takes it back (`CountsDown`), and the call ends (`Termination`). |
| `enc_faults` | What do errors and crashes leave? | Every call can fail: what is on disk passes the MAC check only if it is complete (`LeftoverNeverAuthentic`); every return has released everything (`CleanExit`); the ciphertext fits its buffer (`CiphertextFits`). |
| `dec_core` | Are genuine files, and only they, opened? | Genuine, truncated at every length, corrupted in every byte, extended, reordered and wrong-key files, and files whose source changed size; early flushes and crashes: `SuccessMeansOpened`, `GenuineOpens`, `ClampNeverWraps`, types. On disk is the old file or the start of the plaintext (`WrittenIsPlaintext`); the output of what is not genuine is never opened, the other is emptied once and only grows (`ImplementsOutputFile`). |
| `dec_faults` | Can a failing call or a bad read let a bad file through, or hang the call? | No, with every call failing, short reads and writes, truncation, modification and uninitialised memory (`RejectedUntouched`); every return has released everything (`CleanExit`); every step brings the call closer to its end, whatever becomes of the file (`CountsDown`), and it ends (`Termination`). |
| `hash_core` | Does the cut into updates matter? | No: `ContextIsMessage`, `ImplementsOneShot`, with messages one after another on one context; every turn of the loop of `hash_update` takes at least a byte and none too many (`CountsDown`). |
| `key_core` | Is it PBKDF2? | For passwords shorter than, equal to and longer than a hash block, keys of zero to three blocks, one to four iterations: `DerivesPbkdf2`, `StaysInKey`, and no state in which it is stuck. |
| `random_core` | Is a salt, an IV or a key ever partly unset? | At the real sizes, 16 and 32 bytes, with every cut of them into deliveries: `ReturnedIsRandom`, no store beyond the array (`TypeOK`), every step brings the call closer to its return or abort (`CountsDown`). |
| `aes_core` | Is it AES-256, and does a new process undo it? | At the real size, with the tables of the source: the example of FIPS 197 (`KnownAnswer`); every message comes back, round by round (`RoundTrip`, `RoundsUndone`); equal blocks get different ciphertexts (`EqualBlocksDiffer`); a short key is stretched to the bytes that the compiled `keygen_expand` gives (`ShortKeyStretched`), which ties compression, padding, HMAC and schedule to the program at once. |
| `session_core` | Can a careful user lose a document or a key? | No: over three disks with colliding stems, dots in directories and names that are cut, keys typed as digits in both cases, as an odd number of digits, as text and as none at all, with commands that fail or are killed anywhere, a document is always in some file (`DocumentsSurvive`), what was typed and what was printed both reopen every layer (`KeysReopen`), and the output is in the input's directory (`OutputBesideInput`). |

Runs that end in a violation, each of a sentence of the repository (quoted in `PROJECT.json` under `findings`):

| Run | What it shows |
|---|---|
| `enc_read` | A read error (cipher.c:134) is taken for the end of the file: 0 is returned, and the file left is authentic but lacks the rest of the input. |
| `hash_standard` | `hash_init` leaves out a word of SHA-256's initial state (hash.c:128), so the digest of "abc", at the real size, is not the standard's. With `FirstState <- FipsState` the same run finds no violation. |

### Other disagreements

These have no run of their own. Each can be seen by changing one line of a configuration:

- `Env = {"alloc"}`, `{"write"}` or `{"close"}` in `enc_read.cfg` violates `SuccessMeansSealed` in the same way: no MAC
  is written when `hmac_data` cannot be allocated (cipher.c:222), and neither the `fwrite` of the MAC (232) nor
  the `fclose` (247) is looked at. All return 0.
- `Env = {"grow"}` and `MaxGrowth = 2` in `enc_read.cfg` with `CiphertextFits`: an input that grows after it was measured
  is copied beyond `encrypted_capacity` (cipher.c:102).
- `SameFile = TRUE` and `Env = {}` in `enc_read.cfg` violates `SuccessMeansSealed`: when the output path names the input, as for
  `encode x.enc`, `fopen` empties it before it is read (cipher.c:45), and 0 is returned.
- `Env = {"read"}` in `dec_core.cfg` violates `SuccessMeansOpened`: in the second pass an empty read (cipher.c:400), a
  read that is not a whole number of blocks (404) and a last block that cannot be read (425) all end in a return of 0 with
  plaintext missing, where `cipher.h:43` has "-1 on any failure (wrong key, corrupted data, i/o error, etc.)".
- `Env = {"modify"}` in `dec_core.cfg` violates `WrittenIsPlaintext`: the second pass decrypts bytes that changed after
  the MAC was checked, where `readme.md:62` has authenticity "verified before decryption".
- `SameFile = TRUE` in `dec_core.cfg`, with `SuccessMeansOpened` alone among the invariants: the ciphertext is emptied after the MAC was checked, and 0 is returned
  without the plaintext. The header size is only an upper bound (cipher.c:443): a file that decrypts to less is
  accepted, although cipher.c:52 counts on the size "to prevent truncation attacks".
- `InPlace = TRUE` in `aes_core.cfg` violates `RoundTrip`: when both pointers are one buffer, as `cipher_ops.h:47` and
  cipher_ops.c:112 allow, the next block is chained to the plaintext.
- `Expected <- DocumentedName` in `session_core.cfg` violates `DocumentsSurvive`: `encode` does not write to "<filename>.enc"
  (args.c:127) but replaces the extension, so that encoding `a.c` and then `a.h` leaves one file. Nor is the extension of a name
  with several dots "appended, not replaced" (args.c:96): the last one is replaced.
- A key longer than 64 bytes is cut (args.c:70), where `readme.md:68` has keys "never silently truncated"; digits beyond 128 are written past
  the array (args.c:38). Short keys are not "expanded via HMAC" (args.c:78) either: `keygen_expand` only ever gets the 32
  bytes of `kdf_derive` (cipher_ops.c:75).
- `HASH_SBOX` (sbox.c:51) is not "used internally by the hash function", nor the default key "when the user omits a key" (main.c:18):
  nothing reads them.
- `pc = "done" => held = {}` in `enc_core` and `dec_core`: the chunk buffer (cipher.c:245) and the array `decrypted`
  (cipher.c:406) keep plaintext; `readme.md:24` says that "keys and data" are wiped, cipher.c:458 "all sensitive material".
- `encrypted` grows with the whole file (cipher.c:103), and is copied once more for the MAC; `readme.md:22` speaks of
  files encrypted "in chunks without loading everything into memory".

### Bounds

Blocks of two or three bytes, chunks of four to six: a chunk that is a multiple of the block, as 65536 is of
16, and one that is not, so that a block is completed at the start of a chunk. In `enc_cut` reads may
have any length, so that `FillPending` also sees a block that is still incomplete after a whole chunk; its inputs
are one byte and four bytes, enough to come to a boundary of blocks of three in every way. A growth by
one byte leaves them within the capacity of `encrypted_data`: what a write beyond it would do is not modelled. The inputs
of the other runs cover the empty file, less than a block, whole blocks, and up to four chunks; eighteen bytes need
two digits of the size field. Bytes have four bits so that a padding count, a key and a MAC digit fit. The toy MAC has
65521 values, and the inputs are few: no two of the files a run compares have colliding MACs, which is the
assumption that HMAC-SHA256 is made for. `MaxGrowth` bounds what another program appends (one byte),
`MaxCount` the length of a hashed message (eight bytes, with blocks of four: every residue, with one whole block before it and with none;
two of the four residues spill into a second block).

`dec_faults` has three files (genuine, made with another key, corrupted) where `dec_core` has all of them: its point is the
surroundings. `aes_core` and `hash_standard` have no small sizes: tables, rounds, words and blocks are those of the program; messages of one to
three blocks see the chain start, go on and end. In `session_core` a digit has one bit, a byte two digits, a key one byte and a name
is kept to five parts: enough for keys that are too long, odd or cut, for two names with one stem, a dot before a slash and a
name that loses its extension by being cut.

### Fairness

`FairSpec` assumes weak fairness of `Program`, the call's own steps taken together: there is one thread, every
step is a library call that returns, and the operating system goes on scheduling the process. Nothing is
assumed of flushes, crashes or other programs.

`CountsDown` is the half of termination that needs no fairness: a number of steps left, `StepsLeft`, that every step of the program makes
smaller. That another program cuts or changes the file never makes it larger; for encryption, which reads to the end of the file and not to the size
it measured, a file that goes on growing does. In `KeyDerivation`, `SecureRandom` and the loop of `hash_update` every step is the
program's own and TLC finds no state without one, so that counting down is all there is to termination; these modules
assume no fairness, nor do `AesBlock` and `Session`, which claim no liveness. Calls in the models end for good, so `Over` stutters in the
last state instead of a deadlock.

## What is proved

| Module | Theorem | Statement | Hypotheses beyond the assumptions on the constants |
|---|---|---|---|
| `EncryptFileProofs` | `TypeCorrect`, `ExitsClean` | `TypeOK`, `CleanExit` | none |
| | `BufferSuffices` | `CiphertextFits` | the input does not grow and is not the output |
| | `SuccessSeals` | `SuccessSealsWhatWasRead` | no write, allocation or close fails |
| | `SuccessSealsAll` | `SuccessMeansSealed` | nor a read; the input is not changed and not the output |
| | `SuccessDelivers` | `SuccessIsGenuine` | no read, write, allocation or close fails; the input is not changed and not the output |
| | `EncryptionKeepsPromise` | `ImplementsOutputFile`, the refinement | the same; there is a salt and an IV |
| | `LeftoverDetected` | `LeftoverNeverAuthentic` | `NoCoincidence`; the input does not grow and is not the output |
| | `StepsRunOut` | `CountsDown` | the input is not the output |
| `DecryptFileProofs` | `TypeCorrect`, `ExitsClean` | `TypeOK`, `CleanExit` | none |
| | `RefusedUntouched` | `RejectedUntouched` | `Unforged`; the input is not the output |
| | `ClampSound` | `ClampNeverWraps` | `InputKept`, `Unforged` |
| | `OnlyPlaintextWritten` | `WrittenIsPlaintext` | the same, and no read fails |
| | `SuccessOpens` | `SuccessMeansOpened` | the same, and the close does not fail |
| | `GenuineIsOpened` | `GenuineOpens` | `InputKept`, `Unforged`, no open, allocation, read or write fails |
| | `DecryptionKeepsPromise` | `ImplementsOutputFile`, the refinement | `InputKept`, `Unforged`, no read or close fails |
| | `StepsRunOut` | `CountsDown` | none |
| `HashStreamProofs` | `TypeCorrect`, `ContextCorrect` | `TypeOK`, `ContextIsMessage` | none |
| | `StreamImplementsOneShot` | `ImplementsOneShot`, the refinement | none |
| | `UpdateRunsOut` | `CountsDown` | none |
| `KeyDerivationProofs` | `TypeCorrect`, `NoOverrun` | `TypeOK`, `StaysInKey` | `HashIsDigest` |
| | `DerivationCorrect`, `StepsRunOut` | `DerivesPbkdf2`, `CountsDown` | `HashIsDigest` |
| `AesBlockProofs` | `TypeCorrect` | `TypeOK` | none |
| | `EncryptionUndone`, `RoundsGoBack` | `RoundTrip`, `RoundsUndone` | `InPlace = FALSE` |
| | `ChainingSeparates` | `ChainsApart => EqualBlocksDiffer` | `InPlace = FALSE` |
| `SecureRandomProofs` | `TypeCorrect`, `RandomWhenReturned`, `StepsRunOut` | `TypeOK`, `ReturnedIsRandom`, `CountsDown` | none |
| `SessionProofs` | `TypeCorrect`, `KeysAlwaysReopen`, `OutputStaysBeside` | `TypeOK`, `KeysReopen`, `OutputBesideInput` | none |
| | `NoDocumentLost` | `DocumentsSurvive` | `ExpectsActual` |
| `ContainerProofs` | `PaddingUnambiguous`, `ChainingUndone`, `SizeFieldUndone` | unpadding, a CBC step and the size field undo what they undo | none |

All of them hold for every size, content and number of steps, for every cipher, compression function, S-box, MAC and key
derivation that obeys the laws the modules assume, and for every `Env` the hypotheses leave. The assumptions
on the constants are evaluated by TLC on every run.

### The hypotheses

Each one is needed, and a section above or a run shows what happens without it.

- The conditions on `Env` name the failures whose results the code does not look at. "The input is not changed" and `SameFile = FALSE`
  are what the code takes for granted when it reads a file twice (`InputKept`) or measures it first.
- `Unforged` is what a MAC is there for: no MAC that the call can come to read at the end of a file that is not genuine fits what it can have
  read of it. Where the file can be changed during the call (`Versions`: one byte of it; `LengthsLeft`: its end is cut off), that
  speaks of header, ciphertext and MAC as they were at different moments; where a read can come short, of a part of the
  ciphertext followed by what the memory held before. `NoCoincidence` is the same for encryption: no
  shorter part of a sealed file ends in its own MAC. Neither can be a law of every MAC. TLC evaluates both for the toy MAC and the
  files of the runs (`ToyMacUnforged` in `MCDecrypt`, `ToyMacDistinguishes` in `MCEncrypt`).
- `GenuineFiles`, an assumption of `DecryptFile` on its constant `Files`, says what the label `genuine` means: the file is `Sealed` of its
  plaintext, under a size that fits the field and whose whole blocks are within the capacity encryption had. `ChunkHoldsBlocks` is that 65536 is a
  multiple of 16. TLC evaluates both.
- `HashIsDigest`: the hash gives `HMAC_SIZE` bytes. `ExpectsActual`: the user knows what name the output will have.
- `InPlace = FALSE`: no caller decrypts in place. `ChainsApart`: no two blocks of a message are chained to the same block. It holds
  until a ciphertext block comes up a second time, and CBC promises no more.

### The arguments

**Encryption.** `TypeCorrect` and `ExitsClean` rest on `IInv`. `TypeOK` alone is not inductive: that the next ciphertext block
is a block needs the salt to lie within the header (`HeaderShape`), the previous block to be a block
(`ChainStarted`) and the pending bytes to be fewer than a block when they are padded (`Account`). `CleanExit`
is about the return in the middle of the inner loop, which does not wipe the pending block: it is right because at
that point nothing is pending. `Account` says
it: every byte read is encrypted, pending or still in the chunk; a pending block is left over only when
the chunk is used up. `Holdings` says what can be held at each place. `BufferSuffices` adds `SizeHolds`: from the measurement on, the input is
no longer than `file_size`, and no more than `file_size` is read.

`SuccessSeals` adds `Sealing`, which follows the data: the header on its way (`HeaderFields`); the blocks encrypted are those of the
chain over what was taken, the pending bytes and the rest of the chunk continue it (`StreamSealed`); what the stream has accepted is the header and
these blocks (`OutputWritten`). It does not ask how the reads cut the input. The proof goes
block by block: `ContainerProofs` shows that the chain over a longer message begins with the chain over a shorter one
(`CbcPrefix`) and that the last, padded block completes `Sealed`. `SuccessSealsAll` adds `Reading`: until the end of the file, what was taken and what is still to come
is the input. For `LeftoverDetected`, whatever fails, the stream is a start of a sealed file and the disk a start of the stream (`OutputStarts`,
`DiskStart`), of an input that was no longer than measured (`Origins`); by `NoCoincidence` only the whole of it fits its MAC.

**Decryption.** `RefusedUntouched` follows the data to the verdict (`Unopened`). The file may change under the call, so that what was read need not be in
the file any more; but the stream only moves on, and a byte is changed either before it is read or after, so the call has seen one version of the file up to its position: the one it began with
or the one there is now (`Seen`). Header and ciphertext are those of one version, the stored MAC ends one version at one of the lengths it had
(`FieldsFrom`, `BufferFrom`), whatever the length of the reads. So the MAC that is computed is one of those of which `Unforged` speaks,
the call does not get past `verify`, and before it no output is open. For a file that is left alone there is only one version (`KeptMeansExact`), which the other theorems
start from. `PastVerdict` turns this round: who is past the verdict has a genuine file, whose header is still known.

`TypeCorrect` needs `Shape`: header bytes read at each place, at least one block of ciphertext after `measure`, and
`OutputAccounted`: what is written, still in the chunk or still to be read, and the last block, is no more than the ciphertext. On a genuine file
that bounds what is written by the size in the header, which is `ClampSound`. For the other theorems `Opening` says what is recovered at each
place: the first `k` blocks of the plaintext, the chain at its block `k`, position and chunk at the same place
(`BlocksRecovered`, `ToRead`, `InChunk`), the disk a start of what is written, and how calls end (`Outcome`). `GenuineIsOpened` then shows of every
step that its error return is not taken.

**The output file.** For `EncryptionKeepsPromise` every step is mapped to a step of `OutputFile` or to a stutter, from `SealedInput`: nothing has been returned while the call runs,
the size is that of the whole, nonempty input once it is measured, what is written goes towards one of the encryptions of the input (`Towards`: which one
is open until salt and IV are drawn), and the disk is a start of it. `DecryptionKeepsPromise` does it from `OpenedInv`, what the theorems on decryption have in common: there the completion
is known when the output is opened, because only a genuine file gets that far. `SuccessDelivers` closes the circle: the assumption of decryption on genuine files is a theorem on encryption.

**The loops.** Each `StepsRunOut` compares `StepsLeft` before and after every action. For decryption that needs no more than `TypeCorrect` and `ExitsClean` do; whatever
is cut from the file or changed in it, what is still to be read can only become less. For encryption `Account` and the place of the chunk are needed, as a block that is still in the chunk counts more than
a byte that was read. The derivation of keys needs `Filled` and how far the iteration has come (`IterationWithin`), `hash_update` that the position is in the argument (`WithinData`).

**The hash.** `ContextBytes` is `ContextIsMessage` while an update is under way: state, count and the used part of the buffer are those of the message so
far, whatever the rest of the buffer holds. The refinement maps `hash_init`, the return of each `hash_update` and `hash_final` to the steps of `MerkleDamgard`,
the turns of the loop to stuttering. The hard step is `hash_final`: its one or two blocks are the blocks of the padded message.

**Key derivation.** `Filled` says that every finished block but the last is in the key in full, so that no copy goes too far. `Summed` says that a block in
progress is the xor of the first `iteration` links of the chain of HMACs that belongs to it, and every byte written that of the finished chain.

**AES.** `UndoInv` says that `trace` is a computation of the encryption, round by round, and that the decryption is in the state of the trace
in which it should be, with the tables it needs built. The bijection that follows is what `Container` assumes of its cipher (`CipherLaws`).
`BranchInv` compares the traces of two blocks: rounds are injective, so two blocks that meet after a round met before it, back to the first xor.

**The rest.** `SecureRandom`: `SetSoFar`, the first `bytes_read` bytes are random, none are counted before `getrandom`, and the loop is left when all
are. `Session`: `ArgumentsInv`, the key array and the output name are what the command line makes of its arguments once they
are prepared; `FilesInv`, every layer of every file reopens; `FreeInv`, the output has a free name until it is opened and is not the input
from then on; `KeptInv`, each document is in a file that the command under way does not empty and in one whose removal is not yet due.

**Recursive functions.** The chain of blocks, the chained hash, the iterated HMAC, its sum and the size field are recursive functions. The
library's induction theorems cannot be used, as they take an operator as a parameter. `NatSetInduction` states induction of a set of numbers
instead, and follows from the well-foundedness of `<`. With it, each recursive function is shown to exist (there are
functions up to every bound, and they agree), its equations follow, and its properties by a second induction over the set of numbers that have
them. `Weight`, the place values of the size field, is such a function where one would write a power: the prover knows nothing of powers.

### Only model-checked

- `Termination`: liveness is outside the reach of this proof system. What makes it true, a number that counts down, is proved
  (`StepsRunOut`); that fairness then leads to the end is left to TLC.
- `KnownAnswer` and `ShortKeyStretched`: computations with the numbers of the tables.
- That the real SHA-256 and key schedule obey the laws assumed of them, except for those TLC evaluates.

## What is not modelled

- `EncryptFile` and `DecryptFile` do not contain the rounds of AES, the hash or the key derivation: these are parameters there, with
  laws, and have modules of their own. Real sizes in one model of the whole program would be out of TLC's reach.
- `Session` relies on what `EncryptFile` and `DecryptFile` are shown to do, and does not take their steps. What a write beyond the key
  array does is undefined: the session goes on or the process dies.
- Timing: `cipher_ct_memcmp` is modelled by its result.
- Progress callbacks, messages and colours print and change nothing.
- Failures of `fseek`: on a regular file that was just opened they do not happen.
- Failures of `fclose` on input streams have no effect.
- Windows and macOS branches.
- `HASH_SBOX`, the default key of `crypto_context.c` and `utils_print_safe`: nothing uses them. That `crypto_init_default_key` can abort is part of `Kill` in `Session`. Build files.

## Plan

What could still be proved: that the passing of a file through `Session` is that of `EncryptFile` and `DecryptFile`, as a refinement
instead of an argument over `OutputFile`. `OnlyPlaintextWritten` cannot be extended to failing reads as it stands: after a short read the second pass goes on with a block that
does not continue the chain. `Termination` stays with TLC.
