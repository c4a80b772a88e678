---------------------------- MODULE EncryptFile ----------------------------
(***************************************************************************)
(* cipher_encrypt_file (source/core/cipher.c): one call, step by step.     *)
(*                                                                         *)
(* The call reads the file at input_path in chunks, encrypts it block by   *)
(* block and writes header, ciphertext and MAC to output_path. A step is   *)
(* one library call that can fail, or the work on one block. The constant  *)
(* Env says what the surroundings may do in between; a run picks from:     *)
(*   "open" "alloc" "read" "write" "close" "rng"   a library call fails    *)
(*   "flush"            stdio passes buffered bytes on to the file early   *)
(*   "crash"            the process is killed                              *)
(*   "grow" "shrink"    another program changes the input file             *)
(***************************************************************************)
EXTENDS Container

CONSTANTS
  Inputs,      \* contents the input file can have
  Salts, Ivs,  \* what keygen_generate_iv can return for salt and iv
  Master,      \* the key argument
  SameFile,    \* input_path and output_path name the same file
  Env,
  MaxGrowth    \* bound on the bytes "grow" adds

ASSUME EncryptConstants ==
  /\ Inputs \subseteq Seq(Byte)
  /\ Salts \subseteq [1..KDF_SALT_SIZE -> Byte]
  /\ Ivs \subseteq Block
  /\ Master \in Masters
  /\ SameFile \in BOOLEAN
  /\ MaxGrowth \in Nat

VARIABLES
  pc,          \* where the call is
  ret,         \* its return value
  plain,       \* the input file's content when the call was made (history)
  source,      \* the input file's content now
  disk,        \* the output file's content
  output,      \* the bytes fwrite has accepted for the output stream
  file_size,
  header,      \* size_bytes, salt and iv, as far as they exist
  taken,       \* the bytes read so far: total_read of them
  chunk,       \* buffer[0 .. bytes_read)
  processed,
  pending,     \* pending_block[0 .. pending_len)
  prev,
  encrypted,   \* encrypted_data[0 .. encrypted_len)
  held         \* streams open, memory allocated, and secrets in memory

files  == << plain, source, disk, output >>
stream == << taken, chunk, processed, pending >>
chain  == << prev, encrypted >>
vars   == << pc, ret, files, file_size, header, stream, chain, held >>

Streams == {"input", "output"}
Heap    == {"encrypted_data", "buffer"}
\* ctx: the derived keys. pending_block and chunk: plaintext in pending_block
\* and in the heap buffer. They leave `held' when overwritten, not when freed.
Secrets == {"ctx", "pending_block", "chunk"}

Running == {"open_input", "open_output", "size", "salt", "iv", "alloc_data",
            "alloc_buffer", "read", "fill", "whole", "final", "mac", "finish"}
Stopped == {"done", "aborted", "crashed"}

NoResult == 1

\* also the position of the input stream
total_read == Len(taken)

salt == Slice(header, SIZE_BYTES, KDF_SALT_SIZE)

-----------------------------------------------------------------------------
\* When the paths name one file, every change of it is seen through both.
SyncSource == source' = IF SameFile THEN disk' ELSE source

\* fclose(output) hands the buffered rest to the file; its result is ignored.
CloseOutput ==
  /\ \E n \in (IF "close" \in Env THEN Len(disk) ELSE Len(output'))..Len(output') :
       disk' = SubSeq(output', 1, n)
  /\ SyncSource

\* return `code', having closed, freed or wiped `released'
Exit(code, released) ==
  /\ pc' = "done"
  /\ ret' = code
  /\ held' = held \ released
  /\ IF "output" \in held \cap released THEN CloseOutput ELSE UNCHANGED << disk, source >>

\* A failing fwrite may have taken a part of the data.
ShortWrite(data) ==
  /\ "write" \in Env
  /\ \E n \in 0..(Len(data) - 1) : output' = output \o SubSeq(data, 1, n)

\* fwrite of a header field: on to pc `next', or a return of -1
WriteField(data, next, gained, released) ==
  \/ /\ output' = output \o data
     /\ pc' = next
     /\ held' = held \cup gained
     /\ UNCHANGED << ret, disk, source >>
  \/ /\ ShortWrite(data)
     /\ Exit(-1, released)

\* malloc of `object': on to pc `next', or a return of -1
Allocate(object, next, released) ==
  /\ UNCHANGED << plain, output, file_size, header, stream, encrypted >>
  /\ \/ /\ pc' = next
        /\ held' = held \cup {object}
        /\ UNCHANGED << ret, disk, source >>
     \/ /\ "alloc" \in Env
        /\ Exit(-1, released)

\* encrypt a block, keep it for the MAC and write it; `overwritten' are the
\* secrets that the encryption in place has replaced by ciphertext
EmitBlock(block, next, overwritten, released) ==
  LET cipher == cipher_cbc_encrypt_block(EncKey(Master, salt), prev, block)
  IN  /\ prev' = cipher
      /\ encrypted' = encrypted \o cipher
      /\ \/ /\ output' = output \o cipher
            /\ pc' = next
            /\ held' = held \ overwritten
            /\ UNCHANGED << ret, disk, source >>
         \/ /\ ShortWrite(cipher)
            /\ Exit(-1, released \cup overwritten)

-----------------------------------------------------------------------------
Init ==
  /\ pc = "open_input"  /\ ret = NoResult
  /\ plain \in Inputs   /\ source = plain
  /\ disk = IF SameFile THEN plain ELSE << >>
  /\ output = << >>     /\ file_size = 0     /\ header = << >>
  /\ taken = << >>      /\ chunk = << >>     /\ processed = 0
  /\ pending = << >>    /\ prev = << >>      /\ encrypted = << >>
  /\ held = {}

\* slip: the -1 of a failing ftell taken for a size
OpenInputUnchecked ==
  /\ pc = "open_input"
  /\ file_size' \in {Len(source)} \cup (IF "open" \in Env THEN {-1} ELSE {})
  /\ pc' = "open_output"
  /\ held' = {"input"}
  /\ UNCHANGED << ret, plain, disk, source, output, header, stream, chain >>

\* slip: an empty file not refused
OpenInputEmpty ==
  /\ pc = "open_input"
  /\ \/ "open" \in Env /\ Exit(-1, {}) /\ UNCHANGED file_size
     \/ /\ file_size' = Len(source)
        /\ pc' = "open_output"
        /\ held' = {"input"}
        /\ UNCHANGED << ret, disk, source >>
  /\ UNCHANGED << plain, output, header, stream, chain >>

\* slip: the offset of the last byte taken for the size
OpenInputLastByte ==
  /\ pc = "open_input"
  /\ \/ /\ Len(source) = 0
        /\ Exit(-1, {})
        /\ UNCHANGED file_size
     \/ /\ Len(source) > 0
        /\ file_size' = Len(source) - 1
        /\ pc' = "open_output"
        /\ held' = {"input"}
        /\ UNCHANGED << ret, disk, source >>
  /\ UNCHANGED << plain, output, header, stream, chain >>

\* fopen, then the size by fseek and ftell; an empty file is refused
OpenInput ==
  /\ pc = "open_input"
  /\ \/ /\ \/ Len(source) = 0
           \/ "open" \in Env
        /\ Exit(-1, {})
        /\ UNCHANGED file_size
     \/ /\ Len(source) > 0
        /\ file_size' = Len(source)
        /\ pc' = "open_output"
        /\ held' = {"input"}
        /\ UNCHANGED << ret, disk, source >>
  /\ UNCHANGED << plain, output, header, stream, chain >>

\* fopen "wb" empties the file at output_path
OpenOutput ==
  /\ pc = "open_output"
  /\ \/ /\ pc' = "size"
        /\ held' = held \cup {"output"}
        /\ disk' = << >>
        /\ SyncSource
        /\ UNCHANGED ret
     \/ /\ "open" \in Env
        /\ Exit(-1, {"input"})
  /\ UNCHANGED << plain, output, file_size, header, stream, chain >>

WriteSize ==
  /\ pc = "size"
  /\ header' = SizeToBytes(file_size)
  /\ WriteField(header', "salt", {}, {"input", "output"})
  /\ UNCHANGED << plain, file_size, stream, chain >>

\* keygen_generate_iv aborts the process when the system has no randomness; how it
\* comes to that, or to a salt, is SecureRandom.
Abort ==
  /\ pc \in {"salt", "iv"}
  /\ "rng" \in Env
  /\ pc' = "aborted"
  /\ UNCHANGED << ret, files, file_size, header, stream, chain, held >>

\* the salt, then the key derivation of cipher_ctx_init_encrypt
WriteSalt ==
  /\ pc = "salt"
  /\ \E s \in Salts :
       /\ header' = header \o s
       /\ WriteField(s, "iv", {"ctx"}, {"input", "output"})
  /\ UNCHANGED << plain, file_size, stream, chain >>

WriteIv ==
  /\ pc = "iv"
  /\ \E iv \in Ivs :
       /\ header' = header \o iv
       /\ WriteField(iv, "alloc_data", {}, {"ctx", "input", "output"})
  /\ UNCHANGED << plain, file_size, stream, chain >>

AllocCiphertext ==
  /\ pc = "alloc_data"
  /\ prev' = Slice(header, SIZE_BYTES + KDF_SALT_SIZE, BLOCK_SIZE)
  /\ Allocate("encrypted_data", "alloc_buffer", {"ctx", "input", "output"})

\* slip: encrypted_data not freed on the error path
AllocBufferLeak ==
  /\ pc = "alloc_buffer"
  /\ Allocate("buffer", "read", {"ctx", "input", "output"})
  /\ UNCHANGED prev

AllocBuffer ==
  /\ pc = "alloc_buffer"
  /\ Allocate("buffer", "read", {"ctx", "encrypted_data", "input", "output"})
  /\ UNCHANGED prev

\* slip: the loop runs until the measured size has been read
ReadUntilSize ==
  /\ pc = "read"
  /\ LET left == IF total_read < Len(source) THEN Len(source) - total_read ELSE 0
         n    == IF total_read < file_size THEN Lesser(STREAM_CHUNK, left) ELSE 0
     IN  /\ pc' = IF total_read >= file_size THEN "final"
                  ELSE IF n = 0 THEN "read"
                  ELSE IF Len(pending) > 0 THEN "fill" ELSE "whole"
         /\ chunk' = Slice(source, total_read, n)
         /\ taken' = taken \o chunk'
         /\ processed' = 0
  /\ UNCHANGED << ret, files, file_size, header, chain, pending, held >>

\* fread: the loop ends when it returns 0, at the end of the file or on an error.
\* Of a file that the call itself has emptied, stdio may still hold the start: it
\* read it when the size was measured.
ReadChunk ==
  /\ pc = "read"
  /\ \E seen \in {source} \cup (IF SameFile THEN {plain} ELSE {}) :
     LET left == IF total_read < Len(seen) THEN Len(seen) - total_read ELSE 0
         want == Lesser(STREAM_CHUNK, left)
     IN  \E n \in (IF "read" \in Env THEN 0 ELSE want)..want :
           IF n = 0
           THEN pc' = "final" /\ UNCHANGED << stream, held >>
           ELSE /\ pc' = IF Len(pending) > 0 THEN "fill" ELSE "whole"
                /\ chunk' = Slice(seen, total_read, n)
                /\ taken' = taken \o chunk'
                /\ processed' = 0
                /\ held' = held \cup {"chunk"}
                /\ UNCHANGED pending
  /\ UNCHANGED << ret, files, file_size, header, chain >>

LoopResources == {"ctx", "encrypted_data", "buffer", "input", "output"}

\* slip: the bytes copied to the pending block encrypted once more
FillWithoutAdvance ==
  /\ pc = "fill"
  /\ LET to_copy == Lesser(BLOCK_SIZE - Len(pending), Len(chunk))
         filled  == pending \o SubSeq(chunk, 1, to_copy)
     IN  /\ processed' = 0
         /\ Len(filled) = BLOCK_SIZE
         /\ pending' = << >>
         /\ EmitBlock(filled, "whole", {"pending_block"}, LoopResources)
  /\ UNCHANGED << plain, file_size, header, taken, chunk >>

\* complete the pending block with the first bytes of the chunk
FillPending ==
  /\ pc = "fill"
  /\ LET to_copy == Lesser(BLOCK_SIZE - Len(pending), Len(chunk))
         filled  == pending \o SubSeq(chunk, 1, to_copy)
     IN  /\ processed' = to_copy
         /\ \/ /\ Len(filled) = BLOCK_SIZE
               /\ pending' = << >>
               /\ EmitBlock(filled, "whole", {"pending_block"}, LoopResources)
            \/ /\ Len(filled) < BLOCK_SIZE
               /\ pending' = filled
               /\ pc' = "whole"
               /\ UNCHANGED << ret, disk, source, output, chain, held >>
  /\ UNCHANGED << plain, file_size, header, taken, chunk >>

\* slip: the offset in the chunk not moved
EncryptWholeAgain ==
  /\ pc = "whole"
  /\ processed + BLOCK_SIZE <= Len(chunk)
  /\ EmitBlock(Slice(chunk, processed, BLOCK_SIZE), "whole", {}, LoopResources)
  /\ UNCHANGED << plain, file_size, header, stream >>

\* one turn of the inner loop
EncryptWhole ==
  /\ pc = "whole"
  /\ processed + BLOCK_SIZE <= Len(chunk)
  /\ processed' = processed + BLOCK_SIZE
  /\ EmitBlock(Slice(chunk, processed, BLOCK_SIZE), "whole", {}, LoopResources)
  /\ UNCHANGED << plain, file_size, header, taken, chunk, pending >>

\* slip: a pending block that is still incomplete replaced by nothing
SavePendingAlways ==
  /\ pc = "whole"
  /\ processed + BLOCK_SIZE > Len(chunk)
  /\ pending' = SubSeq(chunk, processed + 1, Len(chunk))
  /\ pc' = "read"
  /\ UNCHANGED << ret, files, file_size, header, taken, chunk, processed, chain, held >>

\* keep the bytes that do not fill a block, then the next fread
SavePending ==
  /\ pc = "whole"
  /\ processed + BLOCK_SIZE > Len(chunk)
  /\ IF processed < Len(chunk)
     THEN /\ pending' = SubSeq(chunk, processed + 1, Len(chunk))
          /\ held' = held \cup {"pending_block"}
     ELSE UNCHANGED << pending, held >>
  /\ pc' = "read"
  /\ UNCHANGED << ret, files, file_size, header, taken, chunk, processed, chain >>

\* slip: no padding block after a whole number of blocks
EncryptFinalIfPending ==
  /\ pc = "final"
  /\ IF Len(pending) > 0
     THEN EmitBlock(cipher_add_pkcs7_padding(pending), "mac", {},
                    LoopResources \cup {"pending_block"})
     ELSE /\ pc' = "mac"
          /\ UNCHANGED << ret, disk, source, output, chain, held >>
  /\ UNCHANGED << plain, file_size, header, stream >>

EncryptFinal ==
  /\ pc = "final"
  /\ EmitBlock(cipher_add_pkcs7_padding(pending), "mac", {},
               LoopResources \cup {"pending_block"})
  /\ UNCHANGED << plain, file_size, header, stream >>

\* When hmac_data cannot be allocated no MAC is written; the result of the
\* fwrite is not looked at either.
WriteMac ==
  /\ pc = "mac"
  /\ LET mac == hmac_compute(MacKey(Master, salt), header \o encrypted)
     IN  \/ output' = output \o mac
         \/ ShortWrite(mac)
         \/ "alloc" \in Env /\ UNCHANGED output
  /\ pc' = "finish"
  /\ UNCHANGED << ret, plain, source, disk, file_size, header, stream, chain, held >>

Finish ==
  /\ pc = "finish"
  /\ UNCHANGED output
  /\ Exit(0, LoopResources \cup {"pending_block"})
  /\ UNCHANGED << plain, file_size, header, stream, chain >>

Program ==
  \/ OpenInput \/ OpenOutput \/ WriteSize \/ WriteSalt \/ WriteIv \/ Abort
  \/ AllocCiphertext \/ AllocBuffer \/ ReadChunk \/ FillPending
  \/ EncryptWhole \/ SavePending \/ EncryptFinal \/ WriteMac \/ Finish

-----------------------------------------------------------------------------
\* stdio is free to pass on what it has buffered.
Flush ==
  /\ "flush" \in Env
  /\ pc \in Running
  /\ "output" \in held
  /\ \E n \in (Len(disk) + 1)..Len(output) : disk' = SubSeq(output, 1, n)
  /\ SyncSource
  /\ UNCHANGED << pc, ret, plain, output, file_size, header, stream, chain, held >>

\* What stdio has buffered is lost, and the process's memory is gone.
Crash ==
  /\ "crash" \in Env
  /\ pc \in Running
  /\ pc' = "crashed"
  /\ held' = {}
  /\ UNCHANGED << ret, files, file_size, header, stream, chain >>

\* Another program appends to or truncates the input file.
ChangeInput ==
  /\ pc \in Running
  /\ \/ /\ "grow" \in Env
        /\ Len(source) < Len(plain) + MaxGrowth
        /\ source' = Append(source, 0)
     \/ /\ "shrink" \in Env
        /\ Len(source) > 0
        /\ source' = SubSeq(source, 1, Len(source) - 1)
  /\ UNCHANGED << pc, ret, plain, disk, output, file_size, header, stream, chain, held >>

\* The call is over: nothing happens any more.
Over ==
  /\ pc \in Stopped
  /\ UNCHANGED vars

Next == Program \/ Flush \/ Crash \/ ChangeInput \/ Over

Spec == Init /\ [][Next]_vars

\* The operating system keeps running the one thread of the program.
FairSpec == Spec /\ WF_vars(Program)

-----------------------------------------------------------------------------
TypeOK ==
  /\ pc \in Running \cup Stopped
  /\ ret \in {NoResult, 0, -1}
  /\ plain \in Seq(Byte)      /\ source \in Seq(Byte)
  /\ disk \in Seq(Byte)       /\ output \in Seq(Byte)
  /\ file_size \in Nat        /\ header \in Seq(Byte)
  /\ taken \in Seq(Byte)      /\ chunk \in Seq(Byte)
  /\ processed \in Nat        /\ pending \in Seq(Byte)
  /\ prev \in Seq(Byte)       /\ encrypted \in Seq(Byte)
  /\ held \subseteq Streams \cup Heap \cup Secrets

\* What a finished call has made of the bytes it read: the file that holds them,
\* under the size measured at the start.
SealedSoFar ==
  Sealed(taken, file_size, Master, salt,
         Slice(header, SIZE_BYTES + KDF_SALT_SIZE, BLOCK_SIZE))

\* cipher.h:28, the promise of a return of 0: the file at output_path is the
\* one-shot encryption of the file as it was when the call was made, however
\* fread cut it into chunks and blocks.
SuccessMeansSealed == ret = 0 => /\ disk = SealedSoFar
                                 /\ taken = plain

\* What decryption counts on: salt and initialisation vector are found where it looks
\* for them, and the size in the header covers every whole block. The size is that of
\* a file, a long, so it fits its field.
SuccessIsGenuine ==
  ret = 0 /\ file_size < Weight[SIZE_BYTES] => GenuineFile(disk, plain, file_size, Master)

\* When the input is cut short by a read error, or shrinks or grows while it is
\* read, a return of 0 still leaves a well-formed file: it holds the bytes read,
\* no block lost, repeated or misplaced.
SuccessSealsWhatWasRead == ret = 0 => disk = SealedSoFar

\* What a complete output can be: the encryption of the input as it is when the call
\* is made. Of an empty input there is none.
Outputs(content) ==
  IF content = << >> THEN {}
  ELSE {Sealed(content, Len(content), Master, s, v) : s \in Salts, v \in Ivs}

Phase == CASE pc \in {"open_input", "open_output"} -> "before"
           [] pc \in Running \ {"open_input", "open_output"} -> "writing"
           [] pc \in Stopped -> "over"

Output == INSTANCE OutputFile WITH Completions <- Outputs, request <- plain,
                                   phase <- Phase, result <- ret

\* cipher.h:20 to :28, from outside: an empty input leaves the file at output_path
\* alone; otherwise it is emptied once and grows towards the one encryption that is
\* complete when 0 is returned, and is a start of it after an abort or a crash.
ImplementsOutputFile == Output!Spec

\* The MAC of no shorter part of a file that can come of the inputs happens to be
\* the bytes that end it: what LeftoverNeverAuthentic cannot do without.
NoCoincidence ==
  \A p \in Inputs : \A n, size \in 0..Len(p), s \in Salts, v \in Ivs :
    LET sealed == Sealed(SubSeq(p, 1, n), size, Master, s, v)
    IN  \A m \in 0..(Len(sealed) - 1) : ~ Authentic(SubSeq(sealed, 1, m), Master)

\* With any failure, what is on disk at any moment, after a crash included, is
\* the start of one well-formed file; and a start that would pass the MAC check
\* of decryption is the whole of it, reached only after the last block was read.
LeftoverNeverAuthentic ==
  Authentic(disk, Master) => /\ pc \in Stopped \cup {"finish"}
                             /\ disk = SealedSoFar

\* Every return has closed both streams, freed both buffers and wiped the
\* derived keys and the pending block. The plaintext in the freed chunk buffer
\* is not overwritten.
CleanExit == pc = "done" => held \subseteq {"chunk"}

\* encrypted_data has room for every block copied into it (cipher.c:102).
CiphertextFits == Len(encrypted) <= file_size + BLOCK_SIZE

\* A bound on the steps that the call can still take: four for every byte that the
\* input has left, on top of what is done once.
Unread == IF total_read < Len(source) THEN Len(source) - total_read ELSE 0
StepsLeft ==
  CASE pc = "open_input"   -> 4 * Unread + 11
    [] pc = "open_output"  -> 4 * Unread + 10
    [] pc = "size"         -> 4 * Unread + 9
    [] pc = "salt"         -> 4 * Unread + 8
    [] pc = "iv"           -> 4 * Unread + 7
    [] pc = "alloc_data"   -> 4 * Unread + 6
    [] pc = "alloc_buffer" -> 4 * Unread + 5
    [] pc = "read"         -> 4 * Unread + 4
    [] pc = "fill"         -> 4 * Unread + Len(chunk) + 6
    [] pc = "whole"        -> 4 * Unread + (Len(chunk) - processed) + 5
    [] pc = "final"        -> 3
    [] pc = "mac"          -> 2
    [] pc = "finish"       -> 1
    [] pc \in Stopped      -> 0

\* The loop of cipher.c:134 runs out: every step of the program brings the call closer
\* to its end, however the reads cut the input, and nothing but a longer input takes it
\* back: the loop asks for the end of the file, not for the size that was measured.
\* (A call that reads the file it writes makes its own input longer.)
CountsDown ==
  [][/\ StepsLeft \in Nat
     /\ Program => StepsLeft' < StepsLeft
     /\ StepsLeft' > StepsLeft => Len(source') > Len(source)]_vars

\* The call comes to an end, whatever fails.
Termination == <>(pc \in Stopped)

=============================================================================
