---------------------------- MODULE DecryptFile ----------------------------
(***************************************************************************)
(* cipher_decrypt_file (source/core/cipher.c): one call, step by step.     *)
(*                                                                         *)
(* The call reads the file at input_path twice: once for the MAC over      *)
(* header and ciphertext, and, when the MAC is right, once more to decrypt *)
(* it block by block into the file at output_path. A step is one library   *)
(* call that can fail, or the work on one block. A run picks from Env:     *)
(*   "open" "alloc" "read" "write" "close"   a library call fails          *)
(*   "flush"              stdio passes buffered bytes on to the file early *)
(*   "crash"              the process is killed                            *)
(*   "modify" "shrink"    another program changes the input file           *)
(***************************************************************************)
EXTENDS Container

CONSTANTS
  Files,          \* the files a call can be given, each with its origin
  Master,         \* the key argument
  OldOutput,      \* what output_path held before the call
  SameFile,       \* input_path and output_path name the same file
  Uninitialised,  \* what fresh heap memory can hold
  Env

\* file: the content. plain, size: what it was made from and the size field it
\* was given. genuine: it is such a file, made under Master, bit for bit.
ASSUME DecryptConstants ==
  /\ Files \subseteq [file : Seq(Byte), plain : Seq(Byte), size : Nat, genuine : BOOLEAN]
  /\ Master \in Masters
  /\ OldOutput \in Seq(Byte)
  /\ SameFile \in BOOLEAN
  /\ Uninitialised \subseteq Seq(Byte)

\* What `genuine' says: the file cipher_encrypt_file makes of `plain' under the size
\* it measured, as long as the input did not outgrow the room it then allocated
\* (EncryptFile's SuccessIsGenuine).
ASSUME GenuineFiles ==
  \A f \in Files : f.genuine => GenuineFile(f.file, f.plain, f.size, Master)

\* cipher.c:16 and cipher.h:8, 65536 bytes and 16: the decryption loop keeps no block
\* that continues in the next chunk.
ASSUME ChunkHoldsBlocks == STREAM_CHUNK % BLOCK_SIZE = 0

VARIABLES
  pc,              \* where the call is
  ret,             \* its return value
  origin,          \* the input file when the call was made (history)
  input,           \* the input file's content now
  disk,            \* the output file's content
  output,          \* the bytes fwrite has accepted for the output stream
  header,          \* size_bytes, salt and iv, as far as they are read
  encrypted_size,
  stored_mac,
  hmac_data,       \* the ciphertext part of hmac_data[0 .. offset)
  position,        \* of the input stream
  remaining,
  chunk_buf,       \* chunk_buf[0 .. read_bytes)
  i,               \* the next block's offset in it
  prev,
  held             \* streams open, memory allocated, and secrets in memory

files  == << origin, input, disk, output >>
fields == << header, encrypted_size, stored_mac >>
stream == << position, remaining, chunk_buf, i >>
vars   == << pc, ret, files, fields, hmac_data, stream, prev, held >>

Streams == {"input", "output"}
Heap    == {"chunk_buf", "hmac_data"}
\* ctx: the derived keys. decrypted and last_decrypted: plaintext on the stack.
Secrets == {"ctx", "decrypted", "last_decrypted"}

Running == {"open_input", "size", "salt", "iv", "measure", "stored_mac", "alloc_chunk",
            "alloc_hmac", "mac_read", "verify", "open_output", "read", "blocks", "last",
            "finish"}
Stopped == {"done", "crashed"}

NoResult == 1

file == origin.file
salt == Slice(header, SIZE_BYTES, KDF_SALT_SIZE)
iv   == Slice(header, SIZE_BYTES + KDF_SALT_SIZE, BLOCK_SIZE)
original_size == SizeFromBytes(SizeField(header))

-----------------------------------------------------------------------------
\* When the paths name one file, every change of it is seen through both.
SyncInput == input' = IF SameFile THEN disk' ELSE input

\* fclose(output) hands the buffered rest to the file; its result is ignored.
CloseOutput ==
  /\ \E n \in (IF "close" \in Env THEN Len(disk) ELSE Len(output'))..Len(output') :
       disk' = SubSeq(output', 1, n)
  /\ SyncInput

\* return `code', having closed, freed or wiped `released'; secrets that only
\* came up in this step are `left'
Leave(code, released, left) ==
  /\ pc' = "done"
  /\ ret' = code
  /\ held' = (held \ released) \cup left
  /\ IF "output" \in held \cap released THEN CloseOutput ELSE UNCHANGED << disk, input >>

Exit(code, released) == Leave(code, released, {})

Proceed(next, gained) ==
  /\ pc' = next
  /\ held' = held \cup gained
  /\ UNCHANGED << ret, disk, input >>

\* What one fread of `want' bytes can deliver. Of a file that the call itself
\* has emptied, stdio may still hold a part.
Delivered(want) ==
  UNION {LET left == IF position < Len(seen) THEN Len(seen) - position ELSE 0
             most == Lesser(want, left)
         IN  {Slice(seen, position, n) : n \in (IF "read" \in Env THEN 0 ELSE most)..most}
         : seen \in {input} \cup (IF SameFile THEN {file} ELSE {})}

\* fread of a header field of `size' bytes: all of it, or a return of -1
ReadField(size, next, gained, released) ==
  \E data \in Delivered(size) :
    \/ /\ Len(data) = size
       /\ header' = header \o data
       /\ position' = position + size
       /\ Proceed(next, gained)
    \/ /\ Len(data) < size
       /\ UNCHANGED << header, position >>
       /\ Exit(-1, released)

\* malloc of `object': on to pc `next', or a return of -1
Allocate(object, next, released) ==
  \/ Proceed(next, {object})
  \/ "alloc" \in Env /\ Exit(-1, released)

\* A failing fwrite may have taken a part of the data.
ShortWrite(data) ==
  /\ "write" \in Env
  /\ \E n \in 0..(Len(data) - 1) : output' = output \o SubSeq(data, 1, n)

-----------------------------------------------------------------------------
Init ==
  /\ pc = "open_input"  /\ ret = NoResult
  /\ origin \in Files   /\ input = origin.file
  /\ disk = IF SameFile THEN origin.file ELSE OldOutput
  /\ output = << >>     /\ header = << >>
  /\ encrypted_size = 0 /\ stored_mac = << >>  /\ hmac_data = << >>
  /\ position = 0       /\ remaining = 0
  /\ chunk_buf = << >>  /\ i = 0
  /\ prev = << >>       /\ held = {}

OpenInput ==
  /\ pc = "open_input"
  /\ \/ Proceed("size", {"input"})
     \/ "open" \in Env /\ Exit(-1, {})
  /\ UNCHANGED << origin, output, fields, hmac_data, stream, prev >>

ReadSize ==
  /\ pc = "size"
  /\ ReadField(SIZE_BYTES, "salt", {}, {"input"})
  /\ UNCHANGED << origin, output, encrypted_size, stored_mac, hmac_data,
                  remaining, chunk_buf, i, prev >>

\* the salt, then the key derivation of cipher_ctx_init_decrypt
ReadSalt ==
  /\ pc = "salt"
  /\ ReadField(KDF_SALT_SIZE, "iv", {"ctx"}, {"input"})
  /\ UNCHANGED << origin, output, encrypted_size, stored_mac, hmac_data,
                  remaining, chunk_buf, i, prev >>

ReadIv ==
  /\ pc = "iv"
  /\ ReadField(BLOCK_SIZE, "measure", {}, {"ctx", "input"})
  /\ UNCHANGED << origin, output, encrypted_size, stored_mac, hmac_data,
                  remaining, chunk_buf, i, prev >>

\* slip: the sign of the ciphertext's length not looked at
MeasureUnsigned ==
  /\ pc = "measure"
  /\ encrypted_size' = Len(input) - HeaderSize - HMAC_SIZE
  /\ IF encrypted_size' % BLOCK_SIZE = 0
     THEN Proceed("stored_mac", {})
     ELSE Exit(-1, {"ctx", "input"})
  /\ UNCHANGED << origin, output, header, stored_mac, hmac_data, stream, prev >>

\* The ciphertext is what lies between header and MAC: whole blocks, one at least.
Measure ==
  /\ pc = "measure"
  /\ encrypted_size' = Len(input) - HeaderSize - HMAC_SIZE
  /\ \/ /\ encrypted_size' > 0
        /\ encrypted_size' % BLOCK_SIZE = 0
        /\ Proceed("stored_mac", {})
     \/ /\ encrypted_size' <= 0 \/ encrypted_size' % BLOCK_SIZE # 0
        /\ Exit(-1, {"ctx", "input"})
  /\ UNCHANGED << origin, output, header, stored_mac, hmac_data, stream, prev >>

\* the MAC, found from the file's end, then back to the start of the ciphertext
ReadStoredMac ==
  /\ pc = "stored_mac"
  /\ UNCHANGED << origin, output, header, encrypted_size, hmac_data,
                  remaining, chunk_buf, i, prev >>
  /\ \/ /\ Len(input) >= HMAC_SIZE
        /\ stored_mac' = Slice(input, Len(input) - HMAC_SIZE, HMAC_SIZE)
        /\ position' = HeaderSize
        /\ Proceed("alloc_chunk", {})
     \/ /\ "read" \in Env \/ Len(input) < HMAC_SIZE
        /\ UNCHANGED << stored_mac, position >>
        /\ Exit(-1, {"ctx", "input"})

AllocChunk ==
  /\ pc = "alloc_chunk"
  /\ Allocate("chunk_buf", "alloc_hmac", {"ctx", "input"})
  /\ UNCHANGED << origin, output, fields, hmac_data, stream, prev >>

\* slip: chunk_buf not freed on the error path
AllocHmacLeak ==
  /\ pc = "alloc_hmac"
  /\ Allocate("hmac_data", "mac_read", {"ctx", "input"})
  /\ remaining' = encrypted_size
  /\ UNCHANGED << origin, output, fields, hmac_data, position, chunk_buf, i, prev >>

AllocHmac ==
  /\ pc = "alloc_hmac"
  /\ Allocate("hmac_data", "mac_read", {"ctx", "chunk_buf", "input"})
  /\ remaining' = encrypted_size
  /\ UNCHANGED << origin, output, fields, hmac_data, position, chunk_buf, i, prev >>

\* slip: an empty read does not end the loop
ReadForMacForever ==
  /\ pc = "mac_read"
  /\ UNCHANGED << origin, output, fields, i, prev >>
  /\ LET data == Slice(input, position, Lesser(Lesser(remaining, STREAM_CHUNK),
                       IF position < Len(input) THEN Len(input) - position ELSE 0))
     IN  /\ hmac_data' = hmac_data \o data
         /\ position' = position + Len(data)
         /\ remaining' = remaining - Len(data)
         /\ chunk_buf' = data
         /\ Proceed(IF remaining = 0 THEN "verify" ELSE "mac_read", {})

\* slip: what was read not counted off, so that the loop goes on to the end of the file
ReadForMacToEnd ==
  /\ pc = "mac_read"
  /\ UNCHANGED << origin, output, fields, remaining, i, prev >>
  /\ \E data \in Delivered(STREAM_CHUNK) :
       /\ hmac_data' = hmac_data \o data
       /\ position' = position + Len(data)
       /\ chunk_buf' = data
       /\ Proceed(IF data = << >> THEN "verify" ELSE "mac_read", {})

\* one turn of the first loop; an end of file or an error ends it early
ReadForMac ==
  /\ pc = "mac_read"
  /\ UNCHANGED << origin, output, fields, i, prev >>
  /\ \/ /\ remaining > 0
        /\ \E data \in Delivered(Lesser(remaining, STREAM_CHUNK)) :
             IF data = << >>
             THEN /\ UNCHANGED << hmac_data, position, remaining, chunk_buf >>
                  /\ Proceed("verify", {})
             ELSE /\ hmac_data' = hmac_data \o data
                  /\ position' = position + Len(data)
                  /\ remaining' = remaining - Len(data)
                  /\ chunk_buf' = data
                  /\ Proceed("mac_read", {})
     \/ /\ remaining = 0
        /\ UNCHANGED << hmac_data, position, remaining, chunk_buf >>
        /\ Proceed("verify", {})

\* slip: the comparison stops after the first byte
VerifyFirstByte ==
  /\ pc = "verify"
  /\ LET computed_mac == hmac_compute(MacKey(Master, salt), header \o hmac_data)
     IN  IF computed_mac[1] = stored_mac[1]
         THEN /\ pc' = "open_output"
              /\ held' = held \ {"hmac_data"}
              /\ UNCHANGED << ret, disk, input >>
         ELSE Exit(-1, {"hmac_data", "ctx", "chunk_buf", "input"})
  /\ UNCHANGED << origin, output, fields, hmac_data, stream, prev >>

\* The MAC is taken of the whole buffer, so what an early end of the loop left
\* unread counts as the memory happens to hold it: args_decrypt_file's stdio
\* buffer, freed a moment before, may even have held these bytes of the file.
Verify ==
  /\ pc = "verify"
  /\ \E rest \in {Slice(file, HeaderSize, encrypted_size)} \cup Uninitialised :
       LET buffer == hmac_data \o SubSeq(rest, Len(hmac_data) + 1, encrypted_size)
           computed_mac == hmac_compute(MacKey(Master, salt), header \o buffer)
       IN  IF cipher_ct_memcmp(computed_mac, stored_mac) = 0
           THEN /\ pc' = "open_output"
                /\ held' = held \ {"hmac_data"}
                /\ UNCHANGED << ret, disk, input >>
           ELSE Exit(-1, {"hmac_data", "ctx", "chunk_buf", "input"})
  /\ UNCHANGED << origin, output, fields, hmac_data, stream, prev >>

\* slip: the last block decrypted with the others
OpenOutputForAll ==
  /\ pc = "open_output"
  /\ pc' = "read"
  /\ held' = held \cup {"output"}
  /\ disk' = << >>
  /\ SyncInput
  /\ prev' = iv
  /\ position' = HeaderSize
  /\ remaining' = encrypted_size
  /\ UNCHANGED << ret, origin, output, fields, hmac_data, chunk_buf, i >>

\* slip: the output file opened with "ab", its old content kept
OpenOutputAppending ==
  /\ pc = "open_output"
  /\ pc' = "read"
  /\ held' = held \cup {"output"}
  /\ prev' = iv
  /\ position' = HeaderSize
  /\ remaining' = encrypted_size - BLOCK_SIZE
  /\ UNCHANGED << ret, files, fields, hmac_data, chunk_buf, i >>

\* fopen "wb" empties the file at output_path
OpenOutput ==
  /\ pc = "open_output"
  /\ \/ /\ pc' = "read"
        /\ held' = held \cup {"output"}
        /\ disk' = << >>
        /\ SyncInput
        /\ UNCHANGED ret
     \/ /\ "open" \in Env
        /\ Exit(-1, {"ctx", "chunk_buf", "input"})
  /\ prev' = iv
  /\ position' = HeaderSize
  /\ remaining' = encrypted_size - BLOCK_SIZE
  /\ UNCHANGED << origin, output, fields, hmac_data, chunk_buf, i >>

\* the fread of the second loop, over all blocks but the last
ReadChunk ==
  /\ pc = "read"
  /\ \/ /\ remaining > 0
        /\ \E data \in Delivered(Lesser(remaining, STREAM_CHUNK)) :
             IF data = << >>
             THEN /\ UNCHANGED stream
                  /\ Proceed("last", {})
             ELSE /\ position' = position + Len(data)
                  /\ remaining' = remaining - Len(data)
                  /\ chunk_buf' = data
                  /\ i' = 0
                  /\ Proceed("blocks", {})
     \/ /\ remaining <= 0
        /\ UNCHANGED stream
        /\ Proceed("last", {})
  /\ UNCHANGED << origin, output, fields, hmac_data, prev >>

LoopResources == {"ctx", "chunk_buf", "input", "output"}

\* one turn of the inner loop
DecryptWhole ==
  /\ pc = "blocks"
  /\ i + BLOCK_SIZE <= Len(chunk_buf)
  /\ LET block     == Slice(chunk_buf, i, BLOCK_SIZE)
         decrypted == cipher_cbc_decrypt_block(EncKey(Master, salt), prev, block)
     IN  /\ prev' = block
         /\ \/ /\ output' = output \o decrypted
               /\ i' = i + BLOCK_SIZE
               /\ Proceed("blocks", {"decrypted"})
            \/ /\ ShortWrite(decrypted)
               /\ i' = i
               /\ Leave(-1, LoopResources, {"decrypted"})
  /\ UNCHANGED << origin, fields, hmac_data, position, remaining, chunk_buf >>

\* Bytes that do not fill a block are dropped.
EndOfChunk ==
  /\ pc = "blocks"
  /\ i + BLOCK_SIZE > Len(chunk_buf)
  /\ Proceed("read", {})
  /\ UNCHANGED << origin, output, fields, hmac_data, stream, prev >>

\* slip: one byte too few
ClampOffByOne(unpadded_len) ==
  Lesser(unpadded_len, (original_size - Len(output) - 1) % Weight[SIZE_BYTES])

\* unpadded_len, cut to what original_size leaves (in 64-bit arithmetic)
Clamp(unpadded_len) ==
  Lesser(unpadded_len, (original_size - Len(output)) % Weight[SIZE_BYTES])

\* The last block: read, decrypted, unpadded, cut to the size in the header and
\* written. When it cannot be read the call ends as if it had been written.
DecryptLast ==
  /\ pc = "last"
  /\ UNCHANGED << origin, fields, hmac_data, remaining, chunk_buf, i >>
  /\ \E block \in Delivered(BLOCK_SIZE) :
       /\ position' = position + Len(block)
       /\ IF Len(block) < BLOCK_SIZE
          THEN /\ UNCHANGED << output, prev >>
               /\ Proceed("finish", {})
          ELSE LET last == cipher_cbc_decrypt_block(EncKey(Master, salt), prev, block)
                   unpadded_len == cipher_remove_pkcs7_padding(last)
                   data == SubSeq(last, 1, Clamp(unpadded_len))
               IN  /\ prev' = block
                   /\ \/ /\ unpadded_len = -1
                         /\ UNCHANGED output
                         /\ Leave(-1, LoopResources, {"last_decrypted"})
                      \/ /\ unpadded_len >= 0
                         /\ output' = output \o data
                         /\ Proceed("finish", {"last_decrypted"})
                      \/ /\ unpadded_len > 0
                         /\ ShortWrite(data)
                         /\ Leave(-1, LoopResources, {"last_decrypted"})

Finish ==
  /\ pc = "finish"
  /\ UNCHANGED output
  /\ Exit(0, LoopResources \cup {"last_decrypted"})
  /\ UNCHANGED << origin, fields, hmac_data, stream, prev >>

Program ==
  \/ OpenInput \/ ReadSize \/ ReadSalt \/ ReadIv \/ Measure \/ ReadStoredMac
  \/ AllocChunk \/ AllocHmac \/ ReadForMac \/ Verify \/ OpenOutput
  \/ ReadChunk \/ DecryptWhole \/ EndOfChunk \/ DecryptLast \/ Finish

-----------------------------------------------------------------------------
\* stdio is free to pass on what it has buffered.
Flush ==
  /\ "flush" \in Env
  /\ pc \in Running
  /\ "output" \in held
  /\ \E n \in (Len(disk) + 1)..Len(output) : disk' = SubSeq(output, 1, n)
  /\ SyncInput
  /\ UNCHANGED << pc, ret, origin, output, fields, hmac_data, stream, prev, held >>

\* What stdio has buffered is lost, and the process's memory is gone.
Crash ==
  /\ "crash" \in Env
  /\ pc \in Running
  /\ pc' = "crashed"
  /\ held' = {}
  /\ UNCHANGED << ret, files, fields, hmac_data, stream, prev >>

\* Another program changes a byte of the input file or truncates it.
ChangeInput ==
  /\ pc \in Running
  /\ \/ /\ "modify" \in Env
        /\ input = file
        /\ \E k \in DOMAIN input : input' = [input EXCEPT ![k] = (@ + 1) % ByteBase]
     \/ /\ "shrink" \in Env
        /\ Len(input) > 0
        /\ input' = SubSeq(input, 1, Len(input) - 1)
  /\ UNCHANGED << pc, ret, origin, disk, output, fields, hmac_data, stream, prev, held >>

\* The call is over: nothing happens any more.
Over ==
  /\ pc \in Stopped
  /\ UNCHANGED vars

Next == Program \/ Flush \/ Crash \/ ChangeInput \/ Over

Spec == Init /\ [][Next]_vars

\* The operating system keeps running the one thread of the program.
FairSpec == Spec /\ WF_vars(Program)

-----------------------------------------------------------------------------
TypeOK ==
  /\ pc \in Running \cup Stopped
  /\ ret \in {NoResult, 0, -1}
  /\ origin \in [file : Seq(Byte), plain : Seq(Byte), size : Nat, genuine : BOOLEAN]
  /\ input \in Seq(Byte)      /\ disk \in Seq(Byte)
  /\ output \in Seq(Byte)     /\ header \in Seq(Byte)
  /\ encrypted_size \in Int   /\ stored_mac \in Seq(Byte)
  /\ hmac_data \in Seq(Byte)  /\ position \in Nat
  /\ remaining \in Nat        /\ chunk_buf \in Seq(Byte)
  /\ i \in Nat                /\ prev \in Seq(Byte)
  /\ held \subseteq Streams \cup Heap \cup Secrets

StartsWith(s, t) == Len(t) <= Len(s) /\ SubSeq(s, 1, Len(t)) = t

CiphertextSize(f) == Len(f) - HeaderSize - HMAC_SIZE

StoredMac(f) == Slice(f, Len(f) - HMAC_SIZE, HMAC_SIZE)

\* What the input file can become during the call: one byte of it changes, and its
\* end is cut off.
Versions(f) ==
  {f} \cup IF "modify" \in Env
           THEN {[f EXCEPT ![k] = (@ + 1) % ByteBase] : k \in DOMAIN f}
           ELSE {}
LengthsLeft(n) == (IF "shrink" \in Env THEN 0 ELSE n)..n

\* How many bytes of the ciphertext have been read when the MAC is taken: all,
\* unless a read failed or the file was cut. What hmac_data holds behind them the
\* memory held before.
ReadForVerdict(size)  == (IF Env \cap {"read", "shrink"} = {} THEN size ELSE 0)..size
MemoryBehind(f, size) == {Slice(f, HeaderSize, size)} \cup Uninitialised
Buffer(f, size, n, rest) == Slice(f, HeaderSize, n) \o SubSeq(rest, n + 1, size)

\* The MAC under which `left' bytes of the file `late' end is that of the header of
\* the file `read' and the buffer.
MacFits(read, buffer, late, left) ==
  cipher_ct_memcmp(hmac_compute(MacKey(Master, SaltField(read)),
                                SubSeq(read, 1, HeaderSize) \o buffer),
                   Slice(late, left - HMAC_SIZE, HMAC_SIZE)) = 0

\* What the MAC is there for: none that can be found at the end of a file that is not
\* genuine fits what can be read of it, whatever becomes of the file in the meantime.
\* RejectedUntouched cannot do without.
Unforged ==
  \A f \in Files : ~ f.genuine =>
    \A now \in Versions(f.file), measured \in LengthsLeft(Len(f.file)) :
      LET size == measured - HeaderSize - HMAC_SIZE
      IN  size > 0 /\ size % BLOCK_SIZE = 0 =>
            \A read \in {f.file, now}, late \in {f.file, now}, left \in LengthsLeft(measured),
               n \in ReadForVerdict(size), rest \in MemoryBehind(f.file, size) :
              HMAC_SIZE <= left => ~ MacFits(read, Buffer(read, size, n, rest), late, left)

\* readme.md:20 and :62: a file that was not made with this key, or is not bit
\* for bit what was made, leaves the file at output_path alone and is refused,
\* whatever else fails on the way.
RejectedUntouched ==
  ~ origin.genuine => /\ ret # 0
                      /\ disk = OldOutput

\* What is found at output_path, at any moment and after a crash or an error, is
\* the old file or the start of the plaintext: no padding, no block out of order.
WrittenIsPlaintext ==
  disk = OldOutput \/ StartsWith(origin.plain, disk)

\* cipher.h:43, the promise of a return of 0: the whole plaintext is there (up
\* to the size in the header, when the file grew while it was encrypted).
SuccessMeansOpened ==
  ret = 0 => disk = SubSeq(origin.plain, 1, Lesser(origin.size, Len(origin.plain)))

\* What a complete output can be: the plaintext, as far as the size in the header
\* goes. Of a file that is not genuine there is none.
Outputs(f) ==
  IF f.genuine THEN {SubSeq(f.plain, 1, Lesser(f.size, Len(f.plain)))} ELSE {}

Phase == CASE pc \in {"read", "blocks", "last", "finish"} -> "writing"
           [] pc \in Running \ {"read", "blocks", "last", "finish"} -> "before"
           [] pc \in Stopped -> "over"

Output == INSTANCE OutputFile WITH Completions <- Outputs, request <- origin,
                                   phase <- Phase, result <- ret

\* cipher.h:35 to :43, from outside: what is not genuine leaves the file at
\* output_path alone; otherwise it is emptied once and only grows, a start of the
\* plaintext that is complete when 0 is returned.
ImplementsOutputFile == Output!Spec

\* When no call fails, a genuine file is opened: encryption loses nothing.
GenuineOpens == pc = "done" /\ origin.genuine => ret = 0

\* The subtraction of the clamp (cipher.c:442) never wraps: what is written stays
\* within original_size, for every file whose encryption kept its capacity.
ClampNeverWraps ==
  pc \in {"read", "blocks", "last", "finish"} => Len(output) <= original_size

\* Every return has closed both streams, freed both buffers and wiped the
\* derived keys. Blocks of plaintext on the stack are left.
CleanExit == pc = "done" => held \subseteq {"decrypted", "last_decrypted"}

\* A bound on the steps that the call can still take: three for every byte of the
\* ciphertext and one more for the MAC, on top of what is done once.
StepsLeft ==
  CASE pc = "open_input"  -> 4 * Len(input) + 14
    [] pc = "size"        -> 4 * Len(input) + 13
    [] pc = "salt"        -> 4 * Len(input) + 12
    [] pc = "iv"          -> 4 * Len(input) + 11
    [] pc = "measure"     -> 4 * Len(input) + 10
    [] pc = "stored_mac"  -> 4 * encrypted_size + 9
    [] pc = "alloc_chunk" -> 4 * encrypted_size + 8
    [] pc = "alloc_hmac"  -> 4 * encrypted_size + 7
    [] pc = "mac_read"    -> 3 * encrypted_size + remaining + 6
    [] pc = "verify"      -> 3 * encrypted_size + 5
    [] pc = "open_output" -> 3 * encrypted_size + 4
    [] pc = "read"        -> 3 * remaining + 3
    [] pc = "blocks"      -> 3 * remaining + (Len(chunk_buf) - i) + 4
    [] pc = "last"        -> 2
    [] pc = "finish"      -> 1
    [] pc \in Stopped     -> 0

\* Both loops run out (cipher.c:347 and :397): every step of the program brings the
\* call closer to its end, and what happens to the files in the meantime never takes
\* it back, so that it ends within 4 * Len(input) + 14 steps, reads that come short
\* byte by byte and a file that is cut or changed under it included.
CountsDown ==
  [][/\ StepsLeft \in Nat
     /\ StepsLeft' <= StepsLeft
     /\ Program => StepsLeft' < StepsLeft]_vars

\* The call comes to an end, whatever fails.
Termination == <>(pc \in Stopped)

=============================================================================
