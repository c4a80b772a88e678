------------------------- MODULE DecryptFileProofs -------------------------
(***************************************************************************)
(* What TLAPS proves of DecryptFile, for files, blocks and chunks of every *)
(* size, and for every cipher, MAC and key derivation that obeys the laws  *)
(* of Container. Whatever fails: every return releases what the call       *)
(* holds, and the variables keep their types. When no MAC can be forged, a *)
(* file that is not authentic leaves the output as it was, even when it is *)
(* changed or cut while it is read. When it is left alone, what is written *)
(* of an authentic one is its plaintext, all of it at a return of 0, and 0 *)
(* is what the call returns when nothing fails. The reads cut the file as  *)
(* they may, and stdio passes on what is written when it likes. Seen from  *)
(* outside, step by step, that is OutputFile. Both loops run out.          *)
(***************************************************************************)
EXTENDS DecryptFile, ContainerProofs

-----------------------------------------------------------------------------
(* Returns. *)

\* What can be held at each place.
Holdings ==
  /\ pc \in Running \cup Stopped
  /\ pc = "open_input" => held = {}
  /\ pc \in {"size", "salt"} => held \subseteq {"input"}
  /\ pc \in {"iv", "measure", "stored_mac", "alloc_chunk"} => held \subseteq {"input", "ctx"}
  /\ pc = "alloc_hmac" => held \subseteq {"input", "ctx", "chunk_buf"}
  /\ pc \in {"mac_read", "verify"} => held \subseteq {"input", "ctx", "chunk_buf", "hmac_data"}
  /\ pc = "open_output" => held \subseteq {"input", "ctx", "chunk_buf"}
  /\ pc \in {"read", "blocks", "last"} => held \subseteq LoopResources \cup {"decrypted"}
  /\ pc = "finish" => held \subseteq LoopResources \cup {"decrypted", "last_decrypted"}
  /\ pc \in Stopped => held \subseteq {"decrypted", "last_decrypted"}

\* The end of a call that releases all but blocks on the stack.
LEMMA ExitReleases ==
  ASSUME NEW code, NEW released, NEW left \in SUBSET {"decrypted", "last_decrypted"},
         Leave(code, released, left),
         held \subseteq released \cup {"decrypted", "last_decrypted"}
  PROVE  Holdings'
<1>1. pc' = "done" /\ held' \subseteq {"decrypted", "last_decrypted"}
  BY DEF Leave
<1> QED BY <1>1 DEF Holdings, Running, Stopped

\* A header field, read or missing.
LEMMA FieldHoldings ==
  ASSUME NEW size, NEW next, NEW gained, NEW released,
         ReadField(size, next, gained, released)
  PROVE  \/ pc' = next /\ held' = held \cup gained
         \/ Leave(-1, released, {})
BY DEF ReadField, Proceed, Exit

\* An allocation, done or failed.
LEMMA AllocationHoldings ==
  ASSUME NEW object, NEW next, NEW released, Allocate(object, next, released)
  PROVE  \/ pc' = next /\ held' = held \cup {object}
         \/ Leave(-1, released, {})
BY DEF Allocate, Proceed, Exit

LEMMA EarlyStepHoldings ==
  ASSUME Holdings,
         \/ OpenInput \/ ReadSize \/ ReadSalt \/ ReadIv \/ Measure \/ ReadStoredMac
         \/ AllocChunk \/ AllocHmac \/ ReadForMac \/ Verify
  PROVE  Holdings'
<1> USE DEF Running, Stopped
<1>1. CASE OpenInput
  <2>1. CASE Proceed("size", {"input"})
    BY <1>1, <2>1 DEF OpenInput, Proceed, Holdings
  <2>2. CASE Exit(-1, {})
    BY <1>1, <2>2, ExitReleases DEF OpenInput, Exit, Holdings
  <2> QED BY <1>1, <2>1, <2>2 DEF OpenInput
<1>2. CASE ReadSize
  <2>1. pc = "size" /\ held \subseteq {"input"} /\ ReadField(SIZE_BYTES, "salt", {}, {"input"})
    BY <1>2 DEF ReadSize, Holdings
  <2>2. \/ pc' = "salt" /\ held' = held \cup {}
        \/ Leave(-1, {"input"}, {})
    BY <2>1, FieldHoldings
  <2>3. CASE pc' = "salt" /\ held' = held \cup {}
    BY <2>1, <2>3 DEF Holdings
  <2>4. CASE Leave(-1, {"input"}, {})
    BY <2>1, <2>4, ExitReleases
  <2> QED BY <2>2, <2>3, <2>4
<1>3. CASE ReadSalt
  <2>1. pc = "salt" /\ held \subseteq {"input"} /\ ReadField(KDF_SALT_SIZE, "iv", {"ctx"}, {"input"})
    BY <1>3 DEF ReadSalt, Holdings
  <2>2. \/ pc' = "iv" /\ held' = held \cup {"ctx"}
        \/ Leave(-1, {"input"}, {})
    BY <2>1, FieldHoldings
  <2>3. CASE pc' = "iv" /\ held' = held \cup {"ctx"}
    BY <2>1, <2>3 DEF Holdings
  <2>4. CASE Leave(-1, {"input"}, {})
    BY <2>1, <2>4, ExitReleases
  <2> QED BY <2>2, <2>3, <2>4
<1>4. CASE ReadIv
  <2>1. /\ pc = "iv" /\ held \subseteq {"input", "ctx"}
        /\ ReadField(BLOCK_SIZE, "measure", {}, {"ctx", "input"})
    BY <1>4 DEF ReadIv, Holdings
  <2>2. \/ pc' = "measure" /\ held' = held \cup {}
        \/ Leave(-1, {"ctx", "input"}, {})
    BY <2>1, FieldHoldings
  <2>3. CASE pc' = "measure" /\ held' = held \cup {}
    BY <2>1, <2>3 DEF Holdings
  <2>4. CASE Leave(-1, {"ctx", "input"}, {})
    BY <2>1, <2>4, ExitReleases
  <2> QED BY <2>2, <2>3, <2>4
<1>5. CASE Measure
  <2>1. pc = "measure" /\ held \subseteq {"input", "ctx"}
    BY <1>5 DEF Measure, Holdings
  <2>2. CASE Proceed("stored_mac", {})
    BY <2>1, <2>2 DEF Proceed, Holdings
  <2>3. CASE Exit(-1, {"ctx", "input"})
    BY <2>1, <2>3, ExitReleases DEF Exit
  <2> QED BY <1>5, <2>2, <2>3 DEF Measure
<1>6. CASE ReadStoredMac
  <2>1. pc = "stored_mac" /\ held \subseteq {"input", "ctx"}
    BY <1>6 DEF ReadStoredMac, Holdings
  <2>2. CASE Proceed("alloc_chunk", {})
    BY <2>1, <2>2 DEF Proceed, Holdings
  <2>3. CASE Exit(-1, {"ctx", "input"})
    BY <2>1, <2>3, ExitReleases DEF Exit
  <2> QED BY <1>6, <2>2, <2>3 DEF ReadStoredMac
<1>7. CASE AllocChunk
  <2>1. /\ pc = "alloc_chunk" /\ held \subseteq {"input", "ctx"}
        /\ Allocate("chunk_buf", "alloc_hmac", {"ctx", "input"})
    BY <1>7 DEF AllocChunk, Holdings
  <2>2. \/ pc' = "alloc_hmac" /\ held' = held \cup {"chunk_buf"}
        \/ Leave(-1, {"ctx", "input"}, {})
    BY <2>1, AllocationHoldings
  <2>3. CASE pc' = "alloc_hmac" /\ held' = held \cup {"chunk_buf"}
    BY <2>1, <2>3 DEF Holdings
  <2>4. CASE Leave(-1, {"ctx", "input"}, {})
    BY <2>1, <2>4, ExitReleases
  <2> QED BY <2>2, <2>3, <2>4
<1>8. CASE AllocHmac
  <2>1. /\ pc = "alloc_hmac" /\ held \subseteq {"input", "ctx", "chunk_buf"}
        /\ Allocate("hmac_data", "mac_read", {"ctx", "chunk_buf", "input"})
    BY <1>8 DEF AllocHmac, Holdings
  <2>2. \/ pc' = "mac_read" /\ held' = held \cup {"hmac_data"}
        \/ Leave(-1, {"ctx", "chunk_buf", "input"}, {})
    BY <2>1, AllocationHoldings
  <2>3. CASE pc' = "mac_read" /\ held' = held \cup {"hmac_data"}
    BY <2>1, <2>3 DEF Holdings
  <2>4. CASE Leave(-1, {"ctx", "chunk_buf", "input"}, {})
    BY <2>1, <2>4, ExitReleases
  <2> QED BY <2>2, <2>3, <2>4
<1>9. CASE ReadForMac
  <2>1. pc = "mac_read" /\ held \subseteq {"input", "ctx", "chunk_buf", "hmac_data"}
    BY <1>9 DEF ReadForMac, Holdings
  <2>2. pc' \in {"mac_read", "verify"} /\ held' = held
    BY <1>9 DEF ReadForMac, Proceed
  <2> QED BY <2>1, <2>2 DEF Holdings
<1>10. CASE Verify
  <2>1. pc = "verify" /\ held \subseteq {"input", "ctx", "chunk_buf", "hmac_data"}
    BY <1>10 DEF Verify, Holdings
  <2>2. \/ pc' = "open_output" /\ held' = held \ {"hmac_data"}
        \/ Leave(-1, {"hmac_data", "ctx", "chunk_buf", "input"}, {})
    BY <1>10 DEF Verify, Exit
  <2>3. CASE pc' = "open_output" /\ held' = held \ {"hmac_data"}
    BY <2>1, <2>3 DEF Holdings
  <2>4. CASE Leave(-1, {"hmac_data", "ctx", "chunk_buf", "input"}, {})
    BY <2>1, <2>4, ExitReleases
  <2> QED BY <2>2, <2>3, <2>4
<1> QED BY <1>1, <1>2, <1>3, <1>4, <1>5, <1>6, <1>7, <1>8, <1>9, <1>10

LEMMA LateStepHoldings ==
  ASSUME Holdings,
         \/ OpenOutput \/ ReadChunk \/ DecryptWhole \/ EndOfChunk \/ DecryptLast \/ Finish
  PROVE  Holdings'
<1> USE DEF Running, Stopped, LoopResources
<1>1. CASE OpenOutput
  <2>1. pc = "open_output" /\ held \subseteq {"input", "ctx", "chunk_buf"}
    BY <1>1 DEF OpenOutput, Holdings
  <2>2. \/ pc' = "read" /\ held' = held \cup {"output"}
        \/ Leave(-1, {"ctx", "chunk_buf", "input"}, {})
    BY <1>1 DEF OpenOutput, Exit
  <2>3. CASE pc' = "read" /\ held' = held \cup {"output"}
    BY <2>1, <2>3 DEF Holdings
  <2>4. CASE Leave(-1, {"ctx", "chunk_buf", "input"}, {})
    BY <2>1, <2>4, ExitReleases
  <2> QED BY <2>2, <2>3, <2>4
<1>2. CASE ReadChunk
  <2>1. pc = "read" /\ held \subseteq LoopResources \cup {"decrypted"}
    BY <1>2 DEF ReadChunk, Holdings
  <2>2. pc' \in {"blocks", "last"} /\ held' = held
    BY <1>2 DEF ReadChunk, Proceed
  <2> QED BY <2>1, <2>2 DEF Holdings
<1>3. CASE DecryptWhole
  <2>1. pc = "blocks" /\ held \subseteq LoopResources \cup {"decrypted"}
    BY <1>3 DEF DecryptWhole, Holdings
  <2>2. \/ pc' = "blocks" /\ held' = held \cup {"decrypted"}
        \/ Leave(-1, LoopResources, {"decrypted"})
    BY <1>3 DEF DecryptWhole, Proceed
  <2>3. CASE pc' = "blocks" /\ held' = held \cup {"decrypted"}
    BY <2>1, <2>3 DEF Holdings
  <2>4. CASE Leave(-1, LoopResources, {"decrypted"})
    BY <2>1, <2>4, ExitReleases
  <2> QED BY <2>2, <2>3, <2>4
<1>4. CASE EndOfChunk
  <2>1. pc = "blocks" /\ held \subseteq LoopResources \cup {"decrypted"}
    BY <1>4 DEF EndOfChunk, Holdings
  <2> QED BY <1>4, <2>1 DEF EndOfChunk, Proceed, Holdings
<1>5. CASE DecryptLast
  <2>1. pc = "last" /\ held \subseteq LoopResources \cup {"decrypted"}
    BY <1>5 DEF DecryptLast, Holdings
  <2>2. \/ pc' = "finish" /\ held' = held
        \/ pc' = "finish" /\ held' = held \cup {"last_decrypted"}
        \/ Leave(-1, LoopResources, {"last_decrypted"})
    BY <1>5 DEF DecryptLast, Proceed
  <2>3. CASE pc' = "finish" /\ held' = held
    BY <2>1, <2>3 DEF Holdings
  <2>4. CASE pc' = "finish" /\ held' = held \cup {"last_decrypted"}
    BY <2>1, <2>4 DEF Holdings
  <2>5. CASE Leave(-1, LoopResources, {"last_decrypted"})
    BY <2>1, <2>5, ExitReleases
  <2> QED BY <2>2, <2>3, <2>4, <2>5
<1>6. CASE Finish
  <2>1. pc = "finish" /\ held \subseteq LoopResources \cup {"decrypted", "last_decrypted"}
    BY <1>6 DEF Finish, Holdings
  <2>2. Leave(0, LoopResources \cup {"last_decrypted"}, {})
    BY <1>6 DEF Finish, Exit
  <2> QED BY <2>1, <2>2, ExitReleases
<1> QED BY <1>1, <1>2, <1>3, <1>4, <1>5, <1>6

LEMMA StepHoldings == Holdings /\ [Next]_vars => Holdings'
<1> SUFFICES ASSUME Holdings, [Next]_vars PROVE Holdings'
  OBVIOUS
<1>1. CASE Program
  BY <1>1, EarlyStepHoldings, LateStepHoldings DEF Program
<1>2. CASE Flush \/ ChangeInput
  BY <1>2 DEF Flush, ChangeInput, Holdings
<1>3. CASE Crash
  BY <1>3 DEF Crash, Holdings, Running, Stopped
<1>4. CASE Over \/ UNCHANGED vars
  BY <1>4 DEF Over, vars, Holdings
<1> QED BY <1>1, <1>2, <1>3, <1>4 DEF Next

\* Every return of cipher_decrypt_file, whatever failed before it, has closed both
\* streams, freed both buffers and wiped the derived keys (cipher.c:260-468).
THEOREM ExitsClean == Spec => []CleanExit
<1>1. Init => Holdings
  BY DEF Init, Holdings, Running, Stopped
<1>2. Holdings => CleanExit
  BY DEF Holdings, CleanExit, Stopped
<1> QED BY <1>1, <1>2, StepHoldings, PTL DEF Spec

-----------------------------------------------------------------------------
(* Refusals.                                                               *)

\* The input is left alone, by others and by the call itself.
InputKept == Env \cap {"modify", "shrink"} = {} /\ ~ SameFile

BeforeVerdict == {"open_input", "size", "salt", "iv", "measure", "stored_mac", "alloc_chunk",
                  "alloc_hmac", "mac_read", "verify"}

\* The input is `now', as far as it has not been cut.
InputFrom(now) == \E left \in LengthsLeft(Len(file)) : input = SubSeq(now, 1, left)

\* The fields read so far, and the stream behind them: the header is that of `read', the
\* size that of some length the file had, the MAC what ended `late' at a later one.
FieldsFrom(read, late) ==
  /\ pc \in {"open_input", "size"} => header = << >> /\ position = 0
  /\ pc = "salt" => /\ header = SubSeq(read, 1, SIZE_BYTES)
                    /\ position = SIZE_BYTES
                    /\ position <= Len(file)
  /\ pc = "iv" => /\ header = SubSeq(read, 1, SIZE_BYTES + KDF_SALT_SIZE)
                  /\ position = SIZE_BYTES + KDF_SALT_SIZE
                  /\ position <= Len(file)
  /\ pc \in BeforeVerdict \ {"open_input", "size", "salt", "iv"} =>
       header = SubSeq(read, 1, HeaderSize) /\ HeaderSize <= Len(file)
  /\ pc \in {"stored_mac", "alloc_chunk", "alloc_hmac", "mac_read", "verify"} =>
       /\ encrypted_size \in Nat /\ encrypted_size > 0 /\ encrypted_size % BLOCK_SIZE = 0
       /\ HeaderSize + encrypted_size + HMAC_SIZE \in LengthsLeft(Len(file))
       /\ Len(input) <= HeaderSize + encrypted_size + HMAC_SIZE
  /\ pc \in {"alloc_chunk", "alloc_hmac", "mac_read", "verify"} =>
       \E left \in LengthsLeft(HeaderSize + encrypted_size + HMAC_SIZE) :
         /\ HMAC_SIZE <= left
         /\ stored_mac = Slice(late, left - HMAC_SIZE, HMAC_SIZE)

\* The ciphertext gathered so far for the MAC.
BufferFrom(read) ==
  /\ pc \in BeforeVerdict \ {"mac_read", "verify"} => hmac_data = << >>
  /\ pc \in {"alloc_chunk", "alloc_hmac"} => position = HeaderSize
  /\ pc \in {"mac_read", "verify"} =>
       /\ remaining \in 0..encrypted_size
       /\ position = HeaderSize + (encrypted_size - remaining)
       /\ hmac_data = Slice(read, HeaderSize, encrypted_size - remaining)
  /\ pc = "verify" /\ Env \cap {"read", "shrink"} = {} => remaining = 0

\* Whatever has become of the file, the call has seen one version of it up to the
\* position of the stream: the one it began with or the one there is now.
Seen ==
  \E now \in Versions(file) : \E read \in {file, now}, late \in {file, now} :
    InputFrom(now) /\ FieldsFrom(read, late) /\ BufferFrom(read)

\* The output file is not opened: before the verdict, and when the call ends there.
Unopened ==
  /\ pc \in BeforeVerdict \cup Stopped
  /\ ret # 0
  /\ disk = OldOutput
  /\ "output" \notin held
  /\ Seen

RefusedInv == origin \in Files /\ (~ origin.genuine => Unopened)

LEMMA FileIsBytes == ASSUME origin \in Files PROVE file \in Seq(Byte)
BY DecryptConstants DEF file

LEMMA HeaderSizes ==
  /\ SIZE_BYTES \in Nat \ {0} /\ KDF_SALT_SIZE \in Nat \ {0} /\ BLOCK_SIZE \in Nat \ {0}
  /\ HMAC_SIZE \in Nat \ {0}  /\ STREAM_CHUNK \in Nat \ {0}
  /\ HeaderSize \in Nat \ {0} /\ HeaderSize = SIZE_BYTES + KDF_SALT_SIZE + BLOCK_SIZE
BY SizesPositive DEF HeaderSize

\* Two adjacent slices are one.
LEMMA SlicesJoin ==
  ASSUME NEW s \in Seq(Byte), NEW from \in Nat, NEW a \in Nat, NEW b \in Nat,
         from + a + b <= Len(s)
  PROVE  Slice(s, from, a) \o Slice(s, from + a, b) = Slice(s, from, a + b)
<1>1. /\ from + 1 \in 1..(Len(s) + 1)
      /\ from + a \in ((from + 1) - 1)..Len(s)
      /\ from + a + b \in (from + a)..Len(s)
      /\ from + (a + b) = from + a + b
  BY LenProperties
<1> QED BY <1>1, ConcatAdjacentSubSeq DEF Slice

\* A version of the file has its length, and differs from it in one place at most.
LEMMA VersionShape ==
  ASSUME origin \in Files, NEW now \in Versions(file)
  PROVE  /\ now \in Seq(Byte) /\ Len(now) = Len(file)
         /\ \E k \in Nat : \A j \in 1..Len(file) : j # k => now[j] = file[j]
<1>1. file \in Seq(Byte) /\ DOMAIN file = 1..Len(file) /\ Len(file) \in Nat
  BY FileIsBytes, LenProperties
<1>2. CASE now = file
  BY <1>1, <1>2
<1>3. CASE now # file
  <2>1. PICK k \in DOMAIN file : now = [file EXCEPT ![k] = (@ + 1) % ByteBase]
    BY <1>3 DEF Versions
  <2> DEFINE b == (file[k] + 1) % ByteBase
  <2>2. now = [file EXCEPT ![k] = b] /\ k \in 1..Len(file)
    BY <1>1, <2>1
  <2>3. b \in Byte
    <3>1. file[k] \in Nat /\ ByteBase \in Nat \ {0}
      BY <1>1, <2>2, ElementOfSeq, ZeroIsByte, SizesPositive
    <3> QED BY <3>1 DEF Byte
  <2> HIDE DEF b
  <2>4. /\ now \in Seq(Byte) /\ Len(now) = Len(file)
        /\ \A j \in 1..Len(file) : now[j] = IF j = k THEN b ELSE file[j]
    BY <1>1, <2>2, <2>3, ExceptSeq
  <2>5. k \in Nat
    BY <1>1, <2>2
  <2> QED BY <2>4, <2>5
<1> QED BY <1>2, <1>3

\* Who has read up to `p' of one version and reads on in the file as it is now has read
\* from one version all along: the only place that differs is on one side of `p'.
LEMMA OneVersion ==
  ASSUME origin \in Files, NEW now \in Versions(file), NEW read \in {file, now},
         NEW p \in 0..Len(file)
  PROVE  \E r \in {file, now} : /\ \A j \in 1..p : r[j] = read[j]
                                /\ \A j \in (p + 1)..Len(file) : r[j] = now[j]
<1>1. PICK k \in Nat : \A j \in 1..Len(file) : j # k => now[j] = file[j]
  BY VersionShape
<1>2. Len(file) \in Nat /\ p \in Nat
  BY FileIsBytes, LenProperties
<1>3. CASE read = now
  BY <1>3
<1>4. CASE read = file /\ k <= p
  <2>1. \A j \in (p + 1)..Len(file) : file[j] = now[j]
    BY <1>1, <1>2, <1>4
  <2> QED BY <1>4, <2>1
<1>5. CASE read = file /\ k > p
  <2>1. \A j \in 1..p : now[j] = file[j]
    BY <1>1, <1>2, <1>5
  <2> QED BY <1>5, <2>1
<1> QED BY <1>2, <1>3, <1>4, <1>5

LEMMA LengthLeft ==
  ASSUME NEW n \in Nat, NEW left \in LengthsLeft(n)
  PROVE  left \in 0..n /\ ("shrink" \notin Env => left = n)
BY DEF LengthsLeft

LEMMA InputShape ==
  ASSUME origin \in Files, NEW now \in Versions(file), InputFrom(now)
  PROVE  /\ input \in Seq(Byte) /\ input = SubSeq(now, 1, Len(input))
         /\ Len(input) \in LengthsLeft(Len(file)) /\ Len(input) \in 0..Len(file)
         /\ \A from, n \in Nat : from + n <= Len(input) => Slice(input, from, n) = Slice(now, from, n)
<1>1. now \in Seq(Byte) /\ Len(now) = Len(file) /\ Len(file) \in Nat
  BY VersionShape, FileIsBytes, LenProperties
<1>2. PICK left \in LengthsLeft(Len(file)) : input = SubSeq(now, 1, left)
  BY DEF InputFrom
<1>3. left \in 0..Len(file)
  BY <1>1, <1>2, LengthLeft
<1>4. input \in Seq(Byte) /\ Len(input) = left
  BY <1>1, <1>2, <1>3, PrefixType
<1>5. \A j \in 1..left : input[j] = now[j]
  <2>1. /\ SubSeq(now, 1, left) = Slice(now, 0, left)
        /\ 0 \in Nat /\ left \in Nat /\ 0 + left <= Len(now) /\ \A j \in 1..left : 0 + j = j
    BY <1>1, <1>3 DEF Slice
  <2> QED BY <1>1, <1>2, <2>1, SliceBytes
<1>6. ASSUME NEW from \in Nat, NEW n \in Nat, from + n <= Len(input)
      PROVE  Slice(input, from, n) = Slice(now, from, n)
  <2>1. /\ from + n <= Len(now)
        /\ \A j \in (from + 1)..(from + n) : input[j] = now[j]
    BY <1>1, <1>3, <1>4, <1>5, <1>6
  <2> QED BY <1>1, <1>4, <1>6, <2>1, SlicesMeet
<1> QED BY <1>2, <1>3, <1>4, <1>6

\* What a read can deliver: the file as it is now, from the position on.
LEMMA DeliveredIsSeen ==
  ASSUME ~ SameFile, origin \in Files, NEW now \in Versions(file), InputFrom(now),
         NEW want \in Nat, position \in 0..Len(file), NEW data \in Delivered(want)
  PROVE  \E n \in 0..Lesser(want, Len(file) - position) :
           /\ data = Slice(now, position, n)
           /\ Len(data) = n
           /\ Env \cap {"read", "shrink"} = {} => n = Lesser(want, Len(file) - position)
<1> DEFINE left == IF position < Len(input) THEN Len(input) - position ELSE 0
           most == Lesser(want, left)
<1>1. /\ now \in Seq(Byte) /\ Len(now) = Len(file) /\ Len(file) \in Nat /\ position \in Nat
      /\ input \in Seq(Byte) /\ Len(input) \in 0..Len(file)
      /\ "shrink" \notin Env => Len(input) = Len(file)
  BY VersionShape, InputShape, LengthLeft, FileIsBytes, LenProperties
<1>2. /\ left \in Nat /\ most \in Nat /\ most <= left /\ most <= Lesser(want, Len(file) - position)
      /\ "shrink" \notin Env => most = Lesser(want, Len(file) - position)
  <2>1. left \in Nat /\ left <= Len(file) - position
    BY <1>1
  <2>2. "shrink" \notin Env => left = Len(file) - position
    BY <1>1
  <2> HIDE DEF left
  <2> QED BY <1>1, <2>1, <2>2 DEF Lesser
<1>3. PICK n \in (IF "read" \in Env THEN 0 ELSE most)..most : data = Slice(input, position, n)
  BY DEF Delivered
<1>4. /\ n \in 0..Lesser(want, Len(file) - position) /\ n \in Nat /\ n <= left
      /\ Env \cap {"read", "shrink"} = {} => n = Lesser(want, Len(file) - position)
  <2>1. n \in Nat /\ n <= most /\ ("read" \notin Env => n = most)
    BY <1>2, <1>3
  <2>2. Lesser(want, Len(file) - position) \in Int
    BY <1>1 DEF Lesser
  <2> HIDE DEF most, left
  <2> QED BY <1>2, <2>1, <2>2
<1>5. data = Slice(now, position, n)
  <2>1. CASE n = 0
    <3>1. position + 1 \in Int /\ position + 0 \in Int /\ position + 0 < position + 1
      BY <1>1
    <3> QED BY <1>3, <2>1, <3>1, SubSeqEmpty DEF Slice
  <2>2. CASE n > 0
    <3>1. position + n <= Len(input)
      BY <1>1, <1>4, <2>2
    <3> QED BY <1>1, <1>3, <1>4, <3>1, InputShape
  <2> QED BY <1>4, <2>1, <2>2
<1>6. position + n <= Len(now)
  BY <1>1, <1>4
<1> QED BY <1>1, <1>4, <1>5, <1>6, SliceType

\* The same of a file that nobody changes.
LEMMA DeliveredIsSlice ==
  ASSUME InputKept, origin \in Files, input = file, NEW want \in Nat,
         position \in 0..Len(file), NEW data \in Delivered(want)
  PROVE  \E n \in 0..Lesser(want, Len(file) - position) :
           /\ data = Slice(file, position, n)
           /\ Len(data) = n
           /\ "read" \notin Env => n = Lesser(want, Len(file) - position)
<1>1. file \in Seq(Byte) /\ Len(file) \in Nat
  BY FileIsBytes, LenProperties
<1>2. file \in Versions(file) /\ Len(file) \in LengthsLeft(Len(file))
  BY <1>1 DEF Versions, LengthsLeft
<1>3. InputFrom(file)
  BY <1>1, <1>2, SubSeqFull DEF InputFrom
<1>4. ~ SameFile /\ "shrink" \notin Env
  BY DEF InputKept
<1>5. PICK n \in 0..Lesser(want, Len(file) - position) :
        /\ data = Slice(file, position, n)
        /\ Len(data) = n
        /\ Env \cap {"read", "shrink"} = {} => n = Lesser(want, Len(file) - position)
  BY <1>2, <1>3, <1>4, DeliveredIsSeen
<1> QED BY <1>4, <1>5

\* The end of a call with nothing written.
LEMMA LeaveUnopened ==
  ASSUME Unopened, NEW released, NEW left \in SUBSET {"decrypted", "last_decrypted"},
         Leave(-1, released, left), origin' = origin
  PROVE  Unopened'
<1>1. pc' = "done" /\ ret' = -1 /\ UNCHANGED << disk, input >> /\ "output" \notin held'
  BY DEF Leave, Unopened
<1>2. PICK now \in Versions(file) : InputFrom(now)
  BY DEF Unopened, Seen
<1>3. file' = file
  BY DEF file
<1>4. InputFrom(now)' /\ FieldsFrom(now, now)' /\ BufferFrom(now)'
  BY <1>1, <1>2, <1>3 DEF InputFrom, FieldsFrom, BufferFrom, BeforeVerdict
<1>5. Seen'
  BY <1>2, <1>3, <1>4 DEF Seen
<1> QED BY <1>1, <1>5 DEF Unopened, Stopped

\* The header was that of one version, and so are the bytes that follow it.
LEMMA ReadsOn ==
  ASSUME origin \in Files, NEW now \in Versions(file), NEW read \in {file, now},
         NEW from \in Nat, NEW n \in Nat, NEW m \in Nat, from + n + m <= Len(file)
  PROVE  \E r \in {file, now} :
           /\ SubSeq(r, 1, from) = SubSeq(read, 1, from)
           /\ Slice(r, from, n + m) = Slice(read, from, n) \o Slice(now, from + n, m)
<1>1. /\ file \in Seq(Byte) /\ now \in Seq(Byte) /\ Len(now) = Len(file) /\ Len(file) \in Nat
  BY VersionShape, FileIsBytes, LenProperties
<1>2. from + n \in 0..Len(file)
  BY <1>1
<1>3. PICK r \in {file, now} : /\ \A j \in 1..(from + n) : r[j] = read[j]
                               /\ \A j \in ((from + n) + 1)..Len(file) : r[j] = now[j]
  BY <1>2, OneVersion
<1>4. /\ r \in Seq(Byte) /\ Len(r) = Len(file) /\ read \in Seq(Byte) /\ Len(read) = Len(file)
  BY <1>1
<1>5. SubSeq(r, 1, from) = SubSeq(read, 1, from)
  <2>1. /\ 0 \in Nat /\ 0 + from <= Len(file) /\ 0 + from = from
        /\ \A j \in (0 + 1)..(0 + from) : r[j] = read[j]
    BY <1>1, <1>3
  <2>2. Slice(r, 0, from) = Slice(read, 0, from)
    BY <1>4, <2>1, SlicesMeet
  <2> QED BY <2>1, <2>2 DEF Slice
<1>6. Slice(r, from, n) = Slice(read, from, n)
  <2>1. /\ from + n <= Len(file) /\ \A j \in (from + 1)..(from + n) : r[j] = read[j]
    BY <1>1, <1>3
  <2> QED BY <1>4, <2>1, SlicesMeet
<1>7. Slice(r, from + n, m) = Slice(now, from + n, m)
  <2>1. /\ from + n \in Nat /\ (from + n) + m <= Len(file)
        /\ \A j \in ((from + n) + 1)..((from + n) + m) : r[j] = now[j]
    BY <1>1, <1>3
  <2> QED BY <1>1, <1>4, <2>1, SlicesMeet
<1>8. Slice(r, from, n) \o Slice(r, from + n, m) = Slice(r, from, n + m)
  BY <1>4, SlicesJoin
<1> QED BY <1>5, <1>6, <1>7, <1>8

\* A header field, read or missing: what comes after the bytes that were there.
LEMMA FieldSeen ==
  ASSUME ~ SameFile, origin \in Files, NEW now \in Versions(file), NEW read \in {file, now},
         InputFrom(now), NEW size \in Nat, NEW next, NEW gained, NEW released,
         position \in 0..Len(file), header = SubSeq(read, 1, position),
         ReadField(size, next, gained, released)
  PROVE  \/ /\ pc' = next /\ held' = held \cup gained /\ UNCHANGED << ret, disk, input >>
            /\ position' = position + size
            /\ position + size <= Len(file)
            /\ \E r \in {file, now} : header' = SubSeq(r, 1, position + size)
         \/ Leave(-1, released, {})
<1>1. PICK data \in Delivered(size) :
        \/ /\ Len(data) = size
           /\ header' = header \o data
           /\ position' = position + size
           /\ Proceed(next, gained)
        \/ Leave(-1, released, {})
  BY DEF ReadField, Exit
<1>2. CASE Leave(-1, released, {})
  BY <1>2
<1>3. CASE /\ Len(data) = size
           /\ header' = header \o data
           /\ position' = position + size
           /\ Proceed(next, gained)
  <2>1. data = Slice(now, position, size) /\ size <= Lesser(size, Len(file) - position)
    BY <1>3, DeliveredIsSeen
  <2>2. Len(file) \in Nat /\ position \in Nat
    BY FileIsBytes, LenProperties
  <2>3. /\ position + size <= Len(file) /\ 0 + position + size <= Len(file) /\ 0 \in Nat
        /\ 0 + position = position
    BY <2>1, <2>2 DEF Lesser
  <2>4. PICK r \in {file, now} :
          Slice(r, 0, position + size) = Slice(read, 0, position) \o Slice(now, 0 + position, size)
    <3>1. \A from, n, m \in Nat : from + n + m <= Len(file) =>
            \E r \in {file, now} :
              /\ SubSeq(r, 1, from) = SubSeq(read, 1, from)
              /\ Slice(r, from, n + m) = Slice(read, from, n) \o Slice(now, from + n, m)
      BY ReadsOn
    <3> QED BY <2>2, <2>3, <3>1
  <2>5. header' = SubSeq(r, 1, position + size)
    BY <1>3, <2>1, <2>2, <2>3, <2>4 DEF Slice
  <2> QED BY <1>3, <2>3, <2>5 DEF Proceed
<1> QED BY <1>1, <1>2, <1>3

\* What Unopened says, with names for the versions.
LEMMA VersionsSeen ==
  ASSUME Unopened
  PROVE  \E now \in Versions(file) : \E read \in {file, now}, late \in {file, now} :
           InputFrom(now) /\ FieldsFrom(read, late) /\ BufferFrom(read)
BY DEF Unopened, Seen

LEMMA SeenNext ==
  ASSUME origin' = origin, NEW now \in Versions(file), NEW read \in {file, now},
         NEW late \in {file, now}, InputFrom(now)', FieldsFrom(read, late)', BufferFrom(read)',
         pc' \in BeforeVerdict, ret' # 0, disk' = OldOutput, "output" \notin held'
  PROVE  Unopened'
<1>1. file' = file
  BY DEF file
<1>2. Seen'
  BY <1>1 DEF Seen
<1> QED BY <1>2 DEF Unopened

LEMMA InputStays ==
  ASSUME origin' = origin, input' = input, NEW now, InputFrom(now)
  PROVE  InputFrom(now)'
BY DEF InputFrom, file

LEMMA HeaderStepsUnopened ==
  ASSUME ~ SameFile, origin \in Files, Unopened, origin' = origin,
         OpenInput \/ ReadSize \/ ReadSalt \/ ReadIv
  PROVE  Unopened'
<1>1. Len(file) \in Nat /\ file' = file
  BY FileIsBytes, LenProperties DEF file
<1>2. PICK now \in Versions(file) : \E read \in {file, now}, late \in {file, now} :
        InputFrom(now) /\ FieldsFrom(read, late) /\ BufferFrom(read)
  BY VersionsSeen
<1>3. PICK read \in {file, now}, late \in {file, now} :
        InputFrom(now) /\ FieldsFrom(read, late) /\ BufferFrom(read)
  BY <1>2
<1>4. ret # 0 /\ disk = OldOutput /\ "output" \notin held
  BY DEF Unopened
<1>5. CASE OpenInput
  <2>1. CASE Proceed("size", {"input"})
    <3>1. /\ pc = "open_input" /\ pc' = "size" /\ held' = held \cup {"input"}
          /\ UNCHANGED << ret, disk, input, header, position, hmac_data >>
      BY <1>5, <2>1 DEF OpenInput, Proceed, fields, stream
    <3>2. FieldsFrom(read, late)' /\ BufferFrom(read)'
      BY <1>3, <3>1 DEF FieldsFrom, BufferFrom, BeforeVerdict
    <3> QED BY <1>3, <1>4, <3>1, <3>2, InputStays, SeenNext DEF BeforeVerdict
  <2>2. CASE Exit(-1, {})
    BY <2>2, LeaveUnopened DEF Exit
  <2> QED BY <1>5, <2>1, <2>2 DEF OpenInput
<1>6. CASE ReadSize
  <2>1. pc = "size" /\ ReadField(SIZE_BYTES, "salt", {}, {"input"}) /\ hmac_data' = hmac_data
    BY <1>6 DEF ReadSize
  <2>2. header = << >> /\ position = 0 /\ hmac_data = << >>
    BY <1>3, <2>1 DEF FieldsFrom, BufferFrom, BeforeVerdict
  <2>3. header = SubSeq(read, 1, position)
    BY <2>2, SubSeqEmpty
  <2>4. SIZE_BYTES \in Nat /\ position \in 0..Len(file) /\ position + SIZE_BYTES = SIZE_BYTES
    BY <1>1, <2>2, HeaderSizes
  <2>5. \/ /\ pc' = "salt" /\ held' = held \cup {} /\ UNCHANGED << ret, disk, input >>
           /\ position' = SIZE_BYTES
           /\ SIZE_BYTES <= Len(file)
           /\ \E r \in {file, now} : header' = SubSeq(r, 1, SIZE_BYTES)
        \/ Leave(-1, {"input"}, {})
    BY <1>3, <2>1, <2>3, <2>4, FieldSeen
  <2>6. CASE Leave(-1, {"input"}, {})
    BY <2>6, LeaveUnopened
  <2>7. CASE ~ Leave(-1, {"input"}, {})
    <3>1. PICK r \in {file, now} : header' = SubSeq(r, 1, SIZE_BYTES)
      BY <2>5, <2>7
    <3>2. FieldsFrom(r, late)' /\ BufferFrom(r)'
      BY <1>1, <2>1, <2>2, <2>5, <2>7, <3>1 DEF FieldsFrom, BufferFrom, BeforeVerdict
    <3> QED BY <1>3, <1>4, <2>5, <2>7, <3>2, InputStays, SeenNext DEF BeforeVerdict
  <2> QED BY <2>6, <2>7
<1>7. CASE ReadSalt
  <2>1. /\ pc = "salt" /\ ReadField(KDF_SALT_SIZE, "iv", {"ctx"}, {"input"})
        /\ hmac_data' = hmac_data
    BY <1>7 DEF ReadSalt
  <2>2. /\ header = SubSeq(read, 1, SIZE_BYTES) /\ position = SIZE_BYTES
        /\ position <= Len(file) /\ hmac_data = << >>
    BY <1>3, <2>1 DEF FieldsFrom, BufferFrom, BeforeVerdict
  <2>3. position \in 0..Len(file) /\ KDF_SALT_SIZE \in Nat
    BY <1>1, <2>2, HeaderSizes
  <2>4. \/ /\ pc' = "iv" /\ held' = held \cup {"ctx"} /\ UNCHANGED << ret, disk, input >>
           /\ position' = SIZE_BYTES + KDF_SALT_SIZE
           /\ SIZE_BYTES + KDF_SALT_SIZE <= Len(file)
           /\ \E r \in {file, now} : header' = SubSeq(r, 1, SIZE_BYTES + KDF_SALT_SIZE)
        \/ Leave(-1, {"input"}, {})
    BY <1>3, <2>1, <2>2, <2>3, FieldSeen
  <2>5. CASE Leave(-1, {"input"}, {})
    BY <2>5, LeaveUnopened
  <2>6. CASE ~ Leave(-1, {"input"}, {})
    <3>1. PICK r \in {file, now} : header' = SubSeq(r, 1, SIZE_BYTES + KDF_SALT_SIZE)
      BY <2>4, <2>6
    <3>2. FieldsFrom(r, late)' /\ BufferFrom(r)'
      BY <1>1, <2>1, <2>2, <2>4, <2>6, <3>1 DEF FieldsFrom, BufferFrom, BeforeVerdict
    <3> QED BY <1>3, <1>4, <2>4, <2>6, <3>2, InputStays, SeenNext DEF BeforeVerdict
  <2> QED BY <2>5, <2>6
<1>8. CASE ReadIv
  <2>1. /\ pc = "iv" /\ ReadField(BLOCK_SIZE, "measure", {}, {"ctx", "input"})
        /\ hmac_data' = hmac_data
    BY <1>8 DEF ReadIv
  <2>2. /\ header = SubSeq(read, 1, SIZE_BYTES + KDF_SALT_SIZE)
        /\ position = SIZE_BYTES + KDF_SALT_SIZE
        /\ position <= Len(file) /\ hmac_data = << >>
    BY <1>3, <2>1 DEF FieldsFrom, BufferFrom, BeforeVerdict
  <2>3. /\ position \in 0..Len(file) /\ BLOCK_SIZE \in Nat
        /\ position + BLOCK_SIZE = HeaderSize
    BY <1>1, <2>2, HeaderSizes
  <2>4. \/ /\ pc' = "measure" /\ held' = held \cup {} /\ UNCHANGED << ret, disk, input >>
           /\ HeaderSize <= Len(file)
           /\ \E r \in {file, now} : header' = SubSeq(r, 1, HeaderSize)
        \/ Leave(-1, {"ctx", "input"}, {})
    BY <1>3, <2>1, <2>2, <2>3, FieldSeen
  <2>5. CASE Leave(-1, {"ctx", "input"}, {})
    BY <2>5, LeaveUnopened
  <2>6. CASE ~ Leave(-1, {"ctx", "input"}, {})
    <3>1. PICK r \in {file, now} : header' = SubSeq(r, 1, HeaderSize)
      BY <2>4, <2>6
    <3>2. FieldsFrom(r, late)' /\ BufferFrom(r)'
      BY <1>1, <2>1, <2>2, <2>4, <2>6, <3>1 DEF FieldsFrom, BufferFrom, BeforeVerdict
    <3> QED BY <1>3, <1>4, <2>4, <2>6, <3>2, InputStays, SeenNext DEF BeforeVerdict
  <2> QED BY <2>5, <2>6
<1> QED BY <1>5, <1>6, <1>7, <1>8

LEMMA MeasuringStepsUnopened ==
  ASSUME origin \in Files, Unopened, origin' = origin,
         Measure \/ ReadStoredMac \/ AllocChunk \/ AllocHmac
  PROVE  Unopened'
<1>1. Len(file) \in Nat /\ file' = file /\ HeaderSize \in Nat /\ HMAC_SIZE \in Nat \ {0}
  BY FileIsBytes, LenProperties, HeaderSizes DEF file
<1>2. PICK now \in Versions(file) : \E read \in {file, now}, late \in {file, now} :
        InputFrom(now) /\ FieldsFrom(read, late) /\ BufferFrom(read)
  BY VersionsSeen
<1>3. PICK read \in {file, now}, late \in {file, now} :
        InputFrom(now) /\ FieldsFrom(read, late) /\ BufferFrom(read)
  BY <1>2
<1>4. ret # 0 /\ disk = OldOutput /\ "output" \notin held
  BY DEF Unopened
<1>5. Len(input) \in LengthsLeft(Len(file)) /\ Len(input) \in Nat
  BY <1>1, <1>3, InputShape
<1>6. CASE Measure
  <2>1. CASE Exit(-1, {"ctx", "input"})
    BY <2>1, LeaveUnopened DEF Exit
  <2>2. CASE encrypted_size' > 0 /\ encrypted_size' % BLOCK_SIZE = 0 /\ Proceed("stored_mac", {})
    <3>1. /\ pc = "measure" /\ pc' = "stored_mac" /\ held' = held
          /\ UNCHANGED << ret, disk, input, header, hmac_data >>
          /\ encrypted_size' = Len(input) - HeaderSize - HMAC_SIZE
      BY <1>6, <2>2 DEF Measure, Proceed
    <3>2. /\ encrypted_size' \in Nat
          /\ HeaderSize + encrypted_size' + HMAC_SIZE = Len(input)
      BY <1>1, <1>5, <2>2, <3>1
    <3>3. header = SubSeq(read, 1, HeaderSize) /\ HeaderSize <= Len(file)
      BY <1>3, <3>1 DEF FieldsFrom, BeforeVerdict
    <3>4. FieldsFrom(read, late)'
      <4>1. /\ HeaderSize + encrypted_size' + HMAC_SIZE \in LengthsLeft(Len(file'))
            /\ Len(input') <= HeaderSize + encrypted_size' + HMAC_SIZE
        BY <1>1, <1>5, <3>1, <3>2
      <4>2. header' = SubSeq(read, 1, HeaderSize) /\ HeaderSize <= Len(file')
        BY <1>1, <3>1, <3>3
      <4> QED BY <2>2, <3>1, <3>2, <4>1, <4>2 DEF FieldsFrom, BeforeVerdict
    <3>5. BufferFrom(read)'
      BY <1>3, <3>1 DEF BufferFrom, BeforeVerdict
    <3> QED BY <1>3, <1>4, <3>1, <3>4, <3>5, InputStays, SeenNext DEF BeforeVerdict
  <2> QED BY <1>6, <2>1, <2>2 DEF Measure
<1>7. CASE ReadStoredMac
  <2>1. CASE Exit(-1, {"ctx", "input"})
    BY <2>1, LeaveUnopened DEF Exit
  <2>2. CASE /\ Len(input) >= HMAC_SIZE
             /\ stored_mac' = Slice(input, Len(input) - HMAC_SIZE, HMAC_SIZE)
             /\ position' = HeaderSize
             /\ Proceed("alloc_chunk", {})
    <3>1. /\ pc = "stored_mac" /\ pc' = "alloc_chunk" /\ held' = held
          /\ UNCHANGED << ret, disk, input, header, encrypted_size, hmac_data >>
      BY <1>7, <2>2 DEF ReadStoredMac, Proceed
    <3>2. /\ header = SubSeq(read, 1, HeaderSize) /\ HeaderSize <= Len(file)
          /\ encrypted_size \in Nat /\ encrypted_size > 0 /\ encrypted_size % BLOCK_SIZE = 0
          /\ HeaderSize + encrypted_size + HMAC_SIZE \in LengthsLeft(Len(file))
          /\ Len(input) <= HeaderSize + encrypted_size + HMAC_SIZE
      BY <1>3, <3>1 DEF FieldsFrom, BeforeVerdict
    <3>3. Len(input) \in LengthsLeft(HeaderSize + encrypted_size + HMAC_SIZE)
      <4>1. HeaderSize + encrypted_size + HMAC_SIZE \in Nat
        BY <1>1, <3>2
      <4>2. "shrink" \notin Env => Len(input) = HeaderSize + encrypted_size + HMAC_SIZE
        BY <1>1, <1>5, <3>2, LengthLeft
      <4> QED BY <1>5, <3>2, <4>1, <4>2 DEF LengthsLeft
    <3>4. stored_mac' = Slice(now, Len(input) - HMAC_SIZE, HMAC_SIZE)
      <4>1. /\ Len(input) - HMAC_SIZE \in Nat
            /\ (Len(input) - HMAC_SIZE) + HMAC_SIZE <= Len(input)
        BY <1>1, <1>5, <2>2
      <4> QED BY <1>1, <1>3, <2>2, <4>1, InputShape
    <3>5. FieldsFrom(read, now)'
      <4>1. \E left \in LengthsLeft(HeaderSize + encrypted_size' + HMAC_SIZE) :
              HMAC_SIZE <= left /\ stored_mac' = Slice(now, left - HMAC_SIZE, HMAC_SIZE)
        BY <1>1, <1>5, <2>2, <3>1, <3>3, <3>4
      <4>2. /\ header' = SubSeq(read, 1, HeaderSize) /\ HeaderSize <= Len(file')
            /\ encrypted_size' \in Nat /\ encrypted_size' > 0 /\ encrypted_size' % BLOCK_SIZE = 0
            /\ HeaderSize + encrypted_size' + HMAC_SIZE \in LengthsLeft(Len(file'))
            /\ Len(input') <= HeaderSize + encrypted_size' + HMAC_SIZE
        BY <1>1, <3>1, <3>2
      <4> QED BY <3>1, <4>1, <4>2 DEF FieldsFrom, BeforeVerdict
    <3>6. BufferFrom(read)'
      BY <1>3, <2>2, <3>1 DEF BufferFrom, BeforeVerdict
    <3> QED BY <1>3, <1>4, <3>1, <3>5, <3>6, InputStays, SeenNext DEF BeforeVerdict
  <2> QED BY <1>7, <2>1, <2>2 DEF ReadStoredMac
<1>8. CASE AllocChunk
  <2>1. CASE Exit(-1, {"ctx", "input"})
    BY <2>1, LeaveUnopened DEF Exit
  <2>2. CASE Proceed("alloc_hmac", {"chunk_buf"})
    <3>1. /\ pc = "alloc_chunk" /\ pc' = "alloc_hmac" /\ held' = held \cup {"chunk_buf"}
          /\ UNCHANGED << ret, disk, input, header, encrypted_size, stored_mac, hmac_data, position >>
      BY <1>8, <2>2 DEF AllocChunk, Proceed, fields, stream
    <3>2. FieldsFrom(read, late)'
      BY <1>1, <1>3, <3>1 DEF FieldsFrom, BeforeVerdict
    <3>3. BufferFrom(read)'
      BY <1>3, <3>1 DEF BufferFrom, BeforeVerdict
    <3> QED BY <1>3, <1>4, <3>1, <3>2, <3>3, InputStays, SeenNext DEF BeforeVerdict
  <2> QED BY <1>8, <2>1, <2>2 DEF AllocChunk, Allocate
<1>9. CASE AllocHmac
  <2>1. CASE Exit(-1, {"ctx", "chunk_buf", "input"})
    BY <2>1, LeaveUnopened DEF Exit
  <2>2. CASE Proceed("mac_read", {"hmac_data"})
    <3>1. /\ pc = "alloc_hmac" /\ pc' = "mac_read" /\ held' = held \cup {"hmac_data"}
          /\ remaining' = encrypted_size
          /\ UNCHANGED << ret, disk, input, header, encrypted_size, stored_mac, hmac_data, position >>
      BY <1>9, <2>2 DEF AllocHmac, Proceed, fields
    <3>2. encrypted_size \in Nat /\ position = HeaderSize /\ hmac_data = << >>
      BY <1>3, <3>1 DEF FieldsFrom, BufferFrom, BeforeVerdict
    <3>3. Slice(read, HeaderSize, 0) = << >>
      BY <1>1, SubSeqEmpty DEF Slice
    <3>4. FieldsFrom(read, late)'
      BY <1>1, <1>3, <3>1 DEF FieldsFrom, BeforeVerdict
    <3>5. BufferFrom(read)'
      <4>1. /\ remaining' \in 0..encrypted_size'
            /\ encrypted_size' - remaining' = 0
            /\ position' = HeaderSize + (encrypted_size' - remaining')
        BY <1>1, <3>1, <3>2
      <4>2. hmac_data' = Slice(read, HeaderSize, encrypted_size' - remaining')
        BY <3>1, <3>2, <3>3, <4>1
      <4> QED BY <3>1, <4>1, <4>2 DEF BufferFrom, BeforeVerdict
    <3> QED BY <1>3, <1>4, <3>1, <3>4, <3>5, InputStays, SeenNext DEF BeforeVerdict
  <2> QED BY <1>9, <2>1, <2>2 DEF AllocHmac, Allocate
<1> QED BY <1>6, <1>7, <1>8, <1>9

LEMMA MacReadUnopened ==
  ASSUME ~ SameFile, origin \in Files, Unopened, origin' = origin, ReadForMac
  PROVE  Unopened'
<1>1. Len(file) \in Nat /\ file' = file /\ HeaderSize \in Nat /\ HMAC_SIZE \in Nat
  BY FileIsBytes, LenProperties, HeaderSizes DEF file
<1>2. PICK now \in Versions(file) : \E read \in {file, now}, late \in {file, now} :
        InputFrom(now) /\ FieldsFrom(read, late) /\ BufferFrom(read)
  BY VersionsSeen
<1>3. PICK read \in {file, now}, late \in {file, now} :
        InputFrom(now) /\ FieldsFrom(read, late) /\ BufferFrom(read)
  BY <1>2
<1> DEFINE gathered == encrypted_size - remaining
<1>4. /\ pc = "mac_read"
      /\ encrypted_size \in Nat /\ encrypted_size > 0 /\ encrypted_size % BLOCK_SIZE = 0
      /\ HeaderSize + encrypted_size + HMAC_SIZE \in LengthsLeft(Len(file))
      /\ Len(input) <= HeaderSize + encrypted_size + HMAC_SIZE
      /\ header = SubSeq(read, 1, HeaderSize) /\ HeaderSize <= Len(file)
      /\ \E left \in LengthsLeft(HeaderSize + encrypted_size + HMAC_SIZE) :
           HMAC_SIZE <= left /\ stored_mac = Slice(late, left - HMAC_SIZE, HMAC_SIZE)
      /\ remaining \in 0..encrypted_size
      /\ position = HeaderSize + gathered
      /\ hmac_data = Slice(read, HeaderSize, gathered)
  BY <1>3 DEF ReadForMac, FieldsFrom, BufferFrom, BeforeVerdict
<1>5. /\ remaining \in Nat /\ gathered \in Nat
      /\ HeaderSize + encrypted_size <= Len(file) /\ HeaderSize + gathered \in 0..Len(file)
      /\ Len(file) - (HeaderSize + gathered) >= remaining
  BY <1>1, <1>4, LengthLeft
<1>6. /\ UNCHANGED << ret, disk, input, header, encrypted_size, stored_mac >>
      /\ held' = held
      /\ pc' \in {"mac_read", "verify"}
  BY DEF ReadForMac, Proceed, fields
<1>7. ASSUME NEW r \in {file, now}, header = SubSeq(r, 1, HeaderSize), BufferFrom(r)'
      PROVE  Unopened'
  <2>1. FieldsFrom(r, late)'
    BY <1>1, <1>4, <1>6, <1>7 DEF FieldsFrom, BeforeVerdict
  <2>2. ret' # 0 /\ disk' = OldOutput /\ "output" \notin held' /\ InputFrom(now)'
    BY <1>3, <1>6, InputStays DEF Unopened
  <2> QED BY <1>6, <1>7, <2>1, <2>2, SeenNext DEF BeforeVerdict
<1>8. CASE /\ UNCHANGED << hmac_data, position, remaining >> /\ pc' = "verify"
           /\ Env \cap {"read", "shrink"} = {} => remaining = 0
  <2>1. BufferFrom(read)'
    BY <1>4, <1>6, <1>8 DEF BufferFrom, BeforeVerdict
  <2> QED BY <1>4, <1>7, <2>1
<1>9. CASE remaining = 0
  BY <1>8, <1>9 DEF ReadForMac, Proceed
<1>10. CASE remaining > 0
  <2> DEFINE want == Lesser(remaining, STREAM_CHUNK)
  <2>1. want \in Nat \ {0} /\ want <= remaining
    BY <1>5, <1>10, HeaderSizes DEF Lesser
  <2>2. PICK data \in Delivered(want) :
          IF data = << >>
          THEN UNCHANGED << hmac_data, position, remaining >> /\ pc' = "verify"
          ELSE /\ hmac_data' = hmac_data \o data
               /\ position' = position + Len(data)
               /\ remaining' = remaining - Len(data)
               /\ pc' = "mac_read"
    BY <1>10 DEF ReadForMac, Proceed
  <2> HIDE DEF want, gathered
  <2>3. PICK n \in 0..Lesser(want, Len(file) - position) :
          /\ data = Slice(now, position, n)
          /\ Len(data) = n
          /\ Env \cap {"read", "shrink"} = {} => n = Lesser(want, Len(file) - position)
    BY <1>3, <1>4, <1>5, <2>1, DeliveredIsSeen
  <2>4. n \in 0..want /\ (Env \cap {"read", "shrink"} = {} => n = want)
    <3>1. Len(file) - position \in Int /\ Len(file) - position >= want
      BY <1>1, <1>4, <1>5, <2>1
    <3>2. Lesser(want, Len(file) - position) = want
      BY <2>1, <3>1 DEF Lesser
    <3> QED BY <2>3, <3>2
  <2>5. CASE data = << >>
    BY <1>8, <2>1, <2>2, <2>3, <2>4, <2>5
  <2>6. CASE data # << >>
    <3>1. /\ hmac_data' = Slice(read, HeaderSize, gathered) \o Slice(now, HeaderSize + gathered, n)
          /\ position' = position + n
          /\ remaining' = remaining - n
          /\ pc' = "mac_read"
      BY <1>4, <2>2, <2>3, <2>6
    <3>2. n \in Nat /\ n <= remaining /\ HeaderSize + gathered + n <= Len(file)
      BY <1>1, <1>5, <2>1, <2>4
    <3>3. \A from, m, k \in Nat : from + m + k <= Len(file) =>
            \E r \in {file, now} :
              /\ SubSeq(r, 1, from) = SubSeq(read, 1, from)
              /\ Slice(r, from, m + k) = Slice(read, from, m) \o Slice(now, from + m, k)
      BY ReadsOn
    <3>4. PICK r \in {file, now} :
            /\ SubSeq(r, 1, HeaderSize) = SubSeq(read, 1, HeaderSize)
            /\ Slice(r, HeaderSize, gathered + n)
                 = Slice(read, HeaderSize, gathered) \o Slice(now, HeaderSize + gathered, n)
      BY <1>1, <1>5, <3>2, <3>3
    <3>5. /\ encrypted_size' - remaining' = gathered + n
          /\ remaining' \in 0..encrypted_size'
          /\ position' = HeaderSize + (encrypted_size' - remaining')
      <4>1. encrypted_size' - remaining' = gathered + n
        BY <1>4, <1>5, <1>6, <3>1, <3>2 DEF gathered
      <4>2. remaining' \in 0..encrypted_size'
        BY <1>4, <1>5, <1>6, <3>1, <3>2
      <4>3. position' = HeaderSize + (gathered + n)
        BY <1>1, <1>4, <1>5, <3>1, <3>2
      <4> QED BY <4>1, <4>2, <4>3
    <3>6. BufferFrom(r)'
      BY <3>1, <3>4, <3>5 DEF BufferFrom, BeforeVerdict
    <3> QED BY <1>4, <1>7, <3>4, <3>6
  <2> QED BY <2>5, <2>6
<1> QED BY <1>5, <1>9, <1>10

\* The salt that was read with the header.
LEMMA SaltRead ==
  ASSUME NEW s \in Seq(Byte), HeaderSize <= Len(s), header = SubSeq(s, 1, HeaderSize)
  PROVE  salt = SaltField(s)
<1>1. /\ 1 \in 1..Len(s) /\ HeaderSize \in 1..Len(s)
      /\ SIZE_BYTES + 1 \in 1..(HeaderSize - 1 + 1)
      /\ SIZE_BYTES + KDF_SALT_SIZE \in 1..(HeaderSize - 1 + 1)
      /\ 1 + (SIZE_BYTES + 1) - 1 = SIZE_BYTES + 1
      /\ 1 + (SIZE_BYTES + KDF_SALT_SIZE) - 1 = SIZE_BYTES + KDF_SALT_SIZE
  BY HeaderSizes, LenProperties
<1>2. SubSeq(SubSeq(s, 1, HeaderSize), SIZE_BYTES + 1, SIZE_BYTES + KDF_SALT_SIZE)
        = SubSeq(s, SIZE_BYTES + 1, SIZE_BYTES + KDF_SALT_SIZE)
  BY <1>1, SubSeqOfSubSeq
<1> QED BY <1>2 DEF salt, SaltField, Slice

LEMMA VerdictRefused ==
  ASSUME Unforged, origin \in Files, ~ origin.genuine, Unopened, origin' = origin, Verify
  PROVE  Unopened'
<1>1. Len(file) \in Nat /\ HeaderSize \in Nat /\ HMAC_SIZE \in Nat
  BY FileIsBytes, LenProperties, HeaderSizes
<1>2. PICK now \in Versions(file) : \E read \in {file, now}, late \in {file, now} :
        InputFrom(now) /\ FieldsFrom(read, late) /\ BufferFrom(read)
  BY VersionsSeen
<1>3. PICK read \in {file, now}, late \in {file, now} :
        InputFrom(now) /\ FieldsFrom(read, late) /\ BufferFrom(read)
  BY <1>2
<1> DEFINE n == encrypted_size - remaining
           measured == HeaderSize + encrypted_size + HMAC_SIZE
<1>4. /\ pc = "verify"
      /\ header = SubSeq(read, 1, HeaderSize) /\ HeaderSize <= Len(file)
      /\ encrypted_size \in Nat /\ encrypted_size > 0 /\ encrypted_size % BLOCK_SIZE = 0
      /\ measured \in LengthsLeft(Len(file))
      /\ remaining \in 0..encrypted_size
      /\ Env \cap {"read", "shrink"} = {} => remaining = 0
      /\ hmac_data = Slice(read, HeaderSize, n)
  BY <1>3 DEF Verify, FieldsFrom, BufferFrom, BeforeVerdict
<1>5. PICK left \in LengthsLeft(measured) :
        HMAC_SIZE <= left /\ stored_mac = Slice(late, left - HMAC_SIZE, HMAC_SIZE)
  BY <1>3, <1>4 DEF FieldsFrom, BeforeVerdict
<1>6. /\ measured - HeaderSize - HMAC_SIZE = encrypted_size /\ n \in 0..encrypted_size
      /\ HeaderSize + n <= Len(file) /\ n \in Nat
      /\ n \in ReadForVerdict(encrypted_size)
  <2>1. n \in 0..encrypted_size /\ n \in Nat /\ (Env \cap {"read", "shrink"} = {} => n = encrypted_size)
    BY <1>4
  <2>2. measured <= Len(file)
    BY <1>1, <1>4, LengthLeft
  <2> QED BY <1>1, <1>4, <2>1, <2>2 DEF ReadForVerdict
<1>7. read \in Seq(Byte) /\ Len(read) = Len(file)
  BY <1>3, VersionShape, FileIsBytes
<1>8. salt = SaltField(read)
  BY <1>4, <1>7, SaltRead
<1>9. PICK rest \in {Slice(file, HeaderSize, encrypted_size)} \cup Uninitialised :
        LET buffer == hmac_data \o SubSeq(rest, Len(hmac_data) + 1, encrypted_size)
        IN  \/ cipher_ct_memcmp(hmac_compute(MacKey(Master, salt), header \o buffer),
                                stored_mac) = 0
            \/ Leave(-1, {"hmac_data", "ctx", "chunk_buf", "input"}, {})
  BY DEF Verify, Exit
<1>10. hmac_data \o SubSeq(rest, Len(hmac_data) + 1, encrypted_size)
         = Buffer(read, encrypted_size, n, rest)
  <2> HIDE DEF n
  <2>1. Len(hmac_data) = n
    BY <1>1, <1>4, <1>6, <1>7, SliceType
  <2> QED BY <1>4, <2>1 DEF Buffer
<1>11. ~ MacFits(read, Buffer(read, encrypted_size, n, rest), late, left)
  <2>1. rest \in MemoryBehind(file, encrypted_size)
    BY DEF MemoryBehind
  <2> HIDE DEF n, measured
  <2>2. \A m \in LengthsLeft(Len(file)) :
          LET size == m - HeaderSize - HMAC_SIZE
          IN  size > 0 /\ size % BLOCK_SIZE = 0 =>
                \A rd \in {file, now}, lt \in {file, now}, lf \in LengthsLeft(m),
                   k \in ReadForVerdict(size), rs \in MemoryBehind(file, size) :
                  HMAC_SIZE <= lf => ~ MacFits(rd, Buffer(rd, size, k, rs), lt, lf)
    BY DEF Unforged, file
  <2>3. \A rd \in {file, now}, lt \in {file, now}, lf \in LengthsLeft(measured),
           k \in ReadForVerdict(encrypted_size), rs \in MemoryBehind(file, encrypted_size) :
          HMAC_SIZE <= lf => ~ MacFits(rd, Buffer(rd, encrypted_size, k, rs), lt, lf)
    BY <1>4, <1>6, <2>2
  <2> QED BY <1>5, <1>6, <2>1, <2>3
<1>12. cipher_ct_memcmp(hmac_compute(MacKey(Master, salt),
                                     header \o Buffer(read, encrypted_size, n, rest)),
                        stored_mac) # 0
  BY <1>4, <1>5, <1>8, <1>11 DEF MacFits
<1>13. Leave(-1, {"hmac_data", "ctx", "chunk_buf", "input"}, {})
  <2> DEFINE buffer == Buffer(read, encrypted_size, n, rest)
  <2>1. \/ cipher_ct_memcmp(hmac_compute(MacKey(Master, salt), header \o buffer), stored_mac) = 0
        \/ Leave(-1, {"hmac_data", "ctx", "chunk_buf", "input"}, {})
    BY <1>9, <1>10
  <2> QED BY <1>12, <2>1
<1> QED BY <1>13, LeaveUnopened

\* Another program changes a byte, or cuts one off.
LEMMA ChangeUnopened ==
  ASSUME origin \in Files, Unopened, origin' = origin, ChangeInput
  PROVE  Unopened'
<1>1. Len(file) \in Nat /\ file' = file /\ file \in Seq(Byte)
  BY FileIsBytes, LenProperties DEF file
<1>2. PICK now \in Versions(file) : \E read \in {file, now}, late \in {file, now} :
        InputFrom(now) /\ FieldsFrom(read, late) /\ BufferFrom(read)
  BY VersionsSeen
<1>3. PICK read \in {file, now}, late \in {file, now} :
        InputFrom(now) /\ FieldsFrom(read, late) /\ BufferFrom(read)
  BY <1>2
<1>4. /\ UNCHANGED << pc, ret, disk, header, encrypted_size, stored_mac, hmac_data, position,
                      remaining, held >>
      /\ pc \in BeforeVerdict
  BY DEF ChangeInput, fields, stream, Unopened, Running, Stopped, BeforeVerdict
<1>5. /\ input \in Seq(Byte) /\ input = SubSeq(now, 1, Len(input))
      /\ Len(input) \in LengthsLeft(Len(file)) /\ Len(input) \in 0..Len(file)
  BY <1>3, InputShape
<1>6. now \in Seq(Byte) /\ Len(now) = Len(file)
  BY VersionShape
<1>7. ASSUME NEW next \in Versions(file), read \in {file, next}, late \in {file, next},
             InputFrom(next)', Len(input') <= Len(input)
      PROVE  Unopened'
  <2>1. FieldsFrom(read, late)'
    <3>1. Len(input') \in Nat /\ HeaderSize \in Nat /\ HMAC_SIZE \in Nat
      <4>1. PICK left \in LengthsLeft(Len(file)) : input' = SubSeq(next, 1, left)
        BY <1>1, <1>7 DEF InputFrom
      <4>2. left \in 0..Len(next) /\ next \in Seq(Byte)
        BY <1>1, <4>1, LengthLeft, VersionShape
      <4>3. Len(input') = left
        BY <4>1, <4>2, PrefixType
      <4> QED BY <1>1, <4>1, <4>3, LengthLeft, HeaderSizes
    <3>2. /\ pc \in {"stored_mac", "alloc_chunk", "alloc_hmac", "mac_read", "verify"} =>
               Len(input') <= HeaderSize + encrypted_size + HMAC_SIZE
      BY <1>3, <1>5, <1>7, <3>1 DEF FieldsFrom
    <3> QED BY <1>1, <1>3, <1>4, <3>2 DEF FieldsFrom
  <2>2. BufferFrom(read)'
    BY <1>3, <1>4 DEF BufferFrom
  <2>3. ret' # 0 /\ disk' = OldOutput /\ "output" \notin held' /\ pc' \in BeforeVerdict
    BY <1>4 DEF Unopened
  <2> QED BY <1>7, <2>1, <2>2, <2>3, SeenNext
<1>8. CASE /\ "modify" \in Env /\ input = file
           /\ \E k \in DOMAIN input : input' = [input EXCEPT ![k] = (@ + 1) % ByteBase]
  <2>1. now = file
    BY <1>5, <1>6, <1>8, SubSeqFull
  <2>2. PICK k \in DOMAIN file : input' = [file EXCEPT ![k] = (@ + 1) % ByteBase]
    BY <1>8
  <2>3. input' \in Versions(file)
    BY <1>8, <2>2 DEF Versions
  <2>4. input' \in Seq(Byte) /\ Len(input') = Len(file)
    BY <2>3, VersionShape
  <2>5. Len(file) \in LengthsLeft(Len(file))
    BY <1>1 DEF LengthsLeft
  <2>6. PICK next \in Versions(file) : next = input'
    BY <2>3
  <2>7. InputFrom(next)'
    BY <1>1, <2>4, <2>5, <2>6, SubSeqFull DEF InputFrom
  <2> QED BY <1>1, <1>3, <1>7, <1>8, <2>1, <2>4, <2>6, <2>7
<1>9. CASE "shrink" \in Env /\ Len(input) > 0 /\ input' = SubSeq(input, 1, Len(input) - 1)
  <2> DEFINE m == Len(input) - 1
  <2>1. m \in 0..Len(input) /\ m \in 0..Len(now) /\ m \in LengthsLeft(Len(file)) /\ m \in Nat
    BY <1>1, <1>5, <1>6, <1>9 DEF LengthsLeft
  <2>2. input' = SubSeq(now, 1, m)
    <3>1. /\ SubSeq(input, 1, m) = Slice(input, 0, m) /\ SubSeq(now, 1, m) = Slice(now, 0, m)
          /\ 0 + m <= Len(input) /\ 0 \in Nat
      BY <2>1 DEF Slice
    <3> QED BY <1>3, <1>9, <2>1, <3>1, InputShape
  <2>3. InputFrom(now)'
    BY <1>1, <2>1, <2>2 DEF InputFrom
  <2>4. Len(input') <= Len(input)
    <3>1. Len(input') = m
      BY <1>5, <1>9, <2>1, PrefixType
    <3> QED BY <2>1, <3>1
  <2> QED BY <1>3, <1>7, <2>3, <2>4
<1> QED BY <1>8, <1>9 DEF ChangeInput

\* Steps that leave alone what Unopened is about.
LEMMA OtherStepsUnopened ==
  ASSUME origin \in Files, Unopened, Flush \/ Crash \/ Over \/ UNCHANGED vars
  PROVE  Unopened'
<1>1. CASE Flush
  BY <1>1 DEF Flush, Unopened
<1>2. CASE Crash
  <2>1. /\ pc' = "crashed" /\ UNCHANGED << ret, origin, input, disk >> /\ held' = {}
    BY <1>2 DEF Crash, files
  <2>2. PICK now \in Versions(file) : InputFrom(now)
    BY DEF Unopened, Seen
  <2>3. file' = file
    BY <2>1 DEF file
  <2>4. InputFrom(now)' /\ FieldsFrom(now, now)' /\ BufferFrom(now)'
    BY <2>1, <2>2, <2>3 DEF InputFrom, FieldsFrom, BufferFrom, BeforeVerdict
  <2>5. Seen'
    BY <2>2, <2>3, <2>4 DEF Seen
  <2> QED BY <2>1, <2>5 DEF Unopened, Stopped
<1>3. CASE Over \/ UNCHANGED vars
  <2>1. UNCHANGED << pc, ret, origin, input, disk, header, encrypted_size, stored_mac, hmac_data,
                     position, remaining, held >>
    BY <1>3 DEF Over, vars, files, fields, stream
  <2>2. file' = file
    BY <2>1 DEF file
  <2>3. PICK now \in Versions(file) : \E read \in {file, now}, late \in {file, now} :
          InputFrom(now) /\ FieldsFrom(read, late) /\ BufferFrom(read)
    BY VersionsSeen
  <2>4. PICK read \in {file, now}, late \in {file, now} :
          InputFrom(now) /\ FieldsFrom(read, late) /\ BufferFrom(read)
    BY <2>3
  <2>5. InputFrom(now)'
    BY <2>1, <2>2, <2>4 DEF InputFrom
  <2>6. FieldsFrom(read, late)'
    BY <2>1, <2>2, <2>4 DEF FieldsFrom
  <2>7. BufferFrom(read)'
    BY <2>1, <2>2, <2>4 DEF BufferFrom
  <2>8. Seen'
    BY <2>2, <2>5, <2>6, <2>7 DEF Seen
  <2> QED BY <2>1, <2>8 DEF Unopened
<1> QED BY <1>1, <1>2, <1>3

LEMMA StepRefused == ~ SameFile /\ Unforged /\ RefusedInv /\ [Next]_vars => RefusedInv'
<1> SUFFICES ASSUME ~ SameFile, Unforged, RefusedInv, [Next]_vars PROVE RefusedInv'
  OBVIOUS
<1>1. origin' = origin
  BY DEF Next, Program, Flush, ChangeInput, Crash, Over, vars, files,
         OpenInput, ReadSize, ReadSalt, ReadIv, Measure, ReadStoredMac, AllocChunk, AllocHmac,
         ReadForMac, Verify, OpenOutput, ReadChunk, DecryptWhole, EndOfChunk, DecryptLast, Finish
<1>2. SUFFICES ASSUME ~ origin.genuine, Unopened, origin \in Files PROVE Unopened'
  BY <1>1 DEF RefusedInv
<1>3. CASE OpenInput \/ ReadSize \/ ReadSalt \/ ReadIv
  BY <1>1, <1>2, <1>3, HeaderStepsUnopened
<1>4. CASE Measure \/ ReadStoredMac \/ AllocChunk \/ AllocHmac
  BY <1>1, <1>2, <1>4, MeasuringStepsUnopened
<1>5. CASE ReadForMac
  BY <1>1, <1>2, <1>5, MacReadUnopened
<1>6. CASE Verify
  BY <1>1, <1>2, <1>6, VerdictRefused
<1>7. CASE OpenOutput \/ ReadChunk \/ DecryptWhole \/ EndOfChunk \/ DecryptLast \/ Finish
  <2>1. pc \in {"open_output", "read", "blocks", "last", "finish"}
    BY <1>7 DEF OpenOutput, ReadChunk, DecryptWhole, EndOfChunk, DecryptLast, Finish
  <2> QED BY <1>2, <2>1 DEF Unopened, BeforeVerdict, Stopped
<1>8. CASE ChangeInput
  BY <1>1, <1>2, <1>8, ChangeUnopened
<1>9. CASE Flush \/ Crash \/ Over \/ UNCHANGED vars
  BY <1>2, <1>9, OtherStepsUnopened
<1> QED BY <1>3, <1>4, <1>5, <1>6, <1>7, <1>8, <1>9 DEF Next, Program

LEMMA UnopenedAtFirst ==
  ASSUME Init, ~ SameFile
  PROVE  origin \in Files /\ Unopened
<1>1. /\ pc = "open_input" /\ ret = 1 /\ origin \in Files /\ input = file /\ disk = OldOutput
      /\ header = << >> /\ position = 0 /\ hmac_data = << >> /\ held = {}
  BY DEF Init, NoResult, file
<1>2. file \in Seq(Byte) /\ Len(file) \in Nat
  BY <1>1, FileIsBytes, LenProperties
<1>3. file \in Versions(file) /\ Len(file) \in LengthsLeft(Len(file))
  BY <1>2 DEF Versions, LengthsLeft
<1>4. InputFrom(file)
  BY <1>1, <1>2, <1>3, SubSeqFull DEF InputFrom
<1>5. FieldsFrom(file, file) /\ BufferFrom(file)
  BY <1>1 DEF FieldsFrom, BufferFrom, BeforeVerdict
<1> QED BY <1>1, <1>3, <1>4, <1>5 DEF Unopened, Seen, BeforeVerdict

\* readme.md:20 and :62: a file that was not made with this key, or is not bit for
\* bit what was made, is refused and the file at output_path left alone, whatever
\* allocation, open, read or write fails, whatever another program does to the file
\* meanwhile and whenever the process is killed: the output is opened after the
\* verdict only (cipher.c:344-376).
THEOREM RefusedUntouched == ~ SameFile /\ Unforged /\ Spec => []RejectedUntouched
<1> SUFFICES ASSUME ~ SameFile, Unforged PROVE Spec => []RejectedUntouched
  OBVIOUS
<1>1. Init => RefusedInv
  BY UnopenedAtFirst DEF RefusedInv
<1>2. RefusedInv => RejectedUntouched
  BY DEF RefusedInv, Unopened, RejectedUntouched
<1>3. RefusedInv /\ [Next]_vars => RefusedInv'
  BY StepRefused
<1> QED BY <1>1, <1>2, <1>3, PTL DEF Spec

\* What that means for a file that nobody changes: header, size, MAC and ciphertext
\* are those of the file.
FieldsFromFile ==
  /\ pc \in {"open_input", "size"} => header = << >> /\ position = 0
  /\ pc = "salt" => position = SIZE_BYTES
  /\ pc = "iv" => position = SIZE_BYTES + KDF_SALT_SIZE
  /\ pc \in BeforeVerdict \ {"open_input", "size", "salt", "iv"} =>
       header = SubSeq(file, 1, HeaderSize) /\ HeaderSize <= Len(file)
  /\ pc \in {"stored_mac", "alloc_chunk", "alloc_hmac", "mac_read", "verify"} =>
       encrypted_size = CiphertextSize(file) /\ encrypted_size > 0
  /\ pc \in {"alloc_chunk", "alloc_hmac", "mac_read", "verify"} => stored_mac = StoredMac(file)
  /\ pc \in {"mac_read", "verify"} => hmac_data = Slice(file, HeaderSize, encrypted_size - remaining)
  /\ pc = "verify" /\ "read" \notin Env => remaining = 0

LEMMA KeptMeansExact ==
  ASSUME InputKept, origin \in Files, Unopened
  PROVE  input = file /\ FieldsFromFile
<1>1. file \in Seq(Byte) /\ Len(file) \in Nat /\ HeaderSize \in Nat /\ HMAC_SIZE \in Nat
  BY FileIsBytes, LenProperties, HeaderSizes
<1>2. "modify" \notin Env /\ "shrink" \notin Env
  BY DEF InputKept
<1>3. Versions(file) = {file}
  BY <1>2 DEF Versions
<1>4. InputFrom(file) /\ FieldsFrom(file, file) /\ BufferFrom(file)
  BY <1>3, VersionsSeen
<1>5. input = file
  BY <1>1, <1>2, <1>4, LengthLeft, SubSeqFull DEF InputFrom
<1>6. pc \in {"stored_mac", "alloc_chunk", "alloc_hmac", "mac_read", "verify"} =>
        /\ encrypted_size = CiphertextSize(file) /\ encrypted_size > 0
        /\ HeaderSize + encrypted_size + HMAC_SIZE = Len(file)
  <2>1. SUFFICES ASSUME encrypted_size \in Nat,
                        HeaderSize + encrypted_size + HMAC_SIZE \in LengthsLeft(Len(file))
                 PROVE  /\ encrypted_size = CiphertextSize(file)
                        /\ HeaderSize + encrypted_size + HMAC_SIZE = Len(file)
    BY <1>4 DEF FieldsFrom
  <2>2. HeaderSize + encrypted_size + HMAC_SIZE = Len(file)
    BY <1>1, <1>2, <2>1, LengthLeft
  <2> QED BY <1>1, <2>1, <2>2 DEF CiphertextSize
<1>7. pc \in {"alloc_chunk", "alloc_hmac", "mac_read", "verify"} => stored_mac = StoredMac(file)
  <2>1. SUFFICES ASSUME HeaderSize + encrypted_size + HMAC_SIZE = Len(file),
                        NEW left \in LengthsLeft(HeaderSize + encrypted_size + HMAC_SIZE),
                        stored_mac = Slice(file, left - HMAC_SIZE, HMAC_SIZE)
                 PROVE  stored_mac = StoredMac(file)
    BY <1>4, <1>6 DEF FieldsFrom
  <2>2. left = Len(file)
    BY <1>1, <1>2, <2>1, LengthLeft
  <2> QED BY <2>1, <2>2 DEF StoredMac
<1>8. /\ pc \in {"open_input", "size"} => header = << >> /\ position = 0
      /\ pc = "salt" => position = SIZE_BYTES
      /\ pc = "iv" => position = SIZE_BYTES + KDF_SALT_SIZE
      /\ pc \in BeforeVerdict \ {"open_input", "size", "salt", "iv"} =>
           header = SubSeq(file, 1, HeaderSize) /\ HeaderSize <= Len(file)
  BY <1>4 DEF FieldsFrom
<1>9. /\ pc \in {"mac_read", "verify"} => hmac_data = Slice(file, HeaderSize, encrypted_size - remaining)
      /\ pc = "verify" /\ "read" \notin Env => remaining = 0
  BY <1>2, <1>4 DEF BufferFrom
<1> QED BY <1>5, <1>6, <1>7, <1>8, <1>9 DEF FieldsFromFile

-----------------------------------------------------------------------------
(* Types.                                                                  *)

\* How much of the header has been read.
HeaderBytes ==
  /\ pc \in {"open_input", "size"} => Len(header) = 0
  /\ pc = "salt" => Len(header) = SIZE_BYTES
  /\ pc = "iv" => Len(header) = SIZE_BYTES + KDF_SALT_SIZE
  /\ pc \in Running \ {"open_input", "size", "salt", "iv"} => Len(header) = HeaderSize

\* The ciphertext has a last block.
LastBlockKept ==
  pc \in Running \ {"open_input", "size", "salt", "iv", "measure"} =>
    encrypted_size \in Nat /\ encrypted_size >= BLOCK_SIZE

\* What has been written, is in the buffer or is still to be read makes up the
\* ciphertext without its last block, or less of it when a read failed.
OutputAccounted ==
  /\ pc \in BeforeVerdict \cup {"open_output"} => output = << >>
  /\ pc \in {"read", "blocks", "last"} => prev \in Block
  /\ pc \in {"read", "last"} => Len(output) + remaining + BLOCK_SIZE <= encrypted_size
  /\ pc = "blocks" => /\ i <= Len(chunk_buf)
                      /\ Len(output) + (Len(chunk_buf) - i) + remaining + BLOCK_SIZE
                           <= encrypted_size

Shape == HeaderBytes /\ LastBlockKept /\ OutputAccounted

Types == TypeOK /\ Shape

\* A value of the size field, whatever bytes it holds.
LEMMA SizeFieldIsNumber ==
  ASSUME NEW bytes \in Seq(Byte), Len(bytes) = SIZE_BYTES
  PROVE  SizeFromBytes(bytes) \in Nat
<1> DEFINE digit(j) == IF j \in 1..SIZE_BYTES THEN bytes[j] ELSE 0
           step     == [p \in Nat \X Nat |-> (p[2] * ByteBase) + digit(p[1])]
<1>1. SIZE_BYTES \in Nat /\ ByteBase \in Nat /\ 0 \in Nat
  BY SizesPositive
<1>2. \A j \in 1..SIZE_BYTES : bytes[j] \in Nat /\ digit(j) = bytes[j]
  BY ZeroIsByte, ElementOfSeq
<1>3. \A j \in Nat : digit(j) \in Nat
  BY <1>2
<1> HIDE DEF digit
<1>4. \A p \in Nat \X Nat : (p[2] * ByteBase) + digit(p[1]) \in Nat
  <2>1. SUFFICES ASSUME NEW p \in Nat \X Nat PROVE (p[2] * ByteBase) + digit(p[1]) \in Nat
    OBVIOUS
  <2>2. p[1] \in Nat /\ p[2] \in Nat
    OBVIOUS
  <2>3. digit(p[1]) \in Nat
    BY <1>3, <2>2
  <2> QED BY <1>1, <2>2, <2>3
<1>5. step \in [Nat \X Nat -> Nat]
  BY <1>4
<1>6. \A k, v \in Nat : step[<< k, v >>] = (v * ByteBase) + digit(k)
  OBVIOUS
<1> HIDE DEF step
<1>7. PICK f : Iterates(f, Nat, 0, step, SIZE_BYTES)
  BY <1>1, <1>5, IterationExists
<1>8. /\ f \in [0..SIZE_BYTES -> Nat] /\ f[0] = 0
      /\ \A k \in 1..SIZE_BYTES : f[k] = step[<< k, f[k - 1] >>]
  BY <1>7 DEF Iterates
<1>9. \A k \in 1..SIZE_BYTES : f[k] = (f[k - 1] * ByteBase) + bytes[k]
  <2>1. SUFFICES ASSUME NEW k \in 1..SIZE_BYTES PROVE f[k] = (f[k - 1] * ByteBase) + bytes[k]
    OBVIOUS
  <2>2. k \in Nat /\ k - 1 \in 0..SIZE_BYTES
    BY <1>1
  <2>3. f[k - 1] \in Nat
    BY <1>8, <2>2
  <2> QED BY <1>2, <1>6, <1>8, <2>2, <2>3
<1> DEFINE h == [k \in 0..SIZE_BYTES |-> IF k = 0 THEN 0 ELSE (f[k - 1] * ByteBase) + bytes[k]]
<1>10. ASSUME NEW k \in 0..SIZE_BYTES PROVE f[k] = h[k]
  <2>1. CASE k = 0
    BY <1>8, <2>1
  <2>2. CASE k # 0
    <3>1. k \in 1..SIZE_BYTES
      BY <1>1, <2>2
    <3> QED BY <1>9, <2>2, <3>1
  <2> QED BY <2>1, <2>2
<1>11. f = h
  BY <1>8, <1>10
<1> DEFINE Is(g) == g = [k \in 0..SIZE_BYTES |->
                           IF k = 0 THEN 0 ELSE (g[k - 1] * ByteBase) + bytes[k]]
           value == CHOOSE g : Is(g)
<1>12. Is(f)
  BY <1>11
<1>13. Is(value)
  BY <1>12
<1>14. SizeFromBytes(bytes) = value[SIZE_BYTES]
  BY DEF SizeFromBytes
<1>15. \A k \in 0..SIZE_BYTES :
         value[k] = IF k = 0 THEN 0 ELSE (value[k - 1] * ByteBase) + bytes[k]
  BY <1>13
<1> HIDE DEF value
<1> DEFINE S == {k \in Nat : k <= SIZE_BYTES => value[k] \in Nat}
<1>16. 0 \in S
  BY <1>1, <1>15
<1>17. ASSUME NEW k \in Nat, k \in S PROVE k + 1 \in S
  <2>1. CASE k + 1 <= SIZE_BYTES
    <3>1. k + 1 \in 1..SIZE_BYTES /\ k + 1 # 0 /\ (k + 1) - 1 = k /\ k <= SIZE_BYTES
          /\ k + 1 \in 0..SIZE_BYTES
      BY <1>1, <2>1
    <3>2. value[k] \in Nat /\ bytes[k + 1] \in Nat
      BY <1>2, <1>17, <3>1
    <3>3. value[k + 1] = (value[k] * ByteBase) + bytes[k + 1]
      BY <1>15, <3>1
    <3> QED BY <1>1, <3>2, <3>3
  <2> QED BY <2>1
<1> HIDE DEF S
<1>18. Nat \subseteq S
  BY <1>16, <1>17, NatSetInduction
<1> QED BY <1>1, <1>14, <1>18 DEF S

\* What a read can deliver, whatever has become of the file.
LEMMA DeliveredType ==
  ASSUME input \in Seq(Byte), file \in Seq(Byte), position \in Nat,
         NEW want \in Nat, NEW data \in Delivered(want)
  PROVE  data \in Seq(Byte) /\ Len(data) \in 0..want
<1>1. PICK seen \in {input} \cup (IF SameFile THEN {file} ELSE {}) :
        LET left == IF position < Len(seen) THEN Len(seen) - position ELSE 0
            most == Lesser(want, left)
        IN  \E n \in (IF "read" \in Env THEN 0 ELSE most)..most : data = Slice(seen, position, n)
  BY DEF Delivered
<1> DEFINE left == IF position < Len(seen) THEN Len(seen) - position ELSE 0
           most == Lesser(want, left)
<1>2. seen \in Seq(Byte) /\ Len(seen) \in Nat
  BY LenProperties
<1>3. left \in Nat /\ (position < Len(seen) => position + left = Len(seen))
  BY <1>2
<1>4. (position >= Len(seen)) => left = 0
  BY <1>2
<1> HIDE DEF left
<1>5. most \in Nat /\ most <= want /\ most <= left
  BY <1>3 DEF Lesser
<1>6. PICK n \in (IF "read" \in Env THEN 0 ELSE most)..most : data = Slice(seen, position, n)
  BY <1>1 DEF left
<1> HIDE DEF most
<1>7. n \in Nat /\ n <= most
  BY <1>5, <1>6
<1>8. CASE position < Len(seen)
  <2>1. position + n <= Len(seen)
    BY <1>2, <1>3, <1>5, <1>7, <1>8
  <2> QED BY <1>2, <1>5, <1>6, <1>7, <2>1, SliceType
<1>9. CASE ~ position < Len(seen)
  <2>1. n = 0
    BY <1>2, <1>3, <1>4, <1>5, <1>7, <1>9
  <2>2. data = << >>
    BY <1>6, <2>1, SubSeqEmpty DEF Slice
  <2> QED BY <2>2, EmptySeq
<1> QED BY <1>8, <1>9

\* A return keeps the types.
LEMMA LeaveTypes ==
  ASSUME TypeOK, NEW code \in {0, -1}, NEW released, NEW left \in SUBSET Secrets,
         Leave(code, released, left), output' \in Seq(Byte)
  PROVE  /\ pc' = "done" /\ ret' \in {NoResult, 0, -1}
         /\ disk' \in Seq(Byte) /\ input' \in Seq(Byte)
         /\ held' \subseteq Streams \cup Heap \cup Secrets
<1>1. pc' = "done" /\ ret' = code /\ held' = (held \ released) \cup left
  BY DEF Leave
<1>2. CASE UNCHANGED << disk, input >>
  BY <1>1, <1>2 DEF TypeOK
<1>3. CASE CloseOutput
  <2>1. Len(disk) \in Nat /\ Len(output') \in Nat
    BY LenProperties DEF TypeOK
  <2>2. PICK n \in (IF "close" \in Env THEN Len(disk) ELSE Len(output'))..Len(output') :
          disk' = SubSeq(output', 1, n)
    BY <1>3 DEF CloseOutput
  <2>3. disk' \in Seq(Byte)
    BY <2>1, <2>2, PrefixType
  <2>4. input' \in Seq(Byte)
    BY <1>3, <2>3 DEF CloseOutput, SyncInput, TypeOK
  <2> QED BY <1>1, <2>3, <2>4 DEF TypeOK
<1> QED BY <1>2, <1>3 DEF Leave

\* The parts of a header, once it has been read in full.
LEMMA HeaderParts ==
  ASSUME header \in Seq(Byte), Len(header) = HeaderSize
  PROVE  /\ salt \in [1..KDF_SALT_SIZE -> Byte] /\ iv \in Block
         /\ EncKey(Master, salt) \in Key
         /\ original_size \in Nat
<1>1. /\ 0 + SIZE_BYTES <= Len(header)
      /\ SIZE_BYTES + KDF_SALT_SIZE <= Len(header)
      /\ (SIZE_BYTES + KDF_SALT_SIZE) + BLOCK_SIZE <= Len(header)
      /\ SIZE_BYTES + KDF_SALT_SIZE \in Nat /\ 0 \in Nat
  BY HeaderSizes
<1>2. salt \in Seq(Byte) /\ Len(salt) = KDF_SALT_SIZE
  BY <1>1, HeaderSizes, SliceType DEF salt
<1>3. salt \in [1..KDF_SALT_SIZE -> Byte]
  BY <1>2, LenProperties, ElementOfSeq
<1>4. iv \in Block
  BY <1>1, HeaderSizes, SliceIsBlock DEF iv
<1>5. EncKey(Master, salt) \in Key
  BY <1>3, DecryptConstants, DeriveType DEF EncKey
<1>6. original_size \in Nat
  <2>1. SizeField(header) \in Seq(Byte) /\ Len(SizeField(header)) = SIZE_BYTES
    BY <1>1, HeaderSizes, SliceType DEF SizeField
  <2> QED BY <2>1, SizeFieldIsNumber DEF original_size
<1> QED BY <1>3, <1>4, <1>5, <1>6

\* What decryption makes of a block is a block.
LEMMA DecryptedBlock ==
  ASSUME NEW key \in Key, NEW before \in Block, NEW block \in Block
  PROVE  cipher_cbc_decrypt_block(key, before, block) \in Block
<1>1. Decipher(key, block) \in Block
  BY CipherLaws
<1> QED BY <1>1, XoredBlock DEF cipher_cbc_decrypt_block

\* The length of the data in a last block, and what the clamp leaves of it.
LEMMA ClampBounds ==
  ASSUME header \in Seq(Byte), Len(header) = HeaderSize, output \in Seq(Byte), NEW last \in Block
  PROVE  LET u == cipher_remove_pkcs7_padding(last)
         IN  /\ u \in -1..BLOCK_SIZE
             /\ u >= 0 => /\ Clamp(u) \in 0..u
                          /\ SubSeq(last, 1, Clamp(u)) \in Seq(Byte)
                          /\ Len(SubSeq(last, 1, Clamp(u))) = Clamp(u)
                          /\ Len(output) <= original_size /\ original_size < Weight[SIZE_BYTES]
                               => Len(output) + Clamp(u) <= original_size
<1> DEFINE u == cipher_remove_pkcs7_padding(last)
           d == original_size - Len(output)
           w == Weight[SIZE_BYTES]
<1>1. original_size \in Nat /\ Len(output) \in Nat
  BY HeaderParts, LenProperties
<1>2. w \in Nat \ {0}
  <2>1. SIZE_BYTES \in 0..SIZE_BYTES
    BY HeaderSizes
  <2> QED BY <2>1, WeightFacts
<1>3. last[BLOCK_SIZE] \in Nat
  <2>1. BLOCK_SIZE \in 1..BLOCK_SIZE
    BY HeaderSizes
  <2> QED BY <2>1, ZeroIsByte DEF Block
<1>4. u \in -1..BLOCK_SIZE
  BY <1>3, HeaderSizes DEF cipher_remove_pkcs7_padding
<1>5. d \in Int
  BY <1>1
<1>6. Clamp(u) = Lesser(u, d % w)
  BY DEF Clamp
<1>7. last \in Seq(Byte) /\ Len(last) = BLOCK_SIZE
  BY BlockIsSeq
<1>8. ASSUME u >= 0
      PROVE  /\ Clamp(u) \in 0..u
             /\ SubSeq(last, 1, Clamp(u)) \in Seq(Byte)
             /\ Len(SubSeq(last, 1, Clamp(u))) = Clamp(u)
             /\ Len(output) <= original_size /\ original_size < w
                  => Len(output) + Clamp(u) <= original_size
  <2> HIDE DEF u, d, w
  <2>1. d % w \in 0..(w - 1)
    BY <1>2, <1>5
  <2>2. Clamp(u) \in 0..u /\ Clamp(u) <= d % w
    BY <1>2, <1>4, <1>6, <1>8, <2>1 DEF Lesser
  <2>3. Clamp(u) \in 0..Len(last)
    BY <1>4, <1>7, <2>2, HeaderSizes
  <2>4. SubSeq(last, 1, Clamp(u)) \in Seq(Byte) /\ Len(SubSeq(last, 1, Clamp(u))) = Clamp(u)
    BY <1>7, <2>3, PrefixType
  <2>5. ASSUME Len(output) <= original_size, original_size < w
        PROVE  Len(output) + Clamp(u) <= original_size
    <3>1. d \in 0..(w - 1)
      BY <1>1, <1>2, <2>5 DEF d
    <3>2. d % w = d
      BY <1>2, <3>1
    <3>3. Clamp(u) <= original_size - Len(output) /\ Clamp(u) \in Int
      BY <2>2, <3>2 DEF d
    <3> QED BY <1>1, <3>3
  <2> QED BY <2>2, <2>4, <2>5
<1> QED BY <1>4, <1>8

\* A failing fwrite.
LEMMA ShortWriteType ==
  ASSUME output \in Seq(Byte), NEW data \in Seq(Byte), ShortWrite(data)
  PROVE  output' \in Seq(Byte)
<1>1. Len(data) \in Nat
  BY LenProperties
<1>2. PICK n \in 0..(Len(data) - 1) : output' = output \o SubSeq(data, 1, n)
  BY DEF ShortWrite
<1>3. SubSeq(data, 1, n) \in Seq(Byte)
  BY <1>1, <1>2, PrefixType
<1> QED BY <1>2, <1>3, ConcatType

LEMMA OpenTypes ==
  ASSUME Types, OpenInput
  PROVE  Types'
<1>1. /\ pc = "open_input" /\ Len(header) = 0 /\ output = << >>
      /\ UNCHANGED << origin, output, fields, hmac_data, stream, prev >>
  BY DEF OpenInput, Types, Shape, HeaderBytes, OutputAccounted, BeforeVerdict
<1>2. pc' \in {"size", "done"}
  BY DEF OpenInput, Proceed, Exit, Leave
<1>3. Shape'
  BY <1>1, <1>2
  DEF fields, Shape, HeaderBytes, LastBlockKept, OutputAccounted, BeforeVerdict, Running
<1>4. TypeOK'
  <2>1. CASE Proceed("size", {"input"})
    BY <1>1, <2>1 DEF Proceed, Types, TypeOK, fields, stream, Running, Streams
  <2>2. CASE Exit(-1, {})
    <3>1. output' \in Seq(Byte) /\ {} \in SUBSET Secrets /\ TypeOK
      BY <1>1 DEF Types, TypeOK
    <3>2. /\ pc' = "done" /\ ret' \in {NoResult, 0, -1}
          /\ disk' \in Seq(Byte) /\ input' \in Seq(Byte)
          /\ held' \subseteq Streams \cup Heap \cup Secrets
      BY <2>2, <3>1, LeaveTypes DEF Exit
    <3> QED BY <1>1, <3>1, <3>2 DEF TypeOK, fields, stream, Stopped
  <2> QED BY <2>1, <2>2 DEF OpenInput
<1> QED BY <1>3, <1>4 DEF Types

\* A header field, read or missing, and the rest of what the step leaves alone.
LEMMA FieldTypes ==
  ASSUME Types, NEW size \in Nat, NEW next \in Running, NEW gained \in SUBSET Secrets,
         NEW released, ReadField(size, next, gained, released),
         UNCHANGED << origin, output, encrypted_size, stored_mac, hmac_data,
                      remaining, chunk_buf, i, prev >>
  PROVE  /\ TypeOK'
         /\ \/ pc' = next /\ Len(header') = Len(header) + size
            \/ pc' = "done"
<1>1. TypeOK /\ input \in Seq(Byte) /\ file \in Seq(Byte) /\ position \in Nat
  BY DEF Types, TypeOK, file
<1>2. PICK data \in Delivered(size) :
        \/ /\ Len(data) = size
           /\ header' = header \o data
           /\ position' = position + size
           /\ Proceed(next, gained)
        \/ /\ UNCHANGED << header, position >>
           /\ Exit(-1, released)
  BY DEF ReadField
<1>3. data \in Seq(Byte)
  BY <1>1, DeliveredType
<1>4. CASE /\ Len(data) = size
           /\ header' = header \o data
           /\ position' = position + size
           /\ Proceed(next, gained)
  <2>1. header' \in Seq(Byte) /\ Len(header') = Len(header) + size
    BY <1>1, <1>3, <1>4, ConcatType DEF TypeOK
  <2>2. position' \in Nat
    BY <1>1, <1>4
  <2> QED BY <1>1, <1>4, <2>1, <2>2 DEF Proceed, TypeOK
<1>5. CASE UNCHANGED << header, position >> /\ Exit(-1, released)
  <2>1. output' \in Seq(Byte) /\ {} \in SUBSET Secrets
    BY <1>1 DEF TypeOK
  <2>2. /\ pc' = "done" /\ ret' \in {NoResult, 0, -1}
        /\ disk' \in Seq(Byte) /\ input' \in Seq(Byte)
        /\ held' \subseteq Streams \cup Heap \cup Secrets
    BY <1>1, <1>5, <2>1, LeaveTypes DEF Exit
  <2> QED BY <1>1, <1>5, <2>1, <2>2 DEF TypeOK, Stopped
<1> QED BY <1>2, <1>4, <1>5

LEMMA HeaderStepsTypes ==
  ASSUME Types, ReadSize \/ ReadSalt \/ ReadIv
  PROVE  Types'
<1> USE DEF Shape, HeaderBytes, LastBlockKept, OutputAccounted, BeforeVerdict, Running
<1>1. CASE ReadSize
  <2>1. /\ pc = "size" /\ Len(header) = 0 /\ output = << >> /\ SIZE_BYTES \in Nat
        /\ ReadField(SIZE_BYTES, "salt", {}, {"input"}) /\ output' = output
    BY <1>1, HeaderSizes DEF ReadSize, Types
  <2>2. /\ TypeOK'
        /\ \/ pc' = "salt" /\ Len(header') = Len(header) + SIZE_BYTES
           \/ pc' = "done"
    BY <1>1, <2>1, FieldTypes DEF ReadSize
  <2> QED BY <2>1, <2>2 DEF Types
<1>2. CASE ReadSalt
  <2>1. /\ pc = "salt" /\ Len(header) = SIZE_BYTES /\ output = << >> /\ KDF_SALT_SIZE \in Nat
        /\ ReadField(KDF_SALT_SIZE, "iv", {"ctx"}, {"input"}) /\ output' = output
    BY <1>2, HeaderSizes DEF ReadSalt, Types
  <2>2. {"ctx"} \in SUBSET Secrets
    BY DEF Secrets
  <2>3. /\ TypeOK'
        /\ \/ pc' = "iv" /\ Len(header') = Len(header) + KDF_SALT_SIZE
           \/ pc' = "done"
    BY <1>2, <2>1, <2>2, FieldTypes DEF ReadSalt
  <2> QED BY <2>1, <2>3 DEF Types
<1>3. CASE ReadIv
  <2>1. /\ pc = "iv" /\ Len(header) = SIZE_BYTES + KDF_SALT_SIZE /\ output = << >>
        /\ BLOCK_SIZE \in Nat
        /\ ReadField(BLOCK_SIZE, "measure", {}, {"ctx", "input"}) /\ output' = output
    BY <1>3, HeaderSizes DEF ReadIv, Types
  <2>2. /\ TypeOK'
        /\ \/ pc' = "measure" /\ Len(header') = Len(header) + BLOCK_SIZE
           \/ pc' = "done"
    BY <1>3, <2>1, FieldTypes DEF ReadIv
  <2> QED BY <2>1, <2>2, HeaderSizes DEF Types
<1> QED BY <1>1, <1>2, <1>3

\* A return before the output is opened.
LEMMA EarlyExitTypes ==
  ASSUME Types, NEW released, Exit(-1, released), output = << >>, output' = output
  PROVE  /\ Shape' /\ pc' \in Stopped /\ ret' \in {NoResult, 0, -1}
         /\ disk' \in Seq(Byte) /\ input' \in Seq(Byte) /\ output' \in Seq(Byte)
         /\ held' \subseteq Streams \cup Heap \cup Secrets
<1>1. TypeOK /\ output' \in Seq(Byte) /\ {} \in SUBSET Secrets
  BY DEF Types, TypeOK
<1>2. /\ pc' = "done" /\ ret' \in {NoResult, 0, -1}
      /\ disk' \in Seq(Byte) /\ input' \in Seq(Byte)
      /\ held' \subseteq Streams \cup Heap \cup Secrets
  BY <1>1, LeaveTypes DEF Exit
<1> QED BY <1>1, <1>2
        DEF Shape, HeaderBytes, LastBlockKept, OutputAccounted, BeforeVerdict, Running, Stopped

LEMMA MeasuringStepsTypes ==
  ASSUME Types, Measure \/ ReadStoredMac \/ AllocChunk \/ AllocHmac
  PROVE  Types'
<1>1. TypeOK /\ Len(input) \in Nat /\ input \in Seq(Byte)
  BY LenProperties DEF Types, TypeOK
<1>2. CASE Measure
  <2>1. /\ pc = "measure" /\ Len(header) = HeaderSize /\ output = << >>
        /\ encrypted_size' = Len(input) - HeaderSize - HMAC_SIZE
        /\ UNCHANGED << origin, output, header, stored_mac, hmac_data, stream, prev >>
    BY <1>2
    DEF Measure, Types, Shape, HeaderBytes, OutputAccounted, BeforeVerdict, Running
  <2>2. encrypted_size' \in Int
    BY <1>1, <2>1, HeaderSizes
  <2>3. CASE Exit(-1, {"ctx", "input"})
    BY <1>1, <2>1, <2>2, <2>3, EarlyExitTypes DEF Types, TypeOK, stream
  <2>4. CASE /\ encrypted_size' > 0 /\ encrypted_size' % BLOCK_SIZE = 0
             /\ Proceed("stored_mac", {})
    <3> DEFINE e == encrypted_size'
    <3>1. e \in Nat /\ e > 0 /\ e % BLOCK_SIZE = 0
      BY <2>2, <2>4
    <3> HIDE DEF e
    <3>2. ~ e < BLOCK_SIZE
      <4> SUFFICES ASSUME e < BLOCK_SIZE PROVE FALSE
        OBVIOUS
      <4>1. e % BLOCK_SIZE = e
        BY <3>1, HeaderSizes
      <4> QED BY <3>1, <4>1
    <3>3. e >= BLOCK_SIZE
      BY <3>1, <3>2, HeaderSizes
    <3>4. Shape'
      BY <2>1, <2>4, <3>1, <3>3
      DEF Proceed, Shape, HeaderBytes, LastBlockKept, OutputAccounted, BeforeVerdict, Running, e
    <3>5. TypeOK'
      BY <1>1, <2>1, <2>2, <2>4 DEF Proceed, TypeOK, stream, Running
    <3> QED BY <3>4, <3>5 DEF Types
  <2> QED BY <1>2, <2>3, <2>4 DEF Measure
<1>3. CASE ReadStoredMac
  <2>1. /\ pc = "stored_mac" /\ Len(header) = HeaderSize /\ output = << >>
        /\ encrypted_size \in Nat /\ encrypted_size >= BLOCK_SIZE
        /\ UNCHANGED << origin, output, header, encrypted_size, hmac_data,
                        remaining, chunk_buf, i, prev >>
    BY <1>3
    DEF ReadStoredMac, Types, Shape, HeaderBytes, LastBlockKept, OutputAccounted, BeforeVerdict,
        Running
  <2>2. CASE UNCHANGED << stored_mac, position >> /\ Exit(-1, {"ctx", "input"})
    BY <1>1, <2>1, <2>2, EarlyExitTypes DEF Types, TypeOK
  <2>3. CASE /\ Len(input) >= HMAC_SIZE
             /\ stored_mac' = Slice(input, Len(input) - HMAC_SIZE, HMAC_SIZE)
             /\ position' = HeaderSize
             /\ Proceed("alloc_chunk", {})
    <3>1. stored_mac' \in Seq(Byte)
      <4>1. /\ Len(input) - HMAC_SIZE \in Nat /\ HMAC_SIZE \in Nat
            /\ (Len(input) - HMAC_SIZE) + HMAC_SIZE <= Len(input)
        BY <1>1, <2>3, HeaderSizes
      <4> QED BY <1>1, <2>3, <4>1, SliceType
    <3>2. position' \in Nat
      BY <2>3, HeaderSizes
    <3>3. Shape'
      BY <2>1, <2>3
      DEF Proceed, Shape, HeaderBytes, LastBlockKept, OutputAccounted, BeforeVerdict, Running
    <3>4. TypeOK'
      BY <1>1, <2>1, <2>3, <3>1, <3>2 DEF Proceed, TypeOK, Running
    <3> QED BY <3>3, <3>4 DEF Types
  <2> QED BY <1>3, <2>2, <2>3 DEF ReadStoredMac
<1>4. CASE AllocChunk
  <2>1. /\ pc = "alloc_chunk" /\ Len(header) = HeaderSize /\ output = << >>
        /\ encrypted_size \in Nat /\ encrypted_size >= BLOCK_SIZE
        /\ UNCHANGED << origin, output, fields, hmac_data, stream, prev >>
    BY <1>4
    DEF AllocChunk, Types, Shape, HeaderBytes, LastBlockKept, OutputAccounted, BeforeVerdict,
        Running
  <2>2. CASE Exit(-1, {"ctx", "input"})
    BY <1>1, <2>1, <2>2, EarlyExitTypes DEF Types, TypeOK, fields, stream
  <2>3. CASE Proceed("alloc_hmac", {"chunk_buf"})
    <3>1. Shape'
      BY <2>1, <2>3
      DEF Proceed, fields, Shape, HeaderBytes, LastBlockKept, OutputAccounted, BeforeVerdict,
          Running
    <3>2. TypeOK'
      BY <1>1, <2>1, <2>3 DEF Proceed, TypeOK, fields, stream, Running, Heap
    <3> QED BY <3>1, <3>2 DEF Types
  <2> QED BY <1>4, <2>2, <2>3 DEF AllocChunk, Allocate
<1>5. CASE AllocHmac
  <2>1. /\ pc = "alloc_hmac" /\ Len(header) = HeaderSize /\ output = << >>
        /\ encrypted_size \in Nat /\ encrypted_size >= BLOCK_SIZE
        /\ remaining' = encrypted_size
        /\ UNCHANGED << origin, output, fields, hmac_data, position, chunk_buf, i, prev >>
    BY <1>5
    DEF AllocHmac, Types, Shape, HeaderBytes, LastBlockKept, OutputAccounted, BeforeVerdict,
        Running
  <2>2. CASE Exit(-1, {"ctx", "chunk_buf", "input"})
    BY <1>1, <2>1, <2>2, EarlyExitTypes DEF Types, TypeOK, fields
  <2>3. CASE Proceed("mac_read", {"hmac_data"})
    <3>1. Shape'
      BY <2>1, <2>3
      DEF Proceed, fields, Shape, HeaderBytes, LastBlockKept, OutputAccounted, BeforeVerdict,
          Running
    <3>2. TypeOK'
      BY <1>1, <2>1, <2>3 DEF Proceed, TypeOK, fields, Running, Heap
    <3> QED BY <3>1, <3>2 DEF Types
  <2> QED BY <1>5, <2>2, <2>3 DEF AllocHmac, Allocate
<1> QED BY <1>2, <1>3, <1>4, <1>5

LEMMA VerdictStepsTypes ==
  ASSUME Types, ReadForMac \/ Verify
  PROVE  Types'
<1>1. TypeOK /\ input \in Seq(Byte) /\ file \in Seq(Byte) /\ position \in Nat /\ remaining \in Nat
  BY DEF Types, TypeOK, file
<1>2. CASE ReadForMac
  <2>1. /\ pc = "mac_read" /\ Len(header) = HeaderSize /\ output = << >>
        /\ encrypted_size \in Nat /\ encrypted_size >= BLOCK_SIZE
        /\ UNCHANGED << origin, output, fields, i, prev >>
    BY <1>2
    DEF ReadForMac, Types, Shape, HeaderBytes, LastBlockKept, OutputAccounted, BeforeVerdict,
        Running
  <2>2. pc' \in {"mac_read", "verify"} /\ UNCHANGED << ret, held, disk, input >>
    BY <1>2 DEF ReadForMac, Proceed
  <2>3. Shape'
    BY <2>1, <2>2
    DEF fields, Shape, HeaderBytes, LastBlockKept, OutputAccounted, BeforeVerdict, Running
  <2>4. CASE UNCHANGED << hmac_data, position, remaining, chunk_buf >>
    BY <1>1, <2>1, <2>2, <2>3, <2>4 DEF Types, TypeOK, fields, Running
  <2>5. CASE \E data \in Delivered(Lesser(remaining, STREAM_CHUNK)) :
               /\ hmac_data' = hmac_data \o data
               /\ position' = position + Len(data)
               /\ remaining' = remaining - Len(data)
               /\ chunk_buf' = data
    <3>1. PICK data \in Delivered(Lesser(remaining, STREAM_CHUNK)) :
               /\ hmac_data' = hmac_data \o data
               /\ position' = position + Len(data)
               /\ remaining' = remaining - Len(data)
               /\ chunk_buf' = data
      BY <2>5
    <3>2. Lesser(remaining, STREAM_CHUNK) \in Nat /\ Lesser(remaining, STREAM_CHUNK) <= remaining
      BY <1>1, HeaderSizes DEF Lesser
    <3>3. data \in Seq(Byte) /\ Len(data) \in 0..Lesser(remaining, STREAM_CHUNK)
      BY <1>1, <3>2, DeliveredType
    <3>4. position' \in Nat /\ remaining' \in Nat
      BY <1>1, <3>1, <3>2, <3>3
    <3>5. hmac_data' \in Seq(Byte) /\ chunk_buf' \in Seq(Byte)
      BY <1>1, <3>1, <3>3, ConcatType DEF TypeOK
    <3> QED BY <1>1, <2>1, <2>2, <2>3, <3>4, <3>5 DEF Types, TypeOK, fields, Running
  <2> QED BY <1>2, <2>4, <2>5 DEF ReadForMac
<1>3. CASE Verify
  <2>1. /\ pc = "verify" /\ Len(header) = HeaderSize /\ output = << >>
        /\ encrypted_size \in Nat /\ encrypted_size >= BLOCK_SIZE
        /\ UNCHANGED << origin, output, fields, hmac_data, stream, prev >>
    BY <1>3
    DEF Verify, Types, Shape, HeaderBytes, LastBlockKept, OutputAccounted, BeforeVerdict,
        Running
  <2>2. CASE Exit(-1, {"hmac_data", "ctx", "chunk_buf", "input"})
    BY <1>1, <2>1, <2>2, EarlyExitTypes DEF Types, TypeOK, fields, stream
  <2>3. CASE /\ pc' = "open_output" /\ held' = held \ {"hmac_data"}
             /\ UNCHANGED << ret, disk, input >>
    <3>1. Shape'
      BY <2>1, <2>3
      DEF fields, Shape, HeaderBytes, LastBlockKept, OutputAccounted, BeforeVerdict, Running
    <3>2. TypeOK'
      BY <1>1, <2>1, <2>3 DEF TypeOK, fields, stream, Running
    <3> QED BY <3>1, <3>2 DEF Types
  <2> QED BY <1>3, <2>2, <2>3 DEF Verify
<1> QED BY <1>2, <1>3

\* A return once the output is open.
LEMMA LateExitTypes ==
  ASSUME TypeOK, NEW code \in {0, -1}, NEW released, NEW left \in SUBSET Secrets,
         Leave(code, released, left), output' \in Seq(Byte)
  PROVE  /\ Shape' /\ pc' \in Stopped /\ ret' \in {NoResult, 0, -1}
         /\ disk' \in Seq(Byte) /\ input' \in Seq(Byte)
         /\ held' \subseteq Streams \cup Heap \cup Secrets
<1>1. /\ pc' = "done" /\ ret' \in {NoResult, 0, -1}
      /\ disk' \in Seq(Byte) /\ input' \in Seq(Byte)
      /\ held' \subseteq Streams \cup Heap \cup Secrets
  BY LeaveTypes
<1> QED BY <1>1
        DEF Shape, HeaderBytes, LastBlockKept, OutputAccounted, BeforeVerdict, Running, Stopped

\* What holds while blocks are decrypted.
LEMMA InTheLoop ==
  ASSUME Types, pc \in {"open_output", "read", "blocks", "last", "finish"}
  PROVE  /\ TypeOK /\ header \in Seq(Byte) /\ Len(header) = HeaderSize
         /\ encrypted_size \in Nat /\ encrypted_size >= BLOCK_SIZE
         /\ output \in Seq(Byte) /\ Len(output) \in Nat
         /\ input \in Seq(Byte) /\ file \in Seq(Byte)
         /\ chunk_buf \in Seq(Byte) /\ Len(chunk_buf) \in Nat
         /\ i \in Nat /\ position \in Nat /\ remaining \in Nat
         /\ EncKey(Master, salt) \in Key /\ iv \in Block
<1>1. /\ TypeOK /\ Len(header) = HeaderSize
      /\ encrypted_size \in Nat /\ encrypted_size >= BLOCK_SIZE
  BY DEF Types, Shape, HeaderBytes, LastBlockKept, Running
<1>2. /\ header \in Seq(Byte) /\ output \in Seq(Byte) /\ input \in Seq(Byte)
      /\ chunk_buf \in Seq(Byte) /\ file \in Seq(Byte)
      /\ i \in Nat /\ position \in Nat /\ remaining \in Nat
  BY <1>1 DEF TypeOK, file
<1> QED BY <1>1, <1>2, LenProperties, HeaderParts

LEMMA OpenOutputTypes ==
  ASSUME Types, OpenOutput
  PROVE  Types'
<1>1. /\ pc = "open_output" /\ output = << >>
      /\ prev' = iv /\ position' = HeaderSize /\ remaining' = encrypted_size - BLOCK_SIZE
      /\ UNCHANGED << origin, output, fields, hmac_data, chunk_buf, i >>
  BY DEF OpenOutput, Types, Shape, OutputAccounted
<1>2. /\ TypeOK /\ header \in Seq(Byte) /\ Len(header) = HeaderSize /\ iv \in Block
      /\ encrypted_size \in Nat /\ encrypted_size >= BLOCK_SIZE
  BY <1>1, InTheLoop
<1>3. prev' \in Seq(Byte) /\ position' \in Nat /\ remaining' \in Nat
  BY <1>1, <1>2, BlockIsSeq, HeaderSizes
<1>4. CASE Exit(-1, {"ctx", "chunk_buf", "input"})
  BY <1>1, <1>2, <1>3, <1>4, EarlyExitTypes DEF Types, TypeOK, fields
<1>5. CASE /\ pc' = "read" /\ held' = held \cup {"output"} /\ disk' = << >>
           /\ SyncInput /\ UNCHANGED ret
  <2>1. disk' \in Seq(Byte) /\ input' \in Seq(Byte)
    BY <1>2, <1>5, EmptySeq DEF SyncInput, TypeOK
  <2>2. TypeOK'
    BY <1>1, <1>2, <1>3, <1>5, <2>1 DEF TypeOK, fields, Running, Streams
  <2>3. Len(output') + remaining' + BLOCK_SIZE <= encrypted_size'
    <3>1. Len(output') = 0 /\ encrypted_size' = encrypted_size
      BY <1>1, EmptySeq DEF fields
    <3> QED BY <1>1, <1>2, <3>1, HeaderSizes
  <2>4. Shape'
    BY <1>1, <1>2, <1>5, <2>3
    DEF fields, Shape, HeaderBytes, LastBlockKept, OutputAccounted, BeforeVerdict, Running
  <2> QED BY <2>2, <2>4 DEF Types
<1> QED BY <1>4, <1>5 DEF OpenOutput

LEMMA ReadChunkTypes ==
  ASSUME Types, ReadChunk
  PROVE  Types'
<1>1. /\ pc = "read" /\ prev \in Block
      /\ Len(output) + remaining + BLOCK_SIZE <= encrypted_size
      /\ UNCHANGED << origin, output, fields, hmac_data, prev >>
  BY DEF ReadChunk, Types, Shape, OutputAccounted
<1>2. /\ TypeOK /\ Len(header) = HeaderSize /\ Len(output) \in Nat
      /\ encrypted_size \in Nat /\ encrypted_size >= BLOCK_SIZE
      /\ input \in Seq(Byte) /\ file \in Seq(Byte) /\ position \in Nat /\ remaining \in Nat
  BY <1>1, InTheLoop
<1>3. CASE UNCHANGED stream /\ Proceed("last", {})
  <2>1. TypeOK'
    BY <1>1, <1>2, <1>3 DEF Proceed, stream, fields, TypeOK, Running
  <2>2. Shape'
    BY <1>1, <1>2, <1>3
    DEF Proceed, stream, fields, Shape, HeaderBytes, LastBlockKept, OutputAccounted,
        BeforeVerdict, Running
  <2> QED BY <2>1, <2>2 DEF Types
<1>4. CASE \E data \in Delivered(Lesser(remaining, STREAM_CHUNK)) :
             /\ position' = position + Len(data)
             /\ remaining' = remaining - Len(data)
             /\ chunk_buf' = data
             /\ i' = 0
             /\ Proceed("blocks", {})
  <2>1. PICK data \in Delivered(Lesser(remaining, STREAM_CHUNK)) :
             /\ position' = position + Len(data)
             /\ remaining' = remaining - Len(data)
             /\ chunk_buf' = data
             /\ i' = 0
             /\ Proceed("blocks", {})
    BY <1>4
  <2>2. Lesser(remaining, STREAM_CHUNK) \in Nat /\ Lesser(remaining, STREAM_CHUNK) <= remaining
    BY <1>2, HeaderSizes DEF Lesser
  <2>3. data \in Seq(Byte) /\ Len(data) \in 0..Lesser(remaining, STREAM_CHUNK)
    BY <1>2, <2>2, DeliveredType
  <2>4. /\ position' \in Nat /\ remaining' \in Nat
        /\ i' \in Nat /\ i' <= Len(data)
        /\ Len(output) + (Len(data) - i') + remaining' + BLOCK_SIZE <= encrypted_size
    BY <1>1, <1>2, <2>1, <2>2, <2>3, HeaderSizes
  <2>5. TypeOK'
    BY <1>1, <1>2, <2>1, <2>3, <2>4 DEF Proceed, fields, TypeOK, Running
  <2>6. Shape'
    BY <1>1, <1>2, <2>1, <2>4
    DEF Proceed, fields, Shape, HeaderBytes, LastBlockKept, OutputAccounted, BeforeVerdict,
        Running
  <2> QED BY <2>5, <2>6 DEF Types
<1> QED BY <1>3, <1>4 DEF ReadChunk

LEMMA BlockStepsTypes ==
  ASSUME Types, DecryptWhole \/ EndOfChunk
  PROVE  Types'
<1>1. /\ pc = "blocks" /\ prev \in Block /\ i <= Len(chunk_buf)
      /\ Len(output) + (Len(chunk_buf) - i) + remaining + BLOCK_SIZE <= encrypted_size
  BY DEF DecryptWhole, EndOfChunk, Types, Shape, OutputAccounted
<1>2. /\ TypeOK /\ Len(header) = HeaderSize /\ output \in Seq(Byte) /\ Len(output) \in Nat
      /\ encrypted_size \in Nat /\ encrypted_size >= BLOCK_SIZE
      /\ chunk_buf \in Seq(Byte) /\ Len(chunk_buf) \in Nat /\ i \in Nat /\ remaining \in Nat
      /\ EncKey(Master, salt) \in Key
  BY <1>1, InTheLoop
<1>3. CASE DecryptWhole
  <2> DEFINE block     == Slice(chunk_buf, i, BLOCK_SIZE)
             decrypted == cipher_cbc_decrypt_block(EncKey(Master, salt), prev, block)
  <2>1. /\ i + BLOCK_SIZE <= Len(chunk_buf)
        /\ prev' = block
        /\ UNCHANGED << origin, fields, hmac_data, position, remaining, chunk_buf >>
        /\ \/ /\ output' = output \o decrypted
              /\ i' = i + BLOCK_SIZE
              /\ Proceed("blocks", {"decrypted"})
           \/ /\ ShortWrite(decrypted)
              /\ i' = i
              /\ Leave(-1, LoopResources, {"decrypted"})
    BY <1>3 DEF DecryptWhole
  <2>2. block \in Block /\ block \in Seq(Byte)
    BY <1>2, <2>1, SliceIsBlock, BlockIsSeq
  <2>3. decrypted \in Seq(Byte) /\ Len(decrypted) = BLOCK_SIZE
    BY <1>1, <1>2, <2>2, DecryptedBlock, BlockIsSeq
  <2> HIDE DEF block, decrypted
  <2>4. {"decrypted"} \in SUBSET Secrets
    BY DEF Secrets
  <2>5. CASE /\ output' = output \o decrypted /\ i' = i + BLOCK_SIZE
             /\ Proceed("blocks", {"decrypted"})
    <3>1. output' \in Seq(Byte) /\ Len(output') = Len(output) + BLOCK_SIZE
      BY <1>2, <2>3, <2>5, ConcatType
    <3>2. /\ i' \in Nat /\ i' <= Len(chunk_buf)
          /\ Len(output') + (Len(chunk_buf) - i') + remaining + BLOCK_SIZE <= encrypted_size
      BY <1>1, <1>2, <2>1, <2>5, <3>1, HeaderSizes
    <3>3. TypeOK'
      BY <1>2, <2>1, <2>2, <2>4, <2>5, <3>1, <3>2 DEF Proceed, fields, TypeOK, Running
    <3>4. Shape'
      BY <1>2, <2>1, <2>2, <2>5, <3>2
      DEF Proceed, fields, Shape, HeaderBytes, LastBlockKept, OutputAccounted, BeforeVerdict,
          Running
    <3> QED BY <3>3, <3>4 DEF Types
  <2>6. CASE ShortWrite(decrypted) /\ i' = i /\ Leave(-1, LoopResources, {"decrypted"})
    <3>1. output' \in Seq(Byte)
      BY <1>2, <2>3, <2>6, ShortWriteType
    <3>2. /\ Shape' /\ pc' \in Stopped /\ ret' \in {NoResult, 0, -1}
          /\ disk' \in Seq(Byte) /\ input' \in Seq(Byte)
          /\ held' \subseteq Streams \cup Heap \cup Secrets
      BY <1>2, <2>4, <2>6, <3>1, LateExitTypes
    <3> QED BY <1>2, <2>1, <2>2, <2>6, <3>1, <3>2 DEF Types, TypeOK, fields
  <2> QED BY <2>1, <2>5, <2>6
<1>4. CASE EndOfChunk
  <2>1. /\ Proceed("read", {})
        /\ UNCHANGED << origin, output, fields, hmac_data, stream, prev >>
    BY <1>4 DEF EndOfChunk
  <2>2. Len(output) + remaining + BLOCK_SIZE <= encrypted_size
    BY <1>1, <1>2, HeaderSizes
  <2>3. TypeOK'
    BY <1>2, <2>1 DEF Proceed, fields, stream, TypeOK, Running
  <2>4. Shape'
    BY <1>1, <1>2, <2>1, <2>2
    DEF Proceed, fields, stream, Shape, HeaderBytes, LastBlockKept, OutputAccounted,
        BeforeVerdict, Running
  <2> QED BY <2>3, <2>4 DEF Types
<1> QED BY <1>3, <1>4

\* The last block's step: nothing read, a malformed padding, or data written
\* whole or in part, `data' being what the clamp leaves.
LEMMA LastBlockCases ==
  ASSUME Types, DecryptLast
  PROVE  /\ pc = "last" /\ UNCHANGED << origin, fields, hmac_data, remaining, chunk_buf, i >>
         /\ position' \in Nat /\ prev' \in Seq(Byte)
         /\ \/ output' = output /\ Proceed("finish", {})
            \/ \E block \in Block \cap Delivered(BLOCK_SIZE) :
                 LET last == cipher_cbc_decrypt_block(EncKey(Master, salt), prev, block)
                     u    == cipher_remove_pkcs7_padding(last)
                     data == SubSeq(last, 1, Clamp(u))
                 IN  /\ last \in Block
                     /\ \/ /\ u = -1
                           /\ output' = output
                           /\ Leave(-1, LoopResources, {"last_decrypted"})
                        \/ /\ u >= 0
                           /\ output' = output \o data
                           /\ Proceed("finish", {"last_decrypted"})
                        \/ /\ u > 0
                           /\ ShortWrite(data)
                           /\ Leave(-1, LoopResources, {"last_decrypted"})
<1>1. /\ pc = "last" /\ prev \in Block
      /\ UNCHANGED << origin, fields, hmac_data, remaining, chunk_buf, i >>
  BY DEF DecryptLast, Types, Shape, OutputAccounted
<1>2. /\ TypeOK /\ input \in Seq(Byte) /\ file \in Seq(Byte) /\ position \in Nat
      /\ EncKey(Master, salt) \in Key
  BY <1>1, InTheLoop
<1> DEFINE last(b) == cipher_cbc_decrypt_block(EncKey(Master, salt), prev, b)
           u(b)    == cipher_remove_pkcs7_padding(last(b))
           data(b) == SubSeq(last(b), 1, Clamp(u(b)))
<1>3. PICK block \in Delivered(BLOCK_SIZE) :
        /\ position' = position + Len(block)
        /\ \/ /\ Len(block) < BLOCK_SIZE
              /\ UNCHANGED << output, prev >>
              /\ Proceed("finish", {})
           \/ /\ ~ Len(block) < BLOCK_SIZE
              /\ prev' = block
              /\ \/ /\ u(block) = -1
                    /\ output' = output
                    /\ Leave(-1, LoopResources, {"last_decrypted"})
                 \/ /\ u(block) >= 0
                    /\ output' = output \o data(block)
                    /\ Proceed("finish", {"last_decrypted"})
                 \/ /\ u(block) > 0
                    /\ ShortWrite(data(block))
                    /\ Leave(-1, LoopResources, {"last_decrypted"})
  BY DEF DecryptLast
<1> HIDE DEF last, u, data
<1>4. block \in Seq(Byte) /\ Len(block) \in 0..BLOCK_SIZE
  BY <1>2, HeaderSizes, DeliveredType
<1>5. position' \in Nat
  BY <1>2, <1>3, <1>4
<1>6. CASE Len(block) < BLOCK_SIZE
  BY <1>1, <1>2, <1>3, <1>5, <1>6 DEF TypeOK
<1>7. CASE ~ Len(block) < BLOCK_SIZE
  <2>1. Len(block) = BLOCK_SIZE
    BY <1>4, <1>7, HeaderSizes
  <2>2. block \in Block
    BY <1>4, <2>1, SeqIsBlock
  <2>3. last(block) \in Block
    BY <1>1, <1>2, <2>2, DecryptedBlock DEF last
  <2>4. block \in Block \cap Delivered(BLOCK_SIZE)
    BY <2>2
  <2>5. \E b \in Block \cap Delivered(BLOCK_SIZE) :
          /\ last(b) \in Block
          /\ \/ /\ u(b) = -1
                /\ output' = output
                /\ Leave(-1, LoopResources, {"last_decrypted"})
             \/ /\ u(b) >= 0
                /\ output' = output \o data(b)
                /\ Proceed("finish", {"last_decrypted"})
             \/ /\ u(b) > 0
                /\ ShortWrite(data(b))
                /\ Leave(-1, LoopResources, {"last_decrypted"})
    BY <1>3, <1>7, <2>3, <2>4
  <2>6. prev' \in Seq(Byte)
    BY <1>3, <1>4, <1>7
  <2> QED BY <1>1, <1>5, <2>5, <2>6 DEF last, u, data
<1> QED BY <1>6, <1>7

LEMMA LastStepsTypes ==
  ASSUME Types, DecryptLast \/ Finish
  PROVE  Types'
<1>1. pc \in {"last", "finish"}
  BY DEF DecryptLast, Finish
<1>2. /\ TypeOK /\ header \in Seq(Byte) /\ Len(header) = HeaderSize
      /\ encrypted_size \in Nat /\ encrypted_size >= BLOCK_SIZE /\ output \in Seq(Byte)
  BY <1>1, InTheLoop
<1>3. CASE DecryptLast
  <2>1. /\ UNCHANGED << origin, fields, hmac_data, remaining, chunk_buf, i >>
        /\ position' \in Nat /\ prev' \in Seq(Byte)
    BY <1>3, LastBlockCases
  <2>2. {"last_decrypted"} \in SUBSET Secrets
    BY DEF Secrets
  <2>3. \/ output' \in Seq(Byte) /\ (Proceed("finish", {}) \/ Proceed("finish", {"last_decrypted"}))
        \/ output' \in Seq(Byte) /\ Leave(-1, LoopResources, {"last_decrypted"})
    <3>1. CASE output' = output /\ Proceed("finish", {})
      BY <1>2, <3>1
    <3>2. CASE ~ (output' = output /\ Proceed("finish", {}))
      <4> DEFINE last(b) == cipher_cbc_decrypt_block(EncKey(Master, salt), prev, b)
                 u(b)    == cipher_remove_pkcs7_padding(last(b))
                 data(b) == SubSeq(last(b), 1, Clamp(u(b)))
      <4>1. PICK block \in Block \cap Delivered(BLOCK_SIZE) :
              /\ last(block) \in Block
              /\ \/ /\ u(block) = -1
                    /\ output' = output
                    /\ Leave(-1, LoopResources, {"last_decrypted"})
                 \/ /\ u(block) >= 0
                    /\ output' = output \o data(block)
                    /\ Proceed("finish", {"last_decrypted"})
                 \/ /\ u(block) > 0
                    /\ ShortWrite(data(block))
                    /\ Leave(-1, LoopResources, {"last_decrypted"})
        BY <1>3, <3>2, LastBlockCases
      <4>2. /\ u(block) \in -1..BLOCK_SIZE
            /\ u(block) >= 0 => data(block) \in Seq(Byte)
        BY <1>2, <4>1, ClampBounds
      <4> HIDE DEF last, u, data
      <4>3. (u(block) > 0 => u(block) >= 0)
        BY <4>2, HeaderSizes
      <4>4. CASE output' = output
        BY <1>2, <4>1, <4>4
      <4>5. CASE u(block) >= 0 /\ output' = output \o data(block)
        BY <1>2, <4>1, <4>2, <4>5, ConcatType
      <4>6. CASE u(block) > 0 /\ ShortWrite(data(block))
        BY <1>2, <4>1, <4>2, <4>3, <4>6, ShortWriteType
      <4> QED BY <4>1, <4>4, <4>5, <4>6
    <3> QED BY <3>1, <3>2
  <2>4. CASE /\ output' \in Seq(Byte)
             /\ Proceed("finish", {}) \/ Proceed("finish", {"last_decrypted"})
    <3>1. TypeOK'
      BY <1>2, <2>1, <2>2, <2>4 DEF Proceed, fields, TypeOK, Running
    <3>2. Shape'
      BY <1>2, <2>1, <2>4
      DEF Proceed, fields, Shape, HeaderBytes, LastBlockKept, OutputAccounted, BeforeVerdict,
          Running
    <3> QED BY <3>1, <3>2 DEF Types
  <2>5. CASE output' \in Seq(Byte) /\ Leave(-1, LoopResources, {"last_decrypted"})
    <3>1. /\ Shape' /\ pc' \in Stopped /\ ret' \in {NoResult, 0, -1}
          /\ disk' \in Seq(Byte) /\ input' \in Seq(Byte)
          /\ held' \subseteq Streams \cup Heap \cup Secrets
      BY <1>2, <2>2, <2>5, LateExitTypes
    <3> QED BY <1>2, <2>1, <2>5, <3>1 DEF Types, TypeOK, fields
  <2> QED BY <2>3, <2>4, <2>5
<1>4. CASE Finish
  <2>1. /\ output' = output /\ Leave(0, LoopResources \cup {"last_decrypted"}, {})
        /\ UNCHANGED << origin, fields, hmac_data, stream, prev >>
    BY <1>4 DEF Finish, Exit
  <2>2. {} \in SUBSET Secrets /\ output' \in Seq(Byte)
    BY <1>2, <2>1
  <2>3. /\ Shape' /\ pc' \in Stopped /\ ret' \in {NoResult, 0, -1}
        /\ disk' \in Seq(Byte) /\ input' \in Seq(Byte)
        /\ held' \subseteq Streams \cup Heap \cup Secrets
    BY <1>2, <2>1, <2>2, LateExitTypes
  <2> QED BY <1>2, <2>1, <2>2, <2>3 DEF Types, TypeOK, fields, stream
<1> QED BY <1>3, <1>4

LEMMA StepTypes == Types /\ [Next]_vars => Types'
<1> SUFFICES ASSUME Types, [Next]_vars PROVE Types'
  OBVIOUS
<1>1. CASE Program
  BY <1>1, OpenTypes, HeaderStepsTypes, MeasuringStepsTypes, VerdictStepsTypes, OpenOutputTypes,
     ReadChunkTypes, BlockStepsTypes, LastStepsTypes DEF Program
<1>2. ASSUME UNCHANGED << pc, ret, origin, output, fields, hmac_data, stream, prev, held >>,
             disk' \in Seq(Byte), input' \in Seq(Byte)
      PROVE  Types'
  BY <1>2
  DEF Types, TypeOK, Shape, HeaderBytes, LastBlockKept, OutputAccounted, fields, stream
<1>3. CASE Flush
  <2>1. /\ UNCHANGED << pc, ret, origin, output, fields, hmac_data, stream, prev, held >>
        /\ SyncInput
    BY <1>3 DEF Flush
  <2>2. PICK n \in (Len(disk) + 1)..Len(output) : disk' = SubSeq(output, 1, n)
    BY <1>3 DEF Flush
  <2>3. output \in Seq(Byte) /\ n \in 0..Len(output)
    BY <2>2, LenProperties DEF Types, TypeOK
  <2>4. disk' \in Seq(Byte)
    BY <2>2, <2>3, PrefixType
  <2> QED BY <1>2, <2>1, <2>4 DEF SyncInput, Types, TypeOK
<1>4. CASE ChangeInput
  <2>1. UNCHANGED << pc, ret, origin, disk, output, fields, hmac_data, stream, prev, held >>
    BY <1>4 DEF ChangeInput
  <2>2. input \in Seq(Byte) /\ disk \in Seq(Byte) /\ Len(input) \in Nat
    BY LenProperties DEF Types, TypeOK
  <2>3. CASE \E k \in DOMAIN input : input' = [input EXCEPT ![k] = (@ + 1) % ByteBase]
    <3>1. PICK k \in DOMAIN input : input' = [input EXCEPT ![k] = (input[k] + 1) % ByteBase]
      BY <2>3
    <3>2. (input[k] + 1) % ByteBase \in Byte
      <4>1. input[k] \in Nat
        BY <2>2, <3>1, ZeroIsByte, LenProperties, ElementOfSeq
      <4> QED BY <4>1, SizesPositive DEF Byte
    <3>3. input' \in Seq(Byte)
      BY <2>2, <3>1, <3>2, ExceptSeq
    <3> QED BY <1>2, <2>1, <2>2, <3>3
  <2>4. CASE Len(input) > 0 /\ input' = SubSeq(input, 1, Len(input) - 1)
    <3>1. Len(input) - 1 \in 0..Len(input)
      BY <2>2, <2>4
    <3>2. input' \in Seq(Byte)
      BY <2>2, <2>4, <3>1, PrefixType
    <3> QED BY <1>2, <2>1, <2>2, <3>2
  <2> QED BY <1>4, <2>3, <2>4 DEF ChangeInput
<1>5. CASE Crash
  <2>1. /\ pc' = "crashed" /\ held' = {}
        /\ UNCHANGED << ret, files, fields, hmac_data, stream, prev >>
    BY <1>5 DEF Crash
  <2>2. TypeOK'
    BY <2>1 DEF Types, TypeOK, files, fields, stream, Stopped
  <2>3. Shape'
    BY <2>1 DEF Shape, HeaderBytes, LastBlockKept, OutputAccounted, BeforeVerdict, Running
  <2> QED BY <2>2, <2>3 DEF Types
<1>6. CASE Over \/ UNCHANGED vars
  BY <1>2, <1>6 DEF Over, vars, files, Types, TypeOK
<1> QED BY <1>1, <1>3, <1>4, <1>5, <1>6 DEF Next

LEMMA InitTypes == Init => Types
<1> SUFFICES ASSUME Init PROVE Types
  OBVIOUS
<1>1. origin \in [file : Seq(Byte), plain : Seq(Byte), size : Nat, genuine : BOOLEAN]
  BY DecryptConstants DEF Init
<1>2. TypeOK
  BY <1>1, DecryptConstants, EmptySeq DEF Init, TypeOK, Running, NoResult
<1>3. Shape
  BY EmptySeq
  DEF Init, Shape, HeaderBytes, LastBlockKept, OutputAccounted, BeforeVerdict, Running
<1> QED BY <1>2, <1>3 DEF Types

\* cipher_decrypt_file's variables keep their types, whatever calls fail and
\* whatever becomes of the files (cipher.c:236-468): no size, count or offset is
\* ever negative, and the previous block of the chain is always a whole one.
THEOREM TypeCorrect == Spec => []TypeOK
<1>1. Types => TypeOK
  BY DEF Types
<1> QED BY <1>1, InitTypes, StepTypes, PTL DEF Spec

-----------------------------------------------------------------------------
(* Authentic files.                                                        *)

AfterVerdict == {"open_output", "read", "blocks", "last", "finish"}

\* Only a genuine file comes past the verdict, and its header is still known.
PastVerdict ==
  /\ origin \in Files
  /\ ~ origin.genuine => Unopened
  /\ pc \in BeforeVerdict => Unopened
  /\ pc \in AfterVerdict => /\ origin.genuine /\ input = file
                            /\ header = SubSeq(file, 1, HeaderSize) /\ HeaderSize <= Len(file)
                            /\ encrypted_size = CiphertextSize(file)

\* The fields of a header that was read from the file are the file's.
LEMMA FieldsOfFile ==
  ASSUME origin \in Files, header = SubSeq(file, 1, HeaderSize), HeaderSize <= Len(file)
  PROVE  /\ header \in Seq(Byte) /\ Len(header) = HeaderSize
         /\ SizeField(header) = SizeField(file) /\ salt = SaltField(file) /\ iv = IvField(file)
<1>1. file \in Seq(Byte) /\ Len(file) \in Nat /\ 0 \in Nat /\ 0 + HeaderSize <= Len(file)
      /\ 0 + 1 = 1 /\ 0 + HeaderSize = HeaderSize
  BY FileIsBytes, LenProperties, HeaderSizes
<1>2. header = Slice(file, 0, HeaderSize)
  BY <1>1 DEF Slice
<1>3. header \in Seq(Byte) /\ Len(header) = HeaderSize
  BY <1>1, <1>2, HeaderSizes, SliceType
<1>4. SizeField(header) = SizeField(file)
  <2>1. 0 + SIZE_BYTES <= HeaderSize /\ 0 + 0 = 0
    BY HeaderSizes
  <2>2. Slice(Slice(file, 0, HeaderSize), 0, SIZE_BYTES) = Slice(file, 0 + 0, SIZE_BYTES)
    BY <1>1, <2>1, HeaderSizes, SliceOfSlice
  <2> QED BY <1>2, <2>1, <2>2 DEF SizeField
<1>5. salt = SaltField(file)
  <2>1. SIZE_BYTES + KDF_SALT_SIZE <= HeaderSize /\ 0 + SIZE_BYTES = SIZE_BYTES
    BY HeaderSizes
  <2>2. Slice(Slice(file, 0, HeaderSize), SIZE_BYTES, KDF_SALT_SIZE)
          = Slice(file, 0 + SIZE_BYTES, KDF_SALT_SIZE)
    BY <1>1, <2>1, HeaderSizes, SliceOfSlice
  <2> QED BY <1>2, <2>1, <2>2 DEF salt, SaltField
<1>6. iv = IvField(file)
  <2> DEFINE at == SIZE_BYTES + KDF_SALT_SIZE
  <2>1. at \in Nat /\ at + BLOCK_SIZE <= HeaderSize /\ 0 + at = at
    BY HeaderSizes
  <2>2. iv = Slice(Slice(file, 0, HeaderSize), at, BLOCK_SIZE) /\ IvField(file) = Slice(file, at, BLOCK_SIZE)
    BY <1>2 DEF iv, IvField
  <2> HIDE DEF at
  <2>3. Slice(Slice(file, 0, HeaderSize), at, BLOCK_SIZE) = Slice(file, 0 + at, BLOCK_SIZE)
    BY <1>1, <2>1, HeaderSizes, SliceOfSlice
  <2> QED BY <2>1, <2>2, <2>3
<1> QED BY <1>3, <1>4, <1>5, <1>6

FileKey  == EncKey(Master, SaltField(file))
FileText == Padded(origin.plain)

\* What a genuine file is made of: n whole blocks of plaintext, and the last one.
LEMMA GenuineLayout ==
  ASSUME origin \in Files, origin.genuine
  PROVE  /\ origin.plain \in Seq(Byte) /\ origin.size \in Nat /\ origin.size < Weight[SIZE_BYTES]
         /\ SaltField(file) \in [1..KDF_SALT_SIZE -> Byte] /\ IvField(file) \in Block
         /\ FileKey \in Key
         /\ SizeField(file) = SizeToBytes(origin.size)
         /\ \E n \in Nat, r \in 0..(BLOCK_SIZE - 1) :
              LET C == CipherBytes(FileKey, IvField(file), FileText, n + 1)
              IN  /\ Len(origin.plain) = n * BLOCK_SIZE + r
                  /\ FileText \in Seq(Byte) /\ Len(FileText) = (n + 1) * BLOCK_SIZE
                  /\ n * BLOCK_SIZE <= origin.size
                  /\ CiphertextSize(file) = (n + 1) * BLOCK_SIZE
                  /\ Len(file) = HeaderSize + (n + 1) * BLOCK_SIZE + HMAC_SIZE
                  /\ Slice(file, HeaderSize, CiphertextSize(file)) = C
                  /\ StoredMac(file) = hmac_compute(MacKey(Master, SaltField(file)),
                                                    SubSeq(file, 1, HeaderSize) \o C)
<1> DEFINE plain == origin.plain
           s == SaltField(file)
           v == IvField(file)
           T == SealedText(plain, Master, s, v)
           h == SealedHeader(origin.size, s, v)
<1>1. plain \in Seq(Byte) /\ origin.size \in Nat /\ Master \in Masters
  BY DecryptConstants
<1>2. /\ s \in [1..KDF_SALT_SIZE -> Byte] /\ v \in Block
      /\ file = Sealed(plain, origin.size, Master, s, v)
      /\ origin.size < Weight[SIZE_BYTES]
      /\ (Len(plain) \div BLOCK_SIZE) * BLOCK_SIZE <= origin.size
  BY GenuineFiles DEF file, GenuineFile
<1>3. FileKey \in Key
  BY <1>1, <1>2, DeriveType DEF EncKey, FileKey
<1>4. PICK n \in Nat, r \in 0..(BLOCK_SIZE - 1) : Len(plain) = n * BLOCK_SIZE + r
  BY <1>1, BlocksAndRest
<1>5. /\ Len(file) = HeaderSize + Len(T) + HMAC_SIZE
      /\ SubSeq(file, 1, HeaderSize) = h
      /\ SizeField(file) = SizeToBytes(origin.size)
      /\ Slice(file, HeaderSize, Len(T)) = T
      /\ Slice(file, Len(file) - HMAC_SIZE, HMAC_SIZE) = hmac_compute(MacKey(Master, s), h \o T)
  <2> HIDE DEF plain, s, v
  <2> QED BY <1>1, <1>2, SealedLayout
<1>6. T = CipherBytes(FileKey, v, FileText, n + 1)
  BY <1>1, <1>4, CiphertextBytes DEF FileKey, FileText, SealedText
<1>7. FileText \in Seq(Byte) /\ Len(FileText) = (n + 1) * BLOCK_SIZE
  BY <1>1, <1>4, PaddedShape DEF FileText
<1> DEFINE m == (n + 1) * BLOCK_SIZE
           k == n * BLOCK_SIZE
<1>8. Len(T) = m
  <2>1. n + 1 \in Nat /\ (n + 1) * BLOCK_SIZE <= Len(FileText)
    BY <1>4, <1>7, HeaderSizes
  <2> QED BY <1>2, <1>3, <1>6, <1>7, <2>1, CipherBytesType
<1>9. k <= origin.size
  <2>1. Len(plain) \in Nat /\ BLOCK_SIZE \in Nat \ {0} /\ Len(plain) = BLOCK_SIZE * n + r
    BY <1>1, <1>4, HeaderSizes, LenProperties
  <2>2. Len(plain) \div BLOCK_SIZE = n
    BY <1>4, <2>1, DivisionUnique
  <2> QED BY <1>2, <2>2
<1>10. m \in Nat
  BY <1>4, HeaderSizes
<1>11. CiphertextSize(file) = m /\ Len(file) = HeaderSize + m + HMAC_SIZE
  <2> HIDE DEF m, T
  <2> QED BY <1>5, <1>8, <1>10, HeaderSizes DEF CiphertextSize
<1>12. Slice(file, HeaderSize, CiphertextSize(file)) = T
  BY <1>5, <1>8, <1>11
<1>13. StoredMac(file) = hmac_compute(MacKey(Master, s), SubSeq(file, 1, HeaderSize) \o T)
  BY <1>5 DEF StoredMac
<1> QED BY <1>1, <1>2, <1>3, <1>4, <1>5, <1>6, <1>7, <1>9, <1>11, <1>12, <1>13

LEMMA GenuineSize ==
  ASSUME PastVerdict, pc \in AfterVerdict
  PROVE  /\ original_size = origin.size /\ original_size \in Nat
         /\ original_size < Weight[SIZE_BYTES]
         /\ encrypted_size \in Nat /\ encrypted_size - BLOCK_SIZE <= original_size
<1>1. /\ origin \in Files /\ origin.genuine
      /\ header = SubSeq(file, 1, HeaderSize) /\ HeaderSize <= Len(file)
      /\ encrypted_size = CiphertextSize(file)
  BY DEF PastVerdict
<1>2. /\ origin.size \in Nat /\ origin.size < Weight[SIZE_BYTES]
      /\ SizeField(file) = SizeToBytes(origin.size)
  BY <1>1, GenuineLayout
<1>3. PICK n \in Nat : n * BLOCK_SIZE <= origin.size /\ CiphertextSize(file) = (n + 1) * BLOCK_SIZE
  BY <1>1, GenuineLayout
<1>4. original_size = origin.size
  BY <1>1, <1>2, FieldsOfFile, SizeFieldUndone DEF original_size
<1>5. (n + 1) * BLOCK_SIZE = (n * BLOCK_SIZE) + BLOCK_SIZE /\ n * BLOCK_SIZE \in Nat
  BY <1>3, HeaderSizes
<1> QED BY <1>1, <1>2, <1>3, <1>4, <1>5, HeaderSizes

LEMMA StepPastVerdict == InputKept /\ Unforged /\ PastVerdict /\ [Next]_vars => PastVerdict'
<1> SUFFICES ASSUME InputKept, Unforged, PastVerdict, [Next]_vars PROVE PastVerdict'
  OBVIOUS
<1>1. origin' = origin /\ file' = file /\ origin \in Files
  BY DEF PastVerdict, file, Next, Program, Flush, ChangeInput, Crash, Over, vars, files,
         OpenInput, ReadSize, ReadSalt, ReadIv, Measure, ReadStoredMac, AllocChunk, AllocHmac,
         ReadForMac, Verify, OpenOutput, ReadChunk, DecryptWhole, EndOfChunk, DecryptLast, Finish
<1>2. CASE ~ origin.genuine
  <2>1. RefusedInv
    BY <1>2 DEF PastVerdict, RefusedInv
  <2>2. Unopened'
    BY <1>1, <1>2, <2>1, StepRefused DEF RefusedInv, InputKept
  <2> QED BY <1>1, <1>2, <2>2 DEF PastVerdict, Unopened, BeforeVerdict, AfterVerdict, Stopped
<1>3. ASSUME Unopened' PROVE PastVerdict'
  BY <1>1, <1>3 DEF PastVerdict, Unopened, BeforeVerdict, AfterVerdict, Stopped
<1>4. ASSUME pc \in AfterVerdict, pc' \in AfterVerdict \cup Stopped, input' = input,
             UNCHANGED fields, origin.genuine
      PROVE  PastVerdict'
  BY <1>1, <1>4 DEF PastVerdict, fields, AfterVerdict, BeforeVerdict, Stopped
<1>5. CASE OpenInput \/ ReadSize \/ ReadSalt \/ ReadIv
  <2>1. pc \in BeforeVerdict
    BY <1>5 DEF OpenInput, ReadSize, ReadSalt, ReadIv, BeforeVerdict
  <2> QED BY <1>1, <1>3, <1>5, <2>1, HeaderStepsUnopened DEF PastVerdict, InputKept
<1>6. CASE Measure \/ ReadStoredMac \/ AllocChunk \/ AllocHmac
  <2>1. pc \in BeforeVerdict
    BY <1>6 DEF Measure, ReadStoredMac, AllocChunk, AllocHmac, BeforeVerdict
  <2> QED BY <1>1, <1>3, <1>6, <2>1, MeasuringStepsUnopened DEF PastVerdict
<1>7. CASE ReadForMac
  <2>1. pc \in BeforeVerdict
    BY <1>7 DEF ReadForMac, BeforeVerdict
  <2> QED BY <1>1, <1>3, <1>7, <2>1, MacReadUnopened DEF PastVerdict, InputKept
<1>8. CASE Verify /\ origin.genuine
  <2>1. Unopened /\ pc = "verify"
    BY <1>8 DEF Verify, BeforeVerdict, PastVerdict
  <2>2. CASE Exit(-1, {"hmac_data", "ctx", "chunk_buf", "input"})
    BY <1>1, <1>3, <2>1, <2>2, LeaveUnopened DEF Exit
  <2>3. CASE pc' = "open_output" /\ UNCHANGED << ret, disk, input >>
    <3>1. /\ header = SubSeq(file, 1, HeaderSize) /\ HeaderSize <= Len(file)
          /\ encrypted_size = CiphertextSize(file) /\ input = file
      BY <1>1, <2>1, KeptMeansExact DEF FieldsFromFile, BeforeVerdict
    <3>2. UNCHANGED fields
      BY <1>8 DEF Verify
    <3> QED BY <1>1, <1>8, <2>3, <3>1, <3>2 DEF PastVerdict, fields, BeforeVerdict, AfterVerdict
  <2> QED BY <1>8, <2>2, <2>3 DEF Verify
<1>9. CASE /\ origin.genuine
           /\ OpenOutput \/ ReadChunk \/ DecryptWhole \/ EndOfChunk \/ DecryptLast \/ Finish
  <2>1. pc \in AfterVerdict /\ UNCHANGED fields
    BY <1>9
    DEF OpenOutput, ReadChunk, DecryptWhole, EndOfChunk, DecryptLast, Finish, AfterVerdict
  <2>2. pc' \in AfterVerdict \cup Stopped /\ input' = input
    BY <1>9
    DEF OpenOutput, ReadChunk, DecryptWhole, EndOfChunk, DecryptLast, Finish, AfterVerdict,
        Stopped, Proceed, Exit, Leave, CloseOutput, SyncInput, InputKept
  <2> QED BY <1>4, <1>9, <2>1, <2>2
<1>10. CASE origin.genuine /\ (Flush \/ ChangeInput)
  <2>1. Flush
    BY <1>10 DEF ChangeInput, InputKept
  <2>2. /\ pc \notin BeforeVerdict /\ pc \in Running /\ pc' = pc /\ input' = input
        /\ UNCHANGED fields
    BY <2>1 DEF Flush, SyncInput, InputKept, PastVerdict, Unopened
  <2>3. pc \in AfterVerdict
    BY <2>2 DEF Running, BeforeVerdict, AfterVerdict
  <2> QED BY <1>4, <1>10, <2>2, <2>3
<1>11. CASE origin.genuine /\ Crash
  BY <1>1, <1>11
  DEF Crash, files, fields, PastVerdict, BeforeVerdict, AfterVerdict
<1>12. CASE origin.genuine /\ (Over \/ UNCHANGED vars)
  <2>1. UNCHANGED << pc, input, fields >>
    BY <1>12 DEF Over, vars, files
  <2>2. CASE pc \in BeforeVerdict
    BY <1>1, <1>3, <1>12, <2>2, OtherStepsUnopened DEF PastVerdict
  <2>3. CASE pc \in AfterVerdict
    BY <1>4, <1>12, <2>1, <2>3
  <2>4. CASE pc \notin BeforeVerdict \cup AfterVerdict
    BY <1>1, <1>12, <2>1, <2>4 DEF PastVerdict
  <2> QED BY <2>2, <2>3, <2>4
<1> QED BY <1>2, <1>5, <1>6, <1>7, <1>8, <1>9, <1>10, <1>11, <1>12 DEF Next, Program

LEMMA InitialState ==
  ASSUME Init, InputKept
  PROVE  Types /\ PastVerdict
<1>1. /\ origin \in Files /\ pc = "open_input" /\ ret = 1 /\ input = file /\ disk = OldOutput
      /\ header = << >> /\ position = 0 /\ hmac_data = << >> /\ held = {}
  BY DEF Init, InputKept, NoResult, file
<1>2. Unopened
  BY UnopenedAtFirst DEF InputKept
<1> QED BY <1>1, <1>2, InitTypes DEF PastVerdict, AfterVerdict

\* Steps that begin after the verdict.
LEMMA LaterSteps ==
  ASSUME PastVerdict, [Next]_vars, pc' \in AfterVerdict \ {"open_output"}
  PROVE  pc \in AfterVerdict /\ UNCHANGED fields /\ UNCHANGED << origin, original_size >>
<1>1. UNCHANGED origin
  BY DEF Next, Program, Flush, ChangeInput, Crash, Over, vars, files,
         OpenInput, ReadSize, ReadSalt, ReadIv, Measure, ReadStoredMac, AllocChunk, AllocHmac,
         ReadForMac, Verify, OpenOutput, ReadChunk, DecryptWhole, EndOfChunk, DecryptLast, Finish
<1>2. CASE Program
  <2>1. CASE \/ OpenInput \/ ReadSize \/ ReadSalt \/ ReadIv \/ Measure \/ ReadStoredMac
             \/ AllocChunk \/ AllocHmac \/ ReadForMac \/ Verify
    BY <2>1
    DEF OpenInput, ReadSize, ReadSalt, ReadIv, Measure, ReadStoredMac, AllocChunk, AllocHmac,
        ReadForMac, Verify, ReadField, Allocate, Proceed, Exit, Leave, AfterVerdict
  <2>2. CASE OpenOutput \/ ReadChunk \/ DecryptWhole \/ EndOfChunk \/ DecryptLast \/ Finish
    <3>1. pc \in AfterVerdict /\ UNCHANGED fields
      BY <2>2
      DEF OpenOutput, ReadChunk, DecryptWhole, EndOfChunk, DecryptLast, Finish, AfterVerdict
    <3> QED BY <1>1, <3>1 DEF fields, original_size
  <2> QED BY <1>2, <2>1, <2>2 DEF Program
<1>3. CASE Flush \/ ChangeInput \/ Over \/ UNCHANGED vars
  BY <1>1, <1>3 DEF Flush, ChangeInput, Over, vars, fields, original_size
<1>4. CASE Crash
  BY <1>4 DEF Crash, AfterVerdict
<1> QED BY <1>2, <1>3, <1>4 DEF Next

LEMMA StepClamped ==
  InputKept /\ Unforged /\ Types /\ PastVerdict /\ ClampNeverWraps /\ [Next]_vars
    => ClampNeverWraps'
<1> SUFFICES ASSUME InputKept, Unforged, Types, PastVerdict, ClampNeverWraps, [Next]_vars,
                    pc' \in {"read", "blocks", "last", "finish"}
             PROVE  Len(output') <= original_size'
  BY DEF ClampNeverWraps
<1>1. pc \in AfterVerdict /\ UNCHANGED fields /\ original_size' = original_size
  BY LaterSteps DEF AfterVerdict
<1>2. /\ original_size \in Nat /\ original_size < Weight[SIZE_BYTES]
      /\ encrypted_size \in Nat /\ encrypted_size - BLOCK_SIZE <= original_size
  BY <1>1, GenuineSize
<1>3. /\ header \in Seq(Byte) /\ Len(header) = HeaderSize
      /\ output \in Seq(Byte) /\ Len(output) \in Nat
  BY <1>1, InTheLoop DEF AfterVerdict
<1>4. Types'
  BY StepTypes
<1>5. CASE pc' \in {"read", "blocks", "last"}
  <2>1. encrypted_size' = encrypted_size
    BY <1>1 DEF fields
  <2>2. /\ Len(output') \in Nat /\ remaining' \in Nat /\ i' \in Nat /\ Len(chunk_buf') \in Nat
    BY <1>4, LenProperties DEF Types, TypeOK
  <2>3. \/ Len(output') + remaining' + BLOCK_SIZE <= encrypted_size
        \/ /\ i' <= Len(chunk_buf')
           /\ Len(output') + (Len(chunk_buf') - i') + remaining' + BLOCK_SIZE <= encrypted_size
    BY <1>4, <1>5, <2>1 DEF Types, Shape, OutputAccounted
  <2> QED BY <1>1, <1>2, <2>2, <2>3, HeaderSizes
<1>6. CASE pc' = "finish"
  <2>1. CASE DecryptLast
    <3>1. Len(output) <= original_size
      BY <1>1, <2>1 DEF DecryptLast, ClampNeverWraps
    <3> DEFINE last(b) == cipher_cbc_decrypt_block(EncKey(Master, salt), prev, b)
               u(b)    == cipher_remove_pkcs7_padding(last(b))
               data(b) == SubSeq(last(b), 1, Clamp(u(b)))
    <3>2. \/ output' = output
          \/ \E b \in Block \cap Delivered(BLOCK_SIZE) :
               last(b) \in Block /\ u(b) >= 0 /\ output' = output \o data(b)
      BY <1>6, <2>1, LastBlockCases DEF Leave
    <3>3. CASE output' = output
      BY <1>1, <3>1, <3>3
    <3>4. CASE \E b \in Block \cap Delivered(BLOCK_SIZE) :
                 last(b) \in Block /\ u(b) >= 0 /\ output' = output \o data(b)
      <4>1. PICK b \in Block \cap Delivered(BLOCK_SIZE) :
              last(b) \in Block /\ u(b) >= 0 /\ output' = output \o data(b)
        BY <3>4
      <4>2. /\ Clamp(u(b)) \in 0..u(b)
            /\ data(b) \in Seq(Byte) /\ Len(data(b)) = Clamp(u(b))
            /\ Len(output) + Clamp(u(b)) <= original_size
        BY <1>2, <1>3, <3>1, <4>1, ClampBounds
      <4> HIDE DEF data, u, last
      <4>3. Len(output') = Len(output) + Clamp(u(b))
        BY <1>3, <4>1, <4>2, ConcatType
      <4> QED BY <1>1, <4>2, <4>3
    <3> QED BY <3>2, <3>3, <3>4
  <2>2. CASE ~ DecryptLast
    <3>1. pc = "finish" /\ output' = output
      BY <1>6, <2>2
      DEF Next, Program, Flush, ChangeInput, Crash, Over, vars, files,
          OpenInput, ReadSize, ReadSalt, ReadIv, Measure, ReadStoredMac, AllocChunk, AllocHmac,
          ReadForMac, Verify, OpenOutput, ReadChunk, DecryptWhole, EndOfChunk, Finish,
          ReadField, Allocate, Proceed, Exit, Leave
    <3> QED BY <1>1, <3>1 DEF ClampNeverWraps
  <2> QED BY <2>1, <2>2
<1> QED BY <1>5, <1>6

\* The subtraction of the clamp (cipher.c:442) never wraps: when the input file is
\* left alone while it is read, and none can be forged, what is written stays
\* within original_size, whatever reads fail or come back short on the way.
THEOREM ClampSound == InputKept /\ Unforged /\ Spec => []ClampNeverWraps
<1> SUFFICES ASSUME InputKept, Unforged PROVE Spec => []ClampNeverWraps
  OBVIOUS
<1> DEFINE Inv == Types /\ PastVerdict /\ ClampNeverWraps
<1>1. Init => Inv
  <2> SUFFICES ASSUME Init PROVE Inv
    OBVIOUS
  <2>1. pc = "open_input"
    BY DEF Init
  <2> QED BY <2>1, InitialState DEF ClampNeverWraps
<1>2. Inv /\ [Next]_vars => Inv'
  BY StepTypes, StepPastVerdict, StepClamped
<1>3. Inv => ClampNeverWraps
  OBVIOUS
<1> QED BY <1>1, <1>2, <1>3, PTL DEF Spec

-----------------------------------------------------------------------------
(* What is made of an authentic file.                                      *)

\* How many whole blocks of plaintext precede the padded one.
WholeBlocksOfPlain == Len(origin.plain) \div BLOCK_SIZE

ChainAt(k) == CbcBlocks(FileKey, IvField(file), FileText)[k]

\* The plaintext, up to the size in the header.
Recovered == SubSeq(origin.plain, 1, Lesser(origin.size, Len(origin.plain)))

LEMMA GenuineBlocks ==
  ASSUME origin \in Files, origin.genuine
  PROVE  LET n == WholeBlocksOfPlain
         IN  /\ n \in Nat /\ n * BLOCK_SIZE \in Nat
             /\ (n + 1) * BLOCK_SIZE = (n * BLOCK_SIZE) + BLOCK_SIZE
             /\ \E r \in 0..(BLOCK_SIZE - 1) : Len(origin.plain) = n * BLOCK_SIZE + r
             /\ FileText \in Seq(Byte) /\ Len(FileText) = (n + 1) * BLOCK_SIZE
             /\ n * BLOCK_SIZE <= origin.size
             /\ CiphertextSize(file) = (n + 1) * BLOCK_SIZE
             /\ Len(file) = HeaderSize + (n + 1) * BLOCK_SIZE + HMAC_SIZE
             /\ Slice(file, HeaderSize, CiphertextSize(file))
                  = CipherBytes(FileKey, IvField(file), FileText, n + 1)
             /\ StoredMac(file)
                  = hmac_compute(MacKey(Master, SaltField(file)),
                                 SubSeq(file, 1, HeaderSize)
                                   \o Slice(file, HeaderSize, CiphertextSize(file)))
<1>1. PICK n \in Nat, r \in 0..(BLOCK_SIZE - 1) :
        LET C == CipherBytes(FileKey, IvField(file), FileText, n + 1)
        IN  /\ Len(origin.plain) = n * BLOCK_SIZE + r
            /\ FileText \in Seq(Byte) /\ Len(FileText) = (n + 1) * BLOCK_SIZE
            /\ n * BLOCK_SIZE <= origin.size
            /\ CiphertextSize(file) = (n + 1) * BLOCK_SIZE
            /\ Len(file) = HeaderSize + (n + 1) * BLOCK_SIZE + HMAC_SIZE
            /\ Slice(file, HeaderSize, CiphertextSize(file)) = C
            /\ StoredMac(file) = hmac_compute(MacKey(Master, SaltField(file)),
                                              SubSeq(file, 1, HeaderSize) \o C)
  BY GenuineLayout
<1>2. WholeBlocksOfPlain = n
  <2>1. /\ Len(origin.plain) \in Nat /\ BLOCK_SIZE \in Nat \ {0}
        /\ Len(origin.plain) = BLOCK_SIZE * n + r
    BY <1>1, DecryptConstants, HeaderSizes, LenProperties
  <2> QED BY <1>1, <2>1, DivisionUnique DEF WholeBlocksOfPlain
<1>3. n * BLOCK_SIZE \in Nat /\ (n + 1) * BLOCK_SIZE = (n * BLOCK_SIZE) + BLOCK_SIZE
  BY HeaderSizes
<1> QED BY <1>1, <1>2, <1>3

\* The blocks of the ciphertext, where they lie in the file.
LEMMA BlockOfFile ==
  ASSUME origin \in Files, origin.genuine, NEW k \in 0..WholeBlocksOfPlain
  PROVE  /\ Slice(file, HeaderSize + k * BLOCK_SIZE, BLOCK_SIZE) = ChainAt(k + 1)
         /\ k * BLOCK_SIZE \in Nat /\ (k + 1) * BLOCK_SIZE = (k * BLOCK_SIZE) + BLOCK_SIZE
         /\ HeaderSize + k * BLOCK_SIZE + BLOCK_SIZE <= Len(file)
         /\ ChainAt(k) \in Block /\ ChainAt(k + 1) \in Block
         /\ cipher_cbc_decrypt_block(FileKey, ChainAt(k), ChainAt(k + 1))
              = Slice(FileText, k * BLOCK_SIZE, BLOCK_SIZE)
<1> DEFINE n == WholeBlocksOfPlain
           v == IvField(file)
<1>1. /\ n \in Nat
      /\ FileText \in Seq(Byte) /\ Len(FileText) = (n + 1) * BLOCK_SIZE
      /\ CiphertextSize(file) = (n + 1) * BLOCK_SIZE
      /\ Len(file) = HeaderSize + (n + 1) * BLOCK_SIZE + HMAC_SIZE
      /\ Slice(file, HeaderSize, CiphertextSize(file)) = CipherBytes(FileKey, v, FileText, n + 1)
  BY GenuineBlocks
<1>2. FileKey \in Key /\ v \in Block /\ file \in Seq(Byte)
  BY GenuineLayout, FileIsBytes
<1> HIDE DEF n, v
<1>3. k \in Nat /\ k <= n /\ k \in 0..((n + 1) - 1) /\ n + 1 \in Nat
  BY <1>1 DEF n
<1> DEFINE at  == k * BLOCK_SIZE
           end == (n + 1) * BLOCK_SIZE
<1>4. /\ at \in Nat /\ end \in Nat /\ (k + 1) * BLOCK_SIZE = at + BLOCK_SIZE
      /\ at + BLOCK_SIZE <= end
  <2>1. at \in Nat /\ end \in Nat
    BY <1>1, <1>3, HeaderSizes
  <2>2. (k + 1) * BLOCK_SIZE = at + BLOCK_SIZE
    BY <1>3, HeaderSizes
  <2>3. PICK d \in Nat : n = k + d
    <3>1. n - k \in Nat /\ n = k + (n - k)
      BY <1>1, <1>3
    <3> QED BY <3>1
  <2>4. end = at + (d * BLOCK_SIZE) + BLOCK_SIZE /\ d * BLOCK_SIZE \in Nat
    BY <1>3, <2>3, HeaderSizes
  <2> HIDE DEF at, end
  <2> QED BY <2>1, <2>2, <2>4, HeaderSizes
<1>5. Slice(CipherBytes(FileKey, v, FileText, n + 1), k * BLOCK_SIZE, BLOCK_SIZE)
        = CbcBlocks(FileKey, v, FileText)[k + 1]
  <2>1. (n + 1) * BLOCK_SIZE <= Len(FileText)
    BY <1>1, <1>4
  <2> QED BY <1>1, <1>2, <1>3, <2>1, CipherBlockAt
<1>6. Slice(Slice(file, HeaderSize, end), at, BLOCK_SIZE) = Slice(file, HeaderSize + at, BLOCK_SIZE)
  <2> HIDE DEF at, end
  <2>1. HeaderSize + end <= Len(file)
    BY <1>1, <1>4, HeaderSizes DEF end
  <2> QED BY <1>2, <1>4, <2>1, HeaderSizes, SliceOfSlice
<1>7. HeaderSize + at + BLOCK_SIZE <= Len(file)
  <2> HIDE DEF at, end
  <2> QED BY <1>1, <1>4, HeaderSizes DEF end
<1>8. k * BLOCK_SIZE <= Len(FileText) /\ (k + 1) * BLOCK_SIZE <= Len(FileText)
  <2>1. Len(FileText) = end
    BY <1>1
  <2> HIDE DEF at, end
  <2>2. at <= Len(FileText) /\ at + BLOCK_SIZE <= Len(FileText)
    BY <1>4, <2>1, HeaderSizes
  <2> QED BY <1>4, <2>2 DEF at
<1>9. ChainAt(k) \in Block /\ ChainAt(k + 1) \in Block
  <2>1. k + 1 \in Nat
    BY <1>3
  <2>2. CbcBlocks(FileKey, v, FileText)[k] \in Block
    BY <1>1, <1>2, <1>3, <1>8, CbcType
  <2>3. CbcBlocks(FileKey, v, FileText)[k + 1] \in Block
    BY <1>1, <1>2, <1>8, <2>1, CbcType
  <2> QED BY <2>2, <2>3 DEF ChainAt, v
<1>10. cipher_cbc_decrypt_block(FileKey, ChainAt(k), ChainAt(k + 1))
         = Slice(FileText, k * BLOCK_SIZE, BLOCK_SIZE)
  BY <1>1, <1>2, <1>3, <1>8, ChainUndone DEF ChainAt, v
<1>11. Slice(file, HeaderSize + k * BLOCK_SIZE, BLOCK_SIZE) = ChainAt(k + 1)
  BY <1>1, <1>5, <1>6 DEF ChainAt, v
<1> QED BY <1>4, <1>7, <1>9, <1>10, <1>11

\* One more whole block of plaintext.
LEMMA BlockRecovered ==
  ASSUME origin \in Files, origin.genuine, NEW k \in 0..(WholeBlocksOfPlain - 1)
  PROVE  LET whole == cipher_cbc_decrypt_block(FileKey, ChainAt(k), ChainAt(k + 1))
         IN  /\ whole \in Seq(Byte)
             /\ SubSeq(origin.plain, 1, k * BLOCK_SIZE) \o whole
                  = SubSeq(origin.plain, 1, (k + 1) * BLOCK_SIZE)
<1> DEFINE n == WholeBlocksOfPlain
<1>1. n \in Nat /\ origin.plain \in Seq(Byte)
  BY GenuineBlocks, DecryptConstants
<1>2. k \in 0..n /\ k \in Nat /\ k + 1 <= n
  BY <1>1
<1>3. /\ cipher_cbc_decrypt_block(FileKey, ChainAt(k), ChainAt(k + 1))
           = Slice(FileText, k * BLOCK_SIZE, BLOCK_SIZE)
      /\ ChainAt(k) \in Block /\ ChainAt(k + 1) \in Block
  BY <1>2, BlockOfFile
<1>4. cipher_cbc_decrypt_block(FileKey, ChainAt(k), ChainAt(k + 1)) \in Seq(Byte)
  BY <1>3, GenuineLayout, DecryptedBlock, BlockIsSeq
<1>5. (k + 1) * BLOCK_SIZE <= Len(origin.plain)
  <2>1. PICK r \in 0..(BLOCK_SIZE - 1) : Len(origin.plain) = n * BLOCK_SIZE + r
    BY GenuineBlocks
  <2> HIDE DEF n
  <2>2. PICK d \in Nat : n = (k + 1) + d
    <3>1. n - (k + 1) \in Nat /\ n = (k + 1) + (n - (k + 1))
      BY <1>1, <1>2
    <3> QED BY <3>1
  <2>3. n * BLOCK_SIZE = ((k + 1) * BLOCK_SIZE) + (d * BLOCK_SIZE)
        /\ (k + 1) * BLOCK_SIZE \in Nat /\ d * BLOCK_SIZE \in Nat
    BY <1>2, <2>2, HeaderSizes
  <2> DEFINE x == (k + 1) * BLOCK_SIZE
             y == d * BLOCK_SIZE
             z == n * BLOCK_SIZE
  <2>4. z = x + y /\ x \in Nat /\ y \in Nat /\ Len(origin.plain) = z + r
    BY <2>1, <2>3
  <2> HIDE DEF x, y, z
  <2>5. x <= Len(origin.plain)
    BY <2>4, HeaderSizes
  <2> QED BY <2>5 DEF x
<1>6. /\ Slice(FileText, k * BLOCK_SIZE, BLOCK_SIZE) = Slice(origin.plain, k * BLOCK_SIZE, BLOCK_SIZE)
      /\ SubSeq(origin.plain, 1, k * BLOCK_SIZE) \o Slice(origin.plain, k * BLOCK_SIZE, BLOCK_SIZE)
           = SubSeq(origin.plain, 1, (k + 1) * BLOCK_SIZE)
  BY <1>1, <1>2, <1>5, WholeBlockOfPadded DEF FileText
<1> QED BY <1>3, <1>4, <1>6

\* The data of the last block, cut to the size in the header.
LEMMA LastRecovered ==
  ASSUME PastVerdict, pc \in AfterVerdict,
         output = SubSeq(origin.plain, 1, WholeBlocksOfPlain * BLOCK_SIZE)
  PROVE  LET last == cipher_cbc_decrypt_block(FileKey, ChainAt(WholeBlocksOfPlain),
                                              ChainAt(WholeBlocksOfPlain + 1))
             u    == cipher_remove_pkcs7_padding(last)
         IN  /\ u \in Nat
             /\ SubSeq(last, 1, Clamp(u)) \in Seq(Byte)
             /\ output \o SubSeq(last, 1, Clamp(u)) = Recovered
<1> DEFINE n     == WholeBlocksOfPlain
           last  == cipher_cbc_decrypt_block(FileKey, ChainAt(n), ChainAt(n + 1))
           u     == cipher_remove_pkcs7_padding(last)
           plain == origin.plain
           at    == n * BLOCK_SIZE
<1>1. origin \in Files /\ origin.genuine /\ origin.size \in Nat /\ plain \in Seq(Byte)
  BY DecryptConstants DEF PastVerdict
<1>2. /\ n \in Nat /\ at \in Nat /\ at <= origin.size
      /\ \E r \in 0..(BLOCK_SIZE - 1) : Len(plain) = at + r
  BY <1>1, GenuineBlocks
<1>3. PICK r \in 0..(BLOCK_SIZE - 1) : Len(plain) = at + r
  BY <1>2
<1>4. original_size = origin.size /\ original_size < Weight[SIZE_BYTES]
  BY GenuineSize
<1>5. last = Slice(Padded(plain), n * BLOCK_SIZE, BLOCK_SIZE)
  BY <1>1, <1>2, BlockOfFile DEF FileText
<1>6. /\ u = r
      /\ \A m \in 0..r : /\ SubSeq(last, 1, m) \in Seq(Byte)
                         /\ SubSeq(plain, 1, at) \o SubSeq(last, 1, m) = SubSeq(plain, 1, at + m)
  <2> DEFINE b == Slice(Padded(plain), n * BLOCK_SIZE, BLOCK_SIZE)
  <2>1. plain \in Seq(Byte) /\ n \in Nat /\ Len(plain) = n * BLOCK_SIZE + r
    BY <1>1, <1>2, <1>3
  <2> HIDE DEF plain, n
  <2>2. /\ cipher_remove_pkcs7_padding(b) = r
        /\ \A m \in 0..r : /\ SubSeq(b, 1, m) \in Seq(Byte)
                           /\ SubSeq(plain, 1, n * BLOCK_SIZE) \o SubSeq(b, 1, m)
                                = SubSeq(plain, 1, n * BLOCK_SIZE + m)
    BY <2>1, LastBlockOfPadded
  <2>3. last = b
    BY <1>5
  <2> QED BY <2>2, <2>3
<1>7. Len(output) = at
  <2>1. at \in 0..Len(plain)
    <3> HIDE DEF at
    <3> QED BY <1>2, <1>3, HeaderSizes
  <2> QED BY <1>1, <2>1, PrefixType
<1> DEFINE left == original_size - Len(output)
           w    == Weight[SIZE_BYTES]
<1>8. w \in Nat \ {0}
  <2>1. SIZE_BYTES \in 0..SIZE_BYTES
    BY HeaderSizes
  <2> QED BY <2>1, WeightFacts
<1>9. left % w = origin.size - at
  <2> HIDE DEF at, w
  <2>0. left = origin.size - at
    BY <1>4, <1>7
  <2> HIDE DEF left
  <2>1. left = origin.size - at /\ left \in Nat
    BY <1>1, <1>2, <2>0
  <2>2. origin.size < w
    BY <1>4 DEF w
  <2>3. left < w
    BY <1>1, <1>2, <1>8, <2>1, <2>2
  <2> QED BY <1>8, <2>1, <2>3
<1>10. Clamp(u) = Lesser(r, origin.size - at)
  BY <1>6, <1>9 DEF Clamp
<1> HIDE DEF u, last, at, left, w, n
<1>11. Clamp(u) \in 0..r /\ at + Clamp(u) = Lesser(origin.size, Len(plain))
  BY <1>1, <1>2, <1>3, <1>10, HeaderSizes DEF Lesser
<1>12. /\ SubSeq(last, 1, Clamp(u)) \in Seq(Byte)
       /\ SubSeq(plain, 1, at) \o SubSeq(last, 1, Clamp(u)) = Recovered
  BY <1>6, <1>11 DEF Recovered
<1>13. output = SubSeq(plain, 1, at)
  BY DEF at, n
<1>14. u \in Nat
  BY <1>6, HeaderSizes
<1>15. output \o SubSeq(last, 1, Clamp(u)) = Recovered
  BY <1>12, <1>13
<1> QED BY <1>12, <1>14, <1>15 DEF u, last, n

\* What has been recovered, where the call is in the ciphertext, and that each
\* block is chained to the one before it.
BlocksRecovered(k) ==
  /\ k \in 0..WholeBlocksOfPlain
  /\ output = SubSeq(origin.plain, 1, k * BLOCK_SIZE)
  /\ prev = ChainAt(k)

ToRead(k) ==
  /\ position = HeaderSize + k * BLOCK_SIZE
  /\ remaining = (WholeBlocksOfPlain - k) * BLOCK_SIZE

\* The chunk in the buffer starts at block b and is m blocks long.
InChunk(k, b, m) ==
  /\ b <= k /\ k <= b + m /\ b + m <= WholeBlocksOfPlain
  /\ Len(chunk_buf) = m * BLOCK_SIZE
  /\ chunk_buf = Slice(file, HeaderSize + b * BLOCK_SIZE, m * BLOCK_SIZE)
  /\ i = (k - b) * BLOCK_SIZE
  /\ ToRead(b + m)

Recovering ==
  /\ pc = "open_output" => output = << >> /\ disk = OldOutput /\ "output" \notin held
  /\ pc \in AfterVerdict \ {"open_output"} => "output" \in held /\ StartOf(disk, output)
  /\ pc = "read" => \E k \in Nat : BlocksRecovered(k) /\ ToRead(k)
  /\ pc = "blocks" => \E k, b, m \in Nat : BlocksRecovered(k) /\ InChunk(k, b, m)
  /\ pc = "last" => /\ BlocksRecovered(WholeBlocksOfPlain)
                    /\ position = HeaderSize + WholeBlocksOfPlain * BLOCK_SIZE
  /\ pc = "finish" => output = Recovered

\* How a call on an authentic file may end.
Outcome ==
  pc \in Stopped => /\ disk = OldOutput \/ StartOf(disk, Recovered)
                    /\ ret = 0 /\ "close" \notin Env => disk = Recovered

\* Nothing is returned as long as the call runs.
NoResultYet == pc \in Running => ret = NoResult

Opening == NoResultYet /\ (origin.genuine => Recovering /\ Outcome)

\* The reads of the input do not fail.
InputReadable == "read" \notin Env

\* The start of the plaintext that the output holds.
LEMMA RecoveredStarts ==
  ASSUME origin \in Files, origin.genuine
  PROVE  /\ \A k \in 0..WholeBlocksOfPlain :
              /\ SubSeq(origin.plain, 1, k * BLOCK_SIZE) \in Seq(Byte)
              /\ StartOf(SubSeq(origin.plain, 1, k * BLOCK_SIZE), Recovered)
         /\ Recovered \in Seq(Byte) /\ StartOf(Recovered, origin.plain)
<1> DEFINE n == WholeBlocksOfPlain
<1>1. origin.plain \in Seq(Byte) /\ origin.size \in Nat
  BY DecryptConstants
<1>2. n \in Nat /\ \E r \in 0..(BLOCK_SIZE - 1) : Len(origin.plain) = n * BLOCK_SIZE + r
  BY GenuineBlocks
<1>3. Lesser(origin.size, Len(origin.plain)) \in 0..Len(origin.plain)
  BY <1>1, LenProperties DEF Lesser
<1>4. Recovered \in Seq(Byte) /\ StartOf(Recovered, origin.plain)
  BY <1>1, <1>3, PrefixType, StartCut DEF Recovered
<1>5. ASSUME NEW k \in 0..n
      PROVE  /\ SubSeq(origin.plain, 1, k * BLOCK_SIZE) \in Seq(Byte)
             /\ StartOf(SubSeq(origin.plain, 1, k * BLOCK_SIZE), Recovered)
  <2>1. n = Len(origin.plain) \div BLOCK_SIZE /\ k \in 0..(Len(origin.plain) \div BLOCK_SIZE)
    BY DEF WholeBlocksOfPlain
  <2>2. k * BLOCK_SIZE <= Len(origin.plain)
    BY <1>1, <2>1, WholeBlocks
  <2>3. k * BLOCK_SIZE \in Nat
    BY <1>2, HeaderSizes
  <2> DEFINE at == k * BLOCK_SIZE
             c  == Lesser(origin.size, Len(origin.plain))
  <2>4. at <= origin.size
    <3>1. n * BLOCK_SIZE \in Nat /\ n * BLOCK_SIZE <= origin.size
      BY GenuineBlocks
    <3>2. PICK d \in Nat : n = k + d
      <4>1. n - k \in Nat /\ n = k + (n - k)
        BY <1>2
      <4> QED BY <4>1
    <3>3. n * BLOCK_SIZE = at + d * BLOCK_SIZE /\ d * BLOCK_SIZE \in Nat
      BY <3>2, HeaderSizes
    <3> DEFINE x == n * BLOCK_SIZE
               y == d * BLOCK_SIZE
    <3>4. x <= origin.size /\ x = at + y /\ y \in Nat /\ at \in Nat
      BY <2>3, <3>1, <3>3
    <3> HIDE DEF x, y, at
    <3> QED BY <1>1, <3>4
  <2> HIDE DEF at
  <2>5. at \in 0..Len(origin.plain) /\ at <= c /\ c \in 0..Len(origin.plain)
    BY <1>1, <1>3, <2>2, <2>3, <2>4, LenProperties DEF at, Lesser
  <2> HIDE DEF c
  <2>6. /\ SubSeq(origin.plain, 1, at) \in Seq(Byte) /\ StartOf(SubSeq(origin.plain, 1, at), origin.plain)
        /\ SubSeq(origin.plain, 1, c) \in Seq(Byte) /\ StartOf(SubSeq(origin.plain, 1, c), origin.plain)
        /\ Len(SubSeq(origin.plain, 1, at)) = at /\ Len(SubSeq(origin.plain, 1, c)) = c
    BY <1>1, <2>5, PrefixType, StartCut
  <2>7. StartOf(SubSeq(origin.plain, 1, at), SubSeq(origin.plain, 1, c))
    BY <1>1, <2>5, <2>6, StartsOfOne
  <2> QED BY <2>6, <2>7 DEF at, c, Recovered
<1> QED BY <1>4, <1>5

LEMMA OutputStarts ==
  ASSUME origin \in Files, origin.genuine, Recovering, pc \in AfterVerdict \ {"open_output"}
  PROVE  /\ output \in Seq(Byte) /\ StartOf(output, Recovered)
         /\ StartOf(output, origin.plain)
<1> SUFFICES output \in Seq(Byte) /\ StartOf(output, Recovered)
  BY DecryptConstants, RecoveredStarts, StartTransitive
<1>1. CASE pc \in {"read", "blocks", "last"}
  <2>1. PICK k \in Nat : BlocksRecovered(k)
    <3>1. WholeBlocksOfPlain \in Nat
      BY GenuineBlocks
    <3> QED BY <1>1, <3>1 DEF Recovering
  <2> QED BY <2>1, RecoveredStarts DEF BlocksRecovered
<1>2. CASE pc = "finish"
  BY <1>2, RecoveredStarts, StartReflexive DEF Recovering
<1> QED BY <1>1, <1>2 DEF AfterVerdict

\* A return that closes the output.
LEMMA ClosingLeaves ==
  ASSUME "output" \in held, NEW code, NEW released, "output" \in released, NEW left,
         Leave(code, released, left), output' \in Seq(Byte), disk \in Seq(Byte),
         NEW plain \in Seq(Byte), StartOf(output', plain)
  PROVE  /\ pc' = "done" /\ ret' = code
         /\ StartOf(disk', plain)
         /\ "close" \notin Env => disk' = output'
<1>1. pc' = "done" /\ ret' = code /\ CloseOutput
  BY DEF Leave
<1>2. Len(output') \in Nat /\ Len(disk) \in Nat
  BY LenProperties
<1>3. PICK n \in (IF "close" \in Env THEN Len(disk) ELSE Len(output'))..Len(output') :
        disk' = SubSeq(output', 1, n)
  BY <1>1 DEF CloseOutput
<1>4. n \in 0..Len(output') /\ ("close" \notin Env => n = Len(output'))
  BY <1>2, <1>3
<1>5. disk' \in Seq(Byte) /\ StartOf(disk', output')
  BY <1>3, <1>4, PrefixType, StartCut
<1>6. StartOf(disk', plain)
  BY <1>5, StartTransitive
<1>7. "close" \notin Env => disk' = output'
  BY <1>3, <1>4, SubSeqFull
<1> QED BY <1>1, <1>6, <1>7

\* A failing write appends a start of what it was to write.
LEMMA ShortWriteStarts ==
  ASSUME output \in Seq(Byte), NEW data \in Seq(Byte), ShortWrite(data),
         NEW plain \in Seq(Byte), StartOf(output \o data, plain)
  PROVE  output' \in Seq(Byte) /\ StartOf(output', plain)
<1>1. Len(data) \in Nat
  BY LenProperties
<1>2. PICK n \in 0..(Len(data) - 1) : output' = output \o SubSeq(data, 1, n)
  BY DEF ShortWrite
<1>3. n \in 0..Len(data)
  BY <1>1
<1>4. SubSeq(data, 1, n) \in Seq(Byte) /\ StartOf(SubSeq(data, 1, n), data)
  BY <1>3, PrefixType, StartCut
<1>5. output' \in Seq(Byte) /\ output \o data \in Seq(Byte)
  BY <1>2, <1>4, ConcatType
<1>6. StartOf(output', output \o data)
  BY <1>2, <1>4, StartExtended
<1> QED BY <1>5, <1>6, StartTransitive

LEMMA NoResultStep == NoResultYet /\ [Next]_vars => NoResultYet'
BY DEF NoResultYet, Next, Program, Flush, ChangeInput, Crash, Over, vars, files,
       OpenInput, ReadSize, ReadSalt, ReadIv, Measure, ReadStoredMac, AllocChunk, AllocHmac,
       ReadForMac, Verify, OpenOutput, ReadChunk, DecryptWhole, EndOfChunk, DecryptLast, Finish,
       ReadField, Allocate, Proceed, Exit, Leave, Running

\* Up to the verdict nothing is written.
LEMMA EarlyStepsOpening ==
  ASSUME Types, PastVerdict, Opening, origin.genuine, origin' = origin,
         \/ OpenInput \/ ReadSize \/ ReadSalt \/ ReadIv \/ Measure \/ ReadStoredMac
         \/ AllocChunk \/ AllocHmac \/ ReadForMac \/ Verify
  PROVE  Opening'
<1>1. pc \in BeforeVerdict
  BY DEF OpenInput, ReadSize, ReadSalt, ReadIv, Measure, ReadStoredMac, AllocChunk, AllocHmac,
         ReadForMac, Verify, BeforeVerdict
<1>2. Unopened /\ output = << >>
  BY <1>1 DEF PastVerdict, Types, Shape, OutputAccounted
<1>3. disk = OldOutput /\ "output" \notin held /\ ret # 0
  BY <1>2 DEF Unopened
<1>4. /\ output' = output /\ disk' = disk /\ "output" \notin held' /\ ret' \in {ret, -1}
      /\ pc' \in BeforeVerdict \cup {"open_output", "done"}
  BY <1>3
  DEF OpenInput, ReadSize, ReadSalt, ReadIv, Measure, ReadStoredMac, AllocChunk, AllocHmac,
      ReadForMac, Verify, ReadField, Allocate, Proceed, Exit, Leave, BeforeVerdict
<1>5. NoResultYet'
  BY NoResultStep DEF Next, Program, Opening
<1> QED BY <1>2, <1>3, <1>4, <1>5
        DEF Opening, Recovering, Outcome, BeforeVerdict, AfterVerdict, Stopped, Running

LEMMA OpenOutputOpening ==
  ASSUME InputKept, PastVerdict, Opening, origin.genuine, origin' = origin, OpenOutput
  PROVE  Opening'
<1>1. /\ pc = "open_output" /\ output = << >> /\ disk = OldOutput /\ "output" \notin held
      /\ ret # 0 /\ origin \in Files /\ file' = file
      /\ header = SubSeq(file, 1, HeaderSize) /\ HeaderSize <= Len(file)
      /\ encrypted_size = CiphertextSize(file)
      /\ prev' = iv /\ position' = HeaderSize /\ remaining' = encrypted_size - BLOCK_SIZE
      /\ output' = output
  BY DEF OpenOutput, Opening, NoResultYet, NoResult, Recovering, PastVerdict, AfterVerdict, Running, file
<1>2. CASE Exit(-1, {"ctx", "chunk_buf", "input"})
  <2>1. pc' = "done" /\ ret' = -1 /\ disk' = disk
    BY <1>1, <1>2 DEF Exit, Leave
  <2> QED BY <1>1, <2>1 DEF Opening, NoResultYet, Recovering, Outcome, AfterVerdict, Stopped, Running
<1>3. CASE /\ pc' = "read" /\ held' = held \cup {"output"} /\ disk' = << >>
           /\ SyncInput /\ UNCHANGED ret
  <2> DEFINE n == WholeBlocksOfPlain
  <2>1. /\ n \in Nat /\ CiphertextSize(file) = (n + 1) * BLOCK_SIZE
        /\ (n + 1) * BLOCK_SIZE = (n * BLOCK_SIZE) + BLOCK_SIZE /\ n * BLOCK_SIZE \in Nat
        /\ FileText \in Seq(Byte)
    BY <1>1, GenuineBlocks
  <2>2. ChainAt(0) = IvField(file)
    BY <2>1, CbcZero DEF ChainAt
  <2>3. iv = IvField(file)
    BY <1>1, FieldsOfFile
  <2>4. 0 * BLOCK_SIZE = 0 /\ n - 0 = n /\ 0 \in 0..n /\ 0 \in Nat
    BY <2>1, HeaderSizes
  <2>5. SubSeq(origin.plain, 1, 0) = << >>
    BY SubSeqEmpty
  <2> DEFINE at == n * BLOCK_SIZE
  <2>6. remaining' = at
    <3> HIDE DEF at
    <3> QED BY <1>1, <2>1, HeaderSizes DEF at
  <2>7. HeaderSize + 0 = HeaderSize
    BY HeaderSizes
  <2>8. BlocksRecovered(0)'
    <3>1. 0 \in 0..WholeBlocksOfPlain' /\ (0 * BLOCK_SIZE)' = 0
      BY <2>4 DEF WholeBlocksOfPlain
    <3>2. output' = SubSeq(origin'.plain, 1, 0)
      BY <1>1, <2>5
    <3>3. prev' = ChainAt(0)'
      BY <1>1, <2>2, <2>3 DEF ChainAt, FileKey, FileText
    <3> QED BY <2>4, <3>1, <3>2, <3>3 DEF BlocksRecovered
  <2>9. ToRead(0)'
    BY <1>1, <2>4, <2>6, <2>7 DEF ToRead, WholeBlocksOfPlain
  <2>10. StartOf(disk', output')
    BY <1>1, <1>3, EmptySeq DEF StartOf
  <2> QED BY <1>1, <1>3, <2>4, <2>8, <2>9, <2>10
          DEF Opening, NoResultYet, Recovering, Outcome, AfterVerdict, Stopped, Running
<1> QED BY <1>2, <1>3 DEF OpenOutput

\* A whole number of blocks fills what one read asks for.
LEMMA BlocksOfRead ==
  ASSUME NEW d \in Nat \ {0}
  PROVE  \E m \in 1..d : Lesser(d * BLOCK_SIZE, STREAM_CHUNK) = m * BLOCK_SIZE
<1>1. PICK q \in Nat : STREAM_CHUNK = q * BLOCK_SIZE
  <2>1. STREAM_CHUNK \in Nat /\ BLOCK_SIZE \in Nat \ {0}
    BY HeaderSizes
  <2>2. STREAM_CHUNK = BLOCK_SIZE * (STREAM_CHUNK \div BLOCK_SIZE)
        /\ STREAM_CHUNK \div BLOCK_SIZE \in Nat
    BY <2>1, ChunkHoldsBlocks
  <2> QED BY <2>1, <2>2
<1>2. q # 0
  BY <1>1, HeaderSizes
<1>3. CASE d * BLOCK_SIZE <= STREAM_CHUNK
  <2>1. d \in 1..d
    OBVIOUS
  <2> QED BY <1>3, <2>1 DEF Lesser
<1>4. CASE ~ d * BLOCK_SIZE <= STREAM_CHUNK
  <2>1. q <= d
    <3> SUFFICES ASSUME d < q PROVE FALSE
      BY <1>1
    <3>1. PICK e \in Nat : q = d + e
      <4>1. q - d \in Nat /\ q = d + (q - d)
        BY <1>1
      <4> QED BY <4>1
    <3>2. q * BLOCK_SIZE = (d * BLOCK_SIZE) + (e * BLOCK_SIZE) /\ e * BLOCK_SIZE \in Nat
          /\ d * BLOCK_SIZE \in Nat
      BY <3>1, HeaderSizes
    <3> DEFINE x == d * BLOCK_SIZE
               y == e * BLOCK_SIZE
               z == q * BLOCK_SIZE
    <3>3. z = x + y /\ x \in Nat /\ y \in Nat /\ ~ x <= z
      BY <1>1, <1>4, <3>2
    <3> HIDE DEF x, y, z
    <3> QED BY <3>3
  <2>2. q \in 1..d
    BY <1>1, <1>2, <2>1
  <2>3. Lesser(d * BLOCK_SIZE, STREAM_CHUNK) = q * BLOCK_SIZE
    BY <1>1, <1>4 DEF Lesser
  <2> QED BY <2>2, <2>3
<1> QED BY <1>3, <1>4

\* The first chunk from block k on.
LEMMA ChunkOfFile ==
  ASSUME origin \in Files, origin.genuine, NEW k \in Nat, NEW m \in Nat,
         k + m <= WholeBlocksOfPlain
  PROVE  /\ HeaderSize + k * BLOCK_SIZE \in Nat
         /\ HeaderSize + k * BLOCK_SIZE + m * BLOCK_SIZE <= Len(file)
         /\ (HeaderSize + k * BLOCK_SIZE) + m * BLOCK_SIZE = HeaderSize + (k + m) * BLOCK_SIZE
         /\ Len(Slice(file, HeaderSize + k * BLOCK_SIZE, m * BLOCK_SIZE)) = m * BLOCK_SIZE
<1> DEFINE n == WholeBlocksOfPlain
           a == k * BLOCK_SIZE
           b == m * BLOCK_SIZE
           c == (k + m) * BLOCK_SIZE
           z == n * BLOCK_SIZE
<1>1. /\ n \in Nat /\ z \in Nat /\ (n + 1) * BLOCK_SIZE = z + BLOCK_SIZE
      /\ Len(file) = HeaderSize + (n + 1) * BLOCK_SIZE + HMAC_SIZE
  BY GenuineBlocks
<1>2. a \in Nat /\ b \in Nat /\ c = a + b
  BY HeaderSizes
<1>3. c <= z
  <2> HIDE DEF n
  <2>1. PICK e \in Nat : n = (k + m) + e
    <3>1. n - (k + m) \in Nat /\ n = (k + m) + (n - (k + m))
      BY <1>1 DEF n
    <3> QED BY <3>1
  <2>2. z = c + (e * BLOCK_SIZE) /\ e * BLOCK_SIZE \in Nat /\ c \in Nat
    BY <2>1, HeaderSizes
  <2> DEFINE y == e * BLOCK_SIZE
  <2> HIDE DEF c, y, z
  <2> QED BY <2>2 DEF y
<1>4. Len(file) = HeaderSize + (z + BLOCK_SIZE) + HMAC_SIZE
  BY <1>1
<1> HIDE DEF a, b, c, z
<1>5. /\ HeaderSize + a \in Nat /\ HeaderSize + a + b <= Len(file)
      /\ (HeaderSize + a) + b = HeaderSize + c
  BY <1>1, <1>2, <1>3, <1>4, HeaderSizes
<1>6. file \in Seq(Byte)
  BY FileIsBytes
<1>7. Len(Slice(file, HeaderSize + a, b)) = b
  BY <1>2, <1>5, <1>6, SliceType
<1> QED BY <1>5, <1>7 DEF a, b, c

LEMMA ReadChunkOpening ==
  ASSUME InputKept, InputReadable, Types, PastVerdict, Opening, origin.genuine, origin' = origin,
         ReadChunk
  PROVE  Opening'
<1> DEFINE n == WholeBlocksOfPlain
<1>1. /\ pc = "read" /\ "output" \in held /\ StartOf(disk, output) /\ ret # 0
      /\ origin \in Files /\ input = file /\ file' = file
      /\ \E k \in Nat : BlocksRecovered(k) /\ ToRead(k)
  BY DEF ReadChunk, Opening, NoResultYet, NoResult, Recovering, PastVerdict, AfterVerdict, Running, file
<1>2. PICK k \in Nat : BlocksRecovered(k) /\ ToRead(k)
  BY <1>1
<1>3. /\ n \in Nat /\ k \in 0..n /\ n - k \in Nat /\ n' = n
      /\ Len(file) \in Nat /\ file \in Seq(Byte)
  BY <1>1, <1>2, GenuineBlocks, FileIsBytes, LenProperties DEF BlocksRecovered, WholeBlocksOfPlain
<1>4. /\ UNCHANGED << output, prev, ret, disk, held >>
  BY DEF ReadChunk, Proceed
<1>5. BlocksRecovered(k)'
  BY <1>1, <1>2, <1>3, <1>4 DEF BlocksRecovered, ChainAt, FileKey, FileText, WholeBlocksOfPlain
<1>6. position = HeaderSize + k * BLOCK_SIZE /\ remaining = (n - k) * BLOCK_SIZE
  BY <1>2 DEF ToRead
<1>7. CASE n - k = 0
  <2>1. remaining = 0 /\ k = n
    BY <1>3, <1>6, <1>7, HeaderSizes
  <2>2. UNCHANGED stream /\ pc' = "last"
    BY <2>1 DEF ReadChunk, Proceed
  <2>3. position' = HeaderSize + n * BLOCK_SIZE
    BY <1>6, <2>1, <2>2 DEF stream
  <2>4. /\ BlocksRecovered(WholeBlocksOfPlain)'
        /\ position' = HeaderSize + WholeBlocksOfPlain' * BLOCK_SIZE
    BY <1>3, <1>5, <2>1, <2>3 DEF BlocksRecovered
  <2> QED BY <1>1, <1>4, <2>2, <2>4
          DEF Opening, NoResultYet, Recovering, Outcome, AfterVerdict, Stopped, Running
<1>8. CASE n - k # 0
  <2>1. n - k \in Nat \ {0}
    BY <1>3, <1>8
  <2>2. remaining \in Nat /\ remaining > 0 /\ ~ remaining <= 0
    <3> DEFINE d == n - k
    <3>1. d \in Nat \ {0} /\ remaining = d * BLOCK_SIZE
      BY <1>6, <2>1
    <3> HIDE DEF d
    <3> QED BY <3>1, HeaderSizes
  <2> DEFINE want == Lesser(remaining, STREAM_CHUNK)
  <2>3. PICK m \in 1..(n - k) : want = m * BLOCK_SIZE
    BY <1>6, <2>1, BlocksOfRead
  <2>4. m \in Nat \ {0} /\ k + m <= n /\ want \in Nat \ {0}
    BY <1>3, <2>1, <2>3, HeaderSizes
  <2>5. /\ position \in Nat /\ position + want <= Len(file)
        /\ position + want = HeaderSize + (k + m) * BLOCK_SIZE
    BY <1>1, <1>3, <1>6, <2>3, <2>4, ChunkOfFile
  <2>6. PICK data \in Delivered(want) :
          IF data = << >>
          THEN UNCHANGED stream /\ Proceed("last", {})
          ELSE /\ position' = position + Len(data)
               /\ remaining' = remaining - Len(data)
               /\ chunk_buf' = data
               /\ i' = 0
               /\ Proceed("blocks", {})
    BY <2>2 DEF ReadChunk
  <2> HIDE DEF want
  <2>7. position \in 0..Len(file) /\ Lesser(want, Len(file) - position) = want
    BY <1>3, <2>4, <2>5 DEF Lesser
  <2>8. data = Slice(file, position, want) /\ Len(data) = want
    <3>1. PICK j \in 0..Lesser(want, Len(file) - position) :
            /\ data = Slice(file, position, j) /\ Len(data) = j
            /\ "read" \notin Env => j = Lesser(want, Len(file) - position)
      BY <1>1, <2>4, <2>7, DeliveredIsSlice
    <3> QED BY <2>7, <3>1 DEF InputReadable
  <2>9. data # << >>
    <3>1. Len(<< >>) = 0
      BY EmptySeq
    <3> QED BY <2>4, <2>8, <3>1
  <2>10. /\ position' = position + want /\ remaining' = remaining - want
         /\ chunk_buf' = Slice(file, position, want) /\ Len(chunk_buf') = want
         /\ i' = 0 /\ pc' = "blocks"
    BY <2>6, <2>8, <2>9 DEF Proceed
  <2>11. remaining' = (n - (k + m)) * BLOCK_SIZE
    <3>1. (n - k) - m \in Nat /\ n - (k + m) = (n - k) - m
      BY <1>3, <2>4
    <3>2. ((n - k) - m) * BLOCK_SIZE = ((n - k) * BLOCK_SIZE) - (m * BLOCK_SIZE)
      BY <1>3, <2>4, HeaderSizes
    <3> QED BY <1>6, <2>3, <2>10, <3>1, <3>2
  <2>12. InChunk(k, k, m)'
    <3>1. ToRead(k + m)'
      BY <1>3, <2>5, <2>10, <2>11 DEF ToRead
    <3>2. Len(chunk_buf') = m * BLOCK_SIZE
          /\ chunk_buf' = Slice(file', HeaderSize + k * BLOCK_SIZE, m * BLOCK_SIZE)
      BY <1>1, <1>6, <2>3, <2>10
    <3>3. k <= k /\ k <= k + m /\ k + m <= n' /\ i' = (k - k) * BLOCK_SIZE
      BY <1>3, <2>4, <2>10, HeaderSizes
    <3> QED BY <3>1, <3>2, <3>3 DEF InChunk
  <2>13. \E k0, b, m0 \in Nat : BlocksRecovered(k0)' /\ InChunk(k0, b, m0)'
    BY <1>5, <2>4, <2>12
  <2> QED BY <1>1, <1>4, <2>10, <2>13
          DEF Opening, NoResultYet, Recovering, Outcome, AfterVerdict, Stopped, Running
<1> QED BY <1>7, <1>8

\* k - b blocks of a chunk of m are done: whether there is a next one.
LEMMA ChunkProgress ==
  ASSUME NEW k \in Nat, NEW b \in Nat, NEW m \in Nat, b <= k, k <= b + m
  PROVE  /\ (k - b) * BLOCK_SIZE \in Nat
         /\ (k - b) * BLOCK_SIZE + BLOCK_SIZE = ((k + 1) - b) * BLOCK_SIZE
         /\ b * BLOCK_SIZE + (k - b) * BLOCK_SIZE = k * BLOCK_SIZE
         /\ k = b + m <=> (k - b) * BLOCK_SIZE + BLOCK_SIZE > m * BLOCK_SIZE
<1>1. PICK j \in Nat : k = b + j /\ k - b = j /\ (k + 1) - b = j + 1
  <2>1. k - b \in Nat /\ k = b + (k - b) /\ (k + 1) - b = (k - b) + 1
    OBVIOUS
  <2> QED BY <2>1
<1>2. PICK l \in Nat : m = j + l
  <2>1. m - j \in Nat /\ m = j + (m - j)
    BY <1>1
  <2> QED BY <2>1
<1>3. /\ j * BLOCK_SIZE \in Nat /\ (j + 1) * BLOCK_SIZE = (j * BLOCK_SIZE) + BLOCK_SIZE
      /\ k * BLOCK_SIZE = (b * BLOCK_SIZE) + (j * BLOCK_SIZE)
      /\ m * BLOCK_SIZE = (j * BLOCK_SIZE) + (l * BLOCK_SIZE) /\ l * BLOCK_SIZE \in Nat
  BY <1>1, <1>2, HeaderSizes
<1>4. k = b + m <=> l = 0
  BY <1>1, <1>2
<1>5. l = 0 <=> (j * BLOCK_SIZE) + BLOCK_SIZE > m * BLOCK_SIZE
  <2>1. CASE l = 0
    <3>1. m * BLOCK_SIZE = j * BLOCK_SIZE
      BY <1>2, <2>1
    <3> DEFINE x == j * BLOCK_SIZE
    <3> HIDE DEF x
    <3>2. x + BLOCK_SIZE > x
      BY <1>3, HeaderSizes DEF x
    <3> QED BY <2>1, <3>1, <3>2 DEF x
  <2>2. CASE l # 0
    <3>1. PICK e \in Nat : l = e + 1
      <4>1. l - 1 \in Nat /\ l = (l - 1) + 1
        BY <1>2, <2>2
      <4> QED BY <4>1
    <3>2. l * BLOCK_SIZE = (e * BLOCK_SIZE) + BLOCK_SIZE /\ e * BLOCK_SIZE \in Nat
      BY <3>1, HeaderSizes
    <3> DEFINE x == j * BLOCK_SIZE
               y == e * BLOCK_SIZE
               z == m * BLOCK_SIZE
    <3>3. x \in Nat /\ y \in Nat /\ z = x + (y + BLOCK_SIZE)
      BY <1>3, <3>2
    <3> HIDE DEF x, y, z
    <3>4. ~ x + BLOCK_SIZE > z
      BY <3>3, HeaderSizes
    <3> QED BY <2>2, <3>4 DEF x, z
  <2> QED BY <2>1, <2>2
<1> QED BY <1>1, <1>3, <1>4, <1>5

\* A block in the buffer is a block of the file.
LEMMA BlockInChunk ==
  ASSUME origin \in Files, origin.genuine, NEW k \in Nat, NEW b \in Nat, NEW m \in Nat,
         InChunk(k, b, m), i + BLOCK_SIZE <= Len(chunk_buf)
  PROVE  /\ k + 1 <= b + m /\ k \in 0..(WholeBlocksOfPlain - 1)
         /\ Slice(chunk_buf, i, BLOCK_SIZE) = ChainAt(k + 1)
<1> DEFINE n == WholeBlocksOfPlain
           from == HeaderSize + b * BLOCK_SIZE
           len  == m * BLOCK_SIZE
           at   == (k - b) * BLOCK_SIZE
<1>1. /\ b <= k /\ k <= b + m /\ b + m <= n
      /\ Len(chunk_buf) = len /\ chunk_buf = Slice(file, from, len)
      /\ i = at
  BY DEF InChunk
<1>2. n \in Nat /\ file \in Seq(Byte)
  BY GenuineBlocks, FileIsBytes
<1>3. /\ from \in Nat /\ from + len <= Len(file)
  BY <1>1, ChunkOfFile
<1>4. /\ at \in Nat /\ b * BLOCK_SIZE + at = k * BLOCK_SIZE
      /\ k = b + m <=> at + BLOCK_SIZE > len
  BY <1>1, ChunkProgress
<1>5. len \in Nat /\ b * BLOCK_SIZE \in Nat /\ k * BLOCK_SIZE \in Nat
  BY HeaderSizes
<1> HIDE DEF n, at, len
<1>6. at + BLOCK_SIZE <= len
  BY <1>1
<1>7. k # b + m
  BY <1>4, <1>5, <1>6, HeaderSizes
<1>8. k + 1 <= b + m /\ k \in 0..(n - 1) /\ k \in 0..n
  BY <1>1, <1>2, <1>7
<1>9. from + at = HeaderSize + k * BLOCK_SIZE
  <2> DEFINE x == b * BLOCK_SIZE
             y == k * BLOCK_SIZE
  <2>1. from = HeaderSize + x /\ x \in Nat /\ x + at = y
    BY <1>4, <1>5
  <2> HIDE DEF x, y, from
  <2>2. from + at = HeaderSize + y
    BY <1>4, <2>1, HeaderSizes
  <2> QED BY <2>2 DEF y
<1> HIDE DEF from
<1>10. Slice(chunk_buf, i, BLOCK_SIZE) = Slice(file, from + at, BLOCK_SIZE)
  <2>1. BLOCK_SIZE \in Nat
    BY HeaderSizes
  <2>2. Slice(Slice(file, from, len), at, BLOCK_SIZE) = Slice(file, from + at, BLOCK_SIZE)
    BY <1>2, <1>3, <1>4, <1>5, <1>6, <2>1, SliceOfSlice
  <2> QED BY <1>1, <2>2
<1>11. Slice(file, HeaderSize + k * BLOCK_SIZE, BLOCK_SIZE) = ChainAt(k + 1)
  BY <1>8, BlockOfFile DEF n
<1> QED BY <1>8, <1>9, <1>10, <1>11 DEF n

LEMMA BlockStepsOpening ==
  ASSUME InputKept, Types, PastVerdict, Opening, origin.genuine, origin' = origin,
         DecryptWhole \/ EndOfChunk
  PROVE  Opening' /\ (pc' \in Stopped => StartOf(disk', Recovered'))
<1> DEFINE n == WholeBlocksOfPlain
<1>1. /\ pc = "blocks" /\ "output" \in held /\ StartOf(disk, output) /\ ret # 0
      /\ origin \in Files /\ file' = file
      /\ header = SubSeq(file, 1, HeaderSize) /\ HeaderSize <= Len(file)
      /\ \E k, b, m \in Nat : BlocksRecovered(k) /\ InChunk(k, b, m)
  BY DEF DecryptWhole, EndOfChunk, Opening, NoResultYet, NoResult, Recovering, PastVerdict, AfterVerdict,
         Running, file
<1>2. PICK k \in Nat, b \in Nat, m \in Nat : BlocksRecovered(k) /\ InChunk(k, b, m)
  BY <1>1
<1>3. /\ n \in Nat /\ k \in 0..n /\ n' = n
      /\ output = SubSeq(origin.plain, 1, k * BLOCK_SIZE) /\ prev = ChainAt(k)
      /\ b <= k /\ k <= b + m /\ b + m <= n
      /\ Len(chunk_buf) = m * BLOCK_SIZE /\ i = (k - b) * BLOCK_SIZE
  BY <1>1, <1>2, GenuineBlocks DEF BlocksRecovered, InChunk, WholeBlocksOfPlain
<1>4. /\ output \in Seq(Byte) /\ disk \in Seq(Byte)
      /\ Recovered \in Seq(Byte) /\ Recovered' = Recovered
  BY <1>1, RecoveredStarts DEF Types, TypeOK, Recovered
<1>5. CASE EndOfChunk
  <2>1. /\ i + BLOCK_SIZE > Len(chunk_buf) /\ pc' = "read"
        /\ UNCHANGED << output, prev, position, remaining, disk, held, ret >>
    BY <1>5 DEF EndOfChunk, Proceed, stream
  <2>2. k = b + m
    BY <1>3, <2>1, ChunkProgress
  <2>3. ToRead(k)'
    BY <1>2, <1>3, <2>1, <2>2 DEF InChunk, ToRead
  <2>4. BlocksRecovered(k)'
    BY <1>1, <1>2, <1>3, <2>1 DEF BlocksRecovered, ChainAt, FileKey, FileText
  <2>5. \E j \in Nat : BlocksRecovered(j)' /\ ToRead(j)'
    BY <2>3, <2>4
  <2> QED BY <1>1, <2>1, <2>5
          DEF Opening, NoResultYet, Recovering, Outcome, AfterVerdict, Stopped, Running
<1>6. CASE DecryptWhole
  <2> DEFINE block     == Slice(chunk_buf, i, BLOCK_SIZE)
             decrypted == cipher_cbc_decrypt_block(EncKey(Master, salt), prev, block)
  <2>1. /\ i + BLOCK_SIZE <= Len(chunk_buf)
        /\ prev' = block
        /\ UNCHANGED << position, remaining, chunk_buf >>
        /\ \/ /\ output' = output \o decrypted
              /\ i' = i + BLOCK_SIZE
              /\ Proceed("blocks", {"decrypted"})
           \/ /\ ShortWrite(decrypted)
              /\ Leave(-1, LoopResources, {"decrypted"})
    BY <1>6 DEF DecryptWhole
  <2>2. k + 1 <= b + m /\ k \in 0..(n - 1) /\ block = ChainAt(k + 1)
    BY <1>1, <1>2, <2>1, BlockInChunk
  <2>3. salt = SaltField(file)
    BY <1>1, FieldsOfFile
  <2>4. decrypted = cipher_cbc_decrypt_block(FileKey, ChainAt(k), ChainAt(k + 1))
    BY <1>3, <2>2, <2>3 DEF FileKey
  <2>5. /\ decrypted \in Seq(Byte)
        /\ output \o decrypted = SubSeq(origin.plain, 1, (k + 1) * BLOCK_SIZE)
    BY <1>1, <1>3, <2>2, <2>4, BlockRecovered
  <2> HIDE DEF decrypted, block
  <2>6. k + 1 \in 0..n /\ k + 1 \in Nat
    BY <1>3, <2>2
  <2>7. StartOf(output \o decrypted, Recovered)
    BY <1>1, <2>5, <2>6, RecoveredStarts
  <2>8. CASE /\ output' = output \o decrypted /\ i' = i + BLOCK_SIZE
             /\ Proceed("blocks", {"decrypted"})
    <3>1. BlocksRecovered(k + 1)'
      BY <1>1, <1>3, <2>1, <2>2, <2>5, <2>6, <2>8
      DEF BlocksRecovered, ChainAt, FileKey, FileText
    <3>2. i' = ((k + 1) - b) * BLOCK_SIZE
      BY <1>3, <2>8, ChunkProgress
    <3>3. b <= k + 1
      BY <1>3
    <3>4. InChunk(k + 1, b, m)'
      BY <1>1, <1>2, <1>3, <2>1, <2>2, <3>2, <3>3 DEF InChunk, ToRead, WholeBlocksOfPlain
    <3>5. \E k0, b0, m0 \in Nat : BlocksRecovered(k0)' /\ InChunk(k0, b0, m0)'
      BY <2>6, <3>1, <3>4
    <3>6. StartOf(disk', output')
      <4>1. StartOf(output, output \o decrypted) /\ output \o decrypted \in Seq(Byte)
        BY <1>4, <2>5, StartAppended, ConcatType
      <4>2. StartOf(disk, output \o decrypted)
        BY <1>1, <1>4, <4>1, StartTransitive
      <4> QED BY <2>8, <4>2 DEF Proceed
    <3> QED BY <1>1, <2>8, <3>5, <3>6
            DEF Proceed, Opening, NoResultYet, Recovering, Outcome, AfterVerdict, Stopped, Running
  <2>9. CASE ShortWrite(decrypted) /\ Leave(-1, LoopResources, {"decrypted"})
    <3>1. output' \in Seq(Byte) /\ StartOf(output', Recovered)
      BY <1>4, <2>5, <2>7, <2>9, ShortWriteStarts
    <3>2. "output" \in LoopResources
      BY DEF LoopResources
    <3>3. pc' = "done" /\ ret' = -1 /\ StartOf(disk', Recovered)
      BY <1>1, <1>4, <2>9, <3>1, <3>2, ClosingLeaves
    <3> QED BY <1>4, <3>3 DEF Opening, NoResultYet, Recovering, Outcome, AfterVerdict, Stopped, Running
  <2> QED BY <2>1, <2>8, <2>9
<1> QED BY <1>5, <1>6

\* The last block of an authentic file: its data completes the plaintext.
LEMMA LastBlockDecrypted ==
  ASSUME InputKept, InputReadable, PastVerdict, Opening, origin.genuine, DecryptLast
  PROVE  \E data \in Seq(Byte) :
           /\ output \o data = Recovered
           /\ \/ output' = output \o data /\ Proceed("finish", {"last_decrypted"})
              \/ ShortWrite(data) /\ Leave(-1, LoopResources, {"last_decrypted"})
<1> DEFINE n == WholeBlocksOfPlain
<1>1. /\ pc = "last" /\ origin \in Files /\ input = file
      /\ header = SubSeq(file, 1, HeaderSize) /\ HeaderSize <= Len(file)
  BY DEF DecryptLast, PastVerdict, AfterVerdict
<1>2. /\ pc = "last" /\ BlocksRecovered(n) /\ position = HeaderSize + n * BLOCK_SIZE
  BY <1>1 DEF Opening, Recovering
<1>3. n \in Nat /\ n \in 0..n /\ file \in Seq(Byte) /\ Len(file) \in Nat
  BY <1>1, GenuineBlocks, FileIsBytes, LenProperties
<1>4. /\ Slice(file, HeaderSize + n * BLOCK_SIZE, BLOCK_SIZE) = ChainAt(n + 1)
      /\ n * BLOCK_SIZE \in Nat
      /\ HeaderSize + n * BLOCK_SIZE + BLOCK_SIZE <= Len(file)
  BY <1>1, <1>3, BlockOfFile
<1>5. /\ position \in 0..Len(file)
      /\ Lesser(BLOCK_SIZE, Len(file) - position) = BLOCK_SIZE
  BY <1>2, <1>3, <1>4, HeaderSizes DEF Lesser
<1>6. \A block \in Delivered(BLOCK_SIZE) : block = ChainAt(n + 1) /\ Len(block) = BLOCK_SIZE
  <2>1. SUFFICES ASSUME NEW block \in Delivered(BLOCK_SIZE)
                 PROVE  block = ChainAt(n + 1) /\ Len(block) = BLOCK_SIZE
    OBVIOUS
  <2>2. PICK j \in 0..Lesser(BLOCK_SIZE, Len(file) - position) :
          /\ block = Slice(file, position, j) /\ Len(block) = j
          /\ "read" \notin Env => j = Lesser(BLOCK_SIZE, Len(file) - position)
    BY <1>1, <1>5, HeaderSizes, DeliveredIsSlice
  <2> QED BY <1>2, <1>4, <1>5, <2>2 DEF InputReadable
<1> DEFINE last == cipher_cbc_decrypt_block(FileKey, ChainAt(n), ChainAt(n + 1))
           u    == cipher_remove_pkcs7_padding(last)
           data == SubSeq(last, 1, Clamp(u))
<1>7. /\ u \in Nat /\ data \in Seq(Byte) /\ output \o data = Recovered
  <2>1. output = SubSeq(origin.plain, 1, WholeBlocksOfPlain * BLOCK_SIZE)
    BY <1>2 DEF BlocksRecovered
  <2> QED BY <1>2, <2>1, LastRecovered DEF AfterVerdict
<1>8. prev = ChainAt(n) /\ EncKey(Master, salt) = FileKey
  BY <1>1, <1>2, FieldsOfFile DEF BlocksRecovered, FileKey
<1>9. \/ output' = output \o data /\ Proceed("finish", {"last_decrypted"})
      \/ ShortWrite(data) /\ Leave(-1, LoopResources, {"last_decrypted"})
  <2>1. PICK block \in Delivered(BLOCK_SIZE) :
          IF Len(block) < BLOCK_SIZE
          THEN TRUE
          ELSE LET l == cipher_cbc_decrypt_block(EncKey(Master, salt), prev, block)
                   v == cipher_remove_pkcs7_padding(l)
                   d == SubSeq(l, 1, Clamp(v))
               IN  \/ v = -1
                   \/ output' = output \o d /\ Proceed("finish", {"last_decrypted"})
                   \/ ShortWrite(d) /\ Leave(-1, LoopResources, {"last_decrypted"})
    BY DEF DecryptLast
  <2>2. block = ChainAt(n + 1) /\ ~ Len(block) < BLOCK_SIZE
    BY <1>6, HeaderSizes
  <2>3. cipher_cbc_decrypt_block(EncKey(Master, salt), prev, block) = last
    BY <1>8, <2>2
  <2>4. u # -1
    BY <1>7
  <2> QED BY <2>1, <2>2, <2>3, <2>4
<1> HIDE DEF data, u, last
<1> QED BY <1>7, <1>9

LEMMA LastStepsOpening ==
  ASSUME InputKept, InputReadable, Types, PastVerdict, Opening, origin.genuine, origin' = origin,
         DecryptLast \/ Finish
  PROVE  Opening' /\ (pc' \in Stopped => StartOf(disk', Recovered'))
<1> DEFINE n == WholeBlocksOfPlain
<1>1. /\ pc \in {"last", "finish"} /\ "output" \in held /\ StartOf(disk, output) /\ ret # 0
      /\ origin \in Files /\ file' = file /\ input = file
      /\ header = SubSeq(file, 1, HeaderSize) /\ HeaderSize <= Len(file)
  BY DEF DecryptLast, Finish, Opening, NoResultYet, NoResult, Recovering, PastVerdict, AfterVerdict,
         Running, file
<1>2. output \in Seq(Byte) /\ disk \in Seq(Byte) /\ Recovered \in Seq(Byte)
  BY <1>1, RecoveredStarts DEF Types, TypeOK
<1>3. "output" \in LoopResources /\ "output" \in LoopResources \cup {"last_decrypted"}
  BY DEF LoopResources
<1>4. Recovered' = Recovered
  BY DEF Recovered
<1>5. CASE Finish
  <2>1. /\ output' = output /\ output = Recovered
        /\ Leave(0, LoopResources \cup {"last_decrypted"}, {})
    BY <1>5 DEF Finish, Exit, Opening, Recovering
  <2>2. /\ pc' = "done" /\ ret' = 0 /\ StartOf(disk', Recovered)
        /\ "close" \notin Env => disk' = output'
    <3>1. StartOf(output', Recovered)
      BY <1>2, <2>1, StartReflexive
    <3> QED BY <1>1, <1>2, <1>3, <2>1, <3>1, ClosingLeaves
  <2> QED BY <1>4, <2>1, <2>2
          DEF Opening, NoResultYet, Recovering, Outcome, AfterVerdict, Stopped, Running
<1>6. CASE DecryptLast
  <2>1. PICK data \in Seq(Byte) :
          /\ output \o data = Recovered
          /\ \/ output' = output \o data /\ Proceed("finish", {"last_decrypted"})
             \/ ShortWrite(data) /\ Leave(-1, LoopResources, {"last_decrypted"})
    BY <1>6, LastBlockDecrypted
  <2>2. CASE output' = output \o data /\ Proceed("finish", {"last_decrypted"})
    <3>1. output' = Recovered'
      BY <1>4, <2>1, <2>2
    <3>2. StartOf(output, output') /\ output' \in Seq(Byte)
      BY <1>2, <2>1, <2>2, StartAppended
    <3>3. StartOf(disk', output')
      BY <1>1, <1>2, <2>2, <3>2, StartTransitive DEF Proceed
    <3> QED BY <1>1, <2>2, <3>1, <3>3
            DEF Proceed, Opening, NoResultYet, Recovering, Outcome, AfterVerdict, Stopped, Running
  <2>3. CASE ShortWrite(data) /\ Leave(-1, LoopResources, {"last_decrypted"})
    <3>1. StartOf(output \o data, Recovered)
      BY <1>2, <2>1, StartReflexive
    <3>2. output' \in Seq(Byte) /\ StartOf(output', Recovered)
      BY <1>2, <2>1, <2>3, <3>1, ShortWriteStarts
    <3>3. pc' = "done" /\ ret' = -1 /\ StartOf(disk', Recovered)
      BY <1>1, <1>2, <1>3, <2>3, <3>2, ClosingLeaves
    <3> QED BY <1>4, <3>3 DEF Opening, NoResultYet, Recovering, Outcome, AfterVerdict, Stopped, Running
  <2> QED BY <2>1, <2>2, <2>3
<1> QED BY <1>5, <1>6

\* What becomes of the output when nothing but the file's content or the process
\* changes.
LEMMA OtherStepsOpening ==
  ASSUME InputKept, Types, PastVerdict, Opening, origin.genuine, origin' = origin,
         Flush \/ ChangeInput \/ Crash \/ Over \/ UNCHANGED vars
  PROVE  Opening'
<1>1. /\ origin \in Files /\ file' = file /\ disk \in Seq(Byte)
      /\ Recovered \in Seq(Byte) /\ Recovered' = Recovered
  BY RecoveredStarts DEF PastVerdict, Types, TypeOK, file, Recovered
<1>2. CASE Over \/ UNCHANGED vars
  BY <1>2
  DEF Over, vars, files, fields, stream, Opening, NoResultYet, Recovering, Outcome,
      BlocksRecovered, ToRead, InChunk, ChainAt, FileKey, FileText, WholeBlocksOfPlain,
      Recovered, file
<1>3. CASE ChangeInput
  BY <1>3 DEF ChangeInput, InputKept
<1>4. CASE Flush
  <2>1. /\ UNCHANGED << pc, ret, origin, output, fields, hmac_data, stream, prev, held >>
        /\ pc \in Running /\ "output" \in held
    BY <1>4 DEF Flush
  <2>2. PICK j \in (Len(disk) + 1)..Len(output) : disk' = SubSeq(output, 1, j)
    BY <1>4 DEF Flush
  <2>3. pc \in AfterVerdict \ {"open_output"}
    BY <2>1
    DEF Running, AfterVerdict, BeforeVerdict, PastVerdict, Unopened, Opening, Recovering
  <2>4. output \in Seq(Byte) /\ j \in 0..Len(output)
    BY <1>1, <2>2, LenProperties DEF Types, TypeOK
  <2>5. StartOf(disk', output')
    BY <2>1, <2>2, <2>4, StartCut
  <2> QED BY <1>1, <2>1, <2>3, <2>5
          DEF fields, stream, Opening, NoResultYet, Recovering, Outcome, AfterVerdict, Stopped,
              BlocksRecovered, ToRead, InChunk, ChainAt, FileKey, FileText, WholeBlocksOfPlain,
              Recovered
<1>5. CASE Crash
  <2>1. pc \in Running /\ pc' = "crashed" /\ disk' = disk /\ ret' = ret /\ ret # 0
    BY <1>5 DEF Crash, files, Opening, NoResultYet, NoResult
  <2>2. disk = OldOutput \/ StartOf(disk, Recovered)
    <3>1. CASE pc \in BeforeVerdict \cup {"open_output"}
      BY <3>1 DEF PastVerdict, Unopened, Opening, Recovering
    <3>2. CASE pc \in AfterVerdict \ {"open_output"}
      <4>1. Recovering /\ StartOf(disk, output)
        BY <3>2 DEF Opening, Recovering
      <4>2. output \in Seq(Byte) /\ StartOf(output, Recovered)
        BY <1>1, <3>2, <4>1, OutputStarts
      <4> QED BY <1>1, <4>1, <4>2, StartTransitive
    <3> QED BY <2>1, <3>1, <3>2 DEF Running, BeforeVerdict, AfterVerdict
  <2> QED BY <1>1, <2>1, <2>2
          DEF Opening, NoResultYet, Recovering, Outcome, AfterVerdict, Stopped, Running
<1> QED BY <1>2, <1>3, <1>4, <1>5

LEMMA StepOpening ==
  InputKept /\ InputReadable /\ Unforged /\ Types /\ PastVerdict /\ Opening /\ [Next]_vars
    => Opening'
<1> SUFFICES ASSUME InputKept, InputReadable, Unforged, Types, PastVerdict, Opening, [Next]_vars
             PROVE  Opening'
  OBVIOUS
<1>1. origin' = origin
  BY DEF Next, Program, Flush, ChangeInput, Crash, Over, vars, files,
         OpenInput, ReadSize, ReadSalt, ReadIv, Measure, ReadStoredMac, AllocChunk, AllocHmac,
         ReadForMac, Verify, OpenOutput, ReadChunk, DecryptWhole, EndOfChunk, DecryptLast, Finish
<1>2. CASE ~ origin.genuine
  BY <1>1, <1>2, NoResultStep DEF Opening
<1>3. CASE origin.genuine
  <2>1. CASE Program
    BY <1>1, <1>3, <2>1, EarlyStepsOpening, OpenOutputOpening, ReadChunkOpening,
       BlockStepsOpening, LastStepsOpening DEF Program
  <2>2. CASE Flush \/ ChangeInput \/ Crash \/ Over \/ UNCHANGED vars
    BY <1>1, <1>3, <2>2, OtherStepsOpening
  <2> QED BY <2>1, <2>2 DEF Next
<1> QED BY <1>2, <1>3

LEMMA StartOfStarts ==
  ASSUME NEW x \in Seq(Byte), NEW y \in Seq(Byte), StartOf(x, y)
  PROVE  StartsWith(y, x)
<1>1. Len(x) \in 0..Len(y) /\ x = SubSeq(y, 1, Len(x))
  BY StartIsCut
<1> QED BY <1>1, LenProperties DEF StartsWith

LEMMA OpeningStarts ==
  ASSUME InputKept, Unforged, InputReadable
  PROVE  Spec => [](Types /\ PastVerdict /\ Opening)
<1> DEFINE Inv == Types /\ PastVerdict /\ Opening
<1>1. Init => Inv
  <2> SUFFICES ASSUME Init PROVE Inv
    OBVIOUS
  <2>1. pc = "open_input" /\ ret = 1
    BY DEF Init, NoResult
  <2>2. Opening
    BY <2>1 DEF Opening, NoResultYet, NoResult, Recovering, Outcome, AfterVerdict, Stopped
  <2> QED BY <2>2, InitialState
<1>2. Inv /\ [Next]_vars => Inv'
  BY StepTypes, StepPastVerdict, StepOpening
<1> QED BY <1>1, <1>2, PTL DEF Spec

\* What is found at output_path, at any moment and after a crash or an error, is
\* the old file or the start of the plaintext: no padding, no block out of order,
\* wherever a write, an open, an allocation or the close fails and whatever stdio
\* has passed on by then (cipher.c:376-467).
THEOREM OnlyPlaintextWritten ==
  InputKept /\ Unforged /\ InputReadable /\ Spec => []WrittenIsPlaintext
<1> SUFFICES ASSUME InputKept, Unforged, InputReadable PROVE Spec => []WrittenIsPlaintext
  OBVIOUS
<1>1. Types /\ PastVerdict /\ Opening => WrittenIsPlaintext
  <2> SUFFICES ASSUME Types, PastVerdict, Opening, disk # OldOutput
               PROVE  StartsWith(origin.plain, disk)
    BY DEF WrittenIsPlaintext
  <2>1. pc \in Running \cup Stopped /\ disk \in Seq(Byte)
    BY DEF Types, TypeOK
  <2>2. origin.genuine /\ origin \in Files
    BY DEF PastVerdict, Unopened
  <2>3. origin.plain \in Seq(Byte)
    BY <2>2, DecryptConstants
  <2>4. StartOf(disk, origin.plain)
    <3>1. CASE pc \in Stopped
      BY <2>1, <2>2, <2>3, <3>1, RecoveredStarts, StartTransitive DEF Opening, Outcome
    <3>2. CASE pc \in AfterVerdict \ {"open_output"}
      <4>1. Recovering /\ StartOf(disk, output)
        BY <2>2, <3>2 DEF Opening, Recovering
      <4>2. output \in Seq(Byte) /\ StartOf(output, origin.plain)
        BY <2>2, <3>2, <4>1, OutputStarts
      <4> QED BY <2>1, <2>3, <4>1, <4>2, StartTransitive
    <3>3. CASE pc \in BeforeVerdict \cup {"open_output"}
      BY <2>2, <3>3 DEF PastVerdict, Unopened, Opening, Recovering
    <3> QED BY <2>1, <3>1, <3>2, <3>3 DEF Running, BeforeVerdict, AfterVerdict
  <2> QED BY <2>1, <2>3, <2>4, StartOfStarts
<1> QED BY <1>1, OpeningStarts, PTL

\* cipher.h:43, the promise of a return of 0: the whole plaintext is at output_path,
\* up to the size in the header. fclose hands on the buffered rest (cipher.c:463),
\* and its result is not looked at: the promise holds as long as it does not fail.
THEOREM SuccessOpens ==
  InputKept /\ Unforged /\ InputReadable /\ "close" \notin Env /\ Spec => []SuccessMeansOpened
<1> SUFFICES ASSUME InputKept, Unforged, InputReadable, "close" \notin Env
             PROVE  Spec => []SuccessMeansOpened
  OBVIOUS
<1>1. Types /\ PastVerdict /\ Opening => SuccessMeansOpened
  <2> SUFFICES ASSUME Types, PastVerdict, Opening, ret = 0
               PROVE  disk = SubSeq(origin.plain, 1, Lesser(origin.size, Len(origin.plain)))
    BY DEF SuccessMeansOpened
  <2>1. pc \in Stopped
    BY DEF Types, TypeOK, Opening, NoResultYet, NoResult
  <2>2. origin.genuine
    BY DEF PastVerdict, Unopened
  <2> QED BY <2>1, <2>2 DEF Opening, Outcome, Recovered
<1> QED BY <1>1, OpeningStarts, PTL

-----------------------------------------------------------------------------
(* A genuine file is opened.                                               *)

\* No open, allocation, read or write fails. The close may: its result is not
\* looked at.
NothingFails == Env \cap {"open", "alloc", "read", "write"} = {}

\* A header field of a file that is long enough is read.
LEMMA FieldArrives ==
  ASSUME InputKept, NothingFails, origin \in Files, input = file, NEW size \in Nat, NEW next,
         NEW gained, NEW released, position \in Nat, position + size <= Len(file),
         ReadField(size, next, gained, released)
  PROVE  pc' = next
<1>1. file \in Seq(Byte) /\ Len(file) \in Nat
  BY FileIsBytes, LenProperties
<1>2. position \in 0..Len(file) /\ Lesser(size, Len(file) - position) = size
  BY <1>1 DEF Lesser
<1>3. \A data \in Delivered(size) : Len(data) = size
  BY <1>2, DeliveredIsSlice DEF NothingFails
<1> QED BY <1>3 DEF ReadField, Proceed

LEMMA GenuineHeaderRead ==
  ASSUME InputKept, NothingFails, PastVerdict, origin.genuine,
         OpenInput \/ ReadSize \/ ReadSalt \/ ReadIv
  PROVE  pc' \in Running
<1>1. origin \in Files /\ Unopened
  BY DEF PastVerdict, OpenInput, ReadSize, ReadSalt, ReadIv, BeforeVerdict
<1>2. input = file /\ FieldsFromFile
  BY <1>1, KeptMeansExact
<1>3. HeaderSize <= Len(file) /\ Len(file) \in Nat
  <2>1. CiphertextSize(file) \in Nat /\ Len(file) \in Nat
    BY <1>1, GenuineBlocks, HeaderSizes, FileIsBytes, LenProperties
  <2> QED BY <2>1, HeaderSizes DEF CiphertextSize
<1>4. CASE OpenInput
  BY <1>4 DEF OpenInput, NothingFails, Proceed, Running
<1>5. CASE ReadSize
  <2>1. position = 0 /\ ReadField(SIZE_BYTES, "salt", {}, {"input"})
    BY <1>2, <1>5 DEF ReadSize, FieldsFromFile
  <2>2. position \in Nat /\ SIZE_BYTES \in Nat /\ position + SIZE_BYTES <= Len(file)
    BY <1>3, <2>1, HeaderSizes
  <2>3. pc' = "salt"
    BY <1>1, <1>2, <2>1, <2>2, FieldArrives
  <2> QED BY <2>3 DEF Running
<1>6. CASE ReadSalt
  <2>1. position = SIZE_BYTES /\ ReadField(KDF_SALT_SIZE, "iv", {"ctx"}, {"input"})
    BY <1>2, <1>6 DEF ReadSalt, FieldsFromFile
  <2>2. position \in Nat /\ KDF_SALT_SIZE \in Nat /\ position + KDF_SALT_SIZE <= Len(file)
    BY <1>3, <2>1, HeaderSizes
  <2>3. pc' = "iv"
    BY <1>1, <1>2, <2>1, <2>2, FieldArrives
  <2> QED BY <2>3 DEF Running
<1>7. CASE ReadIv
  <2>1. /\ position = SIZE_BYTES + KDF_SALT_SIZE
        /\ ReadField(BLOCK_SIZE, "measure", {}, {"ctx", "input"})
    BY <1>2, <1>7 DEF ReadIv, FieldsFromFile
  <2>2. position \in Nat /\ BLOCK_SIZE \in Nat /\ position + BLOCK_SIZE <= Len(file)
    BY <1>3, <2>1, HeaderSizes
  <2>3. pc' = "measure"
    BY <1>1, <1>2, <2>1, <2>2, FieldArrives
  <2> QED BY <2>3 DEF Running
<1> QED BY <1>4, <1>5, <1>6, <1>7

LEMMA GenuineMeasured ==
  ASSUME InputKept, NothingFails, PastVerdict, origin.genuine,
         Measure \/ ReadStoredMac \/ AllocChunk \/ AllocHmac \/ ReadForMac
  PROVE  pc' \in Running
<1>1. origin \in Files /\ input = file
  BY KeptMeansExact
  DEF PastVerdict, Measure, ReadStoredMac, AllocChunk, AllocHmac, ReadForMac, BeforeVerdict
<1> DEFINE n == WholeBlocksOfPlain
           m == n * BLOCK_SIZE
<1>2. /\ n + 1 \in Nat /\ m \in Nat
      /\ CiphertextSize(file) = (n + 1) * BLOCK_SIZE /\ (n + 1) * BLOCK_SIZE = m + BLOCK_SIZE
  BY <1>1, GenuineBlocks
<1>3. CASE Measure
  <2>1. encrypted_size' = CiphertextSize(file)
    BY <1>1, <1>3 DEF Measure, CiphertextSize
  <2>2. encrypted_size' > 0
    <3> HIDE DEF m, n
    <3> QED BY <1>2, <2>1, HeaderSizes
  <2>3. encrypted_size' % BLOCK_SIZE = 0
    <3>1. /\ BLOCK_SIZE \in Nat \ {0} /\ 0 \in 0..(BLOCK_SIZE - 1)
          /\ encrypted_size' \in Nat /\ encrypted_size' = BLOCK_SIZE * (n + 1) + 0
      BY <1>2, <2>1, HeaderSizes
    <3> QED BY <1>2, <3>1, DivisionUnique
  <2> QED BY <1>3, <2>2, <2>3, HeaderSizes DEF Measure, Proceed, Running
<1>4. CASE ReadStoredMac
  <2>1. Len(input) >= HMAC_SIZE
    <3> HIDE DEF m, n
    <3>1. Len(file) \in Nat
      BY <1>1, FileIsBytes, LenProperties
    <3> QED BY <1>1, <1>2, <3>1, HeaderSizes DEF CiphertextSize
  <2>2. ~ (Len(input) < HMAC_SIZE)
    BY <1>1, <2>1, FileIsBytes, LenProperties, HeaderSizes
  <2> QED BY <1>4, <2>2 DEF ReadStoredMac, NothingFails, Proceed, Running
<1>5. CASE AllocChunk \/ AllocHmac
  BY <1>5 DEF AllocChunk, AllocHmac, Allocate, NothingFails, Proceed, Running
<1>6. CASE ReadForMac
  BY <1>6 DEF ReadForMac, Proceed, Running
<1> QED BY <1>3, <1>4, <1>5, <1>6

\* The verdict on a genuine file: the MAC is computed of what it was made of.
LEMMA GenuineVerdict ==
  ASSUME InputKept, NothingFails, PastVerdict, origin.genuine, Verify
  PROVE  pc' \in Running
<1>1. origin \in Files /\ Unopened /\ pc = "verify"
  BY DEF PastVerdict, Verify, BeforeVerdict
<1>2. /\ header = SubSeq(file, 1, HeaderSize) /\ HeaderSize <= Len(file)
      /\ encrypted_size = CiphertextSize(file) /\ encrypted_size > 0
      /\ stored_mac = StoredMac(file)
      /\ remaining = 0 /\ hmac_data = Slice(file, HeaderSize, encrypted_size - remaining)
  BY <1>1, KeptMeansExact DEF FieldsFromFile, BeforeVerdict, NothingFails
<1>3. encrypted_size \in Nat /\ HeaderSize + encrypted_size <= Len(file) /\ Len(file) \in Nat
  BY <1>1, <1>2, HeaderSizes, FileIsBytes, LenProperties DEF CiphertextSize
<1>4. /\ hmac_data = Slice(file, HeaderSize, encrypted_size)
      /\ hmac_data \in Seq(Byte) /\ Len(hmac_data) = encrypted_size
  BY <1>1, <1>2, <1>3, HeaderSizes, FileIsBytes, SliceType
<1>5. \A rest : hmac_data \o SubSeq(rest, Len(hmac_data) + 1, encrypted_size) = hmac_data
  <2>1. SUFFICES ASSUME NEW rest
                 PROVE  hmac_data \o SubSeq(rest, Len(hmac_data) + 1, encrypted_size) = hmac_data
    OBVIOUS
  <2>2. SubSeq(rest, Len(hmac_data) + 1, encrypted_size) = << >>
    BY <1>3, <1>4, SubSeqEmpty
  <2> QED BY <1>4, <2>2, ConcatEmptySeq
<1>6. salt = SaltField(file)
  BY <1>1, <1>2, FieldsOfFile
<1>7. hmac_compute(MacKey(Master, salt), header \o hmac_data) = stored_mac
  BY <1>1, <1>2, <1>4, <1>6, GenuineBlocks
<1>8. cipher_ct_memcmp(stored_mac, stored_mac) = 0
  BY DEF cipher_ct_memcmp
<1>9. \A rest : LET buffer == hmac_data \o SubSeq(rest, Len(hmac_data) + 1, encrypted_size)
                IN  cipher_ct_memcmp(hmac_compute(MacKey(Master, salt), header \o buffer),
                                     stored_mac) = 0
  BY <1>5, <1>7, <1>8
<1> QED BY <1>9 DEF Verify, Running

LEMMA GenuineOpened ==
  ASSUME InputKept, NothingFails, PastVerdict, Opening, origin.genuine,
         OpenOutput \/ ReadChunk \/ DecryptWhole \/ EndOfChunk \/ DecryptLast \/ Finish
  PROVE  pc' = "done" => ret' = 0
<1>1. CASE OpenOutput
  BY <1>1 DEF OpenOutput, NothingFails
<1>2. CASE ReadChunk \/ DecryptWhole \/ EndOfChunk
  BY <1>2 DEF ReadChunk, DecryptWhole, EndOfChunk, ShortWrite, NothingFails, Proceed
<1>3. CASE DecryptLast
  <2>1. InputReadable
    BY DEF InputReadable, NothingFails
  <2> QED BY <1>3, <2>1, LastBlockDecrypted DEF ShortWrite, NothingFails, Proceed
<1>4. CASE Finish
  BY <1>4 DEF Finish, Exit, Leave
<1> QED BY <1>1, <1>2, <1>3, <1>4

\* When no open, allocation, read or write fails, and none changes the input file
\* meanwhile, a genuine file is opened, whatever its length and however stdio cuts
\* what is written: encryption loses nothing, and none of the early returns of
\* cipher_decrypt_file (cipher.c:270-467) is taken.
THEOREM GenuineIsOpened == InputKept /\ Unforged /\ NothingFails /\ Spec => []GenuineOpens
<1> SUFFICES ASSUME InputKept, Unforged, NothingFails PROVE Spec => []GenuineOpens
  OBVIOUS
<1>1. InputReadable
  BY DEF InputReadable, NothingFails
<1>2. Init => GenuineOpens
  BY DEF Init, GenuineOpens
<1>3. Types /\ PastVerdict /\ Opening /\ GenuineOpens /\ [Next]_vars => GenuineOpens'
  <2> SUFFICES ASSUME PastVerdict, Opening, GenuineOpens, [Next]_vars,
                      pc' = "done", origin'.genuine
               PROVE  ret' = 0
    BY DEF GenuineOpens
  <2>1. origin' = origin
    BY DEF Next, Program, Flush, ChangeInput, Crash, Over, vars, files,
           OpenInput, ReadSize, ReadSalt, ReadIv, Measure, ReadStoredMac, AllocChunk, AllocHmac,
           ReadForMac, Verify, OpenOutput, ReadChunk, DecryptWhole, EndOfChunk, DecryptLast,
           Finish
  <2>2. origin.genuine /\ pc' \notin Running
    BY <2>1 DEF Running
  <2>3. CASE Program
    BY <2>2, <2>3, GenuineHeaderRead, GenuineMeasured, GenuineVerdict, GenuineOpened DEF Program
  <2>4. CASE Flush \/ ChangeInput \/ Crash \/ Over \/ UNCHANGED vars
    BY <2>2, <2>4 DEF Flush, ChangeInput, Crash, Over, vars, GenuineOpens, Running
  <2> QED BY <2>3, <2>4 DEF Next
<1> QED BY <1>1, <1>2, <1>3, OpeningStarts, PTL DEF Spec

-----------------------------------------------------------------------------
(* The call, seen from outside: it implements OutputFile.                  *)

\* The places at which the output is open.
Writing == AfterVerdict \ {"open_output"}

OpenedInv == Types /\ PastVerdict /\ Opening

LEMMA PhaseOfPlace ==
  /\ pc \in BeforeVerdict \cup {"open_output"} => Phase = "before"
  /\ pc \in Writing => Phase = "writing"
  /\ pc \in Stopped => Phase = "over"
<1>1. pc \in BeforeVerdict \cup {"open_output"} => Phase = "before"
  BY DEF Phase, BeforeVerdict, Running, Stopped
<1>2. pc \in Writing => Phase = "writing"
  BY DEF Phase, Writing, AfterVerdict, Running, Stopped
<1>3. pc \in Stopped => Phase = "over"
  BY DEF Phase, Running, Stopped
<1> QED BY <1>1, <1>2, <1>3

LEMMA PlacesOfCall ==
  Types => pc \in BeforeVerdict \cup {"open_output"} \cup Writing \cup Stopped
BY DEF Types, TypeOK, Running, Stopped, Writing, AfterVerdict, BeforeVerdict

\* A start is a start in OutputFile's sense, too.
LEMMA StartSeen ==
  ASSUME NEW x \in Seq(Byte), NEW y \in Seq(Byte), StartOf(x, y)
  PROVE  Output!StartOf(x, y)
<1>1. Len(x) \in 0..Len(y) /\ x = SubSeq(y, 1, Len(x))
  BY StartIsCut
<1> QED BY <1>1, LenProperties DEF Output!StartOf

LEMMA OutputOfGenuine ==
  ASSUME origin.genuine
  PROVE  Outputs(origin) = {Recovered}
BY DEF Outputs, Recovered

LEMMA OriginKept == [Next]_vars => origin' = origin
BY DEF Next, Program, Flush, ChangeInput, Crash, Over, vars, files,
       OpenInput, ReadSize, ReadSalt, ReadIv, Measure, ReadStoredMac, AllocChunk, AllocHmac,
       ReadForMac, Verify, OpenOutput, ReadChunk, DecryptWhole, EndOfChunk, DecryptLast, Finish

LEMMA OverStays ==
  ASSUME pc \in Stopped, [Next]_vars
  PROVE  UNCHANGED << pc, ret, disk, origin >>
BY DEF Stopped, Running, Next, Program, Flush, ChangeInput, Crash, Over, vars, files,
       OpenInput, ReadSize, ReadSalt, ReadIv, Measure, ReadStoredMac, AllocChunk, AllocHmac,
       ReadForMac, Verify, OpenOutput, ReadChunk, DecryptWhole, EndOfChunk, DecryptLast, Finish

\* Before the output is open the file is as it was.
LEMMA NotYetOpened ==
  ASSUME PastVerdict, Opening, pc \in BeforeVerdict \cup {"open_output"}
  PROVE  disk = OldOutput /\ "output" \notin held
<1>1. CASE pc \in BeforeVerdict
  BY <1>1 DEF PastVerdict, Unopened
<1>2. CASE pc = "open_output"
  <2>1. origin.genuine
    BY <1>2 DEF PastVerdict, AfterVerdict
  <2> QED BY <1>2, <2>1 DEF Opening, Recovering
<1> QED BY <1>1, <1>2

\* What a step from there can do: refuse or go on, the file unchanged, or open
\* and empty the output.
LEMMA FirstSteps ==
  ASSUME pc \in BeforeVerdict \cup {"open_output"}, "output" \notin held, [Next]_vars
  PROVE  /\ pc' \in Stopped => disk' = disk /\ ret' \in {ret, -1}
         /\ pc' \in Writing => disk' = << >> /\ ret' = ret
<1>1. CASE \/ OpenInput \/ ReadSize \/ ReadSalt \/ ReadIv \/ Measure \/ ReadStoredMac
           \/ AllocChunk \/ AllocHmac \/ ReadForMac \/ Verify
  BY <1>1
  DEF OpenInput, ReadSize, ReadSalt, ReadIv, Measure, ReadStoredMac, AllocChunk, AllocHmac,
      ReadForMac, Verify, ReadField, Allocate, Proceed, Exit, Leave, Writing, AfterVerdict, Stopped
<1>2. CASE OpenOutput
  BY <1>2 DEF OpenOutput, Exit, Leave, Writing, AfterVerdict, Stopped
<1>3. CASE ReadChunk \/ DecryptWhole \/ EndOfChunk \/ DecryptLast \/ Finish
  BY <1>3 DEF ReadChunk, DecryptWhole, EndOfChunk, DecryptLast, Finish, BeforeVerdict
<1>4. CASE Flush
  BY <1>4 DEF Flush
<1>5. CASE Crash
  BY <1>5 DEF Crash, files, Writing, AfterVerdict
<1>6. CASE ChangeInput \/ Over \/ UNCHANGED vars
  BY <1>6 DEF ChangeInput, Over, vars, files, BeforeVerdict, Writing, AfterVerdict, Stopped, Running
<1> QED BY <1>1, <1>2, <1>3, <1>4, <1>5, <1>6 DEF Next, Program

\* A return that closes the output: what the file has it keeps.
LEMMA ClosingGrows ==
  ASSUME "output" \in held, NEW code, NEW released, "output" \in released, NEW left,
         Leave(code, released, left), output' \in Seq(Byte), disk \in Seq(Byte),
         StartOf(disk, output')
  PROVE  StartOf(disk, disk')
<1>1. CloseOutput
  BY DEF Leave
<1>2. Len(output') \in Nat /\ Len(disk) \in Nat /\ Len(disk) <= Len(output')
  BY LenProperties DEF StartOf
<1>3. PICK n \in (IF "close" \in Env THEN Len(disk) ELSE Len(output'))..Len(output') :
        disk' = SubSeq(output', 1, n)
  BY <1>1 DEF CloseOutput
<1>4. n \in 0..Len(output') /\ Len(disk) <= n
  BY <1>2, <1>3
<1>5. disk' \in Seq(Byte) /\ Len(disk') = n /\ StartOf(disk', output')
  BY <1>3, <1>4, PrefixType, StartCut
<1> QED BY <1>4, <1>5, StartsOfOne

\* A write adds to the output, even one that fails.
LEMMA WritesAdd ==
  ASSUME output \in Seq(Byte), NEW data \in Seq(Byte),
         output' = output \o data \/ ShortWrite(data)
  PROVE  output' \in Seq(Byte) /\ StartOf(output, output')
<1>1. CASE output' = output \o data
  BY <1>1, ConcatType, StartAppended
<1>2. CASE ShortWrite(data)
  <2>1. Len(data) \in Nat
    BY LenProperties
  <2>2. PICK n \in 0..(Len(data) - 1) : output' = output \o SubSeq(data, 1, n)
    BY <1>2 DEF ShortWrite
  <2>3. n \in 0..Len(data)
    BY <2>1
  <2>4. SubSeq(data, 1, n) \in Seq(Byte)
    BY <2>3, PrefixType
  <2> QED BY <2>2, <2>4, ConcatType, StartAppended
<1> QED BY <1>1, <1>2

\* Where the loop over the blocks returns, and where the call ends.
LEMMA ReturningSteps ==
  ASSUME InputKept, InputReadable, Types, PastVerdict, Opening, origin.genuine,
         pc \in Writing, Program, pc' \in Stopped
  PROVE  StartOf(disk, disk')
<1>1. /\ "output" \in held /\ StartOf(disk, output)
      /\ output \in Seq(Byte) /\ disk \in Seq(Byte)
  BY DEF Opening, Recovering, Writing, Types, TypeOK
<1>2. "output" \in LoopResources /\ "output" \in LoopResources \cup {"last_decrypted"}
  BY DEF LoopResources
<1>3. CASE DecryptWhole
  <2> DEFINE block     == Slice(chunk_buf, i, BLOCK_SIZE)
             decrypted == cipher_cbc_decrypt_block(EncKey(Master, salt), prev, block)
  <2>1. /\ pc = "blocks" /\ i + BLOCK_SIZE <= Len(chunk_buf)
        /\ ShortWrite(decrypted) /\ Leave(-1, LoopResources, {"decrypted"})
    BY <1>3 DEF DecryptWhole, Proceed, Stopped
  <2>2. /\ prev \in Block /\ chunk_buf \in Seq(Byte) /\ i \in Nat
        /\ EncKey(Master, salt) \in Key
    BY <2>1, InTheLoop DEF Types, Shape, OutputAccounted
  <2>3. block \in Block
    BY <2>1, <2>2, SliceIsBlock
  <2>4. decrypted \in Seq(Byte)
    BY <2>2, <2>3, DecryptedBlock, BlockIsSeq
  <2> HIDE DEF block, decrypted
  <2>5. output' \in Seq(Byte) /\ StartOf(output, output')
    BY <1>1, <2>1, <2>4, WritesAdd
  <2>6. StartOf(disk, output')
    BY <1>1, <2>5, StartTransitive
  <2> QED BY <1>1, <1>2, <2>1, <2>5, <2>6, ClosingGrows
<1>4. CASE DecryptLast
  <2>1. PICK data \in Seq(Byte) :
          \/ output' = output \o data /\ Proceed("finish", {"last_decrypted"})
          \/ ShortWrite(data) /\ Leave(-1, LoopResources, {"last_decrypted"})
    BY <1>4, LastBlockDecrypted
  <2>2. ShortWrite(data) /\ Leave(-1, LoopResources, {"last_decrypted"})
    BY <2>1 DEF Proceed, Stopped
  <2>3. output' \in Seq(Byte) /\ StartOf(output, output')
    BY <1>1, <2>2, WritesAdd
  <2>4. StartOf(disk, output')
    BY <1>1, <2>3, StartTransitive
  <2> QED BY <1>1, <1>2, <2>2, <2>3, <2>4, ClosingGrows
<1>5. CASE Finish
  <2>1. output' = output /\ Leave(0, LoopResources \cup {"last_decrypted"}, {})
    BY <1>5 DEF Finish, Exit
  <2> QED BY <1>1, <1>2, <2>1, ClosingGrows
<1>6. CASE ReadChunk \/ EndOfChunk
  BY <1>6 DEF ReadChunk, EndOfChunk, Proceed, Stopped
<1>7. CASE \/ OpenInput \/ ReadSize \/ ReadSalt \/ ReadIv \/ Measure \/ ReadStoredMac
           \/ AllocChunk \/ AllocHmac \/ ReadForMac \/ Verify \/ OpenOutput
  BY <1>7
  DEF OpenInput, ReadSize, ReadSalt, ReadIv, Measure, ReadStoredMac, AllocChunk, AllocHmac,
      ReadForMac, Verify, OpenOutput, Writing, AfterVerdict
<1> QED BY <1>3, <1>4, <1>5, <1>6, <1>7 DEF Program

\* Once the output is open, what it has it keeps, and it has a start of the
\* plaintext; it changes only when the call does not.
LEMMA WritingSteps ==
  ASSUME InputKept, InputReadable, Types, PastVerdict, Opening, [Next]_vars,
         Types', Opening', pc \in Writing
  PROVE  /\ disk \in Seq(Byte) /\ disk' \in Seq(Byte) /\ Recovered \in Seq(Byte)
         /\ StartOf(disk, disk') /\ StartOf(disk', Recovered)
         /\ pc' \in Writing \cup Stopped
<1>1. origin.genuine /\ origin \in Files /\ origin' = origin
  BY OriginKept DEF PastVerdict, Writing
<1>2. /\ Recovered \in Seq(Byte) /\ Recovered' = Recovered
      /\ disk \in Seq(Byte) /\ disk' \in Seq(Byte)
  BY <1>1, RecoveredStarts DEF Types, TypeOK, Recovered
<1>3. /\ output \in Seq(Byte) /\ StartOf(disk, output) /\ StartOf(output, Recovered)
  BY <1>1, OutputStarts DEF Opening, Recovering, Writing
<1>4. StartOf(disk, Recovered) /\ StartOf(disk, disk)
  BY <1>2, <1>3, StartTransitive, StartReflexive
<1>5. CASE Program
  <2>1. pc' \in Writing \cup Stopped
    BY <1>5
    DEF Program, OpenInput, ReadSize, ReadSalt, ReadIv, Measure, ReadStoredMac, AllocChunk,
        AllocHmac, ReadForMac, Verify, OpenOutput, ReadChunk, DecryptWhole, EndOfChunk,
        DecryptLast, Finish, Proceed, Exit, Leave, Writing, AfterVerdict, Stopped
  <2>2. CASE pc' \in Stopped
    <3>1. StartOf(disk, disk')
      BY <1>1, <1>5, <2>2, ReturningSteps
    <3>2. DecryptWhole \/ EndOfChunk \/ DecryptLast \/ Finish
      BY <1>5, <2>2
      DEF Program, OpenInput, ReadSize, ReadSalt, ReadIv, Measure, ReadStoredMac, AllocChunk,
          AllocHmac, ReadForMac, Verify, OpenOutput, ReadChunk, Proceed, Writing, AfterVerdict,
          Stopped
    <3>3. StartOf(disk', Recovered')
      BY <1>1, <2>2, <3>2, BlockStepsOpening, LastStepsOpening
    <3> QED BY <1>2, <2>1, <3>1, <3>3
  <2>3. CASE pc' \in Writing
    <3>1. disk' = disk
      BY <1>5, <2>3
      DEF Program, OpenInput, ReadSize, ReadSalt, ReadIv, Measure, ReadStoredMac, AllocChunk,
          AllocHmac, ReadForMac, Verify, OpenOutput, ReadChunk, DecryptWhole, EndOfChunk,
          DecryptLast, Finish, Proceed, Exit, Leave, Writing, AfterVerdict
    <3> QED BY <1>2, <1>4, <2>1, <3>1
  <2> QED BY <2>1, <2>2, <2>3
<1>6. CASE Flush
  <2>1. /\ pc' = pc
        /\ \E j \in (Len(disk) + 1)..Len(output) : disk' = SubSeq(output, 1, j)
    BY <1>6 DEF Flush
  <2>2. PICK j \in (Len(disk) + 1)..Len(output) : disk' = SubSeq(output, 1, j)
    BY <2>1
  <2>3. j \in 0..Len(output) /\ Len(disk) <= j
    BY <1>2, <1>3, LenProperties
  <2>4. Len(disk') = j /\ StartOf(disk', output)
    BY <1>3, <2>2, <2>3, PrefixType, StartCut
  <2>5. StartOf(disk, disk')
    BY <1>2, <1>3, <2>3, <2>4, StartsOfOne
  <2>6. StartOf(disk', Recovered)
    BY <1>2, <1>3, <2>4, StartTransitive
  <2> QED BY <1>2, <2>1, <2>5, <2>6
<1>7. CASE ChangeInput \/ Crash \/ Over \/ UNCHANGED vars
  <2>1. disk' = disk /\ pc' \in {pc, "crashed"}
    BY <1>7 DEF ChangeInput, Crash, Over, vars, files
  <2> QED BY <1>2, <1>4, <2>1 DEF Stopped
<1> QED BY <1>5, <1>6, <1>7 DEF Next

\* Each step is one of OutputFile, or none.
LEMMA StepSeen ==
  ASSUME InputKept, InputReadable, "close" \notin Env, OpenedInv, OpenedInv', [Next]_vars
  PROVE  [Output!Next]_<< origin, Phase, disk, ret >>
<1> USE DEF OpenedInv
<1>1. origin' = origin
  BY OriginKept
<1>2. ret \in {NoResult, 0, -1} /\ ret' \in {NoResult, 0, -1}
  BY DEF Types, TypeOK
<1>3. CASE pc \in Stopped
  <2>1. UNCHANGED << pc, ret, disk, origin >>
    BY <1>3, OverStays
  <2> QED BY <2>1 DEF Phase
<1>4. CASE pc \in BeforeVerdict \cup {"open_output"}
  <2>1. disk = OldOutput /\ "output" \notin held /\ Phase = "before" /\ ret = NoResult
    BY <1>4, NotYetOpened, PhaseOfPlace DEF Opening, NoResultYet, BeforeVerdict, Running
  <2>2. CASE pc' \in BeforeVerdict \cup {"open_output"}
    <3>1. Phase' = "before" /\ ret' = NoResult /\ disk' = OldOutput
      <4>1. Phase' = "before"
        BY <2>2 DEF Phase, BeforeVerdict, Running, Stopped
      <4>2. ret' = NoResult
        BY <2>2 DEF Opening, NoResultYet, BeforeVerdict, Running
      <4>3. CASE pc' \in BeforeVerdict
        BY <4>1, <4>2, <4>3 DEF PastVerdict, Unopened
      <4>4. CASE pc' = "open_output"
        BY <4>1, <4>2, <4>4 DEF PastVerdict, AfterVerdict, Opening, Recovering
      <4> QED BY <2>2, <4>3, <4>4
    <3> QED BY <1>1, <2>1, <3>1
  <2>3. CASE pc' \in Stopped
    <3>1. Phase' = "over"
      BY <2>3 DEF Phase, Running, Stopped
    <3>2. disk' = disk /\ ret' \in {NoResult, -1}
      BY <1>4, <2>1, <2>3, FirstSteps
    <3>3. Output!Refuse
      BY <1>1, <2>1, <3>1, <3>2 DEF Output!Refuse
    <3> QED BY <3>3 DEF Output!Next
  <2>4. CASE pc' \in Writing
    <3>1. Phase' = "writing"
      BY <2>4 DEF Phase, Writing, AfterVerdict, Running, Stopped
    <3>2. disk' = << >> /\ ret' = ret
      BY <1>4, <2>1, <2>4, FirstSteps
    <3>3. origin.genuine
      BY <1>1, <2>4 DEF PastVerdict, Writing
    <3>4. Output!Empty
      BY <1>1, <2>1, <3>1, <3>2, <3>3, OutputOfGenuine DEF Output!Empty
    <3> QED BY <3>4 DEF Output!Next
  <2>5. pc' \in BeforeVerdict \cup {"open_output"} \cup Writing \cup Stopped
    BY DEF Types, TypeOK, Running, Stopped, Writing, AfterVerdict, BeforeVerdict
  <2> QED BY <2>2, <2>3, <2>4, <2>5
<1>5. CASE pc \in Writing
  <2>1. Phase = "writing" /\ ret = NoResult
    BY <1>5, PhaseOfPlace DEF Opening, NoResultYet, Writing, AfterVerdict, Running
  <2>2. /\ disk \in Seq(Byte) /\ disk' \in Seq(Byte) /\ Recovered \in Seq(Byte)
        /\ StartOf(disk, disk') /\ StartOf(disk', Recovered)
        /\ pc' \in Writing \cup Stopped
    BY <1>5, WritingSteps
  <2>3. origin.genuine
    BY <1>5 DEF PastVerdict, Writing
  <2>4. Outputs(origin) = {Recovered}
    BY <2>3, OutputOfGenuine
  <2>5. Output!Grown
    <3>1. Output!StartOf(disk, disk') /\ Output!StartOf(disk', Recovered)
      BY <2>2, StartSeen
    <3> QED BY <2>4, <3>1 DEF Output!Grown
  <2>6. CASE pc' \in Writing
    <3>1. Phase' = "writing" /\ ret' = NoResult
      BY <2>6 DEF Phase, Opening, NoResultYet, Writing, AfterVerdict, Running, Stopped
    <3>2. CASE disk' = disk
      BY <1>1, <2>1, <3>1, <3>2
    <3>3. CASE disk' # disk
      <4>1. Output!Write
        BY <1>1, <2>1, <2>5, <3>1, <3>3 DEF Output!Write
      <4> QED BY <4>1 DEF Output!Next
    <3> QED BY <3>2, <3>3
  <2>7. CASE pc' \in Stopped
    <3>1. Phase' = "over"
      BY <2>7 DEF Phase, Running, Stopped
    <3>2. CASE ret' = 0
      <4>1. disk' = Recovered
        BY <1>1, <2>3, <2>7, <3>2 DEF Opening, Outcome, Recovered
      <4>2. Output!Complete
        BY <1>1, <2>1, <2>4, <2>5, <3>1, <3>2, <4>1 DEF Output!Complete
      <4> QED BY <4>2 DEF Output!Next
    <3>3. CASE ret' # 0
      <4>1. Output!GiveUp
        BY <1>1, <1>2, <2>1, <2>5, <3>1, <3>3 DEF Output!GiveUp
      <4> QED BY <4>1 DEF Output!Next
    <3> QED BY <3>2, <3>3
  <2> QED BY <2>2, <2>6, <2>7
<1> QED BY <1>3, <1>4, <1>5, PlacesOfCall

\* cipher_decrypt_file (cipher.c:270-467) keeps OutputFile's promise: the file at
\* output_path is left alone until the MAC is found right, is then emptied, once,
\* and grows from start to start of the plaintext, whatever write, open or
\* allocation fails, whenever the process is killed and whenever stdio passes on
\* what it has buffered; it is complete when 0 is returned, and a file that is not
\* genuine is never opened at all. The close must not fail: its result is ignored.
THEOREM DecryptionKeepsPromise ==
  InputKept /\ Unforged /\ InputReadable /\ "close" \notin Env /\ Spec => ImplementsOutputFile
<1> SUFFICES ASSUME InputKept, Unforged, InputReadable, "close" \notin Env
             PROVE  Spec => Output!Spec
  BY DEF ImplementsOutputFile
<1>1. Init => Output!Init
  <2> SUFFICES ASSUME Init PROVE Output!Init
    OBVIOUS
  <2>1. pc = "open_input" /\ ret = NoResult
    BY DEF Init
  <2> QED BY <2>1 DEF Output!Init, Phase, Running, Stopped
<1>2. OpenedInv /\ OpenedInv' /\ [Next]_vars => [Output!Next]_<< origin, Phase, disk, ret >>
  BY StepSeen
<1>3. Spec => []OpenedInv
  BY OpeningStarts DEF OpenedInv
<1> QED BY <1>1, <1>2, <1>3, PTL DEF Spec, Output!Spec

-----------------------------------------------------------------------------
(* The loops run out.                                                      *)

LEMMA StepsLeftType == Types => StepsLeft \in Nat /\ (pc \in Running => StepsLeft > 0)
<1> SUFFICES ASSUME Types
             PROVE  StepsLeft \in Nat /\ (pc \in Running => StepsLeft > 0)
  OBVIOUS
<1>1. /\ Len(input) \in Nat /\ Len(chunk_buf) \in Nat /\ remaining \in Nat /\ i \in Nat
      /\ pc \in Running \cup Stopped
  BY LenProperties DEF Types, TypeOK
<1>2. CASE pc \in {"open_input", "size", "salt", "iv", "measure"}
  BY <1>1, <1>2 DEF StepsLeft, Stopped
<1>3. CASE pc \in {"stored_mac", "alloc_chunk", "alloc_hmac", "mac_read", "verify", "open_output"}
  <2>1. encrypted_size \in Nat
    BY <1>3 DEF Types, Shape, LastBlockKept, Running
  <2>2. CASE pc \in {"stored_mac", "alloc_chunk", "alloc_hmac"}
    BY <1>1, <2>1, <2>2 DEF StepsLeft, Stopped
  <2>3. CASE pc = "mac_read"
    BY <1>1, <2>1, <2>3 DEF StepsLeft, Stopped
  <2>4. CASE pc \in {"verify", "open_output"}
    BY <1>1, <2>1, <2>4 DEF StepsLeft, Stopped
  <2> QED BY <1>3, <2>2, <2>3, <2>4
<1>4. CASE pc = "blocks"
  <2>1. i <= Len(chunk_buf)
    BY <1>4 DEF Types, Shape, OutputAccounted
  <2> QED BY <1>1, <1>4, <2>1 DEF StepsLeft, Stopped
<1>5. CASE pc \in {"read", "last", "finish", "done", "crashed"}
  BY <1>1, <1>5 DEF StepsLeft, Running, Stopped
<1> QED BY <1>1, <1>2, <1>3, <1>4, <1>5 DEF Running, Stopped

\* The steps that end the call.
LEMMA NoStepsLeft ==
  ASSUME Types, pc \in Running, pc' \in Stopped
  PROVE  StepsLeft' < StepsLeft
<1>1. StepsLeft' = 0
  BY DEF StepsLeft, Stopped
<1> QED BY <1>1, StepsLeftType

\* Up to the allocations.
LEMMA FirstStepsCount ==
  ASSUME Types,
         \/ OpenInput \/ ReadSize \/ ReadSalt \/ ReadIv \/ Measure
         \/ ReadStoredMac \/ AllocChunk \/ AllocHmac
  PROVE  StepsLeft' < StepsLeft
<1>1. Len(input) \in Nat /\ (pc' \in Stopped /\ pc \in Running => StepsLeft' < StepsLeft)
  BY NoStepsLeft, LenProperties DEF Types, TypeOK
<1>2. ASSUME NEW code, NEW released, Exit(code, released)
      PROVE  pc' \in Stopped
  BY <1>2 DEF Exit, Leave, Stopped
<1>3. CASE OpenInput \/ ReadSize \/ ReadSalt \/ ReadIv
  <2>1. \/ pc' \in Stopped /\ pc \in Running
        \/ /\ << pc, pc' >> \in {<< "open_input", "size" >>, << "size", "salt" >>,
                                 << "salt", "iv" >>, << "iv", "measure" >>}
           /\ input' = input
    BY <1>2, <1>3
    DEF OpenInput, ReadSize, ReadSalt, ReadIv, ReadField, Proceed, Running
  <2>2. CASE /\ << pc, pc' >> \in {<< "open_input", "size" >>, << "size", "salt" >>,
                                   << "salt", "iv" >>, << "iv", "measure" >>}
             /\ input' = input
    BY <1>1, <2>2 DEF StepsLeft, Stopped
  <2> QED BY <1>1, <2>1, <2>2
<1>4. CASE Measure
  <2>1. /\ pc = "measure" /\ pc \in Running
        /\ encrypted_size' = Len(input) - HeaderSize - HMAC_SIZE
        /\ pc' = "stored_mac" \/ pc' \in Stopped
    BY <1>2, <1>4 DEF Measure, Proceed, Running
  <2>2. CASE pc' = "stored_mac"
    <3>1. StepsLeft = 4 * Len(input) + 10 /\ StepsLeft' = 4 * encrypted_size' + 9
      BY <2>1, <2>2 DEF StepsLeft, Stopped
    <3> QED BY <1>1, <2>1, <3>1, HeaderSizes
  <2> QED BY <1>1, <2>1, <2>2
<1>5. CASE ReadStoredMac \/ AllocChunk \/ AllocHmac
  <2>1. /\ pc \in {"stored_mac", "alloc_chunk", "alloc_hmac"} /\ pc \in Running
        /\ encrypted_size' = encrypted_size
    BY <1>5 DEF ReadStoredMac, AllocChunk, AllocHmac, fields, Running
  <2>2. encrypted_size \in Nat
    BY <2>1 DEF Types, Shape, LastBlockKept, Running
  <2>3. \/ pc' \in Stopped
        \/ pc = "stored_mac" /\ pc' = "alloc_chunk"
        \/ pc = "alloc_chunk" /\ pc' = "alloc_hmac"
        \/ pc = "alloc_hmac" /\ pc' = "mac_read" /\ remaining' = encrypted_size
    BY <1>2, <1>5 DEF ReadStoredMac, AllocChunk, AllocHmac, Allocate, Proceed
  <2>4. CASE pc' \notin Stopped
    BY <2>1, <2>2, <2>3, <2>4 DEF StepsLeft, Stopped
  <2> QED BY <1>1, <2>1, <2>4
<1> QED BY <1>3, <1>4, <1>5

\* The two reading loops: a read that does not end the loop brings a byte at least.
LEMMA ReadingStepsCount ==
  ASSUME Types, ReadForMac \/ Verify \/ OpenOutput \/ ReadChunk
  PROVE  StepsLeft' < StepsLeft
<1>1. /\ remaining \in Nat /\ position \in Nat /\ input \in Seq(Byte) /\ file \in Seq(Byte)
      /\ (pc' \in Stopped /\ pc \in Running => StepsLeft' < StepsLeft)
  BY NoStepsLeft DEF Types, TypeOK, file
<1>2. ASSUME NEW code, NEW released, Exit(code, released)
      PROVE  pc' \in Stopped
  BY <1>2 DEF Exit, Leave, Stopped
<1>3. ASSUME NEW data \in Delivered(Lesser(remaining, STREAM_CHUNK)), data # << >>
      PROVE  data \in Seq(Byte) /\ Len(data) \in 1..remaining
  <2>1. Lesser(remaining, STREAM_CHUNK) \in Nat /\ Lesser(remaining, STREAM_CHUNK) <= remaining
    BY <1>1, HeaderSizes DEF Lesser
  <2>2. data \in Seq(Byte) /\ Len(data) \in 0..Lesser(remaining, STREAM_CHUNK)
    BY <1>1, <1>3, <2>1, DeliveredType
  <2>3. Len(data) # 0
    BY <1>3, <2>2, EmptySeq
  <2> QED BY <1>1, <2>1, <2>2, <2>3
<1>4. CASE ReadForMac
  <2>1. pc = "mac_read" /\ encrypted_size' = encrypted_size
    BY <1>4 DEF ReadForMac, fields
  <2>2. encrypted_size \in Nat
    BY <2>1 DEF Types, Shape, LastBlockKept, Running
  <2>3. StepsLeft = 3 * encrypted_size + remaining + 6
    BY <2>1 DEF StepsLeft, Stopped
  <2>4. CASE pc' = "verify"
    <3>1. StepsLeft' = 3 * encrypted_size + 5
      BY <2>1, <2>4 DEF StepsLeft, Stopped
    <3> QED BY <1>1, <2>2, <2>3, <3>1
  <2>5. CASE \E data \in Delivered(Lesser(remaining, STREAM_CHUNK)) :
               data # << >> /\ remaining' = remaining - Len(data) /\ pc' = "mac_read"
    <3>1. PICK data \in Delivered(Lesser(remaining, STREAM_CHUNK)) :
            data # << >> /\ remaining' = remaining - Len(data) /\ pc' = "mac_read"
      BY <2>5
    <3>2. StepsLeft' = 3 * encrypted_size + (remaining - Len(data)) + 6
      BY <2>1, <3>1 DEF StepsLeft, Stopped
    <3>3. Len(data) \in 1..remaining
      BY <1>3, <3>1
    <3> QED BY <1>1, <2>2, <2>3, <3>2, <3>3
  <2>6. pc' = "verify" \/ \E data \in Delivered(Lesser(remaining, STREAM_CHUNK)) :
               data # << >> /\ remaining' = remaining - Len(data) /\ pc' = "mac_read"
    BY <1>4 DEF ReadForMac, Proceed
  <2> QED BY <2>4, <2>5, <2>6
<1>5. CASE Verify
  <2>1. /\ pc = "verify" /\ pc \in Running /\ encrypted_size' = encrypted_size
        /\ pc' = "open_output" \/ pc' \in Stopped
    BY <1>2, <1>5 DEF Verify, fields, Running
  <2>2. encrypted_size \in Nat
    BY <2>1 DEF Types, Shape, LastBlockKept, Running
  <2>3. CASE pc' = "open_output"
    BY <2>1, <2>2, <2>3 DEF StepsLeft, Stopped
  <2> QED BY <1>1, <2>1, <2>3
<1>6. CASE OpenOutput
  <2>1. /\ pc = "open_output" /\ pc \in Running /\ remaining' = encrypted_size - BLOCK_SIZE
        /\ pc' = "read" \/ pc' \in Stopped
    BY <1>2, <1>6 DEF OpenOutput, Running
  <2>2. encrypted_size \in Nat
    BY <2>1 DEF Types, Shape, LastBlockKept, Running
  <2>3. CASE pc' = "read"
    <3>1. StepsLeft = 3 * encrypted_size + 4 /\ StepsLeft' = 3 * (encrypted_size - BLOCK_SIZE) + 3
      BY <2>1, <2>3 DEF StepsLeft, Stopped
    <3> QED BY <2>2, <3>1, HeaderSizes
  <2> QED BY <1>1, <2>1, <2>3
<1>7. CASE ReadChunk
  <2>1. pc = "read" /\ StepsLeft = 3 * remaining + 3
    BY <1>7 DEF ReadChunk, StepsLeft, Stopped
  <2>2. CASE pc' = "last"
    <3>1. StepsLeft' = 2
      BY <2>2 DEF StepsLeft, Stopped
    <3> QED BY <1>1, <2>1, <3>1
  <2>3. CASE \E data \in Delivered(Lesser(remaining, STREAM_CHUNK)) :
               /\ data # << >> /\ remaining' = remaining - Len(data)
               /\ chunk_buf' = data /\ i' = 0 /\ pc' = "blocks"
    <3>1. PICK data \in Delivered(Lesser(remaining, STREAM_CHUNK)) :
               /\ data # << >> /\ remaining' = remaining - Len(data)
               /\ chunk_buf' = data /\ i' = 0 /\ pc' = "blocks"
      BY <2>3
    <3>2. StepsLeft' = 3 * (remaining - Len(data)) + (Len(data) - 0) + 4
      BY <3>1 DEF StepsLeft, Stopped
    <3>3. Len(data) \in 1..remaining
      BY <1>3, <3>1
    <3> QED BY <1>1, <2>1, <3>2, <3>3
  <2> QED BY <1>7, <2>2, <2>3 DEF ReadChunk, Proceed
<1> QED BY <1>4, <1>5, <1>6, <1>7

LEMMA WritingStepsCount ==
  ASSUME Types, DecryptWhole \/ EndOfChunk \/ DecryptLast \/ Finish
  PROVE  StepsLeft' < StepsLeft
<1>1. /\ remaining \in Nat /\ Len(chunk_buf) \in Nat /\ i \in Nat /\ BLOCK_SIZE \in Nat \ {0}
      /\ (pc' \in Stopped /\ pc \in Running => StepsLeft' < StepsLeft)
  BY NoStepsLeft, LenProperties, HeaderSizes DEF Types, TypeOK
<1>2. ASSUME NEW code, NEW released, NEW left, Leave(code, released, left)
      PROVE  pc' \in Stopped
  BY <1>2 DEF Leave, Stopped
<1>3. CASE DecryptWhole \/ EndOfChunk
  <2>1. /\ pc = "blocks" /\ pc \in Running /\ i <= Len(chunk_buf)
        /\ remaining' = remaining /\ chunk_buf' = chunk_buf
    BY <1>3 DEF DecryptWhole, EndOfChunk, stream, Running, Types, Shape, OutputAccounted
  <2>2. StepsLeft = 3 * remaining + (Len(chunk_buf) - i) + 4
    BY <2>1 DEF StepsLeft, Stopped
  <2>3. \/ pc' \in Stopped
        \/ pc' = "read"
        \/ pc' = "blocks" /\ i' = i + BLOCK_SIZE
    BY <1>2, <1>3 DEF DecryptWhole, EndOfChunk, Proceed
  <2>4. CASE pc' = "read"
    <3>1. StepsLeft' = 3 * remaining + 3
      BY <2>1, <2>4 DEF StepsLeft, Stopped
    <3> QED BY <1>1, <2>1, <2>2, <3>1
  <2>5. CASE pc' = "blocks" /\ i' = i + BLOCK_SIZE
    <3>1. StepsLeft' = 3 * remaining + (Len(chunk_buf) - (i + BLOCK_SIZE)) + 4
      BY <2>1, <2>5 DEF StepsLeft, Stopped
    <3> QED BY <1>1, <2>1, <2>2, <3>1
  <2> QED BY <1>1, <2>1, <2>3, <2>4, <2>5
<1>4. CASE DecryptLast
  <2>1. pc = "last" /\ pc \in Running /\ (pc' = "finish" \/ pc' \in Stopped)
    BY <1>2, <1>4 DEF DecryptLast, Proceed, Running
  <2>2. CASE pc' = "finish"
    BY <2>1, <2>2 DEF StepsLeft, Stopped
  <2> QED BY <1>1, <2>1, <2>2
<1>5. CASE Finish
  BY <1>1, <1>2, <1>5 DEF Finish, Exit, Running
<1> QED BY <1>3, <1>4, <1>5

LEMMA FewerStepsLeft == Types /\ Program => StepsLeft' < StepsLeft
BY FirstStepsCount, ReadingStepsCount, WritingStepsCount DEF Program

\* What happens to the files takes the call nowhere: the length of the input counts
\* only until it has been measured, and until then the call has no stream to write to.
LEMMA NoStepsGained == Types /\ Holdings /\ [Next]_vars => StepsLeft' <= StepsLeft
<1> SUFFICES ASSUME Types, Holdings, [Next]_vars PROVE StepsLeft' <= StepsLeft
  OBVIOUS
<1>1. /\ StepsLeft \in Nat /\ Len(input) \in Nat /\ input \in Seq(Byte)
      /\ pc \in Running \cup Stopped
  BY StepsLeftType, LenProperties DEF Types, TypeOK
<1>2. StepsLeft' \in Nat
  <2>1. Types'
    BY StepTypes
  <2>2. (Types => StepsLeft \in Nat)'
    BY StepsLeftType, PTL
  <2> QED BY <2>1, <2>2
<1>3. CASE Program
  BY <1>1, <1>2, <1>3, FewerStepsLeft
<1>4. CASE Crash
  <2>1. StepsLeft' = 0
    BY <1>4 DEF Crash, StepsLeft, Stopped
  <2> QED BY <1>1, <2>1
<1>5. ASSUME UNCHANGED << pc, encrypted_size, remaining, chunk_buf, i >>,
             \/ pc \in {"read", "blocks", "last", "finish"}
             \/ Len(input') \in Nat /\ Len(input') <= Len(input)
      PROVE  StepsLeft' <= StepsLeft
  <2>1. CASE pc \in {"open_input", "size", "salt", "iv", "measure"}
    BY <1>1, <1>5, <2>1 DEF StepsLeft, Stopped
  <2>2. CASE pc \in (Running \cup Stopped) \ {"open_input", "size", "salt", "iv", "measure"}
    <3>1. StepsLeft' = StepsLeft
      BY <1>5, <2>2 DEF StepsLeft, Running, Stopped
    <3> QED BY <1>1, <3>1
  <2> QED BY <1>1, <2>1, <2>2
<1>6. CASE Flush
  <2>1. pc \in {"read", "blocks", "last", "finish"}
    BY <1>6 DEF Flush, Holdings, Running, LoopResources
  <2> QED BY <1>5, <1>6, <2>1 DEF Flush, fields, stream
<1>7. CASE ChangeInput
  <2>1. Len(input') \in Nat /\ Len(input') <= Len(input)
    <3>1. CASE \E k \in DOMAIN input : input' = [input EXCEPT ![k] = (@ + 1) % ByteBase]
      <4>1. PICK k \in DOMAIN input : input' = [input EXCEPT ![k] = (input[k] + 1) % ByteBase]
        BY <3>1
      <4>2. (input[k] + 1) % ByteBase \in Byte
        <5>1. input[k] \in Nat
          BY <1>1, <4>1, ZeroIsByte, LenProperties, ElementOfSeq
        <5> QED BY <5>1, SizesPositive DEF Byte
      <4>3. Len(input') = Len(input)
        BY <1>1, <4>1, <4>2, ExceptSeq
      <4> QED BY <1>1, <4>3
    <3>2. CASE Len(input) > 0 /\ input' = SubSeq(input, 1, Len(input) - 1)
      <4>1. Len(input) - 1 \in 0..Len(input)
        BY <1>1, <3>2
      <4>2. Len(input') = Len(input) - 1
        BY <1>1, <3>2, <4>1, PrefixType
      <4> QED BY <1>1, <3>2, <4>2
    <3> QED BY <1>7, <3>1, <3>2 DEF ChangeInput
  <2> QED BY <1>5, <1>7, <2>1 DEF ChangeInput, fields, stream
<1>8. CASE Over \/ UNCHANGED vars
  BY <1>1, <1>5, <1>8 DEF Over, vars, files, fields, stream
<1> QED BY <1>3, <1>4, <1>6, <1>7, <1>8 DEF Next

\* Both loops of cipher_decrypt_file (cipher.c:347 and :397) run out, whatever fails and
\* whatever becomes of the files: every step of the program brings the call closer to its
\* end, by a number that nothing else makes larger.
THEOREM StepsRunOut == Spec => CountsDown
<1> DEFINE counts == /\ StepsLeft \in Nat
                     /\ StepsLeft' <= StepsLeft
                     /\ Program => StepsLeft' < StepsLeft
<1>1. Init => Holdings
  BY DEF Init, Holdings, Running, Stopped
<1>2. Types /\ Holdings /\ [Next]_vars => counts
  BY StepsLeftType, NoStepsGained, FewerStepsLeft
<1>3. Types /\ Holdings /\ [Next]_vars => [counts]_vars
  BY <1>2
<1> QED BY InitTypes, StepTypes, <1>1, StepHoldings, <1>3, PTL DEF Spec, CountsDown

=============================================================================
