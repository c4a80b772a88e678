------------------------- MODULE EncryptFileProofs -------------------------
(***************************************************************************)
(* What TLAPS proves of EncryptFile, for blocks, buffers and files of      *)
(* every size, for every block cipher, MAC and key derivation that obeys   *)
(* the laws of Container, and for every choice of Env that a theorem does  *)
(* not exclude by name: what holds after every return, what a file left at *)
(* output_path can be, that the file of a return of 0 is one decryption    *)
(* opens, that the call is OutputFile seen from outside, and that its loop *)
(* runs out.                                                               *)
(***************************************************************************)
EXTENDS EncryptFile, ContainerProofs

\* The count of bytes read is always seen as the length of what was read.
USE DEF total_read

-----------------------------------------------------------------------------
(* The values the steps compute.                                           *)

\* With the salt in the header there is a key.
LEMMA EncKeyType ==
  ASSUME header \in Seq(Byte), Len(header) >= SIZE_BYTES + KDF_SALT_SIZE
  PROVE  EncKey(Master, salt) \in Key
<1>1. salt \in Seq(Byte) /\ Len(salt) = KDF_SALT_SIZE
  BY SizesPositive, LenProperties, SliceType DEF salt
<1>2. salt \in [1..KDF_SALT_SIZE -> Byte]
  BY <1>1, LenProperties
<1> QED BY <1>2, DeriveType, EncryptConstants DEF EncKey

-----------------------------------------------------------------------------
(***************************************************************************)
(* The inductive invariant: types, the growing header, the CBC chain, the  *)
(* account of the bytes read, and what is held where. TypeOK needs the     *)
(* header and the chain (their parts are arguments of the cipher), and     *)
(* these, with CleanExit, need the account: whether a pending block can    *)
(* be left over depends on how the bytes of a chunk were used up.          *)
(***************************************************************************)

InLoop   == {"read", "fill", "whole", "final"}
Closing  == {"mac", "finish"}
Starting == {"open_input", "open_output", "size", "salt", "iv", "alloc_data", "alloc_buffer"}

HeaderShape ==
  /\ pc = "salt" => Len(header) = SIZE_BYTES
  /\ pc = "iv" => Len(header) = SIZE_BYTES + KDF_SALT_SIZE
  /\ pc \in {"alloc_data", "alloc_buffer"} \cup InLoop \cup Closing => Len(header) = HeaderSize

ChainStarted == pc \in {"alloc_buffer"} \cup InLoop => prev \in Block

\* Every byte read is encrypted, pending, or still in the chunk.
Account ==
  /\ Len(pending) < BLOCK_SIZE
  /\ Len(encrypted) <= total_read + BLOCK_SIZE
  /\ pc \in Starting => total_read = 0 /\ Len(pending) = 0 /\ Len(encrypted) = 0
  /\ pc \in {"read", "final"} => total_read = Len(encrypted) + Len(pending)
  /\ pc = "fill" => /\ processed = 0
                    /\ Len(pending) > 0
                    /\ total_read = Len(encrypted) + Len(pending) + Len(chunk)
  /\ pc = "whole" => /\ processed <= Len(chunk)
                     /\ Len(pending) > 0 => processed = Len(chunk)
                     /\ total_read = Len(encrypted) + Len(pending) + (Len(chunk) - processed)

Holdings ==
  /\ pc = "open_input" => held = {}
  /\ pc = "open_output" => held \subseteq {"input"}
  /\ pc \in {"size", "salt"} => held \subseteq Streams
  /\ pc \in {"iv", "alloc_data"} => held \subseteq Streams \cup {"ctx"}
  /\ pc = "alloc_buffer" => held \subseteq Streams \cup {"ctx", "encrypted_data"}
  /\ pc \in InLoop \cup Closing => held \subseteq LoopResources \cup {"pending_block", "chunk"}
  /\ pc \in {"read", "fill", "whole"} /\ "pending_block" \in held => Len(pending) > 0

IInv == TypeOK /\ HeaderShape /\ ChainStarted /\ Account /\ Holdings /\ CleanExit

\* The call starts with nothing written, read or held.
LEMMA InitInvariant == Init => IInv
<1> SUFFICES ASSUME Init PROVE IInv
  OBVIOUS
<1>1. plain \in Seq(Byte) /\ << >> \in Seq(Byte) /\ Len(<< >>) = 0
  BY EncryptConstants, EmptySeq DEF Init
<1>2. TypeOK
  BY <1>1 DEF Init, TypeOK, Running, NoResult
<1>3. HeaderShape /\ ChainStarted /\ Holdings /\ CleanExit
  BY DEF Init, HeaderShape, ChainStarted, Holdings, CleanExit, InLoop, Closing
<1>4. Account
  BY <1>1, SizesPositive DEF Init, Account, Starting
<1> QED BY <1>2, <1>3, <1>4 DEF IInv

-----------------------------------------------------------------------------
(* What the parts of the steps establish.                                  *)

\* Closing the output leaves a start of what was written to it.
LEMMA CloseOutputType ==
  ASSUME disk \in Seq(Byte), source \in Seq(Byte), output' \in Seq(Byte), CloseOutput
  PROVE  disk' \in Seq(Byte) /\ source' \in Seq(Byte)
<1>1. Len(disk) \in Nat /\ Len(output') \in Nat
  BY LenProperties
<1>2. PICK n \in (IF "close" \in Env THEN Len(disk) ELSE Len(output'))..Len(output') :
        disk' = SubSeq(output', 1, n)
  BY DEF CloseOutput
<1>3. n \in 0..Len(output')
  BY <1>1, <1>2
<1>4. disk' \in Seq(Byte)
  BY <1>2, <1>3, PrefixType
<1> QED BY <1>4 DEF CloseOutput, SyncSource

\* A return has closed and wiped what it names, and nothing else.
LEMMA ExitType ==
  ASSUME disk \in Seq(Byte), source \in Seq(Byte), output' \in Seq(Byte),
         NEW code, NEW released, Exit(code, released)
  PROVE  /\ pc' = "done" /\ ret' = code /\ held' = held \ released
         /\ disk' \in Seq(Byte) /\ source' \in Seq(Byte)
BY CloseOutputType DEF Exit

\* A short write appends a part of the data.
LEMMA ShortWriteType ==
  ASSUME output \in Seq(Byte), NEW data \in Seq(Byte), ShortWrite(data)
  PROVE  output' \in Seq(Byte)
<1>1. PICK n \in 0..(Len(data) - 1) : output' = output \o SubSeq(data, 1, n)
  BY DEF ShortWrite
<1>2. n \in 0..Len(data)
  BY <1>1, LenProperties
<1> QED BY <1>1, <1>2, PrefixType, ConcatType

\* Either the field is written and the call goes on, or it has returned -1.
LEMMA WriteFieldType ==
  ASSUME disk \in Seq(Byte), source \in Seq(Byte), output \in Seq(Byte),
         NEW data \in Seq(Byte), NEW next, NEW gained, NEW released,
         WriteField(data, next, gained, released)
  PROVE  /\ output' \in Seq(Byte) /\ disk' \in Seq(Byte) /\ source' \in Seq(Byte)
         /\ \/ pc' = next /\ ret' = ret /\ held' = held \cup gained
            \/ pc' = "done" /\ ret' = -1 /\ held' = held \ released
<1>1. CASE output' = output \o data /\ pc' = next /\ held' = held \cup gained
           /\ UNCHANGED << ret, disk, source >>
  BY <1>1, ConcatType
<1>2. CASE ShortWrite(data) /\ Exit(-1, released)
  <2>1. output' \in Seq(Byte)
    BY <1>2, ShortWriteType
  <2> QED BY <1>2, <2>1, ExitType
<1> QED BY <1>1, <1>2 DEF WriteField

\* Either the block is written and the call goes on, or it has returned -1; in
\* both cases the ciphertext has grown by one block, the next one's predecessor.
LEMMA EmitBlockType ==
  ASSUME TypeOK, NEW block \in Block, NEW next, NEW overwritten, NEW released,
         EmitBlock(block, next, overwritten, released),
         prev \in Block, Len(header) >= SIZE_BYTES + KDF_SALT_SIZE
  PROVE  /\ output' \in Seq(Byte) /\ disk' \in Seq(Byte) /\ source' \in Seq(Byte)
         /\ prev' \in Block /\ prev' \in Seq(Byte)
         /\ encrypted' \in Seq(Byte) /\ Len(encrypted') = Len(encrypted) + BLOCK_SIZE
         /\ \/ pc' = next /\ ret' = ret /\ held' = held \ overwritten
            \/ pc' = "done" /\ ret' = -1 /\ held' = held \ (released \cup overwritten)
<1> DEFINE cipher == cipher_cbc_encrypt_block(EncKey(Master, salt), prev, block)
<1>1. cipher \in Block
  BY EncKeyType, ChainingUndone DEF TypeOK
<1>2. cipher \in Seq(Byte) /\ Len(cipher) = BLOCK_SIZE
  BY <1>1, BlockIsSeq
<1>3. prev' = cipher /\ encrypted' = encrypted \o cipher
  BY DEF EmitBlock
<1>4. encrypted' \in Seq(Byte) /\ Len(encrypted') = Len(encrypted) + BLOCK_SIZE
  BY <1>2, <1>3, ConcatType DEF TypeOK
<1>5. CASE output' = output \o cipher /\ pc' = next /\ held' = held \ overwritten
           /\ UNCHANGED << ret, disk, source >>
  <2>1. output' \in Seq(Byte)
    BY <1>2, <1>5, ConcatType DEF TypeOK
  <2> QED BY <1>1, <1>2, <1>3, <1>4, <1>5, <2>1 DEF TypeOK
<1>6. CASE ShortWrite(cipher) /\ Exit(-1, released \cup overwritten)
  <2>1. output' \in Seq(Byte)
    BY <1>2, <1>6, ShortWriteType DEF TypeOK
  <2>2. /\ pc' = "done" /\ ret' = -1 /\ held' = held \ (released \cup overwritten)
        /\ disk' \in Seq(Byte) /\ source' \in Seq(Byte)
    BY <1>6, <2>1, ExitType DEF TypeOK
  <2> QED BY <1>1, <1>2, <1>3, <1>4, <2>1, <2>2
<1> QED BY <1>5, <1>6 DEF EmitBlock

-----------------------------------------------------------------------------
(* The steps, one lemma per action.                                        *)

\* After a return, an abort or a crash only the types, the bounds of the
\* account and a clean exit are left to show.
LEMMA StoppedInvariant ==
  ASSUME TypeOK', pc' \in Stopped, CleanExit',
         Len(pending') < BLOCK_SIZE, Len(encrypted') <= total_read' + BLOCK_SIZE
  PROVE  IInv'
BY DEF IInv, HeaderShape, ChainStarted, Account, Holdings, Stopped, Starting, InLoop, Closing

LEMMA OpenInputInvariant == IInv /\ OpenInput => IInv'
<1> SUFFICES ASSUME IInv, OpenInput PROVE IInv'
  OBVIOUS
<1> USE DEF IInv, OpenInput
<1>0. Len(source) \in Nat
  BY LenProperties DEF TypeOK
<1>1. CASE Exit(-1, {}) /\ file_size' = file_size
  <2>1. pc' = "done" /\ ret' = -1 /\ held' = {} /\ disk' \in Seq(Byte) /\ source' \in Seq(Byte)
    BY <1>1, ExitType DEF TypeOK, Holdings
  <2>2. TypeOK'
    BY <1>1, <2>1 DEF TypeOK, Stopped, stream, chain
  <2>3. Len(pending') < BLOCK_SIZE /\ Len(encrypted') <= total_read' + BLOCK_SIZE
    BY DEF Account, stream, chain
  <2> QED BY <2>1, <2>2, <2>3, StoppedInvariant DEF CleanExit, Stopped
<1>2. CASE file_size' = Len(source) /\ pc' = "open_output" /\ held' = {"input"}
           /\ UNCHANGED << ret, disk, source >>
  <2>1. TypeOK'
    BY <1>0, <1>2 DEF TypeOK, Running, Streams, stream, chain
  <2>2. Account'
    BY <1>2 DEF Account, Starting, InLoop, Closing, stream, chain
  <2>3. HeaderShape' /\ ChainStarted' /\ Holdings' /\ CleanExit'
    BY <1>2 DEF HeaderShape, ChainStarted, Holdings, CleanExit, InLoop, Closing
  <2> QED BY <2>1, <2>2, <2>3
<1> QED BY <1>1, <1>2

LEMMA OpenOutputInvariant == IInv /\ OpenOutput => IInv'
<1> SUFFICES ASSUME IInv, OpenOutput PROVE IInv'
  OBVIOUS
<1> USE DEF IInv, OpenOutput
<1>1. CASE Exit(-1, {"input"})
  <2>1. pc' = "done" /\ ret' = -1 /\ held' = {} /\ disk' \in Seq(Byte) /\ source' \in Seq(Byte)
    BY <1>1, ExitType DEF TypeOK, Holdings
  <2>2. TypeOK'
    BY <2>1 DEF TypeOK, Stopped, stream, chain
  <2>3. Len(pending') < BLOCK_SIZE /\ Len(encrypted') <= total_read' + BLOCK_SIZE
    BY DEF Account, stream, chain
  <2> QED BY <2>1, <2>2, <2>3, StoppedInvariant DEF CleanExit, Stopped
<1>2. CASE pc' = "size" /\ held' = held \cup {"output"} /\ disk' = << >> /\ SyncSource /\ ret' = ret
  <2>1. disk' \in Seq(Byte) /\ source' \in Seq(Byte)
    BY <1>2, EmptySeq DEF SyncSource, TypeOK
  <2>2. TypeOK'
    BY <1>2, <2>1 DEF TypeOK, Running, Streams, stream, chain
  <2>3. Account'
    BY <1>2 DEF Account, Starting, stream, chain
  <2>4. HeaderShape' /\ ChainStarted' /\ Holdings' /\ CleanExit'
    BY <1>2 DEF HeaderShape, ChainStarted, Holdings, CleanExit, InLoop, Closing, Streams
  <2> QED BY <2>2, <2>3, <2>4
<1> QED BY <1>1, <1>2

\* The three header fields: what is common to writing each of them.
LEMMA HeaderFieldInvariant ==
  ASSUME IInv, NEW field \in Seq(Byte), header' \in Seq(Byte),
         NEW next \in {"salt", "iv", "alloc_data"}, NEW gained \in SUBSET {"ctx"},
         pc \in Starting, held \subseteq Streams \cup {"ctx"},
         next = "salt" => Len(header') = SIZE_BYTES /\ held \cup gained \subseteq Streams,
         next = "iv" => Len(header') = SIZE_BYTES + KDF_SALT_SIZE,
         next = "alloc_data" => Len(header') = HeaderSize,
         NEW released, held \subseteq released, WriteField(field, next, gained, released),
         UNCHANGED << plain, file_size, stream, chain >>
  PROVE  IInv'
<1> USE DEF IInv
<1>1. /\ output' \in Seq(Byte) /\ disk' \in Seq(Byte) /\ source' \in Seq(Byte)
      /\ \/ pc' = next /\ ret' = ret /\ held' = held \cup gained
         \/ pc' = "done" /\ ret' = -1 /\ held' = held \ released
  BY WriteFieldType DEF TypeOK
<1>2. TypeOK'
  BY <1>1 DEF TypeOK, Running, Stopped, Streams, Secrets, stream, chain
<1>3. CASE pc' = next /\ held' = held \cup gained
  <2>1. Account'
    BY <1>3 DEF Account, Starting, stream, chain
  <2>2. HeaderShape' /\ ChainStarted' /\ Holdings' /\ CleanExit'
    BY <1>3 DEF HeaderShape, ChainStarted, Holdings, CleanExit, InLoop, Closing, Streams
  <2> QED BY <1>2, <2>1, <2>2
<1>4. CASE pc' = "done" /\ held' = held \ released
  <2>1. Len(pending') < BLOCK_SIZE /\ Len(encrypted') <= total_read' + BLOCK_SIZE
    BY DEF Account, stream, chain
  <2> QED BY <1>2, <1>4, <2>1, StoppedInvariant DEF CleanExit, Stopped
<1> QED BY <1>1, <1>3, <1>4

LEMMA WriteSizeInvariant == IInv /\ WriteSize => IInv'
<1> SUFFICES ASSUME IInv, WriteSize PROVE IInv'
  OBVIOUS
<1>1. header' \in Seq(Byte) /\ Len(header') = SIZE_BYTES
  BY SizesPositive, ByteArrayType DEF WriteSize, SizeToBytes
<1>2. pc \in Starting /\ held \subseteq Streams
  BY DEF WriteSize, Starting, IInv, Holdings
<1>3. WriteField(header', "salt", {}, {"input", "output"})
      /\ UNCHANGED << plain, file_size, stream, chain >>
  BY DEF WriteSize
<1> QED BY <1>1, <1>2, <1>3, HeaderFieldInvariant DEF Streams

LEMMA WriteSaltInvariant == IInv /\ WriteSalt => IInv'
<1> SUFFICES ASSUME IInv, WriteSalt PROVE IInv'
  OBVIOUS
<1>1. PICK s \in Salts : /\ header' = header \o s
                         /\ WriteField(s, "iv", {"ctx"}, {"input", "output"})
  BY DEF WriteSalt
<1>2. s \in Seq(Byte) /\ Len(s) = KDF_SALT_SIZE
  BY SizesPositive, EncryptConstants, ArrayIsSeq
<1>3. header \in Seq(Byte) /\ Len(header) = SIZE_BYTES
  BY DEF WriteSalt, IInv, HeaderShape, TypeOK
<1>4. header' \in Seq(Byte) /\ Len(header') = SIZE_BYTES + KDF_SALT_SIZE
  BY <1>1, <1>2, <1>3, ConcatType
<1>5. pc \in Starting /\ held \subseteq Streams /\ UNCHANGED << plain, file_size, stream, chain >>
  BY DEF WriteSalt, Starting, IInv, Holdings
<1> QED BY <1>1, <1>2, <1>4, <1>5, HeaderFieldInvariant DEF Streams

LEMMA WriteIvInvariant == IInv /\ WriteIv => IInv'
<1> SUFFICES ASSUME IInv, WriteIv PROVE IInv'
  OBVIOUS
<1>1. PICK iv \in Ivs : /\ header' = header \o iv
                        /\ WriteField(iv, "alloc_data", {}, {"ctx", "input", "output"})
  BY DEF WriteIv
<1>2. iv \in Seq(Byte) /\ Len(iv) = BLOCK_SIZE
  BY EncryptConstants, BlockIsSeq
<1>3. header \in Seq(Byte) /\ Len(header) = SIZE_BYTES + KDF_SALT_SIZE
  BY DEF WriteIv, IInv, HeaderShape, TypeOK
<1>4. header' \in Seq(Byte) /\ Len(header') = HeaderSize
  BY <1>1, <1>2, <1>3, ConcatType DEF HeaderSize
<1>5. pc \in Starting /\ held \subseteq Streams \cup {"ctx"}
      /\ UNCHANGED << plain, file_size, stream, chain >>
  BY DEF WriteIv, Starting, IInv, Holdings
<1> QED BY <1>1, <1>2, <1>4, <1>5, HeaderFieldInvariant DEF Streams

LEMMA AbortInvariant == IInv /\ Abort => IInv'
<1> SUFFICES ASSUME IInv, Abort PROVE IInv'
  OBVIOUS
<1> USE DEF IInv, Abort
<1>1. TypeOK' /\ CleanExit'
  BY DEF TypeOK, CleanExit, Stopped, files, stream, chain
<1>2. Len(pending') < BLOCK_SIZE /\ Len(encrypted') <= total_read' + BLOCK_SIZE
  BY DEF Account, stream, chain
<1> QED BY <1>1, <1>2, StoppedInvariant DEF Stopped

\* An allocation succeeds, or it fails and the call returns -1.
LEMMA AllocateType ==
  ASSUME TypeOK, NEW object, NEW next, NEW released, Allocate(object, next, released)
  PROVE  /\ disk' \in Seq(Byte) /\ source' \in Seq(Byte)
         /\ UNCHANGED << plain, output, file_size, header, stream, encrypted >>
         /\ \/ pc' = next /\ ret' = ret /\ held' = held \cup {object}
            \/ pc' = "done" /\ ret' = -1 /\ held' = held \ released
<1>1. output' \in Seq(Byte)
  BY DEF Allocate, TypeOK
<1>2. CASE pc' = next /\ held' = held \cup {object} /\ UNCHANGED << ret, disk, source >>
  BY <1>2 DEF Allocate, TypeOK
<1>3. CASE Exit(-1, released)
  BY <1>1, <1>3, ExitType DEF Allocate, TypeOK
<1> QED BY <1>2, <1>3 DEF Allocate

LEMMA AllocCiphertextInvariant == IInv /\ AllocCiphertext => IInv'
<1> SUFFICES ASSUME IInv, AllocCiphertext PROVE IInv'
  OBVIOUS
<1> USE DEF IInv, AllocCiphertext
<1>1. prev' \in Block /\ prev' \in Seq(Byte)
  BY SizesPositive, SliceType, SeqIsBlock DEF HeaderShape, HeaderSize, TypeOK
<1>2. /\ disk' \in Seq(Byte) /\ source' \in Seq(Byte)
      /\ UNCHANGED << plain, output, file_size, header, stream, encrypted >>
      /\ \/ pc' = "alloc_buffer" /\ ret' = ret /\ held' = held \cup {"encrypted_data"}
         \/ pc' = "done" /\ ret' = -1 /\ held' = held \ {"ctx", "input", "output"}
  BY AllocateType
<1>3. TypeOK'
  BY <1>1, <1>2 DEF TypeOK, Running, Stopped, Heap, stream
<1>4. CASE pc' = "alloc_buffer" /\ held' = held \cup {"encrypted_data"}
  <2>1. HeaderShape' /\ ChainStarted' /\ Holdings' /\ CleanExit'
    BY <1>1, <1>2, <1>4 DEF HeaderShape, ChainStarted, Holdings, CleanExit, InLoop, Closing
  <2>2. Account'
    BY <1>2, <1>4 DEF Account, Starting, stream
  <2> QED BY <1>3, <2>1, <2>2
<1>5. CASE pc' = "done" /\ held' = held \ {"ctx", "input", "output"}
  <2>1. CleanExit'
    BY <1>5 DEF CleanExit, Holdings, Streams
  <2>2. Len(pending') < BLOCK_SIZE /\ Len(encrypted') <= total_read' + BLOCK_SIZE
    BY <1>2 DEF Account, stream
  <2> QED BY <1>3, <1>5, <2>1, <2>2, StoppedInvariant DEF Stopped
<1> QED BY <1>2, <1>4, <1>5

LEMMA AllocBufferInvariant == IInv /\ AllocBuffer => IInv'
<1> SUFFICES ASSUME IInv, AllocBuffer PROVE IInv'
  OBVIOUS
<1> USE DEF IInv, AllocBuffer
<1> DEFINE released == {"ctx", "encrypted_data", "input", "output"}
<1>1. /\ disk' \in Seq(Byte) /\ source' \in Seq(Byte)
      /\ UNCHANGED << plain, output, file_size, header, stream, encrypted, prev >>
      /\ \/ pc' = "read" /\ ret' = ret /\ held' = held \cup {"buffer"}
         \/ pc' = "done" /\ ret' = -1 /\ held' = held \ released
  BY AllocateType
<1>2. TypeOK'
  BY <1>1 DEF TypeOK, Running, Stopped, Heap, stream
<1>3. CASE pc' = "read" /\ held' = held \cup {"buffer"}
  <2>1. HeaderShape' /\ ChainStarted' /\ Holdings' /\ CleanExit'
    BY <1>1, <1>3
    DEF HeaderShape, ChainStarted, Holdings, CleanExit, InLoop, Closing, LoopResources, Streams
  <2>2. Account'
    BY <1>1, <1>3 DEF Account, Starting, stream
  <2> QED BY <1>2, <2>1, <2>2
<1>4. CASE pc' = "done" /\ held' = held \ released
  <2>1. CleanExit'
    BY <1>4 DEF CleanExit, Holdings, Streams
  <2>2. Len(pending') < BLOCK_SIZE /\ Len(encrypted') <= total_read' + BLOCK_SIZE
    BY <1>1 DEF Account, stream
  <2> QED BY <1>2, <1>4, <2>1, <2>2, StoppedInvariant DEF Stopped
<1> QED BY <1>1, <1>3, <1>4

\* What fread returns is a part of the file.
LEMMA ReadChunkInvariant == IInv /\ ReadChunk => IInv'
<1> SUFFICES ASSUME IInv, ReadChunk PROVE IInv'
  OBVIOUS
<1> USE DEF IInv, ReadChunk
<1> DEFINE LeftOf(s) == IF total_read < Len(s) THEN Len(s) - total_read ELSE 0
<1> DEFINE WantOf(s) == Lesser(STREAM_CHUNK, LeftOf(s))
<1> DEFINE Result(seen, n) ==
             IF n = 0
             THEN pc' = "final" /\ UNCHANGED << stream, held >>
             ELSE /\ pc' = IF Len(pending) > 0 THEN "fill" ELSE "whole"
                  /\ chunk' = Slice(seen, total_read, n)
                  /\ taken' = taken \o chunk'
                  /\ processed' = 0
                  /\ held' = held \cup {"chunk"}
                  /\ UNCHANGED pending
<1>1. PICK seen \in {source} \cup (IF SameFile THEN {plain} ELSE {}) :
        \E n \in (IF "read" \in Env THEN 0 ELSE WantOf(seen))..WantOf(seen) : Result(seen, n)
  BY Zenon
<1>2. seen \in Seq(Byte) /\ Len(seen) \in Nat /\ total_read \in Nat
  BY LenProperties DEF TypeOK
<1>3. WantOf(seen) \in Nat /\ WantOf(seen) <= LeftOf(seen) /\ LeftOf(seen) \in Nat
  BY <1>2, SizesPositive DEF Lesser
<1>4. PICK n \in (IF "read" \in Env THEN 0 ELSE WantOf(seen))..WantOf(seen) : Result(seen, n)
  BY <1>1
<1>5. n \in Nat /\ n <= LeftOf(seen)
  BY <1>3
<1>6. pc = "read" /\ UNCHANGED << ret, files, file_size, header, chain >>
  OBVIOUS
<1> HIDE DEF ReadChunk
<1>7. CASE n = 0
  <2>1. pc' = "final" /\ UNCHANGED << stream, held >>
    BY <1>4, <1>7
  <2>2. TypeOK'
    BY <1>6, <2>1 DEF TypeOK, Running, files, stream, chain
  <2>3. HeaderShape' /\ ChainStarted' /\ Holdings' /\ CleanExit'
    BY <1>6, <2>1 DEF HeaderShape, ChainStarted, Holdings, CleanExit, InLoop, Closing, chain
  <2>4. Account'
    BY <1>6, <2>1 DEF Account, Starting, stream, chain
  <2> QED BY <2>2, <2>3, <2>4
<1>8. CASE n # 0
  <2>1. /\ pc' = IF Len(pending) > 0 THEN "fill" ELSE "whole"
        /\ chunk' = Slice(seen, total_read, n) /\ taken' = taken \o chunk'
        /\ processed' = 0 /\ held' = held \cup {"chunk"} /\ UNCHANGED pending
    BY <1>4, <1>8
  <2>2. total_read + n <= Len(seen)
    BY <1>2, <1>5, <1>8
  <2>3. chunk' \in Seq(Byte) /\ Len(chunk') = n
    BY <1>2, <1>5, <2>1, <2>2, SliceType
  <2>4. taken' \in Seq(Byte) /\ total_read' = total_read + n
    BY <2>1, <2>3, ConcatType DEF TypeOK
  <2>5. TypeOK'
    BY <1>2, <1>5, <1>6, <2>1, <2>3, <2>4 DEF TypeOK, Running, Secrets, files, chain
  <2>6. HeaderShape' /\ ChainStarted' /\ Holdings' /\ CleanExit'
    BY <1>6, <2>1 DEF HeaderShape, ChainStarted, Holdings, CleanExit, InLoop, Closing, chain
  <2>7. Len(pending) \in Nat /\ Len(encrypted) \in Nat
    BY LenProperties DEF TypeOK
  <2>8. total_read = Len(encrypted) + Len(pending) /\ Len(pending) < BLOCK_SIZE
    BY <1>6 DEF Account
  <2> HIDE DEF total_read
  <2>9. /\ total_read' = Len(encrypted') + Len(pending') + Len(chunk')
        /\ Len(pending') < BLOCK_SIZE /\ processed' = 0
        /\ Len(encrypted') <= total_read' + BLOCK_SIZE
    BY <1>2, <1>5, <1>6, <2>1, <2>3, <2>4, <2>7, <2>8, SizesPositive DEF chain
  <2>10. Account'
    BY <2>1, <2>3, <2>7, <2>9, <1>5 DEF Account, Starting
  <2> QED BY <2>5, <2>6, <2>10
<1> QED BY <1>7, <1>8

\* A block written on the way to pc `next': what all three places have in common.
LEMMA EmitInvariant ==
  ASSUME IInv, pc \in {"fill", "whole", "final"},
         NEW block \in Block, NEW next \in {"whole", "mac"},
         NEW overwritten \in SUBSET {"pending_block"},
         NEW released, LoopResources \subseteq released,
         "pending_block" \in held => "pending_block" \in released \cup overwritten,
         EmitBlock(block, next, overwritten, released),
         UNCHANGED << plain, file_size, header, taken, chunk >>,
         processed' \in Nat, pending' \in Seq(Byte), Len(pending') < BLOCK_SIZE,
         Len(encrypted) <= total_read,
         next = "whole" =>
           /\ processed' <= Len(chunk)
           /\ Len(pending') = 0
           /\ "pending_block" \notin held \ overwritten
           /\ total_read = Len(encrypted) + BLOCK_SIZE + (Len(chunk) - processed')
  PROVE  IInv'
<1> USE DEF IInv
<1>0. Len(header) >= SIZE_BYTES + KDF_SALT_SIZE /\ prev \in Block
  BY SizesPositive DEF HeaderShape, HeaderSize, ChainStarted, InLoop
<1>1. /\ output' \in Seq(Byte) /\ disk' \in Seq(Byte) /\ source' \in Seq(Byte)
      /\ prev' \in Block /\ prev' \in Seq(Byte)
      /\ encrypted' \in Seq(Byte) /\ Len(encrypted') = Len(encrypted) + BLOCK_SIZE
      /\ \/ pc' = next /\ ret' = ret /\ held' = held \ overwritten
         \/ pc' = "done" /\ ret' = -1 /\ held' = held \ (released \cup overwritten)
  BY <1>0, EmitBlockType
<1>2. TypeOK'
  BY <1>1 DEF TypeOK, Running, Stopped
<1>3. /\ Len(encrypted) \in Nat /\ Len(pending') \in Nat
      /\ Len(chunk) \in Nat /\ total_read \in Nat
  BY LenProperties DEF TypeOK
<1>4. Len(encrypted') <= total_read' + BLOCK_SIZE
  BY <1>1, <1>3, SizesPositive
<1>5. held \subseteq LoopResources \cup {"pending_block", "chunk"}
  BY DEF Holdings, InLoop
<1>6. CASE pc' = next /\ held' = held \ overwritten
  <2>1. HeaderShape' /\ ChainStarted' /\ CleanExit'
    BY <1>1, <1>6 DEF HeaderShape, ChainStarted, CleanExit, InLoop, Closing
  <2>2. Holdings'
    BY <1>5, <1>6 DEF Holdings, InLoop, Closing
  <2>3. chunk' = chunk /\ total_read' = total_read
    OBVIOUS
  <2>4. ASSUME next = "mac" PROVE Account'
    BY <1>4, <1>6, <2>4 DEF Account, Starting
  <2>5. ASSUME next = "whole" PROVE Account'
    <3>1. /\ processed' <= Len(chunk') /\ Len(pending') = 0
          /\ total_read' = Len(encrypted') + Len(pending') + (Len(chunk') - processed')
      BY <1>1, <1>3, <2>3, <2>5, SizesPositive
    <3> QED BY <1>4, <1>6, <2>5, <3>1 DEF Account, Starting
  <2> QED BY <1>2, <2>1, <2>2, <2>4, <2>5
<1>7. CASE pc' = "done" /\ held' = held \ (released \cup overwritten)
  <2>1. CleanExit'
    BY <1>5, <1>7 DEF CleanExit
  <2> QED BY <1>2, <1>4, <1>7, <2>1, StoppedInvariant DEF Stopped
<1> QED BY <1>1, <1>6, <1>7

LEMMA FillPendingInvariant == IInv /\ FillPending => IInv'
<1> SUFFICES ASSUME IInv, FillPending PROVE IInv'
  OBVIOUS
<1> DEFINE to_copy == Lesser(BLOCK_SIZE - Len(pending), Len(chunk))
<1> DEFINE filled  == pending \o SubSeq(chunk, 1, to_copy)
<1>1. /\ pc = "fill" /\ processed' = to_copy
      /\ UNCHANGED << plain, file_size, header, taken, chunk >>
      /\ \/ /\ Len(filled) = BLOCK_SIZE
            /\ pending' = << >>
            /\ EmitBlock(filled, "whole", {"pending_block"}, LoopResources)
         \/ /\ Len(filled) < BLOCK_SIZE
            /\ pending' = filled
            /\ pc' = "whole"
            /\ UNCHANGED << ret, disk, source, output, chain, held >>
  BY DEF FillPending
<1>2. /\ Len(pending) \in Nat /\ Len(chunk) \in Nat /\ Len(encrypted) \in Nat
      /\ pending \in Seq(Byte) /\ chunk \in Seq(Byte) /\ total_read \in Nat
  BY LenProperties DEF IInv, TypeOK
<1>3. /\ Len(pending) > 0 /\ Len(pending) < BLOCK_SIZE
      /\ total_read = Len(encrypted) + Len(pending) + Len(chunk)
  BY <1>1 DEF IInv, Account
<1>4. /\ to_copy \in 0..Len(chunk) /\ to_copy <= BLOCK_SIZE - Len(pending)
      /\ to_copy = BLOCK_SIZE - Len(pending) \/ to_copy = Len(chunk)
  BY <1>2, <1>3, SizesPositive DEF Lesser
<1>5. filled \in Seq(Byte) /\ Len(filled) = Len(pending) + to_copy
  BY <1>2, <1>4, PrefixType, ConcatType
<1> HIDE DEF to_copy, filled
<1>6. CASE /\ Len(filled) = BLOCK_SIZE
           /\ pending' = << >>
           /\ EmitBlock(filled, "whole", {"pending_block"}, LoopResources)
  <2>1. filled \in Block
    BY <1>5, <1>6, SeqIsBlock
  <2>2. pending' \in Seq(Byte) /\ Len(pending') = 0
    BY <1>6, EmptySeq
  <2>3. /\ Len(encrypted) <= total_read /\ processed' \in Nat /\ processed' <= Len(chunk)
        /\ total_read = Len(encrypted) + BLOCK_SIZE + (Len(chunk) - processed')
    BY <1>1, <1>2, <1>3, <1>4, <1>5, <1>6
  <2>4. /\ pc \in {"fill", "whole", "final"} /\ Len(pending') < BLOCK_SIZE
        /\ "whole" \in {"whole", "mac"} /\ "whole" = "whole"
        /\ {"pending_block"} \in SUBSET {"pending_block"}
        /\ LoopResources \subseteq LoopResources
        /\ "pending_block" \in held => "pending_block" \in LoopResources \cup {"pending_block"}
        /\ "pending_block" \notin held \ {"pending_block"}
    BY <1>1, <2>2, SizesPositive
  <2> QED BY <1>1, <1>6, <2>1, <2>2, <2>3, <2>4, EmitInvariant
<1>7. CASE /\ Len(filled) < BLOCK_SIZE
           /\ pending' = filled
           /\ pc' = "whole"
           /\ UNCHANGED << ret, disk, source, output, chain, held >>
  <2>1. to_copy = Len(chunk) /\ to_copy \in Nat
    BY <1>2, <1>4, <1>5, <1>7, SizesPositive
  <2>2. TypeOK'
    BY <1>1, <1>5, <1>7, <2>1 DEF IInv, TypeOK, Running, chain
  <2>3. HeaderShape' /\ ChainStarted' /\ CleanExit'
    BY <1>1, <1>7 DEF IInv, HeaderShape, ChainStarted, CleanExit, InLoop, Closing, chain
  <2>4. Holdings'
    BY <1>1, <1>2, <1>3, <1>5, <1>7, <2>1 DEF IInv, Holdings, InLoop, Closing
  <2>5. total_read' = total_read /\ chunk' = chunk /\ encrypted' = encrypted
    BY <1>1, <1>7 DEF chain
  <2> HIDE DEF total_read
  <2>6. /\ total_read' = Len(encrypted') + Len(pending') + (Len(chunk') - processed')
        /\ processed' = Len(chunk') /\ Len(pending') < BLOCK_SIZE
        /\ Len(encrypted') <= total_read' + BLOCK_SIZE
    BY <1>1, <1>2, <1>3, <1>5, <1>7, <2>1, <2>5, SizesPositive
  <2>7. Account'
    BY <1>2, <1>7, <2>1, <2>5, <2>6 DEF Account, Starting
  <2> QED BY <2>2, <2>3, <2>4, <2>7 DEF IInv
<1> QED BY <1>1, <1>6, <1>7

LEMMA EncryptWholeInvariant == IInv /\ EncryptWhole => IInv'
<1> SUFFICES ASSUME IInv, EncryptWhole PROVE IInv'
  OBVIOUS
<1>1. /\ pc = "whole" /\ processed + BLOCK_SIZE <= Len(chunk)
      /\ processed' = processed + BLOCK_SIZE
      /\ EmitBlock(Slice(chunk, processed, BLOCK_SIZE), "whole", {}, LoopResources)
      /\ UNCHANGED << plain, file_size, header, taken, chunk, pending >>
  BY DEF EncryptWhole
<1>2. /\ Len(pending) \in Nat /\ Len(chunk) \in Nat /\ Len(encrypted) \in Nat
      /\ pending \in Seq(Byte) /\ chunk \in Seq(Byte) /\ processed \in Nat /\ total_read \in Nat
  BY LenProperties DEF IInv, TypeOK
<1>3. /\ Len(pending) > 0 => processed = Len(chunk)
      /\ total_read = Len(encrypted) + Len(pending) + (Len(chunk) - processed)
  BY <1>1 DEF IInv, Account
<1>4. Len(pending) = 0 /\ "pending_block" \notin held
  BY <1>1, <1>2, <1>3, SizesPositive DEF IInv, Holdings
<1>5. Slice(chunk, processed, BLOCK_SIZE) \in Block
  BY <1>1, <1>2, SizesPositive, SliceType, SeqIsBlock
<1>6. /\ Len(encrypted) <= total_read /\ processed' \in Nat /\ processed' <= Len(chunk)
      /\ total_read = Len(encrypted) + BLOCK_SIZE + (Len(chunk) - processed')
      /\ pending' \in Seq(Byte) /\ Len(pending') = 0 /\ Len(pending') < BLOCK_SIZE
  BY <1>1, <1>2, <1>3, <1>4, SizesPositive
<1>7. /\ pc \in {"fill", "whole", "final"} /\ "whole" \in {"whole", "mac"}
      /\ {} \in SUBSET {"pending_block"} /\ LoopResources \subseteq LoopResources
      /\ "pending_block" \notin held \ {}
      /\ UNCHANGED << plain, file_size, header, taken, chunk >>
  BY <1>1, <1>4
<1> QED BY <1>1, <1>4, <1>5, <1>6, <1>7, EmitInvariant

LEMMA SavePendingInvariant == IInv /\ SavePending => IInv'
<1> SUFFICES ASSUME IInv, SavePending PROVE IInv'
  OBVIOUS
<1> USE DEF IInv, SavePending
<1>1. /\ Len(pending) \in Nat /\ Len(chunk) \in Nat /\ Len(encrypted) \in Nat
      /\ pending \in Seq(Byte) /\ chunk \in Seq(Byte) /\ processed \in Nat /\ total_read \in Nat
  BY LenProperties DEF TypeOK
<1>2. CASE processed < Len(chunk)
  <2>1. /\ pending' = SubSeq(chunk, processed + 1, Len(chunk)) /\ held' = held \cup {"pending_block"}
    BY <1>2
  <2>2. pending' \in Seq(Byte) /\ Len(pending') = Len(chunk) - processed
    <3>1. /\ processed + 1 \in 1..(Len(chunk) + 1)
          /\ Len(chunk) \in ((processed + 1) - 1)..Len(chunk)
          /\ Len(chunk) - (processed + 1) + 1 = Len(chunk) - processed
      BY <1>1, <1>2
    <3> QED BY <1>1, <2>1, <3>1, SubSeqType
  <2>3. TypeOK'
    BY <2>1, <2>2 DEF TypeOK, Running, Secrets, files, chain
  <2>4. HeaderShape' /\ ChainStarted' /\ CleanExit'
    BY DEF HeaderShape, ChainStarted, CleanExit, InLoop, Closing, chain
  <2>5. Holdings'
    BY <1>1, <1>2, <2>1, <2>2 DEF Holdings, InLoop, Closing
  <2>6. Len(pending) = 0
    BY <1>1, <1>2 DEF Account
  <2>7. Account'
    BY <1>1, <1>2, <2>2, <2>6, SizesPositive DEF Account, Starting, chain
  <2> QED BY <2>3, <2>4, <2>5, <2>7
<1>3. CASE ~(processed < Len(chunk))
  <2>1. pending' = pending /\ held' = held
    BY <1>3
  <2>2. TypeOK'
    BY <2>1 DEF TypeOK, Running, files, chain
  <2>3. HeaderShape' /\ ChainStarted' /\ CleanExit' /\ Holdings'
    BY <2>1 DEF HeaderShape, ChainStarted, CleanExit, Holdings, InLoop, Closing, chain
  <2>4. Account'
    BY <1>1, <1>3, <2>1 DEF Account, Starting, chain
  <2> QED BY <2>2, <2>3, <2>4
<1> QED BY <1>2, <1>3

LEMMA EncryptFinalInvariant == IInv /\ EncryptFinal => IInv'
<1> SUFFICES ASSUME IInv, EncryptFinal PROVE IInv'
  OBVIOUS
<1>1. /\ pc = "final" /\ UNCHANGED << plain, file_size, header, taken, chunk, processed, pending >>
      /\ EmitBlock(cipher_add_pkcs7_padding(pending), "mac", {}, LoopResources \cup {"pending_block"})
  BY DEF EncryptFinal, stream
<1>2. /\ pending \in Seq(Byte) /\ Len(pending) < BLOCK_SIZE /\ processed \in Nat
      /\ Len(pending) \in Nat /\ Len(encrypted) \in Nat
      /\ total_read = Len(encrypted) + Len(pending)
  BY <1>1, LenProperties DEF IInv, TypeOK, Account
<1>3. cipher_add_pkcs7_padding(pending) \in Block
  BY <1>2, PaddingMakesBlock
<1>4. /\ processed' \in Nat /\ pending' \in Seq(Byte) /\ Len(pending') < BLOCK_SIZE
      /\ Len(encrypted) <= total_read
      /\ UNCHANGED << plain, file_size, header, taken, chunk >>
  BY <1>1, <1>2
<1>5. /\ pc \in {"fill", "whole", "final"} /\ "mac" \in {"whole", "mac"} /\ "mac" # "whole"
      /\ {} \in SUBSET {"pending_block"}
      /\ LoopResources \subseteq LoopResources \cup {"pending_block"}
      /\ "pending_block" \in (LoopResources \cup {"pending_block"}) \cup {}
  BY <1>1
<1> QED BY <1>1, <1>3, <1>4, <1>5, EmitInvariant

LEMMA WriteMacInvariant == IInv /\ WriteMac => IInv'
<1> SUFFICES ASSUME IInv, WriteMac PROVE IInv'
  OBVIOUS
<1> DEFINE mac == hmac_compute(MacKey(Master, salt), header \o encrypted)
<1>1. /\ pc = "mac" /\ pc' = "finish"
      /\ UNCHANGED << ret, plain, source, disk, file_size, header, stream, chain, held >>
      /\ output' = output \o mac \/ ShortWrite(mac) \/ output' = output
  BY DEF WriteMac
<1>2. mac \in Seq(Byte)
  BY SizesPositive, ByteArrayType DEF hmac_compute
<1> HIDE DEF mac
<1>3. output' \in Seq(Byte)
  BY <1>1, <1>2, ConcatType, ShortWriteType DEF IInv, TypeOK
<1>4. TypeOK'
  BY <1>1, <1>3 DEF IInv, TypeOK, Running, stream, chain
<1>5. HeaderShape' /\ ChainStarted' /\ Holdings' /\ CleanExit'
  BY <1>1 DEF IInv, HeaderShape, ChainStarted, Holdings, CleanExit, InLoop, Closing, chain
<1>6. Account'
  BY <1>1 DEF IInv, Account, Starting, stream, chain
<1> QED BY <1>4, <1>5, <1>6 DEF IInv

LEMMA FinishInvariant == IInv /\ Finish => IInv'
<1> SUFFICES ASSUME IInv, Finish PROVE IInv'
  OBVIOUS
<1> USE DEF IInv, Finish
<1>1. output' \in Seq(Byte)
  BY DEF TypeOK
<1>2. /\ pc' = "done" /\ ret' = 0 /\ held' = held \ (LoopResources \cup {"pending_block"})
      /\ disk' \in Seq(Byte) /\ source' \in Seq(Byte)
  BY <1>1, ExitType DEF TypeOK
<1>3. TypeOK'
  BY <1>1, <1>2 DEF TypeOK, Stopped, stream, chain
<1>4. CleanExit'
  BY <1>2 DEF CleanExit, Holdings, Closing
<1>5. Len(pending') < BLOCK_SIZE /\ Len(encrypted') <= total_read' + BLOCK_SIZE
  BY DEF Account, stream, chain
<1> QED BY <1>2, <1>3, <1>4, <1>5, StoppedInvariant DEF Stopped

\* What the surroundings do to the files leaves the call's own state alone.
LEMMA FilesInvariant ==
  ASSUME IInv, disk' \in Seq(Byte), source' \in Seq(Byte),
         UNCHANGED << pc, ret, plain, output, file_size, header, stream, chain, held >>
  PROVE  IInv'
<1> USE DEF IInv
<1>1. TypeOK'
  BY DEF TypeOK, stream, chain
<1>2. HeaderShape' /\ ChainStarted' /\ Holdings' /\ CleanExit'
  BY DEF HeaderShape, ChainStarted, Holdings, CleanExit, stream, chain
<1>3. Account'
  BY DEF Account, stream, chain
<1> QED BY <1>1, <1>2, <1>3

LEMMA FlushInvariant == IInv /\ Flush => IInv'
<1> SUFFICES ASSUME IInv, Flush PROVE IInv'
  OBVIOUS
<1>1. PICK n \in (Len(disk) + 1)..Len(output) : disk' = SubSeq(output, 1, n)
  BY DEF Flush
<1>2. n \in 0..Len(output)
  BY <1>1, LenProperties DEF IInv, TypeOK
<1>3. disk' \in Seq(Byte)
  BY <1>1, <1>2, PrefixType DEF IInv, TypeOK
<1>4. source' \in Seq(Byte)
  BY <1>3 DEF Flush, SyncSource, IInv, TypeOK
<1> QED BY <1>3, <1>4, FilesInvariant DEF Flush

LEMMA ChangeInputInvariant == IInv /\ ChangeInput => IInv'
<1> SUFFICES ASSUME IInv, ChangeInput PROVE IInv'
  OBVIOUS
<1>1. source \in Seq(Byte) /\ Len(source) \in Nat /\ << 0 >> \in Seq(Byte)
  BY LenProperties, ZeroIsByte DEF IInv, TypeOK
<1>2. CASE source' = Append(source, 0)
  <2>1. source' \in Seq(Byte)
    BY <1>1, <1>2, ZeroIsByte
  <2> QED BY <2>1, FilesInvariant DEF ChangeInput, IInv, TypeOK
<1>3. CASE Len(source) > 0 /\ source' = SubSeq(source, 1, Len(source) - 1)
  <2>1. Len(source) - 1 \in 0..Len(source)
    BY <1>1, <1>3
  <2>2. source' \in Seq(Byte)
    BY <1>1, <1>3, <2>1, PrefixType
  <2> QED BY <2>2, FilesInvariant DEF ChangeInput, IInv, TypeOK
<1> QED BY <1>2, <1>3 DEF ChangeInput

LEMMA CrashInvariant == IInv /\ Crash => IInv'
<1> SUFFICES ASSUME IInv, Crash PROVE IInv'
  OBVIOUS
<1> USE DEF IInv, Crash
<1>1. TypeOK' /\ CleanExit'
  BY DEF TypeOK, CleanExit, Stopped, files, stream, chain
<1>2. Len(pending') < BLOCK_SIZE /\ Len(encrypted') <= total_read' + BLOCK_SIZE
  BY DEF Account, stream, chain
<1> QED BY <1>1, <1>2, StoppedInvariant DEF Stopped

LEMMA StutterInvariant == IInv /\ UNCHANGED vars => IInv'
<1> SUFFICES ASSUME IInv, UNCHANGED vars PROVE IInv'
  OBVIOUS
<1>1. disk' \in Seq(Byte) /\ source' \in Seq(Byte)
  BY DEF IInv, TypeOK, vars, files
<1> QED BY <1>1, FilesInvariant DEF vars, files

LEMMA NextInvariant == IInv /\ [Next]_vars => IInv'
<1> SUFFICES ASSUME IInv, [Next]_vars PROVE IInv'
  OBVIOUS
<1>1. CASE OpenInput \/ OpenOutput \/ WriteSize \/ WriteSalt \/ WriteIv \/ Abort
  BY <1>1, OpenInputInvariant, OpenOutputInvariant, WriteSizeInvariant, WriteSaltInvariant,
     WriteIvInvariant, AbortInvariant
<1>2. CASE AllocCiphertext \/ AllocBuffer \/ ReadChunk \/ FillPending
  BY <1>2, AllocCiphertextInvariant, AllocBufferInvariant, ReadChunkInvariant, FillPendingInvariant
<1>3. CASE EncryptWhole \/ SavePending \/ EncryptFinal \/ WriteMac \/ Finish
  BY <1>3, EncryptWholeInvariant, SavePendingInvariant, EncryptFinalInvariant, WriteMacInvariant,
     FinishInvariant
<1>4. CASE Flush \/ Crash \/ ChangeInput
  BY <1>4, FlushInvariant, CrashInvariant, ChangeInputInvariant
<1>5. CASE Over \/ UNCHANGED vars
  BY <1>5, StutterInvariant DEF Over
<1> QED BY <1>1, <1>2, <1>3, <1>4, <1>5 DEF Next, Program

-----------------------------------------------------------------------------
(* The theorems.                                                           *)

\* The inductive invariant holds of every behaviour of one call to
\* cipher_encrypt_file, whatever the surroundings do.
THEOREM Invariance == Spec => []IInv
BY InitInvariant, NextInvariant, PTL DEF Spec

\* Every variable keeps its type: no block, field or file is ever malformed.
THEOREM TypeCorrect == Spec => []TypeOK
<1>1. IInv => TypeOK
  BY DEF IInv
<1> QED BY Invariance, <1>1, PTL

\* Whatever fails, and whatever else happens to the files, every return of
\* cipher_encrypt_file has closed both streams, freed both buffers, and wiped the
\* derived keys and the pending block.
THEOREM ExitsClean == Spec => []CleanExit
<1>1. IInv => CleanExit
  BY DEF IInv
<1> QED BY Invariance, <1>1, PTL

-----------------------------------------------------------------------------
(***************************************************************************)
(* cipher.c:102 sizes encrypted_data for the file as it was measured. When *)
(* the input file does not grow, and is not the output file as well, what  *)
(* is read of it never exceeds that size.                                  *)
(***************************************************************************)

SizeHolds ==
  /\ total_read <= file_size
  /\ pc \in Running \ {"open_input"} => Len(source) <= file_size

\* A step of the call itself, or of stdio, leaves another file alone.
LEMMA OtherFileKept ==
  ASSUME SameFile = FALSE, Program \/ Flush
  PROVE  source' = source
<1>1. \A code, released : Exit(code, released) => source' = source
  BY DEF Exit, CloseOutput, SyncSource
<1>2. CASE OpenInput \/ OpenOutput
  BY <1>1, <1>2 DEF OpenInput, OpenOutput, SyncSource
<1>3. CASE WriteSize \/ WriteSalt \/ WriteIv
  BY <1>1, <1>3 DEF WriteSize, WriteSalt, WriteIv, WriteField
<1>4. CASE AllocCiphertext \/ AllocBuffer
  BY <1>1, <1>4 DEF AllocCiphertext, AllocBuffer, Allocate
<1>5. CASE FillPending \/ EncryptWhole \/ EncryptFinal
  BY <1>1, <1>5 DEF FillPending, EncryptWhole, EncryptFinal, EmitBlock
<1>6. CASE Abort \/ ReadChunk \/ SavePending \/ WriteMac
  BY <1>6 DEF Abort, ReadChunk, SavePending, WriteMac, files
<1>7. CASE Finish \/ Flush
  BY <1>1, <1>7 DEF Finish, Flush, SyncSource
<1> QED BY <1>2, <1>3, <1>4, <1>5, <1>6, <1>7 DEF Program

\* Only the measurement sets the size, and only fread moves the position.
LEMMA SizeAndPositionKept ==
  ASSUME Program, ~OpenInput, ~ReadChunk
  PROVE  UNCHANGED << file_size, total_read >> /\ pc # "open_input"
BY DEF Program, OpenOutput, WriteSize, WriteSalt, WriteIv, Abort, AllocCiphertext, AllocBuffer,
       Allocate, FillPending, EncryptWhole, SavePending, EncryptFinal, WriteMac, Finish, stream

\* fread returns no more than is left of the file.
LEMMA ReadWithinFile ==
  ASSUME SameFile = FALSE, IInv, ReadChunk, Len(source) <= file_size, total_read <= file_size
  PROVE  total_read' <= file_size
<1> DEFINE left == IF total_read < Len(source) THEN Len(source) - total_read ELSE 0
<1> DEFINE want == Lesser(STREAM_CHUNK, left)
<1>1. Len(source) \in Nat /\ total_read \in Nat /\ file_size \in Nat
  BY LenProperties DEF IInv, TypeOK
<1>2. want \in Nat /\ want <= left /\ left \in Nat
  BY <1>1, SizesPositive DEF Lesser
<1>3. PICK n \in (IF "read" \in Env THEN 0 ELSE want)..want :
        \/ taken' = taken
        \/ n # 0 /\ chunk' = Slice(source, total_read, n) /\ taken' = taken \o chunk'
  BY DEF ReadChunk, stream
<1>4. n \in Nat /\ n <= left
  BY <1>2, <1>3
<1>5. CASE taken' = taken
  BY <1>1, <1>5
<1>6. CASE n # 0 /\ chunk' = Slice(source, total_read, n) /\ taken' = taken \o chunk'
  <2>1. total_read + n <= Len(source) /\ source \in Seq(Byte) /\ taken \in Seq(Byte)
    BY <1>1, <1>4, <1>6 DEF IInv, TypeOK
  <2>2. chunk' \in Seq(Byte) /\ Len(chunk') = n
    BY <1>1, <1>4, <1>6, <2>1, SliceType
  <2>3. total_read' = total_read + n
    BY <1>6, <2>1, <2>2, ConcatType
  <2> QED BY <1>1, <1>4, <2>1, <2>3
<1> QED BY <1>3, <1>5, <1>6

LEMMA SizeStep ==
  ASSUME SameFile = FALSE, "grow" \notin Env, IInv, SizeHolds, [Next]_vars
  PROVE  SizeHolds'
<1>1. Len(source) \in Nat /\ total_read \in Nat /\ file_size \in Nat
  BY LenProperties DEF IInv, TypeOK
<1>2. CASE OpenInput
  <2>1. source' = source
    BY <1>2, OtherFileKept DEF Program
  <2>2. total_read = 0 /\ total_read' = total_read
    BY <1>2 DEF OpenInput, IInv, Account, Starting, stream
  <2>3. \/ file_size' = Len(source)
        \/ file_size' = file_size /\ pc' = "done"
    BY <1>2 DEF OpenInput, Exit
  <2> QED BY <1>1, <2>1, <2>2, <2>3 DEF SizeHolds, Running
<1>3. CASE ReadChunk
  <2>1. pc = "read" /\ file_size' = file_size /\ source' = source
    BY <1>3 DEF ReadChunk, files
  <2>2. Len(source) <= file_size /\ total_read <= file_size
    BY <2>1 DEF SizeHolds, Running
  <2> QED BY <1>3, <2>1, <2>2, ReadWithinFile DEF SizeHolds
<1>4. CASE Program /\ ~OpenInput /\ ~ReadChunk
  <2>1. source' = source /\ UNCHANGED << file_size, total_read >> /\ pc # "open_input"
    BY <1>4, OtherFileKept, SizeAndPositionKept
  <2>2. pc' \in Running => pc \in Running
    BY <1>4 DEF Program, OpenOutput, WriteSize, WriteSalt, WriteIv, Abort, AllocCiphertext,
       AllocBuffer, FillPending, EncryptWhole, SavePending, EncryptFinal, WriteMac, Finish,
       Running, Exit
  <2> QED BY <2>1, <2>2 DEF SizeHolds
<1>5. CASE Flush
  <2>1. source' = source /\ UNCHANGED << file_size, total_read, pc >>
    BY <1>5, OtherFileKept DEF Flush, stream
  <2> QED BY <2>1 DEF SizeHolds
<1>6. CASE Crash
  BY <1>6 DEF Crash, SizeHolds, Running, stream
<1>7. CASE ChangeInput
  <2>1. /\ UNCHANGED << pc, file_size, total_read >>
        /\ Len(source) > 0 /\ source' = SubSeq(source, 1, Len(source) - 1)
    BY <1>7 DEF ChangeInput, stream
  <2>2. source \in Seq(Byte) /\ Len(source) - 1 \in 0..Len(source)
    BY <1>1, <2>1 DEF IInv, TypeOK
  <2>3. Len(source') = Len(source) - 1
    BY <2>1, <2>2, PrefixType
  <2> QED BY <1>1, <2>1, <2>3 DEF SizeHolds
<1>8. CASE Over \/ UNCHANGED vars
  BY <1>8 DEF Over, vars, files, stream, SizeHolds
<1> QED BY <1>2, <1>3, <1>4, <1>5, <1>6, <1>7, <1>8 DEF Next

\* encrypted_data has room for every block copied into it, unless the input file
\* grows during the call or is the output file as well.
THEOREM BufferSuffices ==
  ASSUME SameFile = FALSE, "grow" \notin Env
  PROVE  Spec => []CiphertextFits
<1>1. Init => SizeHolds
  BY SizesPositive DEF Init, SizeHolds
<1>2. IInv /\ SizeHolds /\ [Next]_vars => SizeHolds'
  BY SizeStep
<1>3. IInv /\ SizeHolds => CiphertextFits
  <2> SUFFICES ASSUME IInv, SizeHolds PROVE CiphertextFits
    OBVIOUS
  <2>1. /\ Len(encrypted) <= total_read + BLOCK_SIZE /\ total_read <= file_size
        /\ Len(encrypted) \in Nat /\ total_read \in Nat /\ file_size \in Nat
    BY LenProperties DEF IInv, TypeOK, Account, SizeHolds
  <2> QED BY <2>1, SizesPositive DEF CiphertextFits
<1> QED BY Invariance, <1>1, <1>2, <1>3, PTL DEF Spec

-----------------------------------------------------------------------------
(***************************************************************************)
(* What is written. The loop keeps CBC over the bytes taken, block by      *)
(* block; the bytes not yet encrypted are the pending block and the rest   *)
(* of the chunk, in the order they were read.                              *)
(***************************************************************************)

FileKey  == EncKey(Master, salt)
HeaderIv == Slice(header, SIZE_BYTES + KDF_SALT_SIZE, BLOCK_SIZE)
FileMac  == hmac_compute(MacKey(Master, salt), header \o encrypted)

\* Every call whose failure cipher_encrypt_file does not report succeeds.
NothingIgnored == Env \cap {"write", "alloc", "close"} = {}

HeaderFields ==
  /\ pc \in {"open_input", "open_output", "size"} => header = << >>
  /\ pc = "salt" => header = SizeToBytes(file_size)
  /\ pc = "iv" => header = SizeToBytes(file_size) \o salt /\ salt \in Salts
  /\ pc \in {"alloc_data", "alloc_buffer"} \cup InLoop \cup Closing =>
       /\ header = SizeToBytes(file_size) \o salt \o HeaderIv
       /\ salt \in Salts /\ HeaderIv \in Ivs

\* s begins with the blocks encrypted so far.
ChainOver(s) ==
  \E n \in Nat : /\ n * BLOCK_SIZE <= Len(s)
                 /\ Len(encrypted) = n * BLOCK_SIZE
                 /\ encrypted = CipherBytes(FileKey, HeaderIv, s, n)
                 /\ prev = CbcBlocks(FileKey, HeaderIv, s)[n]

PendingIsNext == \A j \in 1..Len(pending) : taken[Len(encrypted) + j] = pending[j]

ChunkIsNext ==
  \A j \in 1..(Len(chunk) - processed) :
    taken[Len(encrypted) + Len(pending) + j] = chunk[processed + j]

StreamSealed ==
  /\ pc \in {"alloc_buffer"} \cup InLoop => ChainOver(taken) /\ PendingIsNext
  /\ pc \in {"fill", "whole"} => ChunkIsNext
  /\ pc \in Closing => encrypted = Ciphertext(FileKey, HeaderIv, taken)

OutputWritten ==
  /\ pc \in Running \ {"finish"} => output = header \o encrypted
  /\ pc = "finish" => \E n \in 0..HMAC_SIZE :
                        /\ output = (header \o encrypted) \o SubSeq(FileMac, 1, n)
                        /\ NothingIgnored => n = HMAC_SIZE

OutputOpen == pc \in Running \ {"open_input", "open_output"} => "output" \in held

Delivered == ret = 0 => /\ pc = "done"
                        /\ NothingIgnored => disk = SealedSoFar

\* What was written is a start of one sealed file: of its header, or of the file
\* that the bytes read make.
OutputStarts ==
  \/ Len(output) <= HeaderSize
  \/ salt \in Salts /\ HeaderIv \in Ivs /\ StartOf(output, SealedSoFar)

Leftover == pc \in Stopped => OutputStarts

Sealing ==
  HeaderFields /\ StreamSealed /\ OutputWritten /\ OutputOpen /\ Delivered /\ Leftover

SInv == IInv /\ Sealing

LEMMA InitSealing == Init => Sealing
<1> SUFFICES ASSUME Init PROVE Sealing
  OBVIOUS
<1>1. /\ pc = "open_input" /\ header = << >> /\ output = << >> /\ encrypted = << >> /\ ret = 1
  BY DEF Init, NoResult
<1>2. << >> \o << >> = << >>
  BY ConcatEmptySeq, EmptySeq
<1> QED BY <1>1, <1>2
        DEF Sealing, HeaderFields, StreamSealed, OutputWritten, OutputOpen, Delivered, Leftover,
            InLoop, Closing, Stopped

\* After a return of -1, an abort or a crash there is only what is left over.
LEMMA StoppedSealing ==
  ASSUME pc' \in Stopped, ret' # 0, OutputStarts'
  PROVE  Sealing'
BY DEF Sealing, HeaderFields, StreamSealed, OutputWritten, OutputOpen, Delivered, Leftover, Running,
       Stopped, InLoop, Closing

\* Before the first fread nothing is encrypted.
LEMMA StartingEmpty ==
  ASSUME IInv, pc \in Starting
  PROVE  taken = << >> /\ pending = << >> /\ encrypted = << >>
BY EmptySeq DEF IInv, TypeOK, Account

\* A sequence grows by what is appended.
LEMMA AppendEmpty ==
  ASSUME NEW s \in Seq(Byte)
  PROVE  s \o << >> = s /\ << >> \o s = s
BY ConcatEmptySeq

LEMMA ConcatThree ==
  ASSUME NEW s \in Seq(Byte), NEW t \in Seq(Byte), NEW u \in Seq(Byte)
  PROVE  (s \o t) \o u = s \o (t \o u)
BY ConcatAssociative

\* While nothing but the header is written, that is short.
LEMMA StartingOutput ==
  ASSUME SInv, pc \in Starting
  PROVE  Len(output) <= HeaderSize
<1>1. /\ encrypted = << >> /\ output = header \o encrypted /\ header \in Seq(Byte)
  BY StartingEmpty DEF SInv, IInv, TypeOK, Sealing, OutputWritten, Starting, Running
<1>2. output = header
  BY <1>1, AppendEmpty
<1>3. pc \in {"open_input", "open_output", "size"} => Len(header) = 0
  BY EmptySeq DEF SInv, Sealing, HeaderFields
<1>4. /\ pc = "salt" => Len(header) = SIZE_BYTES
      /\ pc = "iv" => Len(header) = SIZE_BYTES + KDF_SALT_SIZE
      /\ pc \in {"alloc_data", "alloc_buffer"} => Len(header) = HeaderSize
  BY DEF SInv, IInv, HeaderShape
<1> QED BY <1>2, <1>3, <1>4, SizesPositive DEF Starting, HeaderSize

LEMMA OpenInputSealing == SInv /\ OpenInput => Sealing'
<1> SUFFICES ASSUME IInv, Sealing, OpenInput PROVE Sealing'
  BY DEF SInv
<1>1. CASE Exit(-1, {})
  <2>1. Len(output) <= HeaderSize /\ output' = output
    BY StartingOutput DEF OpenInput, Starting, SInv
  <2> QED BY <1>1, <2>1, StoppedSealing DEF Exit, Stopped, OutputStarts
<1>2. CASE pc' = "open_output" /\ UNCHANGED << ret, disk, source >>
  <2>1. pc = "open_input" /\ UNCHANGED << header, output, encrypted >>
    BY DEF OpenInput, chain
  <2> QED BY <1>2, <2>1
          DEF Sealing, HeaderFields, StreamSealed, OutputWritten, OutputOpen, Delivered, Leftover,
              InLoop, Closing, Running, Stopped
<1> QED BY <1>1, <1>2 DEF OpenInput

LEMMA OpenOutputSealing == SInv /\ OpenOutput => Sealing'
<1> SUFFICES ASSUME IInv, Sealing, OpenOutput PROVE Sealing'
  BY DEF SInv
<1>1. CASE Exit(-1, {"input"})
  <2>1. Len(output) <= HeaderSize /\ output' = output
    BY StartingOutput DEF OpenOutput, Starting, SInv
  <2> QED BY <1>1, <2>1, StoppedSealing DEF Exit, Stopped, OutputStarts
<1>2. CASE pc' = "size" /\ held' = held \cup {"output"} /\ ret' = ret
  <2>1. pc = "open_output" /\ UNCHANGED << header, output, encrypted >>
    BY DEF OpenOutput, chain
  <2> QED BY <1>2, <2>1
          DEF Sealing, HeaderFields, StreamSealed, OutputWritten, OutputOpen, Delivered, Leftover,
              InLoop, Closing, Running, Stopped
<1> QED BY <1>1, <1>2 DEF OpenOutput

\* A header field is written behind those before it.
LEMMA FieldSealing ==
  ASSUME SInv, pc \in {"size", "salt", "iv"}, NEW field \in Seq(Byte), header' = header \o field,
         NEW next \in {"salt", "iv", "alloc_data"}, NEW gained, NEW released,
         WriteField(field, next, gained, released), UNCHANGED chain, HeaderFields',
         Len(header) + Len(field) <= HeaderSize
  PROVE  Sealing'
<1>1. CASE ShortWrite(field) /\ Exit(-1, released)
  <2>1. encrypted = << >> /\ header \in Seq(Byte)
    BY StartingEmpty DEF SInv, IInv, TypeOK, Starting
  <2>2. output = header
    BY <2>1, AppendEmpty DEF SInv, Sealing, OutputWritten, Running
  <2>3. Len(header) \in Nat /\ Len(field) \in Nat
    BY <2>1, LenProperties
  <2>4. PICK n \in 0..(Len(field) - 1) : output' = header \o SubSeq(field, 1, n)
    BY <1>1, <2>2 DEF ShortWrite
  <2>5. SubSeq(field, 1, n) \in Seq(Byte) /\ Len(SubSeq(field, 1, n)) = n
    BY <2>3, PrefixType
  <2>6. Len(output') = Len(header) + n
    BY <2>1, <2>4, <2>5, ConcatType
  <2>7. Len(output') <= HeaderSize
    BY <2>3, <2>6, SizesPositive DEF HeaderSize
  <2> QED BY <1>1, <2>7, StoppedSealing DEF Exit, Stopped, OutputStarts
<1>2. CASE /\ output' = output \o field
           /\ pc' = next
           /\ held' = held \cup gained
           /\ UNCHANGED << ret, disk, source >>
  <2>1. encrypted = << >> /\ encrypted' = << >> /\ header \in Seq(Byte)
    BY StartingEmpty DEF SInv, IInv, TypeOK, Starting, chain
  <2>2. header' \in Seq(Byte)
    BY <2>1, ConcatType
  <2>3. output = header
    BY <2>1, AppendEmpty DEF SInv, Sealing, OutputWritten, Running
  <2>4. output' = header' \o encrypted'
    BY <1>2, <2>1, <2>2, <2>3, AppendEmpty
  <2>5. "output" \in held /\ ret # 0
    BY DEF SInv, Sealing, OutputOpen, Delivered, Running
  <2> QED BY <1>2, <2>4, <2>5
          DEF Sealing, StreamSealed, OutputWritten, OutputOpen, Delivered, Leftover, InLoop,
              Closing, Running, Stopped
<1> QED BY <1>1, <1>2 DEF WriteField

LEMMA WriteSizeSealing == SInv /\ WriteSize => Sealing'
<1> SUFFICES ASSUME SInv, WriteSize PROVE Sealing'
  OBVIOUS
<1>1. /\ pc = "size" /\ header' = SizeToBytes(file_size)
      /\ WriteField(header', "salt", {}, {"input", "output"})
      /\ UNCHANGED << file_size, chain >>
  BY DEF WriteSize
<1>2. header' \in Seq(Byte)
  BY <1>1, SizesPositive, ByteArrayType DEF SizeToBytes
<1>3. header' = header \o header'
  BY <1>1, <1>2, AppendEmpty DEF SInv, Sealing, HeaderFields
<1>4. pc' = "salt" \/ pc' = "done"
  BY <1>1 DEF WriteField, Exit
<1>5. HeaderFields'
  BY <1>1, <1>4 DEF HeaderFields, InLoop, Closing
<1>6. Len(header) + Len(header') <= HeaderSize
  BY <1>1, EmptySeq, SizesPositive, ByteArrayType
  DEF SizeToBytes, HeaderSize, SInv, Sealing, HeaderFields
<1> QED BY <1>1, <1>2, <1>3, <1>5, <1>6, FieldSealing

LEMMA WriteSaltSealing == SInv /\ WriteSalt => Sealing'
<1> SUFFICES ASSUME SInv, WriteSalt PROVE Sealing'
  OBVIOUS
<1>1. pc = "salt" /\ UNCHANGED << file_size, chain >>
  BY DEF WriteSalt
<1>2. PICK s \in Salts : header' = header \o s /\ WriteField(s, "iv", {"ctx"}, {"input", "output"})
  BY DEF WriteSalt
<1>3. s \in Seq(Byte) /\ Len(s) = KDF_SALT_SIZE
  BY SizesPositive, EncryptConstants, ArrayIsSeq
<1>4. header = SizeToBytes(file_size) /\ header \in Seq(Byte) /\ Len(header) = SIZE_BYTES
  BY <1>1 DEF SInv, Sealing, HeaderFields, IInv, TypeOK, HeaderShape
<1>5. salt' = s
  BY <1>2, <1>3, <1>4, SliceRight DEF salt
<1>6. pc' = "iv" \/ pc' = "done"
  BY <1>2 DEF WriteField, Exit
<1>7. HeaderFields'
  BY <1>1, <1>2, <1>4, <1>5, <1>6 DEF HeaderFields, InLoop, Closing
<1>8. Len(header) + Len(s) <= HeaderSize
  BY <1>3, <1>4, SizesPositive DEF HeaderSize
<1> QED BY <1>1, <1>2, <1>3, <1>7, <1>8, FieldSealing

LEMMA WriteIvSealing == SInv /\ WriteIv => Sealing'
<1> SUFFICES ASSUME SInv, WriteIv PROVE Sealing'
  OBVIOUS
<1>1. pc = "iv" /\ UNCHANGED << file_size, chain >>
  BY DEF WriteIv
<1>2. PICK v \in Ivs : /\ header' = header \o v
                       /\ WriteField(v, "alloc_data", {}, {"ctx", "input", "output"})
  BY DEF WriteIv
<1>3. v \in Seq(Byte) /\ Len(v) = BLOCK_SIZE
  BY EncryptConstants, BlockIsSeq
<1>4. /\ header = SizeToBytes(file_size) \o salt
      /\ header \in Seq(Byte) /\ Len(header) = SIZE_BYTES + KDF_SALT_SIZE /\ salt \in Salts
  BY <1>1 DEF SInv, Sealing, HeaderFields, IInv, TypeOK, HeaderShape
<1>5. HeaderIv' = v
  BY <1>2, <1>3, <1>4, SliceRight DEF HeaderIv
<1>6. salt' = salt
  BY <1>2, <1>3, <1>4, SizesPositive, SliceLeft DEF salt
<1>7. pc' = "alloc_data" \/ pc' = "done"
  BY <1>2 DEF WriteField, Exit
<1>8. HeaderFields'
  BY <1>1, <1>2, <1>4, <1>5, <1>6, <1>7 DEF HeaderFields, InLoop, Closing
<1>9. Len(header) + Len(v) <= HeaderSize
  BY <1>3, <1>4, SizesPositive DEF HeaderSize
<1> QED BY <1>1, <1>2, <1>3, <1>8, <1>9, FieldSealing

\* What has to be shown of a step that leaves header, ciphertext and output alone.
LEMMA QuietSealing ==
  ASSUME SInv, pc \in {"alloc_data", "alloc_buffer"} \cup InLoop,
         UNCHANGED << ret, file_size, header, encrypted, output >>,
         pc' \in {"alloc_buffer"} \cup InLoop, held \ {"pending_block"} \subseteq held',
         ChainOver(taken)', PendingIsNext', pc' \in {"fill", "whole"} => ChunkIsNext'
  PROVE  Sealing'
<1>1. HeaderFields'
  BY DEF SInv, Sealing, HeaderFields, InLoop, Closing, salt, HeaderIv
<1>2. StreamSealed'
  BY DEF StreamSealed, InLoop, Closing
<1>3. OutputWritten'
  BY DEF SInv, Sealing, OutputWritten, Running, InLoop
<1>4. OutputOpen' /\ Delivered' /\ Leftover'
  BY DEF SInv, Sealing, OutputOpen, Delivered, Leftover, Running, Stopped, InLoop
<1> QED BY <1>1, <1>2, <1>3, <1>4 DEF Sealing

LEMMA AllocCiphertextSealing == SInv /\ AllocCiphertext => Sealing'
<1> SUFFICES ASSUME SInv, AllocCiphertext PROVE Sealing'
  OBVIOUS
<1>1. /\ pc = "alloc_data" /\ prev' = HeaderIv
      /\ UNCHANGED << output, file_size, header, stream, encrypted >>
      /\ \/ /\ pc' = "alloc_buffer"
            /\ held' = held \cup {"encrypted_data"}
            /\ UNCHANGED << ret, disk, source >>
         \/ Exit(-1, {"ctx", "input", "output"})
  BY DEF AllocCiphertext, Allocate, HeaderIv
<1>2. CASE Exit(-1, {"ctx", "input", "output"})
  <2>1. Len(output') <= HeaderSize
    BY <1>1, StartingOutput DEF Starting
  <2> QED BY <1>2, <2>1, StoppedSealing DEF Exit, Stopped, OutputStarts
<1>3. CASE /\ pc' = "alloc_buffer"
           /\ held' = held \cup {"encrypted_data"}
           /\ UNCHANGED << ret, disk, source >>
  <2>1. taken' = << >> /\ pending' = << >> /\ encrypted' = << >>
    BY <1>1, StartingEmpty DEF SInv, Starting, stream
  <2>2. << >> \in Seq(Byte) /\ Len(<< >>) = 0 /\ 0 * BLOCK_SIZE = 0
    BY EmptySeq, SizesPositive
  <2>3. HeaderIv' = HeaderIv
    BY <1>1 DEF HeaderIv
  <2>4. ChainOver(taken)'
    <3>1. /\ encrypted' = CipherBytes(FileKey', HeaderIv', taken', 0)
          /\ prev' = CbcBlocks(FileKey', HeaderIv', taken')[0]
      BY <1>1, <2>1, <2>2, <2>3, CipherBytesZero, CbcZero
    <3>2. 0 \in Nat /\ 0 * BLOCK_SIZE <= Len(taken') /\ Len(encrypted') = 0 * BLOCK_SIZE
      BY <2>1, <2>2
    <3> QED BY <3>1, <3>2 DEF ChainOver
  <2>5. PendingIsNext'
    BY <2>1, <2>2 DEF PendingIsNext
  <2> QED BY <1>1, <1>3, <2>4, <2>5, QuietSealing
<1> QED BY <1>1, <1>2, <1>3

LEMMA AllocBufferSealing == SInv /\ AllocBuffer => Sealing'
<1> SUFFICES ASSUME SInv, AllocBuffer PROVE Sealing'
  OBVIOUS
<1> DEFINE released == {"ctx", "encrypted_data", "input", "output"}
<1>1. /\ pc = "alloc_buffer"
      /\ UNCHANGED << output, file_size, header, stream, encrypted, prev >>
      /\ \/ pc' = "read" /\ held' = held \cup {"buffer"} /\ UNCHANGED << ret, disk, source >>
         \/ Exit(-1, released)
  BY DEF AllocBuffer, Allocate
<1>2. CASE Exit(-1, released)
  <2>1. Len(output') <= HeaderSize
    BY <1>1, StartingOutput DEF Starting
  <2> QED BY <1>2, <2>1, StoppedSealing DEF Exit, Stopped, OutputStarts
<1>3. CASE pc' = "read" /\ held' = held \cup {"buffer"} /\ UNCHANGED << ret, disk, source >>
  <2>1. ChainOver(taken)' /\ PendingIsNext'
    BY <1>1 DEF SInv, Sealing, StreamSealed, ChainOver, PendingIsNext, stream, FileKey, HeaderIv,
                salt
  <2> QED BY <1>1, <1>3, <2>1, QuietSealing DEF InLoop
<1> QED BY <1>1, <1>2, <1>3

\* What is read is appended to what was: the blocks encrypted before stay the same.
LEMMA ChainExtends ==
  ASSUME NEW s \in Seq(Byte), NEW t \in Seq(Byte), ChainOver(s), Len(s) <= Len(t),
         \A k \in 1..Len(s) : s[k] = t[k], header \in Seq(Byte)
  PROVE  ChainOver(t)
<1>1. PICK n \in Nat : /\ n * BLOCK_SIZE <= Len(s)
                       /\ Len(encrypted) = n * BLOCK_SIZE
                       /\ encrypted = CipherBytes(FileKey, HeaderIv, s, n)
                       /\ prev = CbcBlocks(FileKey, HeaderIv, s)[n]
  BY DEF ChainOver
<1>2. Len(s) \in Nat /\ Len(t) \in Nat /\ n * BLOCK_SIZE \in Nat
  BY LenProperties, SizesPositive
<1>3. n * BLOCK_SIZE <= Len(t) /\ \A k \in 1..(n * BLOCK_SIZE) : s[k] = t[k]
  BY <1>1, <1>2
<1>4. CipherBytes(FileKey, HeaderIv, s, n) = CipherBytes(FileKey, HeaderIv, t, n)
  BY <1>1, <1>3, CipherBytesPrefix
<1>5. CbcBlocks(FileKey, HeaderIv, s)[n] = CbcBlocks(FileKey, HeaderIv, t)[n]
  BY <1>1, <1>3, CbcPrefix
<1> QED BY <1>1, <1>3, <1>4, <1>5 DEF ChainOver

LEMMA ReadChunkSealing == SInv /\ ReadChunk => Sealing'
<1> SUFFICES ASSUME SInv, ReadChunk PROVE Sealing'
  OBVIOUS
<1>1. pc = "read" /\ UNCHANGED << ret, files, file_size, header, chain >>
  BY DEF ReadChunk
<1>2. ChainOver(taken) /\ PendingIsNext
  BY <1>1 DEF SInv, Sealing, StreamSealed, InLoop
<1>3. \/ pc' = "final" /\ UNCHANGED << stream, held >>
      \/ /\ pc' \in {"fill", "whole"} /\ taken' = taken \o chunk' /\ processed' = 0
         /\ held' = held \cup {"chunk"} /\ UNCHANGED pending
  BY DEF ReadChunk
<1>4. /\ taken \in Seq(Byte) /\ encrypted \in Seq(Byte) /\ pending \in Seq(Byte)
      /\ header \in Seq(Byte) /\ chunk' \in Seq(Byte) /\ taken' \in Seq(Byte)
  BY ReadChunkInvariant DEF SInv, IInv, TypeOK
<1>5. CASE pc' = "final" /\ UNCHANGED << stream, held >>
  <2>1. ChainOver(taken)' /\ PendingIsNext'
    BY <1>1, <1>2, <1>5 DEF ChainOver, PendingIsNext, stream, chain, FileKey, HeaderIv, salt
  <2>2. UNCHANGED << ret, file_size, header, encrypted, output >>
    BY <1>1 DEF files, chain
  <2> QED BY <1>1, <1>5, <2>1, <2>2, QuietSealing DEF InLoop
<1>6. CASE /\ pc' \in {"fill", "whole"} /\ taken' = taken \o chunk' /\ processed' = 0
           /\ held' = held \cup {"chunk"} /\ UNCHANGED pending
  <2>1. Len(taken) \in Nat /\ Len(chunk') \in Nat /\ Len(pending) \in Nat /\ Len(encrypted) \in Nat
    BY <1>4, LenProperties
  <2>2. /\ Len(taken \o chunk') = Len(taken) + Len(chunk')
        /\ \A k \in 1..(Len(taken) + Len(chunk')) :
             (taken \o chunk')[k] = IF k <= Len(taken) THEN taken[k] ELSE chunk'[k - Len(taken)]
    BY <1>4, ConcatProperties
  <2>3. /\ Len(taken') = Len(taken) + Len(chunk')
        /\ \A k \in 1..(Len(taken) + Len(chunk')) :
             taken'[k] = IF k <= Len(taken) THEN taken[k] ELSE chunk'[k - Len(taken)]
    BY <1>6, <2>2
  <2>4. Len(taken) = Len(encrypted) + Len(pending)
    BY <1>1 DEF SInv, IInv, Account
  <2>5. UNCHANGED << ret, file_size, header, encrypted, output, prev >>
    BY <1>1 DEF files, chain
  <2>6. ChainOver(taken)'
    <3> DEFINE t == taken'
    <3>1. Len(taken) <= Len(t) /\ \A k \in 1..Len(taken) : taken[k] = t[k]
      BY <2>1, <2>3
    <3>2. t \in Seq(Byte)
      BY <1>4
    <3> HIDE DEF t
    <3>3. ChainOver(t)
      BY <1>2, <1>4, <3>1, <3>2, ChainExtends
    <3> QED BY <2>5, <3>3 DEF ChainOver, FileKey, HeaderIv, salt, t
  <2>7. PendingIsNext'
    <3>1. SUFFICES ASSUME NEW j \in 1..Len(pending)
                   PROVE  taken'[Len(encrypted) + j] = pending[j]
      BY <1>6, <2>5 DEF PendingIsNext
    <3>2. Len(encrypted) + j \in 1..Len(taken)
      BY <2>1, <2>4
    <3>3. taken'[Len(encrypted) + j] = taken[Len(encrypted) + j]
      BY <2>1, <2>3, <3>2
    <3> QED BY <1>2, <3>3 DEF PendingIsNext
  <2>8. ChunkIsNext'
    <3>1. SUFFICES ASSUME NEW j \in 1..Len(chunk')
                   PROVE  taken'[Len(encrypted) + Len(pending) + j] = chunk'[j]
      <4>1. /\ encrypted' = encrypted /\ pending' = pending /\ processed' = 0
            /\ Len(chunk') - 0 = Len(chunk') /\ \A j \in 1..Len(chunk') : 0 + j = j
        BY <1>6, <2>1, <2>5
      <4> QED BY <4>1, Zenon DEF ChunkIsNext
    <3>2. /\ Len(taken) + j \in 1..(Len(taken) + Len(chunk')) /\ ~ (Len(taken) + j <= Len(taken))
          /\ (Len(taken) + j) - Len(taken) = j
      BY <2>1
    <3>3. taken'[Len(taken) + j] = chunk'[j]
      BY <2>3, <3>2
    <3> QED BY <2>4, <3>3
  <2> QED BY <1>1, <1>6, <2>5, <2>6, <2>7, <2>8, QuietSealing DEF InLoop
<1> QED BY <1>3, <1>5, <1>6

\* The sealed file of what is read so far: header, ciphertext and MAC.
LEMMA SealedParts ==
  ASSUME SInv, pc \in InLoop \cup Closing
  PROVE  LET C == Ciphertext(FileKey, HeaderIv, taken)
             M == hmac_compute(MacKey(Master, salt), header \o C)
         IN  /\ C \in Seq(Byte) /\ M \in Seq(Byte) /\ Len(M) = HMAC_SIZE
             /\ SealedSoFar = (header \o C) \o M /\ SealedSoFar \in Seq(Byte)
             /\ Len(SealedSoFar) = Len(header \o C) + HMAC_SIZE
             /\ StartOf(header \o C, SealedSoFar)
<1> DEFINE C == Ciphertext(FileKey, HeaderIv, taken)
           M == hmac_compute(MacKey(Master, salt), header \o C)
<1>1. /\ header \in Seq(Byte) /\ Len(header) = HeaderSize /\ taken \in Seq(Byte)
      /\ header = SizeToBytes(file_size) \o salt \o HeaderIv
  BY DEF SInv, IInv, TypeOK, HeaderShape, Sealing, HeaderFields
<1>2. HeaderSize >= SIZE_BYTES + KDF_SALT_SIZE /\ (SIZE_BYTES + KDF_SALT_SIZE) + BLOCK_SIZE = HeaderSize
      /\ SIZE_BYTES + KDF_SALT_SIZE \in Nat
  BY SizesPositive DEF HeaderSize
<1>3. FileKey \in Key /\ HeaderIv \in Block
  BY <1>1, <1>2, EncKeyType, SliceIsBlock DEF FileKey, HeaderIv
<1>4. C \in Seq(Byte)
  <2>1. 0 \in Nat /\ 0 * BLOCK_SIZE <= Len(taken)
    BY <1>1, LenProperties, SizesPositive
  <2> QED BY <1>1, <1>3, <2>1, CiphertextStarts
<1>5. M \in Seq(Byte) /\ Len(M) = HMAC_SIZE
  BY SizesPositive, ByteArrayType DEF hmac_compute
<1>6. SealedSoFar = (header \o C) \o M
  BY <1>1 DEF SealedSoFar, Sealed, FileKey, HeaderIv
<1> HIDE DEF C, M
<1>7. header \o C \in Seq(Byte)
  BY <1>1, <1>4, ConcatType
<1>8. /\ (header \o C) \o M \in Seq(Byte) /\ Len((header \o C) \o M) = Len(header \o C) + Len(M)
      /\ StartOf(header \o C, (header \o C) \o M)
  BY <1>5, <1>7, ConcatType, StartAppended
<1> QED BY <1>4, <1>5, <1>6, <1>8 DEF C, M

\* In the loop, and until the MAC is there, header and ciphertext are less than the
\* sealed file, and a start of it.
LEMMA LoopOutput ==
  ASSUME SInv, pc \in InLoop \cup Closing
  PROVE  /\ salt \in Salts /\ HeaderIv \in Ivs
         /\ StartOf(header \o encrypted, SealedSoFar)
         /\ Len(header \o encrypted) < Len(SealedSoFar)
<1> DEFINE C == Ciphertext(FileKey, HeaderIv, taken)
           M == hmac_compute(MacKey(Master, salt), header \o C)
<1>1. /\ header \in Seq(Byte) /\ encrypted \in Seq(Byte) /\ taken \in Seq(Byte)
      /\ Len(header) = HeaderSize
  BY DEF SInv, IInv, TypeOK, HeaderShape
<1>2. /\ C \in Seq(Byte) /\ SealedSoFar \in Seq(Byte)
      /\ Len(SealedSoFar) = Len(header \o C) + HMAC_SIZE
      /\ StartOf(header \o C, SealedSoFar)
  BY SealedParts
<1>3. salt \in Salts /\ HeaderIv \in Ivs
  BY DEF SInv, Sealing, HeaderFields
<1>4. StartOf(encrypted, C)
  <2>1. CASE pc \in InLoop
    <3>1. PICK n \in Nat : /\ n * BLOCK_SIZE <= Len(taken)
                           /\ encrypted = CipherBytes(FileKey, HeaderIv, taken, n)
      BY <2>1 DEF SInv, Sealing, StreamSealed, ChainOver
    <3>2. HeaderSize >= SIZE_BYTES + KDF_SALT_SIZE /\ (SIZE_BYTES + KDF_SALT_SIZE) + BLOCK_SIZE = HeaderSize
          /\ SIZE_BYTES + KDF_SALT_SIZE \in Nat
      BY SizesPositive DEF HeaderSize
    <3>3. FileKey \in Key /\ HeaderIv \in Block
      BY <1>1, <3>2, EncKeyType, SliceIsBlock DEF FileKey, HeaderIv
    <3> QED BY <1>1, <3>1, <3>3, CiphertextStarts
  <2>2. CASE pc \in Closing
    BY <2>2 DEF SInv, Sealing, StreamSealed, StartOf
  <2> QED BY <2>1, <2>2
<1> HIDE DEF C, M
<1>5. /\ header \o encrypted \in Seq(Byte) /\ header \o C \in Seq(Byte)
      /\ StartOf(header \o encrypted, header \o C)
  BY <1>1, <1>2, <1>4, ConcatType, StartExtended
<1>6. StartOf(header \o encrypted, SealedSoFar)
  BY <1>2, <1>5, StartTransitive
<1>7. Len(header \o encrypted) <= Len(header \o C) /\ Len(header \o encrypted) \in Nat
      /\ Len(header \o C) \in Nat
  BY <1>5, LenProperties DEF StartOf
<1>8. Len(header \o encrypted) < Len(SealedSoFar)
  BY <1>2, <1>7, SizesPositive
<1> QED BY <1>3, <1>6, <1>8

\* What is written while the call runs is a start of one sealed file.
LEMMA RunningOutput ==
  ASSUME SInv, pc \in Running
  PROVE  OutputStarts
<1>1. CASE pc \in Starting
  BY <1>1, StartingOutput DEF OutputStarts
<1>2. CASE pc \in InLoop \cup Closing
  <2>1. /\ salt \in Salts /\ HeaderIv \in Ivs
        /\ StartOf(header \o encrypted, SealedSoFar)
    BY <1>2, LoopOutput
  <2>2. CASE pc # "finish"
    BY <2>1, <2>2, <1>2 DEF SInv, Sealing, OutputWritten, OutputStarts, InLoop, Closing, Running
  <2>3. CASE pc = "finish"
    <3> DEFINE C == Ciphertext(FileKey, HeaderIv, taken)
               M == hmac_compute(MacKey(Master, salt), header \o C)
    <3>1. encrypted = C /\ FileMac = M
      BY <2>3 DEF SInv, Sealing, StreamSealed, Closing, FileMac
    <3>2. /\ header \in Seq(Byte) /\ C \in Seq(Byte) /\ M \in Seq(Byte) /\ Len(M) = HMAC_SIZE
          /\ SealedSoFar = (header \o C) \o M
      BY <1>2, SealedParts DEF SInv, IInv, TypeOK
    <3> HIDE DEF C, M
    <3>3. PICK n \in 0..HMAC_SIZE : output = (header \o C) \o SubSeq(M, 1, n)
      BY <2>3, <3>1 DEF SInv, Sealing, OutputWritten
    <3>4. SubSeq(M, 1, n) \in Seq(Byte) /\ StartOf(SubSeq(M, 1, n), M) /\ header \o C \in Seq(Byte)
      BY <3>2, PrefixType, StartCut, ConcatType
    <3>5. StartOf((header \o C) \o SubSeq(M, 1, n), (header \o C) \o M)
      BY <3>2, <3>4, StartExtended
    <3> QED BY <2>1, <3>2, <3>3, <3>5 DEF OutputStarts
  <2> QED BY <2>2, <2>3
<1> QED BY <1>1, <1>2 DEF Running, Starting, InLoop, Closing

\* The block after those encrypted so far, encrypted: one more block of the chain.
LEMMA EmitSealing ==
  ASSUME SInv, pc \in {"fill", "whole", "final"}, NEW s \in {taken, Padded(taken)}, s \in Seq(Byte),
         ChainOver(s), NEW block,
         Len(encrypted) + BLOCK_SIZE <= Len(s), block = Slice(s, Len(encrypted), BLOCK_SIZE),
         NEW next, NEW overwritten, NEW released, "output" \notin overwritten,
         EmitBlock(block, next, overwritten, released), UNCHANGED << file_size, header, taken >>
  PROVE  /\ \E n \in Nat : /\ n * BLOCK_SIZE <= Len(s)
                           /\ Len(encrypted') = n * BLOCK_SIZE
                           /\ n * BLOCK_SIZE = Len(encrypted) + BLOCK_SIZE
                           /\ encrypted' = CipherBytes(FileKey, HeaderIv, s, n)
                           /\ prev' = CbcBlocks(FileKey, HeaderIv, s)[n]
         /\ \/ pc' = "done" /\ ret' = -1 /\ OutputStarts'
            \/ /\ pc' = next /\ ret' = ret /\ "output" \in held'
               /\ output' = header \o encrypted'
<1> DEFINE cipher == cipher_cbc_encrypt_block(FileKey, prev, block)
<1>1. PICK n \in Nat : /\ n * BLOCK_SIZE <= Len(s)
                       /\ Len(encrypted) = n * BLOCK_SIZE
                       /\ encrypted = CipherBytes(FileKey, HeaderIv, s, n)
                       /\ prev = CbcBlocks(FileKey, HeaderIv, s)[n]
  BY DEF ChainOver
<1>2. /\ header \in Seq(Byte) /\ encrypted \in Seq(Byte) /\ Len(header) = HeaderSize
      /\ output = header \o encrypted /\ "output" \in held
  BY DEF SInv, Sealing, OutputWritten, OutputOpen, IInv, TypeOK, HeaderShape, InLoop, Running
<1>3. HeaderSize >= SIZE_BYTES + KDF_SALT_SIZE /\ (SIZE_BYTES + KDF_SALT_SIZE) + BLOCK_SIZE = HeaderSize
      /\ SIZE_BYTES + KDF_SALT_SIZE \in Nat
  BY SizesPositive DEF HeaderSize
<1>4. FileKey \in Key /\ HeaderIv \in Block
  BY <1>2, <1>3, EncKeyType, SliceIsBlock DEF FileKey, HeaderIv
<1>5. (n + 1) * BLOCK_SIZE = Len(encrypted) + BLOCK_SIZE /\ (n + 1) * BLOCK_SIZE <= Len(s)
  BY <1>1, SizesPositive
<1>6. CbcBlocks(FileKey, HeaderIv, s)[n + 1] = cipher
  BY <1>1, <1>5, CbcNext
<1>7. CbcBlocks(FileKey, HeaderIv, s)[n + 1] \in Block
  BY <1>4, <1>5, CbcType
<1>8. cipher \in Seq(Byte) /\ Len(cipher) = BLOCK_SIZE
  BY <1>6, <1>7, BlockIsSeq
<1>9. CipherBytes(FileKey, HeaderIv, s, n + 1) = encrypted \o cipher
  BY <1>1, <1>4, <1>5, <1>6, CipherBytesNext
<1>10. prev' = cipher /\ encrypted' = encrypted \o cipher
  BY DEF EmitBlock, FileKey
<1>11. Len(encrypted') = (n + 1) * BLOCK_SIZE
  BY <1>2, <1>5, <1>8, <1>10, ConcatType
<1>12. \/ /\ output' = output \o cipher /\ pc' = next /\ held' = held \ overwritten
          /\ UNCHANGED << ret, disk, source >>
       \/ pc' = "done" /\ ret' = -1 /\ ShortWrite(cipher)
  BY DEF EmitBlock, Exit, FileKey
<1>13. (header \o encrypted) \o cipher = header \o (encrypted \o cipher)
  <2>1. header \in Seq(Byte) /\ encrypted \in Seq(Byte) /\ cipher \in Seq(Byte)
    BY <1>2, <1>8
  <2> HIDE DEF cipher
  <2> QED BY <2>1, ConcatThree
<1>14. ASSUME ShortWrite(cipher)
       PROVE  OutputStarts'
  <2> DEFINE C == Ciphertext(FileKey, HeaderIv, taken)
  <2>1. C \in Seq(Byte) /\ StartOf(encrypted', C)
    <3>1. StartOf(CipherBytes(FileKey, HeaderIv, s, n + 1), C) /\ C \in Seq(Byte)
      BY <1>4, <1>5, CiphertextStarts DEF SInv, IInv, TypeOK
    <3> QED BY <1>9, <1>10, <3>1
  <2>2. encrypted' \in Seq(Byte)
    BY <1>2, <1>8, <1>10, ConcatType
  <2> HIDE DEF C
  <2>3. header \o encrypted' \in Seq(Byte) /\ header \o C \in Seq(Byte)
        /\ StartOf(header \o encrypted', header \o C)
    BY <1>2, <2>1, <2>2, ConcatType, StartExtended
  <2>4. PICK k \in 0..(Len(cipher) - 1) : output' = output \o SubSeq(cipher, 1, k)
    BY <1>14 DEF ShortWrite
  <2> DEFINE c == SubSeq(cipher, 1, k)
  <2>5. c \in Seq(Byte) /\ StartOf(c, cipher)
    <3>1. k \in 0..Len(cipher)
      BY <1>8, SizesPositive
    <3> HIDE DEF cipher
    <3> QED BY <1>8, <3>1, PrefixType, StartCut
  <2> HIDE DEF cipher, c
  <2>6. output' = (header \o encrypted) \o c /\ header \o encrypted \in Seq(Byte)
    BY <1>2, <2>4, ConcatType DEF c
  <2>7. StartOf((header \o encrypted) \o c, (header \o encrypted) \o cipher)
        /\ (header \o encrypted) \o c \in Seq(Byte)
    BY <1>8, <2>5, <2>6, StartExtended, ConcatType
  <2>8. (header \o encrypted) \o cipher = header \o encrypted'
    BY <1>10, <1>13
  <2>9. StartOf(output', header \o C) /\ output' \in Seq(Byte)
    BY <2>3, <2>6, <2>7, <2>8, StartTransitive
  <2>10. SealedSoFar \in Seq(Byte) /\ StartOf(header \o C, SealedSoFar)
    BY SealedParts DEF C, InLoop
  <2>11. StartOf(output', SealedSoFar)
    BY <2>3, <2>9, <2>10, StartTransitive
  <2>12. salt \in Salts /\ HeaderIv \in Ivs
    BY DEF SInv, Sealing, HeaderFields, InLoop
  <2>13. UNCHANGED << salt, HeaderIv, SealedSoFar >>
    BY DEF salt, HeaderIv, SealedSoFar
  <2> QED BY <2>11, <2>12, <2>13 DEF OutputStarts
<1>15. n + 1 \in Nat
  OBVIOUS
<1>16. \/ pc' = "done" /\ ret' = -1 /\ OutputStarts'
       \/ /\ pc' = next /\ ret' = ret /\ "output" \in held'
          /\ output' = header \o encrypted'
  BY <1>2, <1>10, <1>12, <1>13, <1>14
<1> QED BY <1>5, <1>6, <1>9, <1>10, <1>11, <1>15, <1>16

\* The same within the loop: what has to be shown is that the next block is next.
LEMMA LoopBlockSealing ==
  ASSUME SInv, pc \in {"fill", "whole"}, NEW block \in Block,
         Len(encrypted) + BLOCK_SIZE <= Len(taken),
         \A j \in 1..BLOCK_SIZE : taken[Len(encrypted) + j] = block[j],
         NEW overwritten, NEW released, "output" \notin overwritten,
         EmitBlock(block, "whole", overwritten, released),
         UNCHANGED << file_size, header, taken >>,
         Len(pending') = 0, processed' \in Nat, chunk' \in Seq(Byte),
         \A j \in 1..(Len(chunk') - processed') :
           taken[(Len(encrypted) + BLOCK_SIZE) + j] = chunk'[processed' + j]
  PROVE  Sealing'
<1>1. /\ taken \in Seq(Byte) /\ encrypted \in Seq(Byte) /\ BLOCK_SIZE \in Nat
      /\ Len(encrypted) \in Nat /\ ChainOver(taken) /\ ret # 0
  BY LenProperties, SizesPositive
  DEF SInv, IInv, TypeOK, Sealing, StreamSealed, Delivered, InLoop
<1>2. block = Slice(taken, Len(encrypted), BLOCK_SIZE)
  <2> DEFINE a == Slice(taken, Len(encrypted), BLOCK_SIZE)
  <2>1. /\ a \in Seq(Byte) /\ Len(a) = BLOCK_SIZE
        /\ \A k \in 1..BLOCK_SIZE : a[k] = taken[Len(encrypted) + k]
    BY <1>1, SliceBytes
  <2>2. block \in Seq(Byte) /\ Len(block) = BLOCK_SIZE
    BY BlockIsSeq
  <2> HIDE DEF a
  <2>3. \A k \in 1..Len(a) : a[k] = block[k]
    BY <2>1
  <2>4. a = block
    BY <2>1, <2>2, <2>3, SeqEqual
  <2> QED BY <2>4 DEF a
<1>3. /\ \E n \in Nat : /\ n * BLOCK_SIZE <= Len(taken)
                        /\ Len(encrypted') = n * BLOCK_SIZE
                        /\ n * BLOCK_SIZE = Len(encrypted) + BLOCK_SIZE
                        /\ encrypted' = CipherBytes(FileKey, HeaderIv, taken, n)
                        /\ prev' = CbcBlocks(FileKey, HeaderIv, taken)[n]
      /\ \/ pc' = "done" /\ ret' = -1 /\ OutputStarts'
         \/ /\ pc' = "whole" /\ ret' = ret /\ "output" \in held'
            /\ output' = header \o encrypted'
  BY <1>1, <1>2, EmitSealing
<1>4. CASE pc' = "done" /\ ret' = -1 /\ OutputStarts'
  BY <1>4, StoppedSealing DEF Stopped
<1>5. CASE pc' = "whole" /\ ret' = ret /\ "output" \in held' /\ output' = header \o encrypted'
  <2>1. FileKey' = FileKey /\ HeaderIv' = HeaderIv /\ salt' = salt
    BY DEF FileKey, HeaderIv, salt
  <2>2. HeaderFields'
    BY <1>5, <2>1 DEF SInv, Sealing, HeaderFields, InLoop, Closing
  <2>3. ChainOver(taken)'
    BY <1>3, <2>1 DEF ChainOver
  <2>4. PendingIsNext'
    BY DEF PendingIsNext
  <2>5. Len(encrypted') + Len(pending') = Len(encrypted) + BLOCK_SIZE
    BY <1>1, <1>3
  <2>6. ChunkIsNext'
    BY <2>5 DEF ChunkIsNext
  <2>7. StreamSealed'
    BY <1>5, <2>3, <2>4, <2>6 DEF StreamSealed, InLoop, Closing
  <2> QED BY <1>1, <1>5, <2>2, <2>7
          DEF Sealing, OutputWritten, OutputOpen, Delivered, Leftover, Running, Stopped
<1> QED BY <1>3, <1>4, <1>5

LEMMA FillPendingSealing == SInv /\ FillPending => Sealing'
<1> SUFFICES ASSUME SInv, FillPending PROVE Sealing'
  OBVIOUS
<1> DEFINE to_copy == Lesser(BLOCK_SIZE - Len(pending), Len(chunk))
           part    == SubSeq(chunk, 1, to_copy)
           filled  == pending \o part
           E       == Len(encrypted)
           P       == Len(pending)
<1>1. /\ pc = "fill" /\ processed' = to_copy
      /\ UNCHANGED << plain, file_size, header, taken, chunk >>
      /\ \/ /\ Len(filled) = BLOCK_SIZE
            /\ pending' = << >>
            /\ EmitBlock(filled, "whole", {"pending_block"}, LoopResources)
         \/ /\ Len(filled) < BLOCK_SIZE
            /\ pending' = filled
            /\ pc' = "whole"
            /\ UNCHANGED << ret, disk, source, output, chain, held >>
  BY DEF FillPending
<1>2. /\ pending \in Seq(Byte) /\ chunk \in Seq(Byte) /\ taken \in Seq(Byte)
      /\ P \in Nat /\ Len(chunk) \in Nat /\ E \in Nat /\ Len(taken) \in Nat
  BY LenProperties DEF SInv, IInv, TypeOK
<1>3. /\ processed = 0 /\ P > 0 /\ P < BLOCK_SIZE
      /\ Len(taken) = E + P + Len(chunk)
  BY <1>1 DEF SInv, IInv, Account
<1>4. /\ to_copy \in 0..Len(chunk) /\ to_copy <= BLOCK_SIZE - P
      /\ to_copy = BLOCK_SIZE - P \/ to_copy = Len(chunk)
  BY <1>2, <1>3, SizesPositive DEF Lesser
<1>5. ChainOver(taken) /\ PendingIsNext /\ ChunkIsNext
  BY <1>1 DEF SInv, Sealing, StreamSealed, InLoop
<1>6. /\ \A j \in 1..P : taken[E + j] = pending[j]
      /\ \A j \in 1..Len(chunk) : taken[(E + P) + j] = chunk[j]
  <2>1. \A j \in 1..(Len(chunk) - 0) : taken[(E + P) + j] = chunk[0 + j]
    BY <1>3, <1>5 DEF ChunkIsNext
  <2>2. Len(chunk) - 0 = Len(chunk) /\ \A j \in 1..Len(chunk) : 0 + j = j
    BY <1>2
  <2> QED BY <1>5, <2>1, <2>2 DEF PendingIsNext
<1> HIDE DEF to_copy
<1>7. /\ part \in Seq(Byte) /\ Len(part) = to_copy
      /\ \A j \in 1..to_copy : part[j] = chunk[j]
  <2>1. part \in Seq(Byte) /\ Len(part) = to_copy
    BY <1>2, <1>4, PrefixType
  <2>2. \A j \in 1..to_copy : chunk[j] \in Byte
    BY <1>2, <1>4, ElementOfSeq
  <2>3. \A j \in 1..(to_copy - 1 + 1) : part[j] = chunk[1 + j - 1]
    BY <1>4, <2>2, SubSeqProperties
  <2> HIDE DEF part
  <2> QED BY <1>4, <2>1, <2>3
<1> HIDE DEF part
<1>8. /\ filled \in Seq(Byte) /\ Len(filled) = P + to_copy
      /\ \A j \in 1..(P + to_copy) : filled[j] = IF j <= P THEN pending[j] ELSE part[j - P]
  <2>1. /\ pending \o part \in Seq(Byte) /\ Len(pending \o part) = Len(pending) + Len(part)
        /\ \A j \in 1..(Len(pending) + Len(part)) :
             (pending \o part)[j] = IF j <= Len(pending) THEN pending[j] ELSE part[j - Len(pending)]
    BY <1>2, <1>7, ConcatProperties
  <2> QED BY <1>7, <2>1
<1> HIDE DEF filled, E, P
<1>9. ASSUME NEW j \in 1..(P + to_copy)
      PROVE  taken[E + j] = filled[j]
  <2>1. CASE j <= P
    BY <1>2, <1>6, <1>8, <2>1
  <2>2. CASE ~ (j <= P)
    <3>1. j - P \in 1..to_copy /\ j - P \in 1..Len(chunk) /\ (E + P) + (j - P) = E + j
      BY <1>2, <1>4, <2>2
    <3>2. filled[j] = chunk[j - P]
      BY <1>7, <1>8, <2>2, <3>1
    <3>3. taken[(E + P) + (j - P)] = chunk[j - P]
      BY <1>6, <3>1
    <3> QED BY <3>1, <3>2, <3>3
  <2> QED BY <2>1, <2>2
<1>10. CASE /\ Len(filled) = BLOCK_SIZE
            /\ pending' = << >>
            /\ EmitBlock(filled, "whole", {"pending_block"}, LoopResources)
  <2>1. filled \in Block /\ P + to_copy = BLOCK_SIZE
    BY <1>8, <1>10, SeqIsBlock
  <2>2. E + BLOCK_SIZE <= Len(taken)
    BY <1>2, <1>3, <1>4, <2>1, SizesPositive
  <2>3. \A j \in 1..BLOCK_SIZE : taken[E + j] = filled[j]
    BY <1>9, <2>1
  <2>4. \A j \in 1..(Len(chunk) - to_copy) : taken[(E + BLOCK_SIZE) + j] = chunk[to_copy + j]
    <3>1. SUFFICES ASSUME NEW j \in 1..(Len(chunk) - to_copy)
                   PROVE  taken[(E + BLOCK_SIZE) + j] = chunk[to_copy + j]
      OBVIOUS
    <3>2. to_copy + j \in 1..Len(chunk) /\ (E + P) + (to_copy + j) = (E + BLOCK_SIZE) + j
      BY <1>2, <1>4, <2>1, SizesPositive
    <3>3. taken[(E + P) + (to_copy + j)] = chunk[to_copy + j]
      BY <1>6, <3>2
    <3> QED BY <3>2, <3>3
  <2>5. Len(pending') = 0 /\ processed' \in Nat /\ chunk' \in Seq(Byte) /\ "output" \notin {"pending_block"}
    BY <1>1, <1>2, <1>4, <1>10, EmptySeq
  <2>6. \A j \in 1..(Len(chunk') - processed') :
          taken[(E + BLOCK_SIZE) + j] = chunk'[processed' + j]
    BY <1>1, <2>4
  <2>7. pc \in {"fill", "whole"} /\ UNCHANGED << file_size, header, taken >>
    BY <1>1
  <2> QED BY <1>10, <2>1, <2>2, <2>3, <2>5, <2>6, <2>7, LoopBlockSealing DEF E
<1>11. CASE /\ Len(filled) < BLOCK_SIZE
            /\ pending' = filled
            /\ pc' = "whole"
            /\ UNCHANGED << ret, disk, source, output, chain, held >>
  <2>1. to_copy = Len(chunk)
    BY <1>2, <1>4, <1>8, <1>11, SizesPositive
  <2>2. UNCHANGED << ret, file_size, header, encrypted, output, taken, chunk, prev, held >>
    BY <1>1, <1>11 DEF chain
  <2>3. ChainOver(taken)'
    BY <1>5, <2>2 DEF ChainOver, FileKey, HeaderIv, salt
  <2>4. PendingIsNext'
    BY <1>8, <1>9, <1>11, <2>2 DEF PendingIsNext, E
  <2>5. ChunkIsNext'
    <3>1. Len(chunk') - processed' = 0
      BY <1>1, <1>2, <2>1
    <3> QED BY <3>1 DEF ChunkIsNext
  <2> QED BY <1>1, <1>11, <2>2, <2>3, <2>4, <2>5, QuietSealing DEF InLoop
<1> QED BY <1>1, <1>10, <1>11

LEMMA EncryptWholeSealing == SInv /\ EncryptWhole => Sealing'
<1> SUFFICES ASSUME SInv, EncryptWhole PROVE Sealing'
  OBVIOUS
<1> DEFINE block == Slice(chunk, processed, BLOCK_SIZE)
           E     == Len(encrypted)
<1>1. /\ pc = "whole" /\ processed + BLOCK_SIZE <= Len(chunk)
      /\ processed' = processed + BLOCK_SIZE
      /\ EmitBlock(block, "whole", {}, LoopResources)
      /\ UNCHANGED << plain, file_size, header, taken, chunk, pending >>
  BY DEF EncryptWhole
<1>2. /\ pending \in Seq(Byte) /\ chunk \in Seq(Byte) /\ taken \in Seq(Byte)
      /\ Len(pending) \in Nat /\ Len(chunk) \in Nat /\ E \in Nat /\ Len(taken) \in Nat
      /\ processed \in Nat /\ BLOCK_SIZE \in Nat \ {0}
  BY LenProperties, SizesPositive DEF SInv, IInv, TypeOK
<1>3. /\ Len(pending) = 0 /\ Len(taken) = E + (Len(chunk) - processed)
  BY <1>1, <1>2 DEF SInv, IInv, Account
<1>4. \A j \in 1..(Len(chunk) - processed) : taken[E + j] = chunk[processed + j]
  <2>1. ChunkIsNext /\ E + Len(pending) = E
    BY <1>1, <1>2, <1>3 DEF SInv, Sealing, StreamSealed
  <2> QED BY <2>1 DEF ChunkIsNext
<1>5. /\ block \in Block
      /\ \A j \in 1..BLOCK_SIZE : block[j] = chunk[processed + j]
  <2>1. BLOCK_SIZE \in Nat
    BY <1>2
  <2> QED BY <1>1, <1>2, <2>1, SliceIsBlock, SliceBytes
<1> HIDE DEF block, E
<1>6. E + BLOCK_SIZE <= Len(taken)
  BY <1>1, <1>2, <1>3
<1>7. \A j \in 1..BLOCK_SIZE : taken[E + j] = block[j]
  <2>1. \A j \in 1..BLOCK_SIZE : j \in 1..(Len(chunk) - processed)
    BY <1>1, <1>2
  <2> QED BY <1>4, <1>5, <2>1
<1>8. \A j \in 1..(Len(chunk) - (processed + BLOCK_SIZE)) :
        taken[(E + BLOCK_SIZE) + j] = chunk[(processed + BLOCK_SIZE) + j]
  <2>1. SUFFICES ASSUME NEW j \in 1..(Len(chunk) - (processed + BLOCK_SIZE))
                 PROVE  taken[(E + BLOCK_SIZE) + j] = chunk[(processed + BLOCK_SIZE) + j]
    OBVIOUS
  <2>2. /\ BLOCK_SIZE + j \in 1..(Len(chunk) - processed)
        /\ E + (BLOCK_SIZE + j) = (E + BLOCK_SIZE) + j
        /\ processed + (BLOCK_SIZE + j) = (processed + BLOCK_SIZE) + j
    BY <1>1, <1>2
  <2>3. taken[E + (BLOCK_SIZE + j)] = chunk[processed + (BLOCK_SIZE + j)]
    BY <1>4, <2>2
  <2> QED BY <2>2, <2>3
<1>9. /\ \A j \in 1..(Len(chunk') - processed') :
           taken[(E + BLOCK_SIZE) + j] = chunk'[processed' + j]
      /\ Len(pending') = 0 /\ processed' \in Nat /\ chunk' \in Seq(Byte)
  BY <1>1, <1>2, <1>3, <1>8
<1>10. /\ pc \in {"fill", "whole"} /\ UNCHANGED << file_size, header, taken >>
       /\ "output" \notin {}
  BY <1>1
<1> QED BY <1>1, <1>5, <1>6, <1>7, <1>9, <1>10, LoopBlockSealing DEF E

LEMMA SavePendingSealing == SInv /\ SavePending => Sealing'
<1> SUFFICES ASSUME SInv, SavePending PROVE Sealing'
  OBVIOUS
<1>1. /\ pc = "whole" /\ pc' = "read"
      /\ UNCHANGED << ret, file_size, header, encrypted, output, taken, chunk, prev >>
      /\ \/ /\ processed < Len(chunk)
            /\ pending' = SubSeq(chunk, processed + 1, Len(chunk))
            /\ held' = held \cup {"pending_block"}
         \/ UNCHANGED << pending, held >>
  BY DEF SavePending, files, chain
<1>2. /\ pending \in Seq(Byte) /\ chunk \in Seq(Byte) /\ processed \in Nat
      /\ Len(pending) \in Nat /\ Len(chunk) \in Nat /\ Len(encrypted) \in Nat
  BY LenProperties DEF SInv, IInv, TypeOK
<1>3. ChainOver(taken) /\ PendingIsNext /\ ChunkIsNext
  BY <1>1 DEF SInv, Sealing, StreamSealed, InLoop
<1>4. ChainOver(taken)'
  BY <1>1, <1>3 DEF ChainOver, FileKey, HeaderIv, salt
<1>5. PendingIsNext'
  <2>1. CASE UNCHANGED << pending, held >>
    BY <1>1, <1>3, <2>1 DEF PendingIsNext
  <2>2. CASE /\ processed < Len(chunk)
             /\ pending' = SubSeq(chunk, processed + 1, Len(chunk))
    <3> DEFINE rest == SubSeq(chunk, processed + 1, Len(chunk))
    <3>1. Len(pending) = 0
      BY <1>1, <1>2, <2>2 DEF SInv, IInv, Account
    <3>2. /\ \A j \in (processed + 1)..Len(chunk) : chunk[j] \in Byte
          /\ processed + 1 \in Int /\ Len(chunk) \in Int
      BY <1>2, ElementOfSeq
    <3>3. /\ Len(rest) = IF processed + 1 <= Len(chunk) THEN Len(chunk) - (processed + 1) + 1 ELSE 0
          /\ \A j \in 1..(Len(chunk) - (processed + 1) + 1) : rest[j] = chunk[(processed + 1) + j - 1]
      BY <3>2, SubSeqProperties
    <3> HIDE DEF rest
    <3>4. /\ Len(rest) = Len(chunk) - processed
          /\ \A j \in 1..(Len(chunk) - processed) : rest[j] = chunk[processed + j]
      BY <1>2, <2>2, <3>3
    <3>5. \A j \in 1..(Len(chunk) - processed) : taken[Len(encrypted) + j] = chunk[processed + j]
      <4>1. Len(encrypted) + Len(pending) = Len(encrypted)
        BY <1>2, <3>1
      <4> QED BY <1>3, <4>1 DEF ChunkIsNext
    <3>6. \A j \in 1..Len(rest) : taken[Len(encrypted) + j] = rest[j]
      BY <3>4, <3>5
    <3> QED BY <1>1, <2>2, <3>6 DEF PendingIsNext, rest
  <2> QED BY <1>1, <2>1, <2>2
<1> QED BY <1>1, <1>4, <1>5, QuietSealing DEF InLoop

\* With the padding block the ciphertext is that of the whole of what was read.
LEMMA EncryptFinalSealing == SInv /\ EncryptFinal => Sealing'
<1> SUFFICES ASSUME SInv, EncryptFinal PROVE Sealing'
  OBVIOUS
<1> DEFINE s     == Padded(taken)
           block == cipher_add_pkcs7_padding(pending)
           over  == LoopResources \cup {"pending_block"}
<1>1. /\ pc = "final" /\ UNCHANGED << plain, file_size, header, taken, chunk, processed, pending >>
      /\ EmitBlock(block, "mac", {}, over)
  BY DEF EncryptFinal, stream
<1>2. /\ pending \in Seq(Byte) /\ taken \in Seq(Byte) /\ header \in Seq(Byte)
      /\ Len(pending) \in 0..(BLOCK_SIZE - 1) /\ Len(taken) \in Nat /\ Len(pending) < BLOCK_SIZE
      /\ Len(taken) = Len(encrypted) + Len(pending) /\ ret # 0
  BY <1>1, LenProperties, SizesPositive
  DEF SInv, IInv, TypeOK, Account, Sealing, Delivered
<1>3. ChainOver(taken) /\ \A j \in 1..Len(pending) : taken[Len(encrypted) + j] = pending[j]
  BY <1>1 DEF SInv, Sealing, StreamSealed, InLoop, PendingIsNext
<1>4. PICK n \in Nat : Len(encrypted) = n * BLOCK_SIZE
  BY <1>3 DEF ChainOver
<1>5. Len(taken) = n * BLOCK_SIZE + Len(pending)
  BY <1>2, <1>4
<1>6. /\ s \in Seq(Byte) /\ Len(s) = (n + 1) * BLOCK_SIZE
      /\ \A j \in 1..Len(taken) : s[j] = taken[j]
  BY <1>2, <1>5, PaddedShape
<1>7. block = Slice(s, n * BLOCK_SIZE, BLOCK_SIZE)
  <2>1. /\ Len(pending) < BLOCK_SIZE /\ Len(taken) = n * BLOCK_SIZE + Len(pending)
        /\ \A j \in 1..Len(pending) : taken[n * BLOCK_SIZE + j] = pending[j]
    BY <1>2, <1>3, <1>4, <1>5
  <2> QED BY <1>2, <2>1, PaddedEnd, Zenon
<1>8. (n + 1) * BLOCK_SIZE = Len(encrypted) + BLOCK_SIZE /\ Len(encrypted) \in Nat
  BY <1>4, SizesPositive
<1>9. Ciphertext(FileKey, HeaderIv, taken) = CipherBytes(FileKey, HeaderIv, s, n + 1)
  BY <1>2, <1>5, CiphertextBytes
<1>14. s \in {taken, Padded(taken)} /\ UNCHANGED << file_size, header, taken >>
  BY <1>1
<1> HIDE DEF s, block, over
<1>10. ChainOver(s)
  <2>1. Len(taken) <= Len(s) /\ \A j \in 1..Len(taken) : taken[j] = s[j]
    BY <1>2, <1>6, <1>8, SizesPositive
  <2> QED BY <1>2, <1>3, <1>6, <2>1, ChainExtends
<1>11. /\ \E m \in Nat : /\ m * BLOCK_SIZE <= Len(s)
                         /\ Len(encrypted') = m * BLOCK_SIZE
                         /\ m * BLOCK_SIZE = Len(encrypted) + BLOCK_SIZE
                         /\ encrypted' = CipherBytes(FileKey, HeaderIv, s, m)
                         /\ prev' = CbcBlocks(FileKey, HeaderIv, s)[m]
       /\ \/ pc' = "done" /\ ret' = -1 /\ OutputStarts'
          \/ /\ pc' = "mac" /\ ret' = ret /\ "output" \in held'
             /\ output' = header \o encrypted'
  <2>1. Len(encrypted) + BLOCK_SIZE <= Len(s) /\ block = Slice(s, Len(encrypted), BLOCK_SIZE)
    BY <1>4, <1>6, <1>7, <1>8, SizesPositive
  <2>2. pc \in {"fill", "whole", "final"} /\ "output" \notin {}
    BY <1>1
  <2> QED BY <1>1, <1>6, <1>10, <1>14, <2>1, <2>2, EmitSealing
<1>12. CASE pc' = "done" /\ ret' = -1 /\ OutputStarts'
  BY <1>12, StoppedSealing DEF Stopped
<1>13. CASE pc' = "mac" /\ ret' = ret /\ "output" \in held' /\ output' = header \o encrypted'
  <2>1. PICK m \in Nat : /\ m * BLOCK_SIZE = (n + 1) * BLOCK_SIZE
                         /\ encrypted' = CipherBytes(FileKey, HeaderIv, s, m)
    BY <1>8, <1>11
  <2>2. CipherBytes(FileKey, HeaderIv, s, m) = CipherBytes(FileKey, HeaderIv, s, n + 1)
    <3>1. m = n + 1
      <4>1. (m - (n + 1)) * BLOCK_SIZE = 0
        BY <2>1, SizesPositive
      <4> QED BY <4>1, SizesPositive
    <3> QED BY <3>1
  <2>3. FileKey' = FileKey /\ HeaderIv' = HeaderIv /\ salt' = salt
    BY <1>1 DEF FileKey, HeaderIv, salt
  <2>4. encrypted' = Ciphertext(FileKey', HeaderIv', taken')
    BY <1>1, <1>9, <2>1, <2>2, <2>3
  <2>5. HeaderFields'
    BY <1>1, <1>13, <2>3 DEF SInv, Sealing, HeaderFields, InLoop, Closing
  <2> QED BY <1>1, <1>2, <1>13, <2>4, <2>5
          DEF Sealing, StreamSealed, OutputWritten, OutputOpen, Delivered, Leftover, Running, InLoop,
              Closing, Stopped
<1> QED BY <1>11, <1>12, <1>13

\* The MAC, or a part of it, is written behind the ciphertext.
LEMMA WriteMacSealing == SInv /\ WriteMac => Sealing'
<1> SUFFICES ASSUME SInv, WriteMac PROVE Sealing'
  OBVIOUS
<1>1. /\ pc = "mac" /\ pc' = "finish"
      /\ UNCHANGED << ret, plain, source, disk, file_size, header, stream, chain, held >>
      /\ \/ output' = output \o FileMac
         \/ ShortWrite(FileMac)
         \/ "alloc" \in Env /\ output' = output
  BY DEF WriteMac, FileMac
<1>2. FileMac \in Seq(Byte) /\ Len(FileMac) = HMAC_SIZE /\ HMAC_SIZE \in Nat
  BY SizesPositive, ByteArrayType DEF hmac_compute, FileMac
<1>3. output = header \o encrypted /\ output \in Seq(Byte)
  BY <1>1 DEF SInv, IInv, TypeOK, Sealing, OutputWritten, Running
<1>4. UNCHANGED << header, encrypted, taken, salt, FileKey, HeaderIv, FileMac >>
  BY <1>1 DEF stream, chain, salt, FileKey, HeaderIv, FileMac
<1>5. \E n \in 0..HMAC_SIZE : /\ output' = (header \o encrypted) \o SubSeq(FileMac, 1, n)
                              /\ NothingIgnored => n = HMAC_SIZE
  <2>1. CASE output' = output \o FileMac
    <3>1. SubSeq(FileMac, 1, HMAC_SIZE) = FileMac
      BY <1>2, SubSeqFull
    <3>2. output' = (header \o encrypted) \o SubSeq(FileMac, 1, HMAC_SIZE)
      BY <1>3, <2>1, <3>1
    <3>3. HMAC_SIZE \in 0..HMAC_SIZE
      BY <1>2
    <3> QED BY <3>2, <3>3
  <2>2. CASE ShortWrite(FileMac)
    <3>1. PICK n \in 0..(HMAC_SIZE - 1) : output' = output \o SubSeq(FileMac, 1, n)
      BY <1>2, <2>2 DEF ShortWrite
    <3>2. ~ NothingIgnored
      BY <2>2 DEF ShortWrite, NothingIgnored
    <3>3. output' = (header \o encrypted) \o SubSeq(FileMac, 1, n) /\ n \in 0..HMAC_SIZE
      BY <1>2, <1>3, <3>1
    <3> QED BY <3>2, <3>3
  <2>3. CASE "alloc" \in Env /\ output' = output
    <3>1. ~ NothingIgnored
      BY <2>3 DEF NothingIgnored
    <3>2. SubSeq(FileMac, 1, 0) = << >>
      BY SubSeqEmpty
    <3>3. output \o << >> = output
      BY <1>3, AppendEmpty
    <3>4. 0 \in 0..HMAC_SIZE /\ output' = (header \o encrypted) \o SubSeq(FileMac, 1, 0)
      BY <1>2, <1>3, <2>3, <3>2, <3>3
    <3> QED BY <3>1, <3>4
  <2> QED BY <1>1, <2>1, <2>2, <2>3
<1>6. OutputWritten'
  BY <1>1, <1>4, <1>5 DEF OutputWritten
<1>7. HeaderFields'
  BY <1>1, <1>4 DEF SInv, Sealing, HeaderFields, InLoop, Closing
<1>8. StreamSealed'
  BY <1>1, <1>4 DEF SInv, Sealing, StreamSealed, InLoop, Closing
<1>9. OutputOpen' /\ Delivered' /\ Leftover'
  BY <1>1 DEF SInv, Sealing, OutputOpen, Delivered, Leftover, Running, Stopped
<1> QED BY <1>6, <1>7, <1>8, <1>9 DEF Sealing

\* Header, ciphertext and MAC are the sealed file.
LEMMA FileIsSealed ==
  ASSUME SInv, pc \in Closing
  PROVE  (header \o encrypted) \o FileMac = SealedSoFar
<1>1. header \o encrypted = SizeToBytes(file_size) \o salt \o HeaderIv \o Ciphertext(FileKey, HeaderIv, taken)
  BY DEF SInv, Sealing, HeaderFields, StreamSealed
<1> QED BY <1>1 DEF SealedSoFar, Sealed, FileMac, FileKey, HeaderIv

\* Closing the file passes on the whole of what was written.
LEMMA FinishSealing == SInv /\ Finish => Sealing'
<1> SUFFICES ASSUME SInv, Finish PROVE Sealing'
  OBVIOUS
<1>1. /\ pc = "finish" /\ pc' = "done" /\ output' = output /\ "output" \in LoopResources
      /\ UNCHANGED << plain, file_size, header, stream, chain >>
      /\ "output" \in held => CloseOutput
  BY DEF Finish, Exit, LoopResources
<1>2. "output" \in held /\ output \in Seq(Byte)
  BY <1>1 DEF SInv, IInv, TypeOK, Sealing, OutputOpen, Running
<1>3. ASSUME NothingIgnored
      PROVE  disk' = SealedSoFar'
  <2>1. output = (header \o encrypted) \o SubSeq(FileMac, 1, HMAC_SIZE)
    BY <1>1, <1>3 DEF SInv, Sealing, OutputWritten
  <2>2. FileMac \in Seq(Byte) /\ Len(FileMac) = HMAC_SIZE
    BY SizesPositive, ByteArrayType DEF hmac_compute, FileMac
  <2>3. output = SealedSoFar
    BY <1>1, <2>1, <2>2, SubSeqFull, FileIsSealed DEF Closing
  <2>4. SealedSoFar' = SealedSoFar
    BY <1>1 DEF SealedSoFar, stream, salt
  <2>5. Len(output) \in Nat /\ "close" \notin Env
    BY <1>2, <1>3, LenProperties DEF NothingIgnored
  <2>6. PICK n \in Len(output')..Len(output') : disk' = SubSeq(output', 1, n)
    BY <1>1, <1>2, <2>5 DEF CloseOutput
  <2>7. disk' = SubSeq(output, 1, Len(output))
    BY <1>1, <2>5, <2>6
  <2> QED BY <1>2, <2>3, <2>4, <2>7, SubSeqFull
<1>4. OutputStarts'
  <2>1. OutputStarts
    BY <1>1, RunningOutput DEF Running
  <2> QED BY <1>1, <2>1 DEF OutputStarts, salt, HeaderIv, SealedSoFar, stream
<1> QED BY <1>1, <1>3, <1>4
        DEF Sealing, HeaderFields, StreamSealed, OutputWritten, OutputOpen, Delivered, Leftover,
            Running, InLoop, Closing

\* What happens to the files meanwhile is not about what is being written.
LEMMA FilesSealing ==
  ASSUME SInv, UNCHANGED << pc, ret, plain, output, file_size, header, stream, chain, held >>,
         pc \in Running \/ disk' = disk
  PROVE  Sealing'
<1>1. UNCHANGED << salt, FileKey, HeaderIv, FileMac, SealedSoFar >>
  BY DEF salt, FileKey, HeaderIv, FileMac, SealedSoFar, stream, chain
<1>2. HeaderFields' /\ OutputWritten' /\ OutputOpen'
  BY <1>1 DEF SInv, Sealing, HeaderFields, OutputWritten, OutputOpen, chain
<1>3. StreamSealed'
  BY <1>1
  DEF SInv, Sealing, StreamSealed, ChainOver, PendingIsNext, ChunkIsNext, stream, chain
<1>4. Delivered' /\ Leftover'
  BY <1>1 DEF SInv, Sealing, Delivered, Leftover, Running, Stopped, OutputStarts
<1> QED BY <1>2, <1>3, <1>4 DEF Sealing

LEMMA NextSealing == SInv /\ [Next]_vars => SInv'
<1> SUFFICES ASSUME SInv, [Next]_vars PROVE Sealing'
  BY NextInvariant DEF SInv
<1>1. CASE OpenInput \/ OpenOutput \/ WriteSize \/ WriteSalt \/ WriteIv
  BY <1>1, OpenInputSealing, OpenOutputSealing, WriteSizeSealing, WriteSaltSealing, WriteIvSealing
<1>2. CASE AllocCiphertext \/ AllocBuffer \/ ReadChunk \/ FillPending
  BY <1>2, AllocCiphertextSealing, AllocBufferSealing, ReadChunkSealing, FillPendingSealing
<1>3. CASE EncryptWhole \/ SavePending \/ EncryptFinal \/ WriteMac \/ Finish
  BY <1>3, EncryptWholeSealing, SavePendingSealing, EncryptFinalSealing, WriteMacSealing,
     FinishSealing
<1>4. CASE Abort \/ Crash
  <2>1. /\ pc \in Running /\ pc' \in Stopped
        /\ UNCHANGED << ret, output, header, taken, file_size, salt, HeaderIv, SealedSoFar >>
    BY <1>4 DEF Abort, Crash, Running, Stopped, files, stream, salt, HeaderIv, SealedSoFar
  <2>2. OutputStarts'
    BY <2>1, RunningOutput DEF OutputStarts
  <2> QED BY <2>1, <2>2, StoppedSealing DEF SInv, Sealing, Delivered, Running
<1>5. CASE Flush \/ ChangeInput
  BY <1>5, FilesSealing DEF Flush, ChangeInput
<1>6. CASE Over \/ UNCHANGED vars
  BY <1>6, FilesSealing DEF Over, vars, files
<1> QED BY <1>1, <1>2, <1>3, <1>4, <1>5, <1>6 DEF Next, Program

THEOREM SealingInvariance == Spec => []SInv
<1>1. Init => SInv
  BY InitInvariant, InitSealing DEF SInv
<1> QED BY <1>1, NextSealing, PTL DEF Spec

\* Whatever lengths fread returns, whether a read error or another program cuts
\* the input short or lets it grow, and also when the paths name one file: a
\* return of 0 leaves the one-shot encryption of the bytes read, provided that
\* the calls whose failure is not reported (cipher.c:222, :232, :247) succeed.
THEOREM SuccessSeals ==
  ASSUME Env \cap {"write", "alloc", "close"} = {}
  PROVE  Spec => []SuccessSealsWhatWasRead
<1>1. SInv => SuccessSealsWhatWasRead
  BY DEF SInv, Sealing, Delivered, NothingIgnored, SuccessSealsWhatWasRead
<1> QED BY <1>1, SealingInvariance, PTL

-----------------------------------------------------------------------------
(***************************************************************************)
(* What is read. When the input file is neither changed by another program *)
(* nor the output file as well, the bytes taken are a start of it.         *)
(***************************************************************************)

\* A step that is no fread leaves what was read alone, and does not end the loop.
LEMMA TakenKept ==
  ASSUME Program \/ Flush \/ Crash \/ Over \/ UNCHANGED vars, ~ReadChunk
  PROVE  /\ UNCHANGED << plain, taken >>
         /\ pc' \in {"final"} \cup Closing => pc \in {"final"} \cup Closing
         /\ ret' = 0 => ret = 0 \/ pc = "finish"
<1>1. \A code, released : Exit(code, released) => pc' = "done" /\ ret' = code
  BY DEF Exit
<1>2. CASE OpenInput \/ OpenOutput \/ Abort
  BY <1>1, <1>2 DEF OpenInput, OpenOutput, Abort, files, stream, Closing
<1>3. CASE WriteSize \/ WriteSalt \/ WriteIv
  BY <1>1, <1>3 DEF WriteSize, WriteSalt, WriteIv, WriteField, stream, Closing
<1>4. CASE AllocCiphertext \/ AllocBuffer
  BY <1>1, <1>4 DEF AllocCiphertext, AllocBuffer, Allocate, stream, Closing
<1>5. CASE FillPending \/ EncryptWhole \/ EncryptFinal
  <2>1. ASSUME NEW block, NEW next, NEW over, NEW released, EmitBlock(block, next, over, released)
        PROVE  \/ pc' = next /\ ret' = ret
               \/ pc' = "done" /\ ret' = -1
    BY <1>1, <2>1 DEF EmitBlock
  <2>2. CASE FillPending
    <3>1. /\ UNCHANGED << plain, taken >>
          /\ \/ EmitBlock(pending \o SubSeq(chunk, 1, Lesser(BLOCK_SIZE - Len(pending), Len(chunk))),
                          "whole", {"pending_block"}, LoopResources)
             \/ pc' = "whole" /\ ret' = ret
      BY <2>2 DEF FillPending
    <3> QED BY <2>1, <3>1 DEF Closing
  <2>3. CASE EncryptWhole
    <3>1. /\ UNCHANGED << plain, taken >>
          /\ EmitBlock(Slice(chunk, processed, BLOCK_SIZE), "whole", {}, LoopResources)
      BY <2>3 DEF EncryptWhole
    <3> QED BY <2>1, <3>1 DEF Closing
  <2>4. CASE EncryptFinal
    <3>1. /\ UNCHANGED << plain, taken >> /\ pc = "final"
          /\ EmitBlock(cipher_add_pkcs7_padding(pending), "mac", {},
                       LoopResources \cup {"pending_block"})
      BY <2>4 DEF EncryptFinal, stream
    <3> QED BY <2>1, <3>1 DEF Closing
  <2> QED BY <1>5, <2>2, <2>3, <2>4
<1>6. CASE SavePending \/ WriteMac \/ Finish
  BY <1>1, <1>6 DEF SavePending, WriteMac, Finish, files, stream, Closing
<1>7. CASE Flush \/ Crash \/ Over \/ UNCHANGED vars
  BY <1>7 DEF Flush, Crash, Over, vars, files, stream, Closing
<1> QED BY <1>2, <1>3, <1>4, <1>5, <1>6, <1>7 DEF Program

Reading ==
  /\ source = plain
  /\ total_read <= Len(plain)
  /\ taken = SubSeq(plain, 1, total_read)
  /\ pc \in {"final"} \cup Closing => total_read = Len(plain)
  /\ ret = 0 => total_read = Len(plain)

LEMMA ReadingStep ==
  ASSUME SameFile = FALSE, Env \cap {"read", "grow", "shrink"} = {}, SInv, Reading, [Next]_vars
  PROVE  Reading'
<1>0. plain \in Seq(Byte) /\ Len(plain) \in Nat /\ taken \in Seq(Byte) /\ total_read \in Nat
  BY LenProperties DEF SInv, IInv, TypeOK
<1>1. CASE ReadChunk
  <2> DEFINE left == IF total_read < Len(plain) THEN Len(plain) - total_read ELSE 0
             want == Lesser(STREAM_CHUNK, left)
  <2>1. /\ pc = "read" /\ UNCHANGED << ret, source, plain >>
        /\ \E n \in want..want :
             IF n = 0
             THEN pc' = "final" /\ UNCHANGED << stream, held >>
             ELSE /\ pc' = IF Len(pending) > 0 THEN "fill" ELSE "whole"
                  /\ chunk' = Slice(plain, total_read, n)
                  /\ taken' = taken \o chunk'
    BY <1>1 DEF ReadChunk, files, Reading
  <2>2. ret # 0
    BY <2>1 DEF SInv, Sealing, Delivered
  <2>3. left \in Nat /\ (total_read < Len(plain) => left = Len(plain) - total_read)
        /\ (left = 0 => total_read = Len(plain))
    BY <1>0 DEF Reading
  <2>4. want \in Nat /\ want <= left /\ (want = 0 => left = 0)
    BY <2>3, SizesPositive DEF Lesser
  <2> HIDE DEF want, left
  <2>5. CASE want = 0
    <3>1. pc' = "final" /\ taken' = taken
      BY <2>1, <2>5 DEF stream
    <3> QED BY <2>1, <2>2, <2>3, <2>4, <2>5, <3>1 DEF Reading
  <2>6. CASE want # 0
    <3>1. /\ pc' \in {"fill", "whole"} /\ taken' = taken \o Slice(plain, total_read, want)
      BY <2>1, <2>4, <2>6
    <3>2. total_read + want <= Len(plain)
      BY <1>0, <2>3, <2>4, <2>6 DEF Reading, left
    <3>3. taken' = SubSeq(plain, 1, total_read + want)
      BY <1>0, <2>4, <3>1, <3>2, ReadOn DEF Reading
    <3>4. Len(taken') = total_read + want
      BY <1>0, <2>4, <3>2, <3>3, PrefixType
    <3> QED BY <2>1, <2>2, <3>1, <3>2, <3>3, <3>4 DEF Reading, Closing
  <2> QED BY <2>5, <2>6
<1>2. CASE ~ReadChunk /\ (Program \/ Flush \/ Crash \/ Over \/ UNCHANGED vars)
  <2>1. /\ UNCHANGED << plain, taken >>
        /\ pc' \in {"final"} \cup Closing => pc \in {"final"} \cup Closing
        /\ ret' = 0 => ret = 0 \/ pc = "finish"
    BY <1>2, TakenKept
  <2>2. source' = source
    BY <1>2, OtherFileKept DEF Crash, Over, vars, files
  <2> QED BY <2>1, <2>2 DEF Reading, Closing
<1>3. CASE ChangeInput
  BY <1>3 DEF ChangeInput
<1> QED BY <1>1, <1>2, <1>3 DEF Next

\* With nothing in the way the whole input is read, and sealed.
LEMMA AllRead ==
  ASSUME SameFile = FALSE,
         Env \cap {"write", "alloc", "close", "read", "grow", "shrink"} = {}
  PROVE  Spec => [](SInv /\ Reading /\ SuccessMeansSealed)
<1>0. Env \cap {"read", "grow", "shrink"} = {} /\ NothingIgnored
  BY DEF NothingIgnored
<1>1. Init => Reading
  <2> SUFFICES ASSUME Init PROVE Reading
    OBVIOUS
  <2>1. plain \in Seq(Byte) /\ Len(plain) \in Nat /\ taken = << >> /\ Len(<< >>) = 0
    BY EncryptConstants, LenProperties, EmptySeq DEF Init
  <2>2. SubSeq(plain, 1, 0) = << >>
    BY SubSeqEmpty
  <2> QED BY <2>1, <2>2 DEF Init, Reading, Closing, NoResult
<1>2. SInv /\ Reading /\ [Next]_vars => Reading'
  BY <1>0, ReadingStep
<1>3. SInv /\ Reading => SuccessMeansSealed
  <2> SUFFICES ASSUME SInv, Reading, ret = 0 PROVE disk = SealedSoFar /\ taken = plain
    BY DEF SuccessMeansSealed
  <2>1. taken = SubSeq(plain, 1, Len(plain)) /\ plain \in Seq(Byte)
    BY DEF Reading, SInv, IInv, TypeOK
  <2>2. disk = SealedSoFar
    BY <1>0 DEF SInv, Sealing, Delivered
  <2> QED BY <2>1, <2>2, SubSeqFull
<1> QED BY SealingInvariance, <1>1, <1>2, <1>3, PTL DEF Spec

\* cipher.h:28, the promise of a return of 0: with no read error, no change of the
\* input meanwhile and two different files, the file at output_path is the one-shot
\* encryption of the input, under the calls' successes that SuccessSeals needs.
THEOREM SuccessSealsAll ==
  ASSUME SameFile = FALSE,
         Env \cap {"write", "alloc", "close", "read", "grow", "shrink"} = {}
  PROVE  Spec => []SuccessMeansSealed
BY AllRead, PTL

-----------------------------------------------------------------------------
(***************************************************************************)
(* What is left over. The file holds a start of what was written, and what *)
(* was written is a start of one sealed file; so whatever failed, what the *)
(* MAC check lets pass is the whole of that file.                          *)
(***************************************************************************)

DiskStart == StartOf(disk, output)

LEMMA InitDiskStart ==
  ASSUME SameFile = FALSE, Init
  PROVE  DiskStart
<1>1. disk = << >> /\ output = << >> /\ Len(<< >>) = 0
  BY EmptySeq DEF Init
<1> QED BY <1>1 DEF DiskStart, StartOf

\* The file gets what the stream holds, or is left alone.
LEMMA DiskMoves ==
  ASSUME TypeOK, TypeOK', [Next]_vars
  PROVE  disk' = disk \/ \E n \in 0..Len(output') : disk' = SubSeq(output', 1, n)
<1>1. Len(disk) \in Nat /\ Len(output') \in Nat /\ Len(output) \in Nat
  BY LenProperties DEF TypeOK
<1> DEFINE Given == \E n \in 0..Len(output') : disk' = SubSeq(output', 1, n)
<1>2. ASSUME NEW code, NEW released, Exit(code, released) PROVE disk' = disk \/ Given
  <2>1. CASE CloseOutput
    <3>1. PICK n \in (IF "close" \in Env THEN Len(disk) ELSE Len(output'))..Len(output') :
            disk' = SubSeq(output', 1, n)
      BY <2>1 DEF CloseOutput
    <3>2. n \in 0..Len(output')
      BY <1>1, <3>1
    <3> QED BY <3>1, <3>2
  <2> QED BY <1>2, <2>1 DEF Exit
<1>3. CASE OpenInput \/ Finish
  BY <1>2, <1>3 DEF OpenInput, Finish
<1>4. CASE OpenOutput
  <2>1. CASE disk' = << >>
    <3>1. SubSeq(output', 1, 0) = << >>
      BY SubSeqEmpty
    <3> QED BY <1>1, <2>1, <3>1
  <2> QED BY <1>2, <1>4, <2>1 DEF OpenOutput
<1>5. CASE WriteSize \/ WriteSalt \/ WriteIv
  BY <1>2, <1>5 DEF WriteSize, WriteSalt, WriteIv, WriteField
<1>6. CASE AllocCiphertext \/ AllocBuffer
  BY <1>2, <1>6 DEF AllocCiphertext, AllocBuffer, Allocate
<1>7. CASE FillPending \/ EncryptWhole \/ EncryptFinal
  BY <1>2, <1>7 DEF FillPending, EncryptWhole, EncryptFinal, EmitBlock
<1>8. CASE Abort \/ ReadChunk \/ SavePending \/ WriteMac \/ Crash \/ ChangeInput \/ Over \/ UNCHANGED vars
  BY <1>8 DEF Abort, ReadChunk, SavePending, WriteMac, Crash, ChangeInput, Over, vars, files
<1>9. CASE Flush
  <2>1. PICK n \in (Len(disk) + 1)..Len(output) : disk' = SubSeq(output, 1, n)
    BY <1>9 DEF Flush
  <2>2. n \in 0..Len(output') /\ output' = output
    BY <1>1, <1>9, <2>1 DEF Flush
  <2> QED BY <2>1, <2>2
<1> QED BY <1>3, <1>4, <1>5, <1>6, <1>7, <1>8, <1>9 DEF Next, Program

\* fwrite adds to the end of what was written.
LEMMA OutputGrows ==
  ASSUME TypeOK, TypeOK', [Next]_vars
  PROVE  StartOf(output, output')
<1>1. output \in Seq(Byte) /\ output' \in Seq(Byte) /\ Len(output) \in Nat
  BY LenProperties DEF TypeOK
<1>2. ASSUME NEW data \in Seq(Byte),
             output' = output \o data \/ ShortWrite(data)
      PROVE  StartOf(output, output')
  <2>1. CASE output' = output \o data
    BY <1>1, <2>1, StartAppended
  <2>2. CASE ShortWrite(data)
    <3>1. PICK n \in 0..(Len(data) - 1) : output' = output \o SubSeq(data, 1, n)
      BY <2>2 DEF ShortWrite
    <3>2. n \in 0..Len(data)
      BY <3>1, LenProperties
    <3>3. SubSeq(data, 1, n) \in Seq(Byte)
      BY <3>2, PrefixType
    <3> QED BY <1>1, <3>1, <3>3, StartAppended
  <2> QED BY <1>2, <2>1, <2>2
<1>3. output' = output => StartOf(output, output')
  BY <1>1 DEF StartOf
<1>4. CASE OpenInput \/ OpenOutput \/ Abort \/ AllocCiphertext \/ AllocBuffer \/ ReadChunk
  BY <1>3, <1>4 DEF OpenInput, OpenOutput, Abort, AllocCiphertext, AllocBuffer, Allocate,
     ReadChunk, files
<1>5. CASE SavePending \/ Finish \/ Flush \/ Crash \/ ChangeInput \/ Over \/ UNCHANGED vars
  BY <1>3, <1>5 DEF SavePending, Finish, Flush, Crash, ChangeInput, Over, vars, files
<1>6. CASE WriteSize
  <2>1. header' \in Seq(Byte) /\ (output' = output \o header' \/ ShortWrite(header'))
    BY <1>6 DEF WriteSize, WriteField, TypeOK
  <2> QED BY <1>2, <2>1
<1>7. CASE WriteSalt
  <2>1. PICK s \in Salts : output' = output \o s \/ ShortWrite(s)
    BY <1>7 DEF WriteSalt, WriteField
  <2>2. s \in Seq(Byte)
    BY SizesPositive, EncryptConstants, ArrayIsSeq
  <2> QED BY <1>2, <2>1, <2>2
<1>8. CASE WriteIv
  <2>1. PICK iv \in Ivs : output' = output \o iv \/ ShortWrite(iv)
    BY <1>8 DEF WriteIv, WriteField
  <2>2. iv \in Seq(Byte)
    BY EncryptConstants, BlockIsSeq
  <2> QED BY <1>2, <2>1, <2>2
<1>9. CASE FillPending \/ EncryptWhole \/ EncryptFinal
  <2>1. ASSUME NEW block, NEW next, NEW over, NEW released, EmitBlock(block, next, over, released)
        PROVE  output' = output \o prev' \/ ShortWrite(prev')
    BY <2>1 DEF EmitBlock
  <2>2. prev' \in Seq(Byte)
    BY DEF TypeOK
  <2>3. output' = output \/ output' = output \o prev' \/ ShortWrite(prev')
    BY <1>9, <2>1 DEF FillPending, EncryptWhole, EncryptFinal
  <2> QED BY <1>2, <1>3, <2>2, <2>3
<1>10. CASE WriteMac
  <2> DEFINE mac == hmac_compute(MacKey(Master, salt), header \o encrypted)
  <2>1. mac \in Seq(Byte)
    BY SizesPositive, ByteArrayType DEF hmac_compute
  <2>2. output' = output \/ output' = output \o mac \/ ShortWrite(mac)
    BY <1>10 DEF WriteMac
  <2> HIDE DEF mac
  <2> QED BY <1>2, <1>3, <2>1, <2>2
<1> QED BY <1>4, <1>5, <1>6, <1>7, <1>8, <1>9, <1>10 DEF Next, Program

LEMMA DiskStartStep ==
  ASSUME TypeOK, TypeOK', DiskStart, [Next]_vars
  PROVE  DiskStart'
<1>1. /\ disk \in Seq(Byte) /\ output \in Seq(Byte)
      /\ disk' \in Seq(Byte) /\ output' \in Seq(Byte)
  BY DEF TypeOK
<1>2. CASE disk' = disk
  <2>1. StartOf(disk, output')
    BY <1>1, OutputGrows, StartTransitive DEF DiskStart
  <2> QED BY <1>2, <2>1 DEF DiskStart
<1>3. CASE \E n \in 0..Len(output') : disk' = SubSeq(output', 1, n)
  BY <1>1, <1>3, StartCut DEF DiskStart
<1> QED BY <1>2, <1>3, DiskMoves

\* What is read of a file that is a start of p, from where reading has stopped,
\* makes a longer start of p.
LEMMA StartReadOn ==
  ASSUME NEW p \in Seq(Byte), NEW s \in Seq(Byte), NEW t \in Seq(Byte), NEW n \in Nat,
         StartOf(s, p), StartOf(t, p), Len(t) + n <= Len(s)
  PROVE  StartOf(t \o Slice(s, Len(t), n), p)
<1> DEFINE more == Slice(s, Len(t), n)
<1>1. Len(s) \in Nat /\ Len(t) \in Nat /\ Len(p) \in Nat
  BY LenProperties
<1>2. more \in Seq(Byte) /\ Len(more) = n /\ \A k \in 1..n : more[k] = s[Len(t) + k]
  BY <1>1, SliceBytes
<1> HIDE DEF more
<1>3. /\ Len(t \o more) = Len(t) + n
      /\ \A j \in 1..(Len(t) + n) : (t \o more)[j] = IF j <= Len(t) THEN t[j] ELSE more[j - Len(t)]
  BY <1>1, <1>2, ConcatProperties
<1>4. ASSUME NEW j \in 1..(Len(t) + n) PROVE (t \o more)[j] = p[j]
  <2>1. CASE j <= Len(t)
    BY <1>1, <1>3, <2>1 DEF StartOf
  <2>2. CASE j > Len(t)
    <3>1. j - Len(t) \in 1..n /\ Len(t) + (j - Len(t)) = j /\ j \in 1..Len(s)
      BY <1>1, <2>2
    <3>2. (t \o more)[j] = s[j]
      BY <1>2, <1>3, <2>2, <3>1
    <3> QED BY <3>1, <3>2 DEF StartOf
  <2>3. j <= Len(t) \/ j > Len(t)
    BY <1>1
  <2> QED BY <2>1, <2>2, <2>3, Zenon
<1>5. Len(t) + n <= Len(p)
  BY <1>1 DEF StartOf
<1>6. StartOf(t \o more, p)
  BY <1>3, <1>4, <1>5 DEF StartOf
<1> QED BY <1>6 DEF more

\* The file that is read is, and what was read of it came from, the input.
Origins ==
  /\ plain \in Inputs
  /\ StartOf(source, plain)
  /\ StartOf(taken, plain)
  /\ file_size <= Len(plain)

LEMMA InitOrigins == Init => Origins
<1> SUFFICES ASSUME Init PROVE Origins
  OBVIOUS
<1>1. /\ plain \in Inputs /\ source = plain /\ taken = << >> /\ file_size = 0
      /\ plain \in Seq(Byte) /\ Len(plain) \in Nat /\ Len(<< >>) = 0
  BY EncryptConstants, LenProperties, EmptySeq DEF Init
<1> QED BY <1>1 DEF Origins, StartOf

LEMMA OriginsStep ==
  ASSUME SameFile = FALSE, "grow" \notin Env, IInv, Origins, [Next]_vars
  PROVE  Origins'
<1>1. /\ plain \in Seq(Byte) /\ source \in Seq(Byte) /\ taken \in Seq(Byte)
      /\ Len(plain) \in Nat /\ Len(source) \in Nat /\ total_read \in Nat
      /\ Len(source) <= Len(plain)
  BY LenProperties DEF IInv, TypeOK, Origins, StartOf
<1>2. CASE OpenInput
  <2>1. source' = source /\ UNCHANGED << plain, taken >>
    BY <1>2, OtherFileKept DEF Program, OpenInput, stream
  <2>2. file_size' = Len(source) \/ file_size' = file_size
    BY <1>2 DEF OpenInput
  <2> QED BY <1>1, <2>1, <2>2 DEF Origins
<1>3. CASE ReadChunk
  <2> DEFINE left == IF total_read < Len(source) THEN Len(source) - total_read ELSE 0
             want == Lesser(STREAM_CHUNK, left)
  <2>1. UNCHANGED << plain, source, file_size >>
    BY <1>3 DEF ReadChunk, files
  <2>2. PICK n \in (IF "read" \in Env THEN 0 ELSE want)..want :
          \/ taken' = taken
          \/ n # 0 /\ chunk' = Slice(source, total_read, n) /\ taken' = taken \o chunk'
    BY <1>3 DEF ReadChunk, stream
  <2>3. left \in Nat /\ (left # 0 => total_read + left = Len(source))
    BY <1>1
  <2>4. want \in Nat /\ want <= left
    BY <2>3, SizesPositive DEF Lesser
  <2> HIDE DEF left, want
  <2>5. CASE taken' = taken
    BY <2>1, <2>5 DEF Origins
  <2>6. CASE n # 0 /\ taken' = taken \o Slice(source, total_read, n)
    <3>1. n \in Nat /\ Len(taken) + n <= Len(source)
      BY <1>1, <2>2, <2>3, <2>4, <2>6
    <3>2. StartOf(taken \o Slice(source, Len(taken), n), plain)
      BY <1>1, <3>1, StartReadOn DEF Origins
    <3> QED BY <2>1, <2>6, <3>2 DEF Origins
  <2> QED BY <2>2, <2>5, <2>6
<1>4. CASE Program /\ ~OpenInput /\ ~ReadChunk
  <2>1. UNCHANGED << plain, taken, source, file_size >>
    BY <1>4, TakenKept, OtherFileKept, SizeAndPositionKept
  <2> QED BY <2>1 DEF Origins
<1>5. CASE Flush
  <2>1. UNCHANGED << plain, taken, source, file_size >>
    BY <1>5, OtherFileKept DEF Flush, stream
  <2> QED BY <2>1 DEF Origins
<1>6. CASE Crash \/ Over \/ UNCHANGED vars
  BY <1>6 DEF Crash, Over, vars, files, stream, Origins
<1>7. CASE ChangeInput
  <2>1. /\ UNCHANGED << plain, taken, file_size >>
        /\ Len(source) > 0 /\ source' = SubSeq(source, 1, Len(source) - 1)
    BY <1>7 DEF ChangeInput, stream
  <2>2. Len(source) - 1 \in 0..Len(source)
    BY <1>1, <2>1
  <2>3. source' \in Seq(Byte) /\ StartOf(source', source)
    BY <1>1, <2>1, <2>2, PrefixType, StartCut
  <2>4. StartOf(source', plain)
    BY <1>1, <2>3, StartTransitive DEF Origins
  <2> QED BY <2>1, <2>4 DEF Origins
<1> QED BY <1>2, <1>3, <1>4, <1>5, <1>6, <1>7 DEF Next

\* A file that would pass the MAC check is longer than a header.
LEMMA AuthenticIsLong ==
  ASSUME NEW f \in Seq(Byte), Authentic(f, Master)
  PROVE  Len(f) > HeaderSize
<1>1. HeaderSize \in Nat /\ HMAC_SIZE \in Nat /\ Len(f) \in Nat
  BY SizesPositive, LenProperties DEF HeaderSize
<1>2. Len(f) - HeaderSize - HMAC_SIZE > 0
  BY DEF Authentic
<1> QED BY <1>1, <1>2

\* A sealed file is a file.
LEMMA SealedType ==
  ASSUME TypeOK, salt \in Salts, HeaderIv \in Ivs
  PROVE  SealedSoFar \in Seq(Byte)
<1> DEFINE C    == Ciphertext(EncKey(Master, salt), HeaderIv, taken)
           size == SizeToBytes(file_size)
           body == size \o salt \o HeaderIv \o C
           mac  == hmac_compute(MacKey(Master, salt), body)
<1>1. salt \in [1..KDF_SALT_SIZE -> Byte] /\ HeaderIv \in Block /\ taken \in Seq(Byte)
  BY EncryptConstants DEF TypeOK
<1>2. EncKey(Master, salt) \in Key
  BY <1>1, DeriveType, EncryptConstants DEF EncKey
<1>3. 0 * BLOCK_SIZE <= Len(taken)
  BY <1>1, SizesPositive, LenProperties
<1>4. C \in Seq(Byte)
  BY <1>1, <1>2, <1>3, CiphertextStarts
<1>5. size \in Seq(Byte) /\ salt \in Seq(Byte) /\ HeaderIv \in Seq(Byte)
  BY <1>1, SizesPositive, ByteArrayType, ArrayIsSeq, BlockIsSeq DEF SizeToBytes
<1> HIDE DEF C, size
<1>6. body \in Seq(Byte)
  BY <1>4, <1>5, ConcatType
<1>7. mac \in Seq(Byte)
  BY SizesPositive, ByteArrayType DEF hmac_compute
<1> HIDE DEF body, mac
<1>8. body \o mac \in Seq(Byte)
  BY <1>6, <1>7, ConcatType
<1>9. SealedSoFar = body \o mac
  BY DEF SealedSoFar, Sealed, HeaderIv, body, mac, size, C
<1> QED BY <1>8, <1>9

\* An authentic start of what the bytes read make is the whole of it.
LEMMA AuthenticIsWhole ==
  ASSUME NoCoincidence, SInv, Origins, salt \in Salts, HeaderIv \in Ivs,
         StartOf(disk, SealedSoFar), SealedSoFar \in Seq(Byte), Authentic(disk, Master)
  PROVE  disk = SealedSoFar
<1>1. /\ disk \in Seq(Byte) /\ taken \in Seq(Byte) /\ plain \in Seq(Byte) /\ file_size \in Nat
      /\ Len(plain) \in Nat /\ Len(disk) \in Nat /\ Len(SealedSoFar) \in Nat
  BY LenProperties DEF SInv, IInv, TypeOK
<1>2. Len(taken) \in 0..Len(plain) /\ taken = SubSeq(plain, 1, Len(taken))
  BY <1>1, StartIsCut DEF Origins
<1>3. plain \in Inputs /\ file_size \in 0..Len(plain)
  BY <1>1 DEF Origins
<1>4. \A n, size \in 0..Len(plain), s \in Salts, v \in Ivs :
        \A m \in 0..(Len(Sealed(SubSeq(plain, 1, n), size, Master, s, v)) - 1) :
          ~ Authentic(SubSeq(Sealed(SubSeq(plain, 1, n), size, Master, s, v), 1, m), Master)
  BY <1>3, Zenon DEF NoCoincidence
<1>5. \A m \in 0..(Len(Sealed(SubSeq(plain, 1, Len(taken)), file_size, Master, salt, HeaderIv)) - 1) :
        ~ Authentic(SubSeq(Sealed(SubSeq(plain, 1, Len(taken)), file_size, Master, salt, HeaderIv),
                           1, m), Master)
  BY <1>2, <1>3, <1>4, Zenon
<1>6. SealedSoFar = Sealed(SubSeq(plain, 1, Len(taken)), file_size, Master, salt, HeaderIv)
  BY <1>2 DEF SealedSoFar, HeaderIv
<1>7. \A m \in 0..(Len(SealedSoFar) - 1) : ~ Authentic(SubSeq(SealedSoFar, 1, m), Master)
  BY <1>5, <1>6, Zenon
<1>8. Len(disk) \in 0..Len(SealedSoFar) /\ disk = SubSeq(SealedSoFar, 1, Len(disk))
  BY <1>1, StartIsCut
<1>9. Len(disk) \notin 0..(Len(SealedSoFar) - 1)
  BY <1>7, <1>8
<1>10. Len(disk) = Len(SealedSoFar)
  BY <1>1, <1>8, <1>9
<1> QED BY <1>8, <1>10, SubSeqFull

\* What a call leaves behind, whatever call failed and wherever it was killed: a
\* file that decryption would accept is a whole one, and the call is at its end.
\* The input may shrink meanwhile, but not grow, and is not the output file; and
\* no MAC comes about by chance (NoCoincidence).
THEOREM LeftoverDetected ==
  ASSUME SameFile = FALSE, "grow" \notin Env, NoCoincidence
  PROVE  Spec => []LeftoverNeverAuthentic
<1>1. Init => DiskStart /\ Origins
  BY InitDiskStart, InitOrigins
<1>2. IInv /\ IInv' /\ DiskStart /\ [Next]_vars => DiskStart'
  BY DiskStartStep DEF IInv
<1>3. IInv /\ Origins /\ [Next]_vars => Origins'
  BY OriginsStep
<1>4. SInv => IInv
  BY DEF SInv
<1>5. SInv /\ DiskStart /\ Origins => LeftoverNeverAuthentic
  <2> SUFFICES ASSUME SInv, DiskStart, Origins, Authentic(disk, Master)
               PROVE  pc \in Stopped \cup {"finish"} /\ disk = SealedSoFar
    BY DEF LeftoverNeverAuthentic
  <2>1. /\ disk \in Seq(Byte) /\ output \in Seq(Byte) /\ header \in Seq(Byte)
        /\ pc \in Running \cup Stopped
    BY DEF SInv, IInv, TypeOK
  <2>2. Len(output) > HeaderSize
    <3>1. Len(disk) > HeaderSize
      BY <2>1, AuthenticIsLong
    <3>2. Len(disk) <= Len(output) /\ Len(disk) \in Nat /\ Len(output) \in Nat /\ HeaderSize \in Nat
      BY <2>1, LenProperties, SizesPositive DEF DiskStart, StartOf, HeaderSize
    <3> QED BY <3>1, <3>2
  <2>3. OutputStarts
    BY <2>1, RunningOutput DEF SInv, Sealing, Leftover
  <2>4. salt \in Salts /\ HeaderIv \in Ivs /\ StartOf(output, SealedSoFar)
    <3>1. Len(output) \in Nat /\ HeaderSize \in Nat
      BY <2>1, LenProperties, SizesPositive DEF HeaderSize
    <3> QED BY <2>2, <2>3, <3>1 DEF OutputStarts
  <2>5. SealedSoFar \in Seq(Byte)
    BY <2>4, SealedType DEF SInv, IInv
  <2>6. StartOf(disk, SealedSoFar)
    BY <2>1, <2>4, <2>5, StartTransitive DEF DiskStart
  <2>7. disk = SealedSoFar
    BY <2>4, <2>5, <2>6, AuthenticIsWhole
  <2>8. ASSUME pc \notin Stopped \cup {"finish"} PROVE FALSE
    <3>1. pc \in Starting \/ pc \in InLoop \cup {"mac"}
      BY <2>1, <2>8 DEF Running, Starting, InLoop
    <3>2. CASE pc \in Starting
      <4>1. Len(output) <= HeaderSize
        BY <3>2, StartingOutput
      <4>2. Len(output) \in Nat /\ HeaderSize \in Nat
        BY <2>1, LenProperties, SizesPositive DEF HeaderSize
      <4> QED BY <2>2, <4>1, <4>2
    <3>3. CASE pc \in InLoop \cup {"mac"}
      <4>1. output = header \o encrypted
        BY <3>3 DEF SInv, Sealing, OutputWritten, InLoop, Running
      <4>2. Len(header \o encrypted) < Len(SealedSoFar)
        BY <3>3, LoopOutput DEF Closing
      <4>3. Len(SealedSoFar) <= Len(output) /\ Len(output) \in Nat /\ Len(SealedSoFar) \in Nat
        BY <2>1, <2>5, <2>7, LenProperties DEF DiskStart, StartOf
      <4> QED BY <4>1, <4>2, <4>3
    <3> QED BY <3>1, <3>2, <3>3
  <2> QED BY <2>7, <2>8
<1> QED BY SealingInvariance, <1>1, <1>2, <1>3, <1>4, <1>5, PTL DEF Spec
-----------------------------------------------------------------------------
(***************************************************************************)
(* What decryption counts on.                                              *)
(***************************************************************************)

\* Salt and initialisation vector were among those to be had.
FieldsKept == ret = 0 => salt \in Salts /\ HeaderIv \in Ivs

LEMMA FieldsKeptStep ==
  ASSUME SInv, FieldsKept, [Next]_vars
  PROVE  FieldsKept'
<1> SUFFICES ASSUME ret' = 0 PROVE salt' \in Salts /\ HeaderIv' \in Ivs
  BY DEF FieldsKept
<1>1. CASE ret = 0
  <2>1. pc = "done"
    BY <1>1 DEF SInv, Sealing, Delivered
  <2>2. header' = header
    BY <2>1 DEF Next, Program, OpenInput, OpenOutput, WriteSize, WriteSalt, WriteIv, Abort,
       AllocCiphertext, AllocBuffer, ReadChunk, FillPending, EncryptWhole, SavePending,
       EncryptFinal, WriteMac, Finish, Flush, Crash, ChangeInput, Over, vars, Running
  <2> QED BY <1>1, <2>2 DEF FieldsKept, salt, HeaderIv
<1>2. CASE ret # 0
  <2>1. Program \/ Flush \/ Crash \/ Over \/ UNCHANGED vars
    BY <1>2 DEF Next, ChangeInput
  <2>2. ~ReadChunk
    BY <1>2 DEF ReadChunk
  <2>3. pc = "finish"
    BY <1>2, <2>1, <2>2, TakenKept
  <2>4. header' = header
    BY <2>3 DEF Next, Program, OpenInput, OpenOutput, WriteSize, WriteSalt, WriteIv, Abort,
       AllocCiphertext, AllocBuffer, ReadChunk, FillPending, EncryptWhole, SavePending,
       EncryptFinal, WriteMac, Finish, Flush, Crash, ChangeInput, Over, vars
  <2>5. salt \in Salts /\ HeaderIv \in Ivs
    BY <2>3 DEF SInv, Sealing, HeaderFields, Closing
  <2> QED BY <2>4, <2>5 DEF salt, HeaderIv
<1> QED BY <1>1, <1>2

\* A sealed file has its salt and its initialisation vector in their places.
LEMMA SealedIsGenuine ==
  ASSUME TypeOK, salt \in Salts, HeaderIv \in Ivs, disk = SealedSoFar,
         total_read <= file_size, file_size < Weight[SIZE_BYTES]
  PROVE  GenuineFile(disk, taken, file_size, Master)
<1>1. /\ salt \in [1..KDF_SALT_SIZE -> Byte] /\ HeaderIv \in Block /\ Master \in Masters
      /\ taken \in Seq(Byte) /\ file_size \in Nat
  BY EncryptConstants DEF TypeOK
<1>2. disk = Sealed(taken, file_size, Master, salt, HeaderIv)
  BY DEF SealedSoFar, HeaderIv
<1>3. SaltField(disk) = salt /\ IvField(disk) = HeaderIv
  <2> HIDE DEF HeaderIv
  <2> QED BY <1>1, <1>2, SealedLayout
<1>4. (Len(taken) \div BLOCK_SIZE) * BLOCK_SIZE <= file_size
  <2> DEFINE n == Len(taken) \div BLOCK_SIZE
  <2>1. /\ Len(taken) \in Nat /\ BLOCK_SIZE \in Nat \ {0}
    BY <1>1, LenProperties, SizesPositive
  <2>2. n \in Nat /\ n \in 0..n
    BY <2>1
  <2>3. n * BLOCK_SIZE <= Len(taken)
    BY <1>1, <2>2, WholeBlocks
  <2>4. n * BLOCK_SIZE \in Nat
    BY <2>1, <2>2
  <2> HIDE DEF n
  <2> DEFINE x == n * BLOCK_SIZE
  <2>5. x <= Len(taken) /\ x \in Nat /\ Len(taken) <= file_size
    BY <2>3, <2>4
  <2>6. x <= file_size
    <3> HIDE DEF x
    <3> QED BY <1>1, <2>1, <2>5
  <2> QED BY <2>6 DEF n
<1> QED BY <1>1, <1>2, <1>3, <1>4 DEF GenuineFile

\* A return of 0 leaves a file that decryption takes for genuine, and gets the input
\* from: what DecryptFile assumes of genuine files (GenuineFiles), encryption delivers
\* (cipher.c:70-253), the size in the header being the input's.
THEOREM SuccessDelivers ==
  ASSUME SameFile = FALSE,
         Env \cap {"write", "alloc", "close", "read", "grow", "shrink"} = {}
  PROVE  Spec => []SuccessIsGenuine
<1>1. Init => FieldsKept /\ SizeHolds
  BY SizesPositive DEF Init, FieldsKept, NoResult, SizeHolds
<1>2. SInv /\ FieldsKept /\ [Next]_vars => FieldsKept'
  BY FieldsKeptStep
<1>3. SInv /\ SizeHolds /\ [Next]_vars => SizeHolds'
  BY SizeStep DEF SInv
<1>4. SInv /\ Reading /\ SuccessMeansSealed /\ FieldsKept /\ SizeHolds => SuccessIsGenuine
  <2> SUFFICES ASSUME SInv, SuccessMeansSealed, FieldsKept, SizeHolds,
                      ret = 0, file_size < Weight[SIZE_BYTES]
               PROVE  GenuineFile(disk, plain, file_size, Master)
    BY DEF SuccessIsGenuine
  <2>1. /\ TypeOK /\ taken = plain /\ disk = SealedSoFar /\ total_read <= file_size
        /\ salt \in Salts /\ HeaderIv \in Ivs
    BY DEF SInv, IInv, SuccessMeansSealed, FieldsKept, SizeHolds
  <2> QED BY <2>1, SealedIsGenuine
<1> QED BY AllRead, <1>1, <1>2, <1>3, <1>4, PTL DEF Spec

-----------------------------------------------------------------------------
(***************************************************************************)
(* The call, seen from outside: it implements OutputFile.                  *)
(***************************************************************************)

\* The places at which the output is open, and those before.
Opened == Running \ {"open_input", "open_output"}
Early  == {"open_input", "open_output"}

NothingReturned == pc \in Running => ret = NoResult

\* The size in the header is the input's.
Measured == pc \in Running \ {"open_input"} => file_size = Len(plain) /\ plain # << >>

\* The file that the call is to make, of one salt and one initialisation vector.
Promised(s, v) == Sealed(plain, Len(plain), Master, s, v)

\* What is written goes towards it.
Towards == pc \in Opened => \E s \in Salts, v \in Ivs : StartOf(output, Promised(s, v))

SealedInput ==
  /\ SInv /\ Reading /\ DiskStart /\ SuccessMeansSealed
  /\ NothingReturned /\ Measured /\ Towards

\* No failure that goes unreported, no read error, and an input left alone.
Undisturbed ==
  /\ SameFile = FALSE
  /\ Env \cap {"write", "alloc", "close", "read", "grow", "shrink"} = {}

LEMMA StepReturnsNothing == NothingReturned /\ [Next]_vars => NothingReturned'
<1> SUFFICES ASSUME NothingReturned, [Next]_vars, pc' \in Running PROVE ret' = NoResult
  BY DEF NothingReturned
<1>1. \A code, released : Exit(code, released) => pc' \notin Running
  BY DEF Exit, Running
<1>2. CASE OpenInput \/ OpenOutput \/ Abort \/ AllocCiphertext \/ AllocBuffer
  BY <1>1, <1>2
  DEF OpenInput, OpenOutput, Abort, AllocCiphertext, AllocBuffer, Allocate, NothingReturned, Running
<1>3. CASE WriteSize \/ WriteSalt \/ WriteIv
  BY <1>1, <1>3 DEF WriteSize, WriteSalt, WriteIv, WriteField, NothingReturned, Running
<1>4. CASE FillPending \/ EncryptWhole \/ EncryptFinal
  <2>1. pc \in Running
    BY <1>4 DEF FillPending, EncryptWhole, EncryptFinal, Running
  <2>2. \A block, next, over, released :
          EmitBlock(block, next, over, released) => ret' = ret
    BY <1>1 DEF EmitBlock
  <2>3. ret' = ret
    BY <1>4, <2>2 DEF FillPending, EncryptWhole, EncryptFinal
  <2> QED BY <2>1, <2>3 DEF NothingReturned
<1>5. CASE ReadChunk \/ SavePending \/ WriteMac \/ Finish
  BY <1>1, <1>5 DEF ReadChunk, SavePending, WriteMac, Finish, NothingReturned, Running
<1>6. CASE Flush \/ Crash \/ ChangeInput \/ Over \/ UNCHANGED vars
  BY <1>6 DEF Flush, Crash, ChangeInput, Over, vars, NothingReturned, Running
<1> QED BY <1>2, <1>3, <1>4, <1>5, <1>6 DEF Next, Program

LEMMA PlainKept == [Next]_vars => plain' = plain
BY DEF Next, Program, OpenInput, OpenOutput, WriteSize, WriteSalt, WriteIv, Abort,
       AllocCiphertext, AllocBuffer, Allocate, ReadChunk, FillPending, EncryptWhole,
       SavePending, EncryptFinal, WriteMac, Finish, Flush, Crash, ChangeInput, Over, vars, files

LEMMA MeasuredStep ==
  ASSUME SInv, Reading, Measured, [Next]_vars
  PROVE  Measured'
<1>0. plain' = plain
  BY PlainKept
<1>1. CASE OpenInput
  <2>1. \/ pc' = "done"
        \/ Len(source) > 0 /\ file_size' = Len(source)
    BY <1>1 DEF OpenInput, Exit
  <2>2. source = plain /\ Len(<< >>) = 0
    BY EmptySeq DEF Reading
  <2> QED BY <1>0, <2>1, <2>2 DEF Measured, Running
<1>2. CASE ReadChunk
  BY <1>0, <1>2 DEF ReadChunk, Measured, Running
<1>3. CASE Program /\ ~OpenInput /\ ~ReadChunk
  <2>1. file_size' = file_size /\ pc # "open_input"
    BY <1>3, SizeAndPositionKept
  <2>2. pc \in Running
    BY <1>3 DEF Program, OpenOutput, WriteSize, WriteSalt, WriteIv, Abort, AllocCiphertext,
       AllocBuffer, FillPending, EncryptWhole, SavePending, EncryptFinal, WriteMac, Finish, Running
  <2> QED BY <1>0, <2>1, <2>2 DEF Measured
<1>4. CASE Flush \/ Crash \/ ChangeInput \/ Over \/ UNCHANGED vars
  <2>1. file_size' = file_size /\ (pc' = pc \/ pc' \notin Running)
    BY <1>4 DEF Flush, Crash, ChangeInput, Over, vars, Running
  <2> QED BY <1>0, <2>1 DEF Measured
<1> QED BY <1>1, <1>2, <1>3, <1>4 DEF Next

\* The parts of that file, each a start of it.
LEMMA PromisedParts ==
  ASSUME TypeOK, NEW s \in Salts, NEW v \in Ivs
  PROVE  LET h == SizeToBytes(Len(plain))
             c == Ciphertext(EncKey(Master, s), v, plain)
         IN  /\ h \in Seq(Byte) /\ h \o s \in Seq(Byte) /\ (h \o s) \o v \in Seq(Byte)
             /\ c \in Seq(Byte) /\ ((h \o s) \o v) \o c \in Seq(Byte)
             /\ Promised(s, v) \in Seq(Byte)
             /\ StartOf(<< >>, Promised(s, v)) /\ StartOf(h, Promised(s, v))
             /\ StartOf(h \o s, Promised(s, v))
             /\ StartOf(((h \o s) \o v) \o c, Promised(s, v))
<1> DEFINE h == SizeToBytes(Len(plain))
           c == Ciphertext(EncKey(Master, s), v, plain)
           m == hmac_compute(MacKey(Master, s), ((h \o s) \o v) \o c)
<1>1. s \in [1..KDF_SALT_SIZE -> Byte] /\ v \in Block /\ plain \in Seq(Byte)
  BY EncryptConstants DEF TypeOK
<1>2. EncKey(Master, s) \in Key
  BY <1>1, DeriveType, EncryptConstants DEF EncKey
<1>3. 0 * BLOCK_SIZE <= Len(plain)
  BY <1>1, SizesPositive, LenProperties
<1>4. c \in Seq(Byte)
  BY <1>1, <1>2, <1>3, CiphertextStarts
<1>5. h \in Seq(Byte) /\ s \in Seq(Byte) /\ v \in Seq(Byte)
  BY <1>1, SizesPositive, ByteArrayType, ArrayIsSeq, BlockIsSeq DEF SizeToBytes
<1>6. m \in Seq(Byte)
  BY SizesPositive, ByteArrayType DEF hmac_compute
<1>7. Promised(s, v) = (((h \o s) \o v) \o c) \o m
  BY DEF Promised, Sealed
<1> HIDE DEF h, c, m
<1>8. h \o s \in Seq(Byte) /\ StartOf(h, h \o s)
  BY <1>5, ConcatType, StartAppended
<1>9. (h \o s) \o v \in Seq(Byte) /\ StartOf(h \o s, (h \o s) \o v)
  BY <1>5, <1>8, ConcatType, StartAppended
<1>10. ((h \o s) \o v) \o c \in Seq(Byte) /\ StartOf((h \o s) \o v, ((h \o s) \o v) \o c)
  BY <1>4, <1>9, ConcatType, StartAppended
<1>11. Promised(s, v) \in Seq(Byte) /\ StartOf(((h \o s) \o v) \o c, Promised(s, v))
  BY <1>6, <1>7, <1>10, ConcatType, StartAppended
<1>12. StartOf((h \o s) \o v, Promised(s, v))
  BY <1>9, <1>10, <1>11, StartTransitive
<1>13. StartOf(h \o s, Promised(s, v))
  BY <1>8, <1>9, <1>11, <1>12, StartTransitive
<1>14. StartOf(h, Promised(s, v))
  BY <1>5, <1>8, <1>11, <1>13, StartTransitive
<1>15. StartOf(<< >>, Promised(s, v))
  BY <1>11, EmptySeq, LenProperties DEF StartOf
<1> QED BY <1>4, <1>5, <1>8, <1>9, <1>10, <1>11, <1>13, <1>14, <1>15 DEF h, c

\* The blocks encrypted of what was read are the first of the input's.
LEMMA EncryptedStarts ==
  ASSUME SInv, Reading, pc \in {"alloc_data", "alloc_buffer"} \cup InLoop \cup Closing
  PROVE  /\ encrypted \in Seq(Byte)
         /\ StartOf(encrypted, Ciphertext(FileKey, HeaderIv, plain))
<1>1. /\ encrypted \in Seq(Byte) /\ taken \in Seq(Byte) /\ plain \in Seq(Byte)
      /\ header \in Seq(Byte) /\ Len(header) = HeaderSize
      /\ Len(taken) \in Nat /\ Len(plain) \in Nat
  BY LenProperties DEF SInv, IInv, TypeOK, HeaderShape
<1>2. /\ HeaderSize >= SIZE_BYTES + KDF_SALT_SIZE
      /\ (SIZE_BYTES + KDF_SALT_SIZE) + BLOCK_SIZE = HeaderSize
      /\ SIZE_BYTES + KDF_SALT_SIZE \in Nat
  BY SizesPositive DEF HeaderSize
<1>3. FileKey \in Key /\ HeaderIv \in Block
  BY <1>1, <1>2, EncKeyType, SliceIsBlock DEF FileKey, HeaderIv
<1>4. Len(taken) <= Len(plain) /\ taken = SubSeq(plain, 1, Len(taken))
  BY DEF Reading
<1>5. Ciphertext(FileKey, HeaderIv, plain) \in Seq(Byte)
  <2>1. 0 \in Nat /\ 0 * BLOCK_SIZE <= Len(plain)
    BY <1>1, SizesPositive
  <2> QED BY <1>1, <1>3, <2>1, CiphertextStarts
<1>6. CASE pc \in {"alloc_data", "alloc_buffer"}
  <2>1. encrypted = << >>
    BY <1>6, StartingEmpty DEF SInv, Starting
  <2> QED BY <1>5, <2>1, EmptySeq, LenProperties DEF StartOf
<1>7. CASE pc \in InLoop
  <2>1. PICK n \in Nat : /\ n * BLOCK_SIZE <= Len(taken)
                         /\ encrypted = CipherBytes(FileKey, HeaderIv, taken, n)
    BY <1>7 DEF SInv, Sealing, StreamSealed, ChainOver
  <2>2. n * BLOCK_SIZE \in Nat /\ n * BLOCK_SIZE <= Len(plain)
    BY <1>1, <1>4, <2>1, SizesPositive
  <2>3. StartOf(taken, plain)
    <3>1. Len(taken) \in 0..Len(plain)
      BY <1>1, <1>4
    <3>2. StartOf(SubSeq(plain, 1, Len(taken)), plain)
      BY <1>1, <3>1, StartCut
    <3> QED BY <1>4, <3>2
  <2>4. \A k \in 1..(n * BLOCK_SIZE) : taken[k] = plain[k]
    BY <1>1, <2>1, <2>2, <2>3 DEF StartOf
  <2>5. encrypted = CipherBytes(FileKey, HeaderIv, plain, n)
    BY <1>1, <2>1, <2>2, <2>4, CipherBytesPrefix
  <2> QED BY <1>1, <1>3, <2>2, <2>5, CiphertextStarts
<1>8. CASE pc \in Closing
  <2>1. taken = plain
    BY <1>1, <1>8, SubSeqFull DEF Reading
  <2> QED BY <1>1, <1>8, <2>1, StartReflexive DEF SInv, Sealing, StreamSealed
<1> QED BY <1>1, <1>6, <1>7, <1>8

\* As long as nothing disturbs the call, what is written goes towards that file.
LEMMA WrittenIsPromised ==
  ASSUME NothingIgnored, Salts # {}, Ivs # {}, SInv, Reading, Measured
  PROVE  Towards
<1> SUFFICES ASSUME pc \in Opened
             PROVE  \E s \in Salts, v \in Ivs : StartOf(output, Promised(s, v))
  BY DEF Towards
<1> DEFINE h == SizeToBytes(Len(plain))
<1>1. /\ TypeOK /\ file_size = Len(plain) /\ header \in Seq(Byte)
      /\ pc # "finish" => output = header \o encrypted
  BY DEF SInv, IInv, TypeOK, Sealing, OutputWritten, Measured, Opened
<1>2. PICK s0 \in Salts, v0 \in Ivs : TRUE
  OBVIOUS
<1>3. CASE pc \in {"size", "salt", "iv"}
  <2>1. encrypted = << >>
    BY <1>3, StartingEmpty DEF SInv, Starting
  <2>2. output = header
    BY <1>1, <1>3, <2>1, AppendEmpty
  <2>3. CASE pc = "size"
    BY <1>1, <1>2, <2>2, <2>3, PromisedParts DEF SInv, Sealing, HeaderFields
  <2>4. CASE pc = "salt"
    BY <1>1, <1>2, <2>2, <2>4, PromisedParts DEF SInv, Sealing, HeaderFields
  <2>5. CASE pc = "iv"
    <3>1. output = h \o salt /\ salt \in Salts
      BY <1>1, <2>2, <2>5 DEF SInv, Sealing, HeaderFields
    <3>2. StartOf(h \o salt, Promised(salt, v0))
      BY <1>1, <1>2, <3>1, PromisedParts
    <3> QED BY <1>2, <3>1, <3>2
  <2> QED BY <1>3, <2>3, <2>4, <2>5
<1>4. CASE pc \in {"alloc_data", "alloc_buffer"} \cup InLoop \cup Closing
  <2> DEFINE c == Ciphertext(FileKey, HeaderIv, plain)
  <2>1. header = (h \o salt) \o HeaderIv /\ salt \in Salts /\ HeaderIv \in Ivs
    BY <1>1, <1>4 DEF SInv, Sealing, HeaderFields
  <2>2. /\ c \in Seq(Byte) /\ header \o c \in Seq(Byte)
        /\ Promised(salt, HeaderIv) \in Seq(Byte)
        /\ StartOf(header \o c, Promised(salt, HeaderIv))
    BY <1>1, <2>1, PromisedParts DEF FileKey
  <2>3. encrypted \in Seq(Byte) /\ StartOf(encrypted, c)
    BY <1>4, EncryptedStarts
  <2> HIDE DEF c
  <2>4. header \o encrypted \in Seq(Byte) /\ StartOf(header \o encrypted, header \o c)
    BY <1>1, <2>2, <2>3, ConcatType, StartExtended
  <2>5. CASE pc # "finish"
    <3>1. StartOf(output, Promised(salt, HeaderIv))
      BY <1>1, <2>2, <2>4, <2>5, StartTransitive
    <3> QED BY <2>1, <3>1
  <2>6. CASE pc = "finish"
    <3>1. taken = plain
      BY <2>6, SubSeqFull DEF Reading, Closing, SInv, IInv, TypeOK
    <3>2. (header \o encrypted) \o FileMac = SealedSoFar
      BY <2>6, FileIsSealed DEF Closing
    <3>3. SealedSoFar = Promised(salt, HeaderIv)
      BY <1>1, <3>1 DEF SealedSoFar, Promised, HeaderIv
    <3>4. output = (header \o encrypted) \o SubSeq(FileMac, 1, HMAC_SIZE)
      BY <2>6 DEF SInv, Sealing, OutputWritten
    <3>5. FileMac \in Seq(Byte) /\ Len(FileMac) = HMAC_SIZE
      BY SizesPositive, ByteArrayType DEF FileMac, hmac_compute
    <3>6. output = Promised(salt, HeaderIv)
      BY <3>2, <3>3, <3>4, <3>5, SubSeqFull
    <3> QED BY <2>1, <2>2, <3>6, StartReflexive
  <2> QED BY <2>5, <2>6
<1> QED BY <1>3, <1>4 DEF Opened, Running, InLoop, Closing

LEMMA PhaseOfPlace ==
  /\ pc \in Early => Phase = "before"
  /\ pc \in Opened => Phase = "writing"
  /\ pc \in Stopped => Phase = "over"
<1>1. pc \in Early => Phase = "before"
  BY DEF Phase, Early, Running, Stopped
<1>2. pc \in Opened => Phase = "writing"
  BY DEF Phase, Opened, Running, Stopped
<1>3. pc \in Stopped => Phase = "over"
  BY DEF Phase, Running, Stopped
<1> QED BY <1>1, <1>2, <1>3

LEMMA StartSeen ==
  ASSUME NEW x \in Seq(Byte), NEW y \in Seq(Byte), StartOf(x, y)
  PROVE  Output!StartOf(x, y)
<1>1. Len(x) \in 0..Len(y) /\ x = SubSeq(y, 1, Len(x))
  BY StartIsCut
<1> QED BY <1>1, LenProperties DEF Output!StartOf

\* Until the output is open, a step refuses or goes on, the file unchanged, or
\* opens and empties it.
LEMMA FirstSteps ==
  ASSUME SInv, pc \in Early, [Next]_vars
  PROVE  /\ pc' \in Early \cup Opened \cup Stopped
         /\ pc' \in Early => disk' = disk
         /\ pc' \in Stopped => disk' = disk /\ ret' \in {ret, -1}
         /\ pc' \in Opened => disk' = << >> /\ ret' = ret /\ pc = "open_output"
<1>1. "output" \notin held
  BY DEF SInv, IInv, Holdings, Early
<1>2. CASE OpenInput \/ OpenOutput
  BY <1>1, <1>2 DEF OpenInput, OpenOutput, Exit, Early, Opened, Running, Stopped
<1>3. CASE \/ WriteSize \/ WriteSalt \/ WriteIv \/ Abort \/ AllocCiphertext \/ AllocBuffer
           \/ ReadChunk \/ FillPending \/ EncryptWhole \/ SavePending \/ EncryptFinal
           \/ WriteMac \/ Finish
  BY <1>3
  DEF WriteSize, WriteSalt, WriteIv, Abort, AllocCiphertext, AllocBuffer, ReadChunk, FillPending,
      EncryptWhole, SavePending, EncryptFinal, WriteMac, Finish, Early
<1>4. CASE Flush
  BY <1>1, <1>4 DEF Flush
<1>5. CASE Crash \/ ChangeInput \/ Over \/ UNCHANGED vars
  BY <1>5 DEF Crash, ChangeInput, Over, vars, files, Early, Opened, Running, Stopped
<1> QED BY <1>2, <1>3, <1>4, <1>5 DEF Next, Program

LEMMA OverStays ==
  ASSUME pc \in Stopped, [Next]_vars
  PROVE  UNCHANGED << pc, ret, disk, plain >>
BY DEF Stopped, Running, Next, Program, OpenInput, OpenOutput, WriteSize, WriteSalt, WriteIv,
       Abort, AllocCiphertext, AllocBuffer, ReadChunk, FillPending, EncryptWhole, SavePending,
       EncryptFinal, WriteMac, Finish, Flush, Crash, ChangeInput, Over, vars, files

\* When no write and no allocation fails, the call ends as an abort or a crash,
\* or after everything is written.
LEMMA LastSteps ==
  ASSUME NothingIgnored, pc \in Opened, [Next]_vars
  PROVE  /\ pc' \in Opened \cup Stopped
         /\ pc' \in Stopped => /\ UNCHANGED << output, header, file_size, taken >>
                               /\ ret' = 0 => pc = "finish" \/ ret = 0
<1>1. CASE WriteSize \/ WriteSalt \/ WriteIv
  BY <1>1
  DEF WriteSize, WriteSalt, WriteIv, WriteField, ShortWrite, NothingIgnored, Opened, Running, Stopped
<1>2. CASE AllocCiphertext \/ AllocBuffer
  BY <1>2 DEF AllocCiphertext, AllocBuffer, Allocate, NothingIgnored, Opened, Running, Stopped
<1>3. CASE FillPending \/ EncryptWhole \/ EncryptFinal
  <2>1. \A block, next, over, released : EmitBlock(block, next, over, released) => pc' = next
    BY DEF EmitBlock, ShortWrite, NothingIgnored
  <2>2. pc' \in {"whole", "mac"}
    BY <1>3, <2>1 DEF FillPending, EncryptWhole, EncryptFinal
  <2> QED BY <2>2 DEF Opened, Running, Stopped
<1>4. CASE ReadChunk \/ SavePending \/ WriteMac
  BY <1>4 DEF ReadChunk, SavePending, WriteMac, Opened, Running, Stopped
<1>5. CASE Finish \/ Abort
  BY <1>5 DEF Finish, Abort, Exit, files, stream, Stopped
<1>6. CASE OpenInput \/ OpenOutput
  BY <1>6 DEF OpenInput, OpenOutput, Opened
<1>7. CASE Flush \/ Crash \/ ChangeInput \/ Over \/ UNCHANGED vars
  BY <1>7 DEF Flush, Crash, ChangeInput, Over, vars, files, stream, Opened, Running, Stopped
<1> QED BY <1>1, <1>2, <1>3, <1>4, <1>5, <1>6, <1>7 DEF Next, Program

\* Once the output is open the file keeps what it has.
LEMMA DiskGrows ==
  ASSUME TypeOK, TypeOK', DiskStart, DiskStart', pc \in Opened, [Next]_vars
  PROVE  StartOf(disk, disk')
<1>1. /\ disk \in Seq(Byte) /\ disk' \in Seq(Byte) /\ output \in Seq(Byte) /\ output' \in Seq(Byte)
      /\ Len(disk) \in Nat /\ Len(disk') \in Nat /\ Len(output') \in Nat /\ Len(output) \in Nat
  BY LenProperties DEF TypeOK
<1>2. StartOf(output, output')
  BY OutputGrows
<1>3. StartOf(disk, output') /\ Len(disk) <= Len(output')
  <2>1. StartOf(disk, output')
    BY <1>1, <1>2, StartTransitive DEF DiskStart
  <2> QED BY <2>1 DEF StartOf
<1> DEFINE Longer == \E n \in 0..Len(output') : Len(disk) <= n /\ disk' = SubSeq(output', 1, n)
<1>4. ASSUME NEW code, NEW released, Exit(code, released) PROVE disk' = disk \/ Longer
  <2>1. CASE CloseOutput
    <3>1. PICK n \in (IF "close" \in Env THEN Len(disk) ELSE Len(output'))..Len(output') :
            disk' = SubSeq(output', 1, n)
      BY <2>1 DEF CloseOutput
    <3>2. n \in 0..Len(output') /\ Len(disk) <= n
      BY <1>1, <1>3, <3>1
    <3> QED BY <3>1, <3>2
  <2> QED BY <1>4, <2>1 DEF Exit
<1>5. disk' = disk \/ Longer
  <2>1. CASE OpenInput \/ OpenOutput
    BY <2>1 DEF OpenInput, OpenOutput, Opened
  <2>2. CASE WriteSize \/ WriteSalt \/ WriteIv
    BY <1>4, <2>2 DEF WriteSize, WriteSalt, WriteIv, WriteField
  <2>3. CASE AllocCiphertext \/ AllocBuffer
    BY <1>4, <2>3 DEF AllocCiphertext, AllocBuffer, Allocate
  <2>4. CASE FillPending \/ EncryptWhole \/ EncryptFinal
    BY <1>4, <2>4 DEF FillPending, EncryptWhole, EncryptFinal, EmitBlock
  <2>5. CASE \/ Abort \/ ReadChunk \/ SavePending \/ WriteMac \/ Crash \/ ChangeInput
             \/ Over \/ UNCHANGED vars
    BY <2>5 DEF Abort, ReadChunk, SavePending, WriteMac, Crash, ChangeInput, Over, vars, files
  <2>6. CASE Finish
    BY <1>4, <2>6 DEF Finish
  <2>7. CASE Flush
    <3>1. PICK n \in (Len(disk) + 1)..Len(output) : disk' = SubSeq(output, 1, n)
      BY <2>7 DEF Flush
    <3>2. n \in 0..Len(output') /\ Len(disk) <= n /\ output' = output
      BY <1>1, <2>7, <3>1 DEF Flush
    <3> QED BY <3>1, <3>2
  <2> QED BY <2>1, <2>2, <2>3, <2>4, <2>5, <2>6, <2>7 DEF Next, Program
<1>6. CASE disk' = disk
  BY <1>1, <1>6, StartReflexive
<1>7. CASE Longer
  <2>1. PICK n \in 0..Len(output') : Len(disk) <= n /\ disk' = SubSeq(output', 1, n)
    BY <1>7
  <2>2. Len(disk') = n /\ StartOf(disk', output')
    BY <1>1, <2>1, PrefixType, StartCut
  <2> QED BY <1>1, <1>3, <2>1, <2>2, StartsOfOne
<1> QED BY <1>5, <1>6, <1>7

\* Once the output is open, the file goes towards the one that is promised.
LEMMA OpenedSteps ==
  ASSUME Undisturbed, SealedInput, SealedInput', pc \in Opened, [Next]_vars
  PROVE  /\ Output!Grown
         /\ pc' \in Stopped /\ ret' = 0 => disk' \in Outputs(plain)
<1>1. NothingIgnored /\ plain' = plain
  BY PlainKept DEF Undisturbed, NothingIgnored
<1>2. /\ SInv /\ TypeOK /\ TypeOK' /\ DiskStart /\ DiskStart' /\ plain # << >>
      /\ file_size = Len(plain) /\ ret = NoResult
      /\ disk \in Seq(Byte) /\ disk' \in Seq(Byte) /\ output' \in Seq(Byte)
  BY DEF SealedInput, SInv, IInv, TypeOK, Measured, NothingReturned, Opened
<1>3. Outputs(plain) = {Promised(s, v) : s \in Salts, v \in Ivs}
  BY <1>2 DEF Outputs, Promised
<1>4. pc' \in Opened \cup Stopped
  BY <1>1, LastSteps
<1>5. PICK s \in Salts, v \in Ivs : StartOf(output', Promised(s, v))
  <2>1. CASE pc' \in Opened
    <3>1. \E s \in Salts, v \in Ivs : StartOf(output', Promised(s, v)')
      BY <2>1 DEF SealedInput, Towards
    <3>2. \A s, v : Promised(s, v)' = Promised(s, v)
      BY <1>1 DEF Promised
    <3> QED BY <3>1, <3>2
  <2>2. CASE pc' \in Stopped
    <3>1. output' = output
      BY <1>1, <2>2, LastSteps
    <3> QED BY <3>1 DEF SealedInput, Towards
  <2> QED BY <1>4, <2>1, <2>2
<1>6. Promised(s, v) \in Seq(Byte)
  BY <1>2, PromisedParts
<1>7. StartOf(disk, disk') /\ StartOf(disk', Promised(s, v))
  <2>1. StartOf(disk', output')
    BY <1>2 DEF DiskStart
  <2> QED BY <1>2, <1>5, <1>6, <2>1, DiskGrows, StartTransitive
<1>8. Output!Grown
  <2>1. Output!StartOf(disk, disk') /\ Output!StartOf(disk', Promised(s, v))
    BY <1>2, <1>6, <1>7, StartSeen
  <2>2. Promised(s, v) \in Outputs(plain)
    BY <1>3
  <2> QED BY <2>1, <2>2 DEF Output!Grown
<1>9. ASSUME pc' \in Stopped, ret' = 0 PROVE disk' \in Outputs(plain)
  <2>1. /\ UNCHANGED << header, file_size, taken >> /\ pc = "finish"
    BY <1>1, <1>2, <1>9, LastSteps DEF NoResult
  <2>2. salt \in Salts /\ HeaderIv \in Ivs
    BY <1>2, <2>1 DEF SInv, Sealing, HeaderFields, Closing
  <2>3. disk' = SealedSoFar' /\ taken' = plain'
    BY <1>9 DEF SealedInput, SuccessMeansSealed
  <2>4. SealedSoFar' = Promised(salt, HeaderIv)
    BY <1>1, <1>2, <2>1, <2>3 DEF SealedSoFar, Promised, HeaderIv, salt
  <2> QED BY <1>3, <2>2, <2>3, <2>4
<1> QED BY <1>8, <1>9

\* Each step is one of OutputFile, or none.
LEMMA StepSeen ==
  ASSUME Salts # {}, Ivs # {}, Undisturbed, SealedInput, SealedInput', [Next]_vars
  PROVE  [Output!Next]_<< plain, Phase, disk, ret >>
<1>1. plain' = plain
  BY PlainKept
<1>2. /\ ret \in {NoResult, 0, -1} /\ ret' \in {NoResult, 0, -1}
      /\ pc \in Running \cup Stopped
  BY DEF SealedInput, SInv, IInv, TypeOK
<1>3. CASE pc \in Stopped
  <2>1. UNCHANGED << pc, ret, disk, plain >>
    BY <1>3, OverStays
  <2> QED BY <2>1 DEF Phase
<1>4. CASE pc \in Early
  <2>1. Phase = "before" /\ ret = NoResult
    BY <1>4, PhaseOfPlace DEF SealedInput, NothingReturned, Early, Running
  <2>2. /\ pc' \in Early \cup Opened \cup Stopped
        /\ pc' \in Early => disk' = disk
        /\ pc' \in Stopped => disk' = disk /\ ret' \in {ret, -1}
        /\ pc' \in Opened => disk' = << >> /\ ret' = ret /\ pc = "open_output"
    BY <1>4, FirstSteps DEF SealedInput
  <2>3. CASE pc' \in Early
    <3>1. Phase' = "before" /\ ret' = NoResult
      BY <2>3 DEF Phase, SealedInput, NothingReturned, Early, Running, Stopped
    <3> QED BY <1>1, <2>1, <2>2, <2>3, <3>1
  <2>4. CASE pc' \in Stopped
    <3>1. Phase' = "over"
      BY <2>4 DEF Phase, Running, Stopped
    <3>2. Output!Refuse
      BY <1>1, <2>1, <2>2, <2>4, <3>1 DEF Output!Refuse
    <3> QED BY <3>2 DEF Output!Next
  <2>5. CASE pc' \in Opened
    <3>1. Phase' = "writing"
      BY <2>5 DEF Phase, Opened, Running, Stopped
    <3>2. plain # << >>
      BY <2>2, <2>5 DEF SealedInput, Measured, Running
    <3>3. Outputs(plain) # {}
      <4>1. PICK s \in Salts, v \in Ivs : TRUE
        OBVIOUS
      <4>2. Sealed(plain, Len(plain), Master, s, v) \in Outputs(plain)
        BY <3>2 DEF Outputs
      <4> QED BY <4>2
    <3>4. Output!Empty
      BY <1>1, <2>1, <2>2, <2>5, <3>1, <3>3 DEF Output!Empty
    <3> QED BY <3>4 DEF Output!Next
  <2> QED BY <2>2, <2>3, <2>4, <2>5
<1>5. CASE pc \in Opened
  <2>1. Phase = "writing" /\ ret = NoResult
    BY <1>5, PhaseOfPlace DEF SealedInput, NothingReturned, Opened
  <2>2. /\ Output!Grown
        /\ pc' \in Stopped /\ ret' = 0 => disk' \in Outputs(plain)
    BY <1>5, OpenedSteps
  <2>3. pc' \in Opened \cup Stopped
    BY <1>5, LastSteps DEF Undisturbed, NothingIgnored
  <2>4. CASE pc' \in Opened
    <3>1. Phase' = "writing" /\ ret' = NoResult
      BY <2>4 DEF Phase, SealedInput, NothingReturned, Opened, Running, Stopped
    <3>2. CASE disk' = disk
      BY <1>1, <2>1, <3>1, <3>2
    <3>3. CASE disk' # disk
      <4>1. Output!Write
        BY <1>1, <2>1, <2>2, <3>1, <3>3 DEF Output!Write
      <4> QED BY <4>1 DEF Output!Next
    <3> QED BY <3>2, <3>3
  <2>5. CASE pc' \in Stopped
    <3>1. Phase' = "over"
      BY <2>5 DEF Phase, Running, Stopped
    <3>2. CASE ret' = 0
      <4>1. Output!Complete
        BY <1>1, <2>1, <2>2, <2>5, <3>1, <3>2 DEF Output!Complete
      <4> QED BY <4>1 DEF Output!Next
    <3>3. CASE ret' # 0
      <4>1. Output!GiveUp
        BY <1>1, <1>2, <2>1, <2>2, <3>1, <3>3 DEF Output!GiveUp
      <4> QED BY <4>1 DEF Output!Next
    <3> QED BY <3>2, <3>3
  <2> QED BY <2>3, <2>4, <2>5
<1> QED BY <1>2, <1>3, <1>4, <1>5 DEF Early, Opened

\* cipher_encrypt_file (cipher.c:70-253) keeps OutputFile's promise: an empty input
\* leaves the file at output_path alone; otherwise that is emptied, once, and grows
\* from start to start of one sealed file of the whole input, however fread cuts it
\* and whenever stdio passes on what it has buffered. After an abort or a crash it
\* stays a start of such a file, and is complete when 0 is returned. There must be
\* a salt and an initialisation vector to be had, and no failure that goes
\* unreported.
THEOREM EncryptionKeepsPromise ==
  ASSUME Salts # {}, Ivs # {}, SameFile = FALSE,
         Env \cap {"write", "alloc", "close", "read", "grow", "shrink"} = {}
  PROVE  Spec => ImplementsOutputFile
<1>0. /\ Undisturbed /\ NothingIgnored
      /\ SameFile = FALSE /\ Env \cap {"read", "grow", "shrink"} = {}
  BY DEF Undisturbed, NothingIgnored
<1>1. Init => Output!Init /\ NothingReturned /\ Measured
  <2> SUFFICES ASSUME Init PROVE Output!Init /\ NothingReturned /\ Measured
    OBVIOUS
  <2>1. pc = "open_input" /\ ret = NoResult
    BY DEF Init
  <2>2. Output!Init
    BY <2>1 DEF Output!Init, Phase, Running, Stopped
  <2> QED BY <2>1, <2>2 DEF NothingReturned, Measured
<1>2. NothingReturned /\ [Next]_vars => NothingReturned'
  BY StepReturnsNothing
<1>3. SInv /\ Reading /\ Measured /\ [Next]_vars => Measured'
  BY MeasuredStep
<1>4. SInv /\ Reading /\ Measured => Towards
  BY <1>0, WrittenIsPromised
<1>5. Spec => [](SInv /\ Reading /\ SuccessMeansSealed)
  BY AllRead
<1>6. (Init => DiskStart) /\ (SInv /\ SInv' /\ DiskStart /\ [Next]_vars => DiskStart')
  BY InitDiskStart, DiskStartStep DEF SInv, IInv
<1>7. Spec => []SealedInput
  BY <1>1, <1>2, <1>3, <1>4, <1>5, <1>6, PTL DEF Spec, SealedInput
<1>8. SealedInput /\ SealedInput' /\ [Next]_vars => [Output!Next]_<< plain, Phase, disk, ret >>
  BY <1>0, StepSeen
<1> QED BY <1>1, <1>7, <1>8, PTL DEF Spec, Output!Spec, ImplementsOutputFile

-----------------------------------------------------------------------------
(* The loop runs out.                                                      *)

LEMMA StepsLeftType == IInv => StepsLeft \in Nat /\ (pc \in Running => StepsLeft > 0)
<1> SUFFICES ASSUME IInv
             PROVE  StepsLeft \in Nat /\ (pc \in Running => StepsLeft > 0)
  OBVIOUS
<1>1. /\ Len(source) \in Nat /\ Len(taken) \in Nat /\ Len(chunk) \in Nat /\ processed \in Nat
      /\ pc \in Running \cup Stopped
  BY LenProperties DEF IInv, TypeOK
<1>2. Unread \in Nat
  BY <1>1 DEF Unread
<1>3. CASE pc \in {"open_input", "open_output", "size", "salt", "iv"}
  BY <1>2, <1>3 DEF StepsLeft, Stopped
<1>4. CASE pc \in {"alloc_data", "alloc_buffer", "read"}
  BY <1>2, <1>4 DEF StepsLeft, Stopped
<1>5. CASE pc = "fill"
  BY <1>1, <1>2, <1>5 DEF StepsLeft, Stopped
<1>6. CASE pc = "whole"
  <2>1. processed <= Len(chunk)
    BY <1>6 DEF IInv, Account
  <2> QED BY <1>1, <1>2, <1>6, <2>1 DEF StepsLeft, Stopped
<1>7. CASE pc \in {"final", "mac", "finish", "done", "aborted", "crashed"}
  BY <1>7 DEF StepsLeft, Running, Stopped
<1> QED BY <1>1, <1>3, <1>4, <1>5, <1>6, <1>7 DEF Running, Stopped

\* The steps that end the call.
LEMMA NoStepsLeft ==
  ASSUME IInv, pc \in Running, pc' \in Stopped
  PROVE  StepsLeft' < StepsLeft
<1>1. StepsLeft' = 0
  BY DEF StepsLeft, Stopped
<1> QED BY <1>1, StepsLeftType

LEMMA ExitEnds ==
  ASSUME NEW code, NEW released, Exit(code, released)
  PROVE  pc' \in Stopped
BY DEF Exit, Stopped

\* Up to the loop.
LEMMA StartingStepsCount ==
  ASSUME SameFile = FALSE, IInv,
         \/ OpenInput \/ OpenOutput \/ WriteSize \/ WriteSalt \/ WriteIv \/ Abort
         \/ AllocCiphertext \/ AllocBuffer
  PROVE  StepsLeft' < StepsLeft
<1>1. source' = source
  BY OtherFileKept DEF Program
<1>2. UNCHANGED taken
  BY DEF OpenInput, OpenOutput, WriteSize, WriteSalt, WriteIv, Abort, AllocCiphertext,
         AllocBuffer, Allocate, stream
<1>3. Unread' = Unread
  BY <1>1, <1>2 DEF Unread
<1>4. Unread \in Nat
  BY LenProperties DEF IInv, TypeOK, Unread
<1>5. \/ pc \in Running /\ pc' \in Stopped
      \/ << pc, pc' >> \in {<< "open_input", "open_output" >>, << "open_output", "size" >>,
                            << "size", "salt" >>, << "salt", "iv" >>, << "iv", "alloc_data" >>,
                            << "alloc_data", "alloc_buffer" >>, << "alloc_buffer", "read" >>}
  <2>1. CASE OpenInput \/ OpenOutput
    BY <2>1, ExitEnds DEF OpenInput, OpenOutput, Running
  <2>2. CASE WriteSize \/ WriteSalt \/ WriteIv
    BY <2>2, ExitEnds DEF WriteSize, WriteSalt, WriteIv, WriteField, Running
  <2>3. CASE Abort \/ AllocCiphertext \/ AllocBuffer
    BY <2>3, ExitEnds DEF Abort, AllocCiphertext, AllocBuffer, Allocate, Running, Stopped
  <2> QED BY <2>1, <2>2, <2>3
<1>6. CASE << pc, pc' >> \in {<< "open_input", "open_output" >>, << "open_output", "size" >>,
                              << "size", "salt" >>, << "salt", "iv" >>}
  BY <1>3, <1>4, <1>6 DEF StepsLeft, Stopped
<1>7. CASE << pc, pc' >> \in {<< "iv", "alloc_data" >>, << "alloc_data", "alloc_buffer" >>,
                              << "alloc_buffer", "read" >>}
  BY <1>3, <1>4, <1>7 DEF StepsLeft, Stopped
<1> QED BY <1>5, <1>6, <1>7, NoStepsLeft

\* A read that does not end the loop brings a byte at least.
LEMMA ReadChunkCounts ==
  ASSUME SameFile = FALSE, IInv, ReadChunk
  PROVE  StepsLeft' < StepsLeft
<1> DEFINE left == IF total_read < Len(source) THEN Len(source) - total_read ELSE 0
           want == Lesser(STREAM_CHUNK, left)
<1>1. Len(source) \in Nat /\ total_read \in Nat /\ source \in Seq(Byte) /\ taken \in Seq(Byte)
  BY LenProperties DEF IInv, TypeOK
<1>2. want \in Nat /\ want <= left /\ left \in Nat
  BY <1>1, SizesPositive DEF Lesser
<1>3. PICK n \in (IF "read" \in Env THEN 0 ELSE want)..want :
        \/ pc' = "final"
        \/ /\ n # 0 /\ pc' \in {"fill", "whole"} /\ processed' = 0
           /\ chunk' = Slice(source, total_read, n) /\ taken' = taken \o chunk'
  BY DEF ReadChunk
<1>4. n \in Nat /\ n <= left
  BY <1>2, <1>3
<1>5. Unread = left
  BY DEF Unread
<1>6. StepsLeft = 4 * Unread + 4
  BY DEF ReadChunk, StepsLeft, Stopped
<1>7. CASE pc' = "final"
  <2>1. StepsLeft' = 3
    BY <1>7 DEF StepsLeft, Stopped
  <2> QED BY <1>2, <1>5, <1>6, <2>1
<1>8. CASE /\ n # 0 /\ pc' \in {"fill", "whole"} /\ processed' = 0
           /\ chunk' = Slice(source, total_read, n) /\ taken' = taken \o chunk'
  <2>1. total_read + n <= Len(source)
    BY <1>1, <1>4, <1>8
  <2>2. chunk' \in Seq(Byte) /\ Len(chunk') = n
    BY <1>1, <1>4, <1>8, <2>1, SliceType
  <2>3. total_read' = total_read + n
    BY <1>1, <1>8, <2>2, ConcatType
  <2>4. source' = source
    BY OtherFileKept DEF Program
  <2>5. Unread' = left - n
    BY <1>1, <1>4, <2>1, <2>3, <2>4 DEF Unread
  <2>6. CASE pc' = "fill"
    <3>1. StepsLeft' = 4 * (left - n) + n + 6
      BY <2>2, <2>5, <2>6 DEF StepsLeft, Stopped
    <3> QED BY <1>2, <1>4, <1>5, <1>6, <1>8, <3>1
  <2>7. CASE pc' = "whole"
    <3>1. StepsLeft' = 4 * (left - n) + (n - 0) + 5
      BY <1>8, <2>2, <2>5, <2>7 DEF StepsLeft, Stopped
    <3> QED BY <1>2, <1>4, <1>5, <1>6, <1>8, <3>1
  <2> QED BY <1>8, <2>6, <2>7
<1> QED BY <1>3, <1>7, <1>8

\* Where the call goes on once a block is written.
LEMMA EmitGoesOn ==
  ASSUME NEW block, NEW next, NEW overwritten, NEW released,
         EmitBlock(block, next, overwritten, released)
  PROVE  pc' = next \/ pc' \in Stopped
BY ExitEnds DEF EmitBlock

LEMMA LoopStepsCount ==
  ASSUME SameFile = FALSE, IInv,
         FillPending \/ EncryptWhole \/ SavePending \/ EncryptFinal \/ WriteMac \/ Finish
  PROVE  StepsLeft' < StepsLeft
<1>1. UNCHANGED << source, taken >>
  BY OtherFileKept
  DEF Program, FillPending, EncryptWhole, SavePending, EncryptFinal, WriteMac, Finish, stream
<1>2. Unread' = Unread
  BY <1>1 DEF Unread
<1>3. /\ Unread \in Nat /\ Len(chunk) \in Nat /\ processed \in Nat /\ Len(pending) \in Nat
      /\ BLOCK_SIZE \in Nat \ {0}
  BY LenProperties, SizesPositive DEF IInv, TypeOK, Unread
<1>4. CASE FillPending
  <2> DEFINE to_copy == Lesser(BLOCK_SIZE - Len(pending), Len(chunk))
  <2>1. /\ pc = "fill" /\ pc \in Running /\ processed' = to_copy /\ chunk' = chunk
        /\ pc' = "whole" \/ pc' \in Stopped
    BY <1>4, EmitGoesOn DEF FillPending, Running
  <2>2. to_copy \in Nat
    <3>1. Len(pending) < BLOCK_SIZE
      BY DEF IInv, Account
    <3> QED BY <1>3, <3>1 DEF Lesser
  <2> HIDE DEF to_copy
  <2>3. CASE pc' = "whole"
    <3>1. StepsLeft = 4 * Unread + Len(chunk) + 6
      BY <2>1 DEF StepsLeft, Stopped
    <3>2. StepsLeft' = 4 * Unread + (Len(chunk) - to_copy) + 5
      BY <1>2, <2>1, <2>3 DEF StepsLeft, Stopped
    <3> QED BY <1>3, <2>2, <3>1, <3>2
  <2> QED BY <2>1, <2>3, NoStepsLeft
<1>5. CASE EncryptWhole \/ SavePending
  <2>1. pc = "whole" /\ pc \in Running /\ chunk' = chunk /\ processed <= Len(chunk)
    BY <1>5 DEF EncryptWhole, SavePending, Running, IInv, Account
  <2>2. StepsLeft = 4 * Unread + (Len(chunk) - processed) + 5
    BY <2>1 DEF StepsLeft, Stopped
  <2>3. \/ pc' \in Stopped
        \/ pc' = "whole" /\ processed' = processed + BLOCK_SIZE
        \/ pc' = "read"
    BY <1>5, EmitGoesOn DEF EncryptWhole, SavePending
  <2>4. CASE pc' = "whole" /\ processed' = processed + BLOCK_SIZE
    <3>1. StepsLeft' = 4 * Unread + (Len(chunk) - (processed + BLOCK_SIZE)) + 5
      BY <1>2, <2>1, <2>4 DEF StepsLeft, Stopped
    <3> QED BY <1>3, <2>1, <2>2, <3>1
  <2>5. CASE pc' = "read"
    <3>1. StepsLeft' = 4 * Unread + 4
      BY <1>2, <2>5 DEF StepsLeft, Stopped
    <3> QED BY <1>3, <2>1, <2>2, <3>1
  <2> QED BY <2>1, <2>3, <2>4, <2>5, NoStepsLeft
<1>6. CASE EncryptFinal
  <2>1. pc = "final" /\ pc \in Running /\ (pc' = "mac" \/ pc' \in Stopped)
    BY <1>6, EmitGoesOn DEF EncryptFinal, Running
  <2>2. CASE pc' = "mac"
    BY <2>1, <2>2 DEF StepsLeft, Stopped
  <2> QED BY <2>1, <2>2, NoStepsLeft
<1>7. CASE WriteMac
  BY <1>7 DEF WriteMac, StepsLeft, Stopped
<1>8. CASE Finish
  <2>1. pc \in Running /\ pc' \in Stopped
    BY <1>8, ExitEnds DEF Finish, Running
  <2> QED BY <2>1, NoStepsLeft
<1> QED BY <1>4, <1>5, <1>6, <1>7, <1>8

LEMMA FewerStepsLeft ==
  ASSUME SameFile = FALSE, IInv, Program
  PROVE  StepsLeft' < StepsLeft
BY StartingStepsCount, ReadChunkCounts, LoopStepsCount DEF Program

\* Of what happens to the files only a longer input gives the call more to do.
LEMMA StepsGained ==
  ASSUME SameFile = FALSE, IInv, [Next]_vars, ~ Program
  PROVE  StepsLeft' <= StepsLeft \/ Len(source') > Len(source)
<1>1. /\ StepsLeft \in Nat /\ Len(source) \in Nat /\ source \in Seq(Byte) /\ Len(taken) \in Nat
      /\ Len(chunk) \in Nat /\ processed \in Nat /\ pc \in Running \cup Stopped
  BY StepsLeftType, LenProperties DEF IInv, TypeOK
<1>2. CASE Crash
  <2>1. StepsLeft' = 0
    BY <1>2 DEF Crash, StepsLeft, Stopped
  <2> QED BY <1>1, <2>1
<1>3. CASE Flush \/ Over \/ UNCHANGED vars
  <2>1. UNCHANGED << pc, source, taken, chunk, processed >>
    BY <1>3, OtherFileKept DEF Flush, Over, vars, files, stream
  <2>2. StepsLeft' = StepsLeft
    BY <2>1 DEF StepsLeft, Unread
  <2> QED BY <1>1, <2>2
<1>4. CASE ChangeInput
  <2>1. UNCHANGED << pc, taken, chunk, processed >>
    BY <1>4 DEF ChangeInput, stream
  <2>2. CASE source' = Append(source, 0)
    <3>1. Len(source') = Len(source) + 1
      BY <1>1, <2>2, ZeroIsByte
    <3> QED BY <1>1, <3>1
  <2>3. CASE Len(source) > 0 /\ source' = SubSeq(source, 1, Len(source) - 1)
    <3>1. Len(source) - 1 \in 0..Len(source)
      BY <1>1, <2>3
    <3>2. Len(source') = Len(source) - 1
      BY <1>1, <2>3, <3>1, PrefixType
    <3>3. Unread' \in Nat /\ Unread \in Nat /\ Unread' <= Unread
      BY <1>1, <2>1, <3>2 DEF Unread
    <3>4. CASE pc \in {"open_input", "open_output", "size"}
      BY <2>1, <3>3, <3>4 DEF StepsLeft, Stopped
    <3>5. CASE pc \in {"salt", "iv"}
      BY <2>1, <3>3, <3>5 DEF StepsLeft, Stopped
    <3>6. CASE pc \in {"alloc_data", "alloc_buffer", "read"}
      BY <2>1, <3>3, <3>6 DEF StepsLeft, Stopped
    <3>7. CASE pc = "fill"
      <4>1. /\ StepsLeft = 4 * Unread + Len(chunk) + 6
            /\ StepsLeft' = 4 * Unread' + Len(chunk) + 6
        BY <2>1, <3>7 DEF StepsLeft, Stopped
      <4> QED BY <1>1, <3>3, <4>1
    <3>8. CASE pc = "whole"
      <4>1. /\ StepsLeft = 4 * Unread + (Len(chunk) - processed) + 5
            /\ StepsLeft' = 4 * Unread' + (Len(chunk) - processed) + 5
        BY <2>1, <3>8 DEF StepsLeft, Stopped
      <4> QED BY <1>1, <3>3, <4>1
    <3>9. CASE pc \in {"final", "mac", "finish", "done", "aborted", "crashed"}
      BY <2>1, <3>9 DEF StepsLeft, Stopped
    <3> QED BY <1>1, <3>4, <3>5, <3>6, <3>7, <3>8, <3>9 DEF Running, Stopped
  <2> QED BY <1>4, <2>2, <2>3 DEF ChangeInput
<1> QED BY <1>2, <1>3, <1>4 DEF Next

\* The loop of cipher_encrypt_file (cipher.c:134) runs out, whatever fails, as long as the
\* call does not read what it writes itself: every step of the program brings it closer to
\* its end, and only an input that another program makes longer takes it back.
THEOREM StepsRunOut ==
  ASSUME SameFile = FALSE
  PROVE  Spec => CountsDown
<1> DEFINE counts == /\ StepsLeft \in Nat
                     /\ Program => StepsLeft' < StepsLeft
                     /\ StepsLeft' > StepsLeft => Len(source') > Len(source)
<1>1. IInv /\ IInv' /\ [Next]_vars => counts
  <2> SUFFICES ASSUME IInv, IInv', [Next]_vars PROVE counts
    OBVIOUS
  <2>1. (IInv => StepsLeft \in Nat)'
    BY StepsLeftType, PTL
  <2>2. StepsLeft \in Nat /\ StepsLeft' \in Nat
    BY <2>1, StepsLeftType
  <2>3. CASE Program
    <3>1. StepsLeft' < StepsLeft
      BY <2>3, FewerStepsLeft
    <3> QED BY <2>2, <3>1
  <2>4. CASE ~ Program
    <3>1. StepsLeft' <= StepsLeft \/ Len(source') > Len(source)
      BY <2>4, StepsGained
    <3> QED BY <2>2, <2>4, <3>1
  <2> QED BY <2>3, <2>4
<1>2. IInv /\ IInv' /\ [Next]_vars => [counts]_vars
  BY <1>1
<1> QED BY InitInvariant, NextInvariant, <1>2, PTL DEF Spec, CountsDown

=============================================================================
