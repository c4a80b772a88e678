----------------------------- MODULE MCDecrypt -----------------------------
(***************************************************************************)
(* Instances of DecryptFile for TLC.                                       *)
(***************************************************************************)
EXTENDS DecryptFile, ToyCrypto
LOCAL INSTANCE SequencesExt

MCSalt == << 2, 11 >>
MCIv   == [k \in 1..BLOCK_SIZE |-> (9 * k + 12) % 16]

SealedAs(plain, size, master) == Sealed(plain, size, master, MCSalt, MCIv)

Made(plain, size, master) ==
  [file |-> SealedAs(plain, size, master), plain |-> plain, size |-> size,
   genuine |-> master = Master]

Changed(made, content) == [made EXCEPT !.file = content, !.genuine = FALSE]

\* every plaintext over two values of up to five bytes; one that takes three
\* chunks of four and both digits of the size field
Genuine ==
  {Made(p, Len(p), Master) : p \in BoundedSeq({0, 9}, 5) \ {<< >>}}
    \cup {Made([k \in 1..18 |-> k % 7], 18, Master)}

\* The source was cut short, or grew within the capacity, while it was encrypted.
Resized ==
  {Made(p, n, Master) : p \in {<< >>, << 9 >>, << 0, 9, 3 >>}, n \in 3..5}
    \cup {Made(<< 4, 5, 6 >>, 2, Master), Made(<< 4, 5, 6, 7, 8 >>, 4, Master)}

\* A padding that fills the last block, one that does not, and two chunks
Samples == {Made(p, Len(p), Master) : p \in {<< 3, 9 >>, << 1, 2, 3 >>, << 1, 2, 3, 4, 5, 6, 7 >>}}

WrongKey == {Made(m.plain, m.size, 1 - Master) : m \in Samples}

Truncated == UNION {{Changed(m, SubSeq(m.file, 1, n)) : n \in 0..(Len(m.file) - 1)} : m \in Samples}

Corrupted ==
  UNION {{Changed(m, [m.file EXCEPT ![k] = (m.file[k] + d) % 16]) : k \in DOMAIN m.file, d \in {1, 8}}
         : m \in Samples}

Extended == {Changed(m, m.file \o << 0, 0 >>) : m \in Samples}

\* The block order of a ciphertext changed
Swapped ==
  {Changed(m, SubSeq(m.file, 1, HeaderSize) \o Slice(m.file, HeaderSize + BLOCK_SIZE, BLOCK_SIZE)
                \o Slice(m.file, HeaderSize, BLOCK_SIZE)
                \o SubSeq(m.file, HeaderSize + 2 * BLOCK_SIZE + 1, Len(m.file)))
   : m \in Samples}

Bad == WrongKey \cup Truncated \cup Corrupted \cup Extended \cup Swapped

AllFiles  == Genuine \cup Resized \cup Bad
\* One that opens, one with another key, one with a wrong byte
SomeFiles ==
  LET made == Made(<< 1, 2, 3 >>, 3, Master)
  IN  {made, Made(<< 5 >>, 1, 1 - Master), Changed(made, [made.file EXCEPT ![HeaderSize + 1] = (@ + 1) % 16])}

MCOldOutput == << 15, 15, 15 >>

Zeros == {[k \in 1..40 |-> 0]}

OrdinaryEnv == {"flush", "crash"}
FaultyEnv   == {"read", "shrink", "modify", "open", "alloc", "write", "close"}

\* The small MAC, too, fits no file of these that is not genuine.
ASSUME ToyMacUnforged == Unforged

=============================================================================
