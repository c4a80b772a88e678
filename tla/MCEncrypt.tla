----------------------------- MODULE MCEncrypt -----------------------------
(***************************************************************************)
(* Instances of EncryptFile for TLC.                                       *)
(***************************************************************************)
EXTENDS EncryptFile, ToyCrypto
LOCAL INSTANCE SequencesExt

\* one content of each length, for the runs that only depend on lengths: empty, less
\* than a block, whole blocks, less and more than a chunk of five, a second chunk
\* that only completes a block and one that starts another
OneOfEachLength == {[i \in 1..n |-> (3 * i) % 16] : n \in 0..7}

\* Every content over two byte values of up to six bytes
ShortInputs == BoundedSeq({0, 9}, 6)

\* and one content whose length needs both digits of the size field
MCInputs == ShortInputs \cup OneOfEachLength \cup {[i \in 1..18 |-> i % 7]}

\* less than a block of three; more than one, read in every cut into two to four
FewLengths == {<< 3 >>, << 3, 6, 9, 12 >>}

MCSalts == {<< 2, 11 >>}
OneIv   == {[i \in 1..BLOCK_SIZE |-> (9 * i + 12) % 16]}
MCIvs   == OneIv \cup {[i \in 1..BLOCK_SIZE |-> 3 * (i - 1)]}

OrdinaryEnv == {"open", "rng", "flush", "crash"}
CutEnv      == {"open", "read", "shrink", "grow"}
FaultyEnv   == {"open", "alloc", "read", "write", "close", "rng", "flush", "crash", "shrink"}

\* The small MAC, too, has no coincidences on these inputs.
ASSUME ToyMacDistinguishes == NoCoincidence

=============================================================================
