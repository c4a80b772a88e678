------------------------------- MODULE MCAes -------------------------------
(***************************************************************************)
(* AesBlock at its real size: AES-256 with the tables of the source.       *)
(***************************************************************************)
EXTENDS AesBlock, AesTables, Sha256

MCByte == 0..255

GfTable == SubSeq([f \in 1..14 |-> Table(LAMBDA x : gf_mul_slow(x, f))], 1, 14)
TableTimes(f, x) == GfTable[f][x + 1]

Mix256(state, b) == hash_mix[state, b]

Sha == INSTANCE MerkleDamgard WITH
  ByteBase <- 256, HASH_BLOCK_SIZE <- 64, LENGTH_FIELD <- 8, FirstState <- InitialState, Mix <- Mix256,
  message <- << >>, digest <- << >>, open <- FALSE

Sha256Of(message) == DigestBytes(Sha!HashOf(message))

Mac == INSTANCE Hmac WITH HMAC_BLOCK_SIZE <- 64, IPAD <- 54, OPAD <- 92, Xor <- ByteXor, Hash <- Sha256Of

RealHmac(key, message) == Mac!hmac_compute(key, message)

\* FIPS 197, C.3
FipsKey    == [i \in 1..32 |-> i - 1]
FipsBlock  == [c \in Cells |-> 17 * c]
FipsCipher == << 142, 162, 183, 202, 81, 103, 69, 191, 234, 252, 73, 144, 75, 73, 96, 137 >>

\* a key of 32 bytes, a shorter one, and one that is cut
ShortKey == << 109, 121 >>

MCKeys == {FipsKey, ShortKey, [i \in 1..40 |-> (i * 7) % 256]}

MCIvs == {NoBlock, [c \in Cells |-> (c * 29 + 200) % 256]}

MCMessages ==
  {<< FipsBlock >>, << NoBlock, NoBlock >>,
   << [c \in Cells |-> 255 - c], FipsBlock, [c \in Cells |-> 255 - c] >>}

\* The ciphertext of the standard's example is the standard's.
KnownAnswer ==
  \A n \in 1..Len(sealed) :
    call = [key |-> FipsKey, iv |-> NoBlock, message |-> << FipsBlock >>] =>
      sealed[n] = [c \in Cells |-> FipsCipher[c + 1]]

\* A key that is too short is replaced by its HMAC (keygen.c:106). The bytes are
\* what the compiled keygen_expand gives: compression, padding, HMAC and the words
\* of the schedule agree with it at their real size.
ShortKeyStretched ==
  pc # "start" /\ call.key = ShortKey =>
    [k \in 1..32 |-> round_keys[(k - 1) \div 16][(k - 1) % 16]] =
      << 171, 93, 235, 129, 34, 185, 160, 164, 175, 232, 137, 15, 45, 218, 149, 132,
         117, 103, 13, 118, 173, 234, 139, 49, 160, 203, 32, 215, 14, 113, 133, 24 >>

=============================================================================
