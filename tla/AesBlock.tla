------------------------------ MODULE AesBlock ------------------------------
(***************************************************************************)
(* The block cipher and its use in CBC mode (encrypt_decrypt.c,            *)
(* round_ops.c, sbox.c, and the block functions of cipher_ops.c), in two   *)
(* processes: one encodes a message, block by block and round by round,    *)
(* another decodes what the first has made. The tables of a process are    *)
(* zeros until they are built, and each process builds its own.            *)
(* S-box, field multiplication and key schedule are parameters, so that    *)
(* what is proved holds of any that obey the laws below.                   *)
(***************************************************************************)
EXTENDS Integers, Sequences

CONSTANTS
  Byte,           \* the values of a byte
  ROUNDS,         \* 14
  SBOX,           \* the forward S-box
  Bits(_),        \* the set of bits of a byte
  Xor(_, _),
  Times(_, _),    \* multiplication in GF(2^8)
  Expand(_),      \* keygen_expand
  Keys, Ivs,      \* keys, and first previous blocks
  Messages,       \* what is encoded, as sequences of blocks
  InPlace         \* whether a block is decrypted into the buffer it comes from

\* A block is four columns of four bytes, one column after the other.
Cells  == 0..15
Block  == [Cells -> Byte]
Factor == {2, 3, 9, 11, 13, 14}

Xor4(a, b, c, d) == Xor(Xor(Xor(a, b), c), d)

ASSUME AesConstants ==
  /\ 0 \in Byte
  /\ ROUNDS \in Nat \ {0}
  /\ Ivs \subseteq Block
  /\ Messages \subseteq Seq(Block)
  /\ \A k \in Keys : Expand(k) \in [0..ROUNDS -> Block]
  /\ InPlace \in BOOLEAN

ASSUME SboxInjective ==
  /\ SBOX \in [Byte -> Byte]
  /\ \A a, b \in Byte : SBOX[a] = SBOX[b] => a = b

ASSUME XorIsBitwise ==
  /\ Bits(0) = {}
  /\ \A a, b \in Byte : /\ Xor(a, b) \in Byte
                        /\ Bits(Xor(a, b)) = (Bits(a) \ Bits(b)) \cup (Bits(b) \ Bits(a))
                        /\ Bits(a) = Bits(b) => a = b

ASSUME TimesLinear ==
  \A f \in Factor : \A a, b \in Byte :
    Times(f, a) \in Byte /\ Times(f, Xor(a, b)) = Xor(Times(f, a), Times(f, b))

\* the product of the two MixColumns matrices is the identity
ASSUME MatricesInverse ==
  \A x \in Byte :
    /\ Xor4(Times(14, Times(2, x)), Times(11, x), Times(13, x), Times(9, Times(3, x))) = x
    /\ Xor4(Times(14, Times(3, x)), Times(11, Times(2, x)), Times(13, x), Times(9, x)) = 0
    /\ Xor4(Times(14, x), Times(11, Times(3, x)), Times(13, Times(2, x)), Times(9, x)) = 0
    /\ Xor4(Times(14, x), Times(11, x), Times(13, Times(3, x)), Times(9, Times(2, x))) = 0

VARIABLES
  pc, decoding,           \* which process runs, and where it is
  initialized,            \* INV_SBOX is built
  gf_tables_initialized,  \* the six multiplication tables are
  round_keys, prev,
  r, block,               \* the loop over the rounds, and the block it works on
  call,                   \* key, iv and message, the same for both processes
  sealed, opened,         \* the blocks encoded and decoded so far
  trace                   \* each encoded block before each of its rounds (history)

tables == << initialized, gf_tables_initialized >>
vars   == << pc, decoding, tables, round_keys, prev, r, block, call, sealed, opened, trace >>

NoBlock == [c \in Cells |-> 0]

-----------------------------------------------------------------------------
INVERSE == [y \in Byte |-> IF \E x \in Byte : SBOX[x] = y THEN CHOOSE x \in Byte : SBOX[x] = y ELSE 0]

INV_SBOX(x) == IF initialized THEN INVERSE[x] ELSE 0

\* gf_mul2[x], gf_mul3[x], ...: the tables hold zeros until they are built
gf_mul(f, x, built) == IF built THEN Times(f, x) ELSE 0

round_xor_with_key(b, key) == [c \in Cells |-> Xor(b[c], key[c])]
round_apply_sbox(b)        == [c \in Cells |-> SBOX[b[c]]]
round_apply_inv_sbox(b)    == [c \in Cells |-> INV_SBOX(b[c])]

\* cell c lies in row c % 4: from there, c % 4 columns to the right, and back
round_shift_rows(b)     == [c \in Cells |-> b[(c + 4 * (c % 4)) % 16]]
round_inv_shift_rows(b) == [c \in Cells |-> b[(c + 12 * (c % 4)) % 16]]

\* the cell k rows below cell c, in its column
Below(c, k) == (4 * (c \div 4)) + ((c + k) % 4)

round_mix(b, built) ==
  [c \in Cells |-> Xor4(gf_mul(2, b[c], built), gf_mul(3, b[Below(c, 1)], built),
                        b[Below(c, 2)], b[Below(c, 3)])]

round_inv_mix(b, built) ==
  [c \in Cells |-> Xor4(gf_mul(14, b[c], built), gf_mul(11, b[Below(c, 1)], built),
                        gf_mul(13, b[Below(c, 2)], built), gf_mul(9, b[Below(c, 3)], built))]

-----------------------------------------------------------------------------
Init ==
  /\ pc = "start"         /\ decoding = FALSE
  /\ initialized = FALSE  /\ gf_tables_initialized = FALSE
  /\ call \in [key : Keys, iv : Ivs, message : Messages]
  /\ round_keys = [k \in 0..ROUNDS |-> NoBlock]
  /\ prev = NoBlock       /\ r = 0      /\ block = NoBlock
  /\ sealed = << >>       /\ opened = << >>
  /\ trace = << >>

sbox_init == initialized' = TRUE

\* slip: round_inv_mix without its call of init_gf_tables
UseTablesToMix == gf_tables_initialized' = (gf_tables_initialized \/ ~ decoding)

\* init_gf_tables, called by both mix functions
UseTables == gf_tables_initialized' = TRUE

\* sbox_init, and the round keys and the first previous block of a call
Prepare ==
  /\ pc = "start"
  /\ sbox_init
  /\ round_keys' = Expand(call.key)
  /\ prev' = call.iv
  /\ pc' = "next"
  /\ UNCHANGED << decoding, gf_tables_initialized, r, block, call, sealed, opened, trace >>

\* the xor with the previous block, and the whitening of encrypt_block
BeginEncrypt ==
  /\ pc = "next" /\ ~ decoding
  /\ Len(sealed) < Len(call.message)
  /\ block' = round_xor_with_key(round_xor_with_key(call.message[Len(sealed) + 1], prev), round_keys[0])
  /\ r' = 1
  /\ trace' = Append(trace, [k \in {1} |-> block'])
  /\ pc' = "round"
  /\ UNCHANGED << decoding, tables, round_keys, prev, call, sealed, opened >>

\* slip: one round too many
FullRoundOneMore == r <= ROUNDS

\* the condition of the loop over the full rounds
FullRound == r < ROUNDS

EncryptRound ==
  /\ pc = "round" /\ ~ decoding
  /\ FullRound
  /\ UseTables
  /\ block' = round_xor_with_key(
                round_mix(round_shift_rows(round_apply_sbox(block)), gf_tables_initialized'),
                round_keys[r])
  /\ r' = r + 1
  /\ trace' = [trace EXCEPT ![Len(trace)] = [k \in 1..r' |-> IF k = r' THEN block' ELSE @[k]]]
  /\ UNCHANGED << pc, decoding, initialized, round_keys, prev, call, sealed, opened >>

\* slip: every block is chained to the iv
ChainForgotten == prev' = prev

\* what the next block is chained to: the block just encoded
ChainEncrypted == prev' = block'

\* the last round, without the mix; the block is the next one's previous block
EndEncrypt ==
  /\ pc = "round" /\ ~ decoding
  /\ ~ FullRound
  /\ block' = round_xor_with_key(round_shift_rows(round_apply_sbox(block)), round_keys[ROUNDS])
  /\ ChainEncrypted
  /\ sealed' = Append(sealed, block')
  /\ pc' = "next"
  /\ UNCHANGED << decoding, tables, round_keys, r, call, opened, trace >>

\* The process that encoded is gone; another one decodes, with tables of its own.
NewProcess ==
  /\ pc = "next" /\ ~ decoding
  /\ Len(sealed) = Len(call.message)
  /\ decoding' = TRUE
  /\ initialized' = FALSE
  /\ gf_tables_initialized' = FALSE
  /\ round_keys' = [k \in 0..ROUNDS |-> NoBlock]
  /\ prev' = NoBlock
  /\ r' = 0
  /\ block' = NoBlock
  /\ pc' = "start"
  /\ UNCHANGED << call, sealed, opened, trace >>

\* the last round of encrypt_block undone
BeginDecrypt ==
  /\ pc = "next" /\ decoding
  /\ Len(opened) < Len(sealed)
  /\ block' = round_apply_inv_sbox(round_inv_shift_rows(
                round_xor_with_key(sealed[Len(opened) + 1], round_keys[ROUNDS])))
  /\ r' = ROUNDS - 1
  /\ pc' = "round"
  /\ UNCHANGED << decoding, tables, round_keys, prev, call, sealed, opened, trace >>

DecryptRound ==
  /\ pc = "round" /\ decoding
  /\ r >= 1
  /\ UseTables
  /\ block' = round_apply_inv_sbox(round_inv_shift_rows(
                round_inv_mix(round_xor_with_key(block, round_keys[r]), gf_tables_initialized')))
  /\ r' = r - 1
  /\ UNCHANGED << pc, decoding, initialized, round_keys, prev, call, sealed, opened, trace >>

\* slip: the wrong one of two buffers
ChainOpened == prev' = block'

\* what the next block is chained to: the content of encrypted_block, which is
\* where the decrypted block was just written if both are one buffer
ChainDecrypted == prev' = IF InPlace THEN block' ELSE sealed[Len(opened) + 1]

\* the whitening and the xor undone
EndDecrypt ==
  /\ pc = "round" /\ decoding
  /\ r < 1
  /\ block' = round_xor_with_key(round_xor_with_key(block, round_keys[0]), prev)
  /\ opened' = Append(opened, block')
  /\ ChainDecrypted
  /\ pc' = "next"
  /\ UNCHANGED << decoding, tables, round_keys, r, call, sealed, trace >>

Over ==
  /\ pc = "next" /\ decoding
  /\ Len(opened) = Len(sealed)
  /\ UNCHANGED vars

Next ==
  \/ Prepare \/ BeginEncrypt \/ EncryptRound \/ EndEncrypt \/ NewProcess
  \/ BeginDecrypt \/ DecryptRound \/ EndDecrypt \/ Over

Spec == Init /\ [][Next]_vars

-----------------------------------------------------------------------------
TypeOK ==
  /\ pc \in {"start", "next", "round"}  /\ decoding \in BOOLEAN
  /\ initialized \in BOOLEAN            /\ gf_tables_initialized \in BOOLEAN
  /\ round_keys \in [0..ROUNDS -> Block]
  /\ prev \in Block                     /\ r \in 0..ROUNDS
  /\ block \in Block
  /\ call \in [key : Keys, iv : Ivs, message : Messages]
  /\ sealed \in Seq(Block)              /\ opened \in Seq(Block)

\* Decryption gives back every block of the message, in a process that has built
\* none of its tables when it starts (cipher_ops.h:44, encrypt_decrypt.c:41).
RoundTrip ==
  \A n \in 1..Len(opened) : opened[n] = call.message[n]

\* Each round of decryption finds the block as the same round of encryption left
\* it: the rounds are undone one by one, in the opposite order.
RoundsUndone ==
  decoding /\ pc = "round" => block = trace[Len(opened) + 1][r + 1]

\* "identical plaintext blocks produce different ciphertext blocks"
\* (cipher_ops.c:98, readme.md:61)
EqualBlocksDiffer ==
  \A m, n \in 1..Len(sealed) :
    m # n /\ call.message[m] = call.message[n] => sealed[m] # sealed[n]

=============================================================================
