----------------------------- MODULE Container -----------------------------
(***************************************************************************)
(* The encrypted file of Apex Cipher, byte by byte, and the operations of  *)
(* cipher_ops.c that cipher_encrypt_file and cipher_decrypt_file share:    *)
(*                                                                         *)
(*   [SIZE_BYTES] original size, big-endian    [KDF_SALT_SIZE] kdf salt    *)
(*   [BLOCK_SIZE] iv   [n] CBC ciphertext      [HMAC_SIZE] hmac            *)
(*                                                                         *)
(* The block cipher, byte xor, HMAC and PBKDF2 are parameters: what they   *)
(* compute is the subject of other modules, and here only the laws below   *)
(* are used. Sizes are parameters too, so that TLC checks the same text    *)
(* with blocks of two bytes that holds of the blocks of sixteen.           *)
(***************************************************************************)
EXTENDS Integers, Sequences

CONSTANTS
  ByteBase,          \* number of byte values, 256 in the code
  BLOCK_SIZE,        \* 16
  SIZE_BYTES,        \* width of the size field, 8
  KDF_SALT_SIZE,     \* 16
  HMAC_SIZE,         \* 32
  STREAM_CHUNK,      \* bytes asked of one fread, 65536
  Masters,           \* master keys as the command line hands them over
  Key,               \* keys kdf_derive can return
  Derive(_, _, _),   \* kdf_derive of (master key, salt, "ENC" or "MAC" tag)
  Encipher(_, _),    \* encrypt_block under the round keys of a derived key
  Decipher(_, _),    \* decrypt_block under the same round keys
  Xor(_, _),         \* xor of two bytes
  Hmac(_, _)         \* hmac_compute of (derived key, data), HMAC_SIZE values

Byte  == 0 .. (ByteBase - 1)
Block == [1..BLOCK_SIZE -> Byte]

ASSUME SizesPositive ==
  /\ ByteBase \in Nat \ {0}       /\ BLOCK_SIZE \in Nat \ {0}
  /\ SIZE_BYTES \in Nat \ {0}     /\ KDF_SALT_SIZE \in Nat \ {0}
  /\ HMAC_SIZE \in Nat \ {0}      /\ STREAM_CHUNK \in Nat \ {0}

\* A padding count fits the byte that stores it.
ASSUME PaddingFitsByte == BLOCK_SIZE < ByteBase

ASSUME DeriveType ==
  \A m \in Masters : \A s \in [1..KDF_SALT_SIZE -> Byte] :
    \A tag \in {"ENC", "MAC"} : Derive(m, s, tag) \in Key

ASSUME XorLaws ==
  \A a, b \in Byte : /\ Xor(a, b) \in Byte
                     /\ Xor(Xor(a, b), b) = a

ASSUME CipherLaws ==
  \A k \in Key : \A b \in Block : /\ Encipher(k, b) \in Block
                                  /\ Decipher(k, b) \in Block
                                  /\ Decipher(k, Encipher(k, b)) = b

-----------------------------------------------------------------------------
\* A C array of n uint8_t: whatever is computed into it, it holds bytes.
ByteArray(f, n) == [i \in 1..n |-> IF f[i] \in Byte THEN f[i] ELSE 0]

Lesser(a, b) == IF a <= b THEN a ELSE b

\* bytes of s from offset `from' (counted from 0), n of them
Slice(s, from, n) == SubSeq(s, from + 1, from + n)

\* the two keys of a CipherContext, derived with tagged salts
EncKey(master, salt) == Derive(master, salt, "ENC")
MacKey(master, salt) == Derive(master, salt, "MAC")

hmac_compute(key, data) == ByteArray(Hmac(key, data), HMAC_SIZE)

\* 0 when the two MACs are the same, byte for byte
cipher_ct_memcmp(a, b) == IF \E i \in 1..HMAC_SIZE : a[i] # b[i] THEN 1 ELSE 0

cipher_cbc_encrypt_block(key, prev, block) ==
  Encipher(key, [i \in 1..BLOCK_SIZE |-> Xor(block[i], prev[i])])

cipher_cbc_decrypt_block(key, prev, block) ==
  [i \in 1..BLOCK_SIZE |-> Xor(Decipher(key, block)[i], prev[i])]

\* data, shorter than a block, filled up to a block with the padding count
cipher_add_pkcs7_padding(data) ==
  [i \in 1..BLOCK_SIZE |-> IF i <= Len(data) THEN data[i] ELSE BLOCK_SIZE - Len(data)]

\* slip: one byte of padding kept
RemovePaddingButOne(block) == BLOCK_SIZE - block[BLOCK_SIZE] + 1

\* slip: a block of nothing but padding refused
RemovePaddingStrict(block) ==
  LET value == block[BLOCK_SIZE]
  IN  IF value = 0 \/ value >= BLOCK_SIZE THEN -1 ELSE BLOCK_SIZE - value

\* the data length of a padded block, or -1 when the padding is malformed
cipher_remove_pkcs7_padding(block) ==
  LET value == block[BLOCK_SIZE]
  IN  IF \/ value = 0 \/ value > BLOCK_SIZE
         \/ \E i \in (BLOCK_SIZE - value + 1)..BLOCK_SIZE : block[i] # value
      THEN -1
      ELSE BLOCK_SIZE - value

\* What a byte of the size field counts for, that k others follow: 2^(8k), the
\* factor of the code's shifts. The last one is what a 64-bit number wraps at.
Weight[k \in 0..SIZE_BYTES] == IF k = 0 THEN 1 ELSE ByteBase * Weight[k - 1]

SizeToBytes(n) ==
  ByteArray([i \in 1..SIZE_BYTES |-> (n \div Weight[SIZE_BYTES - i]) % ByteBase], SIZE_BYTES)

SizeFromBytes(bytes) ==
  LET value[i \in 0..SIZE_BYTES] == IF i = 0 THEN 0 ELSE value[i - 1] * ByteBase + bytes[i]
  IN  value[SIZE_BYTES]

HeaderSize == SIZE_BYTES + KDF_SALT_SIZE + BLOCK_SIZE

SizeField(file) == Slice(file, 0, SIZE_BYTES)
SaltField(file) == Slice(file, SIZE_BYTES, KDF_SALT_SIZE)
IvField(file)   == Slice(file, SIZE_BYTES + KDF_SALT_SIZE, BLOCK_SIZE)

-----------------------------------------------------------------------------
(***************************************************************************)
(* What an encrypted file should be: definitions the specifications of the *)
(* two streaming functions are compared with. They work on whole messages, *)
(* with no chunks, no pending block and no file positions.                 *)
(***************************************************************************)

Padded(plain) ==
  LET fill == BLOCK_SIZE - (Len(plain) % BLOCK_SIZE)
  IN  plain \o [i \in 1..fill |-> fill]

\* CBC: block i is the cipher of plaintext block i xored with block i - 1.
CbcBlocks(key, iv, padded) ==
  LET chain[i \in 0..(Len(padded) \div BLOCK_SIZE)] ==
        IF i = 0 THEN iv
        ELSE cipher_cbc_encrypt_block(key, chain[i - 1],
                                      Slice(padded, (i - 1) * BLOCK_SIZE, BLOCK_SIZE))
  IN  chain

Ciphertext(key, iv, plain) ==
  LET padded == Padded(plain)
      chain  == CbcBlocks(key, iv, padded)
  IN  [j \in 1..Len(padded) |-> chain[((j - 1) \div BLOCK_SIZE) + 1][((j - 1) % BLOCK_SIZE) + 1]]

\* The file that holds `plain' under `master', whose size field says `size'.
Sealed(plain, size, master, salt, iv) ==
  LET body == SizeToBytes(size) \o salt \o iv \o Ciphertext(EncKey(master, salt), iv, plain)
  IN  body \o hmac_compute(MacKey(master, salt), body)

\* A file that holds `plain' under `master', salt and initialisation vector in their
\* places, and whose size field, that of a `size' it can hold, covers the whole blocks.
GenuineFile(file, plain, size, master) ==
  /\ SaltField(file) \in [1..KDF_SALT_SIZE -> Byte]
  /\ IvField(file) \in Block
  /\ file = Sealed(plain, size, master, SaltField(file), IvField(file))
  /\ size < Weight[SIZE_BYTES]
  /\ (Len(plain) \div BLOCK_SIZE) * BLOCK_SIZE <= size

\* The files that pass every check made before the first byte is decrypted.
Authentic(file, master) ==
  LET ctLen == Len(file) - HeaderSize - HMAC_SIZE
      body  == SubSeq(file, 1, HeaderSize + ctLen)
  IN  /\ ctLen > 0
      /\ ctLen % BLOCK_SIZE = 0
      /\ file = body \o hmac_compute(MacKey(master, SaltField(file)), body)

=============================================================================
