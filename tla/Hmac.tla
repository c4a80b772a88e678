-------------------------------- MODULE Hmac --------------------------------
(***************************************************************************)
(* hmac_compute (source/core/hmac.c) over the hash of a whole message,     *)
(* which is a parameter: HashStream is about it.                           *)
(***************************************************************************)
EXTENDS Integers, Sequences

CONSTANTS
  HMAC_BLOCK_SIZE,  \* 64
  IPAD, OPAD,       \* 0x36 and 0x5c
  Xor(_, _),
  Hash(_)           \* the hash of a message

\* a key cut by hashing or filled with zeros to the length of a hash block
key_block(key) ==
  LET short == IF Len(key) > HMAC_BLOCK_SIZE THEN Hash(key) ELSE key
  IN  [k \in 1..HMAC_BLOCK_SIZE |-> IF k <= Len(short) THEN short[k] ELSE 0]

padded_key(key, pad) ==
  LET kb == key_block(key) IN [k \in 1..HMAC_BLOCK_SIZE |-> Xor(kb[k], pad)]

hmac_compute(key, message) ==
  Hash(padded_key(key, OPAD) \o Hash(padded_key(key, IPAD) \o message))

=============================================================================
