--------------------------- MODULE MerkleDamgard ---------------------------
(***************************************************************************)
(* What a hash of the Merkle-Damgard kind computes of a whole message      *)
(* (FIPS 180-4, 5.1.1 and 6.2.2), and the abstract specification of an     *)
(* incremental one: a message is opened, extended any number of times and  *)
(* closed with its digest. No buffer, no block boundary, no position.      *)
(***************************************************************************)
EXTENDS Integers, Sequences

CONSTANTS
  ByteBase,         \* number of byte values, 256 in the code
  HASH_BLOCK_SIZE,  \* 64
  LENGTH_FIELD,     \* bytes of the length field at the end, 8
  FirstState,       \* the initial hash value
  Mix(_, _)         \* the compression of (state, block)

\* the first byte of the padding, 0x80
PaddingStart == ByteBase \div 2

\* the length in bits, shifted right by a byte for every place it is from the end
ShiftedLength(count) ==
  LET shifted[k \in 1..LENGTH_FIELD] ==
        IF k = LENGTH_FIELD THEN count * 8 ELSE shifted[k + 1] \div ByteBase
  IN  shifted

\* slip: the digits of the length not cut to a byte
LengthFieldUncut(count) == ShiftedLength(count)

\* big-endian, modulo the width of the field
LengthField(count) == [k \in 1..LENGTH_FIELD |-> ShiftedLength(count)[k] % ByteBase]

Zeros(n) == [k \in 1..n |-> 0]

Padded(message) ==
  LET used == (Len(message) + 1 + LENGTH_FIELD) % HASH_BLOCK_SIZE
  IN  message \o << PaddingStart >> \o Zeros((HASH_BLOCK_SIZE - used) % HASH_BLOCK_SIZE)
        \o LengthField(Len(message))

\* block n of a message, counted from 1
BlockOf(message, n) ==
  SubSeq(message, (n - 1) * HASH_BLOCK_SIZE + 1, n * HASH_BLOCK_SIZE)

\* the state after the first n blocks
Chained(message, blocks) ==
  LET state[n \in 0..blocks] == IF n = 0 THEN FirstState ELSE Mix(state[n - 1], BlockOf(message, n))
  IN  state[blocks]

HashOf(message) ==
  Chained(Padded(message), Len(Padded(message)) \div HASH_BLOCK_SIZE)

-----------------------------------------------------------------------------
VARIABLES message, digest, open

Init == message = << >> /\ open = FALSE

Open == /\ open' = TRUE
        /\ message' = << >>
        /\ UNCHANGED digest

Extend == /\ open
          /\ Len(message') > Len(message)
          /\ SubSeq(message', 1, Len(message)) = message
          /\ UNCHANGED << digest, open >>

Close == /\ open
         /\ digest' = HashOf(message)
         /\ open' = FALSE
         /\ UNCHANGED message

Spec == Init /\ [][Open \/ Extend \/ Close]_<< message, digest, open >>

=============================================================================
