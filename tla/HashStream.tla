----------------------------- MODULE HashStream -----------------------------
(***************************************************************************)
(* The incremental hash of source/core/hash.c: one HASH_CTX and the calls  *)
(* hash_init, hash_update and hash_final on it. As in hmac_compute, one    *)
(* context serves several messages, and hash_init leaves in its buffer     *)
(* what the message before has put there.                                  *)
(***************************************************************************)
EXTENDS Integers, Sequences

CONSTANTS
  ByteBase, HASH_BLOCK_SIZE, LENGTH_FIELD, FirstState, Mix(_, _),
  Datas,    \* what one hash_update can be given
  Garbage,  \* what the uninitialised buffer can hold
  MaxCount  \* bound on the length of a message

VARIABLES
  pc,       \* "idle", "ready" between calls, "update" inside hash_update
  count, state, buffer,  \* the context
  data, i,  \* the argument of hash_update and its position in it
  digest,
  message   \* what was hashed since hash_init (history)

ctx  == << count, state, buffer >>
vars == << pc, ctx, data, i, digest, message >>

OneShot == INSTANCE MerkleDamgard WITH open <- pc # "idle"

Byte == 0 .. (ByteBase - 1)
Size == HASH_BLOCK_SIZE

\* ByteBase is even: the first byte of the padding is its half, 0x80.
ASSUME HashSizes ==
  /\ ByteBase \in Nat \ {0}  /\ ByteBase % 2 = 0
  /\ LENGTH_FIELD \in Nat \ {0}
  /\ HASH_BLOCK_SIZE \in Nat /\ HASH_BLOCK_SIZE > LENGTH_FIELD

ASSUME StreamConstants ==
  /\ Datas \subseteq Seq(Byte)
  /\ Garbage \subseteq [1..Size -> Byte]
  /\ MaxCount \in Nat

NoDigest == << >>

\* memcpy of `bytes' to offset `from' (counted from 0) of a block
Overwritten(block, from, bytes) ==
  [k \in 1..Size |-> IF k > from /\ k <= from + Len(bytes) THEN bytes[k - from] ELSE block[k]]

hash_compress(s, block) == Mix(s, block)

-----------------------------------------------------------------------------
Init ==
  /\ pc = "idle"
  /\ count = 0      /\ state = FirstState  /\ buffer \in Garbage
  /\ data = << >>   /\ i = 0
  /\ digest = NoDigest
  /\ message = << >>

\* slip: the count of the message before kept
HashInitWithCount ==
  /\ pc = "idle"
  /\ pc' = "ready"
  /\ state' = FirstState
  /\ message' = << >>
  /\ UNCHANGED << count, buffer, data, i, digest >>

\* The buffer keeps what it holds.
HashInit ==
  /\ pc = "idle"
  /\ pc' = "ready"
  /\ count' = 0
  /\ state' = FirstState
  /\ message' = << >>
  /\ UNCHANGED << buffer, data, i, digest >>

CallUpdate ==
  /\ pc = "ready"
  /\ \E d \in Datas : /\ Len(message) + Len(d) <= MaxCount
                      /\ data' = d
  /\ i' = 0
  /\ pc' = "update"
  /\ UNCHANGED << ctx, digest, message >>

\* slip: the position in the argument set to the size of the last part
HashUpdateFromPart ==
  /\ pc = "update"
  /\ i < Len(data)
  /\ LET buffer_index == count % Size
         space == Size - buffer_index
         chunk == IF Len(data) - i < space THEN Len(data) - i ELSE space
         taken == SubSeq(data, i + 1, i + chunk)
     IN  /\ buffer' = Overwritten(buffer, buffer_index, taken)
         /\ count' = count + chunk
         /\ i' = chunk
         /\ state' = IF count' % Size = 0 THEN hash_compress(state, buffer') ELSE state
         /\ message' = message \o taken
  /\ UNCHANGED << pc, data, digest >>

\* one turn of the loop: fill the buffer, compress it when it is full
HashUpdate ==
  /\ pc = "update"
  /\ i < Len(data)
  /\ LET buffer_index == count % Size
         space == Size - buffer_index
         chunk == IF Len(data) - i < space THEN Len(data) - i ELSE space
         taken == SubSeq(data, i + 1, i + chunk)
     IN  /\ buffer' = Overwritten(buffer, buffer_index, taken)
         /\ count' = count + chunk
         /\ i' = i + chunk
         /\ state' = IF count' % Size = 0 THEN hash_compress(state, buffer') ELSE state
         /\ message' = message \o taken
  /\ UNCHANGED << pc, data, digest >>

ReturnUpdate ==
  /\ pc = "update"
  /\ i >= Len(data)
  /\ pc' = "ready"
  /\ data' = << >>
  /\ i' = 0
  /\ UNCHANGED << ctx, digest, message >>

\* slip: the length always put into the block that holds the last bytes
HashFinalOneBlock ==
  /\ pc = "ready"
  /\ LET limit  == Size - LENGTH_FIELD
         index  == (count % Size) + 1
         marked == Overwritten(buffer, index - 1, << OneShot!PaddingStart >>)
         zeroed == Overwritten(marked, index, OneShot!Zeros(Size - index))
     IN  /\ buffer' = Overwritten(zeroed, limit, OneShot!LengthField(count))
         /\ state' = hash_compress(state, buffer')
  /\ digest' = state'
  /\ pc' = "idle"
  /\ UNCHANGED << count, data, i, message >>

\* 0x80, zeros and the length: in this block if they fit, or else in one more
HashFinal ==
  /\ pc = "ready"
  /\ LET limit  == Size - LENGTH_FIELD
         index  == (count % Size) + 1
         marked == Overwritten(buffer, index - 1, << OneShot!PaddingStart >>)
         spill  == index > limit
         first  == Overwritten(marked, index, OneShot!Zeros(Size - index))
         start  == IF spill THEN 0 ELSE index
         zeroed == Overwritten(IF spill THEN first ELSE marked, start, OneShot!Zeros(limit - start))
     IN  /\ buffer' = Overwritten(zeroed, limit, OneShot!LengthField(count))
         /\ state' = hash_compress(IF spill THEN hash_compress(state, first) ELSE state, buffer')
  /\ digest' = state'
  /\ pc' = "idle"
  /\ UNCHANGED << count, data, i, message >>

Next == HashInit \/ CallUpdate \/ HashUpdate \/ ReturnUpdate \/ HashFinal

Spec == Init /\ [][Next]_vars

-----------------------------------------------------------------------------
TypeOK ==
  /\ pc \in {"idle", "ready", "update"}
  /\ count \in Nat
  /\ buffer \in [1..Size -> Byte]
  /\ data \in Seq(Byte)
  /\ i \in Nat
  /\ message \in Seq(Byte)

\* Between two steps the context is a function of the message alone: the count
\* is its length, the state the chain over its whole blocks, the front of the
\* buffer the rest. What the buffer held before does not show.
ContextIsMessage ==
  pc # "idle" =>
    LET rest == Len(message) % Size
    IN  /\ count = Len(message)
        /\ state = OneShot!Chained(message, Len(message) \div Size)
        /\ SubSeq(buffer, 1, rest) = SubSeq(message, Len(message) - rest + 1, Len(message))

\* The calls implement the one-shot hash: however a message is cut into updates,
\* hash_final gives the digest of the whole.
ImplementsOneShot == OneShot!Spec

\* The loop of hash_update runs out (hash.c:140), whatever the buffer held and however
\* long the argument is: every turn of it takes at least a byte.
CountsDown ==
  [][pc = "update" => \/ pc' = "update" /\ i' > i /\ i' <= Len(data)
                      \/ pc' = "ready" /\ i = Len(data)]_vars

=============================================================================
