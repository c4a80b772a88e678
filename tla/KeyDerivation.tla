--------------------------- MODULE KeyDerivation ---------------------------
(***************************************************************************)
(* kdf_derive (source/core/kdf.c), PBKDF2 over hmac_compute, one step per  *)
(* turn of its loops.                                                      *)
(***************************************************************************)
EXTENDS Hmac

CONSTANTS
  ByteBase,
  HMAC_SIZE,        \* 32, also the length of a hash
  INDEX_FIELD,      \* bytes of a block number, 4
  SALT_BLOCK,       \* size of the array salt_block, 128
  Calls             \* the calls of kdf_derive, with their arguments

Byte == 0 .. (ByteBase - 1)

ASSUME DerivationConstants ==
  /\ HMAC_SIZE \in Nat \ {0}  /\ HMAC_BLOCK_SIZE \in Nat  /\ HMAC_SIZE <= HMAC_BLOCK_SIZE
  /\ INDEX_FIELD \in Nat \ {0}
  /\ ByteBase \in Nat \ {0}  /\ IPAD \in Byte  /\ OPAD \in Byte
  /\ \A a, b \in Byte : Xor(a, b) \in Byte
  /\ \A a \in Byte : Xor(0, a) = a
  /\ Calls \subseteq [password : Seq(Byte), salt : Seq(Byte), iterations : Nat \ {0}, key_len : Nat]
  /\ \A c \in Calls : Len(c.salt) + INDEX_FIELD <= SALT_BLOCK

VARIABLES
  pc, ret,
  call,         \* the arguments
  block_num,    \* of the outer loop, from 1
  iteration,    \* i of the inner loop
  u, block,     \* the last HMAC and the accumulated block
  derived_key   \* as far as it is written

vars == << pc, ret, call, block_num, iteration, u, block, derived_key >>

-----------------------------------------------------------------------------
\* slip: added instead of xored
XorBytesAdding(s, t) == [k \in 1..HMAC_SIZE |-> s[k] + t[k]]

XorBytes(s, t) == [k \in 1..HMAC_SIZE |-> Xor(s[k], t[k])]

\* a block number as a big-endian field
BlockNumber(n) ==
  [k \in 1..INDEX_FIELD |-> (n \div ByteBase^(INDEX_FIELD - k)) % ByteBase]

blocks_needed == (call.key_len + HMAC_SIZE - 1) \div HMAC_SIZE

-----------------------------------------------------------------------------
Init ==
  /\ pc = "called"  /\ ret = 1
  /\ call \in Calls
  /\ block_num = 1  /\ iteration = 0
  /\ u = << >>      /\ block = << >>
  /\ derived_key = << >>

\* no caller passes a null pointer, so a key of no bytes is the only bad call
Check ==
  /\ pc = "called"
  /\ IF call.key_len = 0
     THEN pc' = "done" /\ ret' = -1
     ELSE pc' = "block" /\ UNCHANGED ret
  /\ UNCHANGED << call, block_num, iteration, u, block, derived_key >>

\* u_1, the HMAC of salt and block number
StartBlock ==
  /\ pc = "block"
  /\ block_num <= blocks_needed
  /\ u' = hmac_compute(call.password, call.salt \o BlockNumber(block_num))
  /\ block' = u'
  /\ iteration' = 1
  /\ pc' = "iterate"
  /\ UNCHANGED << ret, call, block_num, derived_key >>

\* slip: the last HMAC kept instead of the sum
IterateWithoutSum ==
  /\ pc = "iterate"
  /\ iteration < call.iterations
  /\ u' = hmac_compute(call.password, u)
  /\ block' = u'
  /\ iteration' = iteration + 1
  /\ UNCHANGED << pc, ret, call, block_num, derived_key >>

\* u_(i+1), the HMAC of u_i, is written over it and added to the block.
Iterate ==
  /\ pc = "iterate"
  /\ iteration < call.iterations
  /\ u' = hmac_compute(call.password, u)
  /\ block' = XorBytes(block, u')
  /\ iteration' = iteration + 1
  /\ UNCHANGED << pc, ret, call, block_num, derived_key >>

\* slip: every block copied whole
CopyWholeBlock ==
  /\ pc = "iterate"
  /\ iteration >= call.iterations
  /\ derived_key' = SubSeq(derived_key, 1, (block_num - 1) * HMAC_SIZE) \o block
  /\ block_num' = block_num + 1
  /\ pc' = "block"
  /\ UNCHANGED << ret, call, iteration, u, block >>

\* Of the last block only what is missing is copied.
CopyBlock ==
  /\ pc = "iterate"
  /\ iteration >= call.iterations
  /\ LET last     == block_num = blocks_needed /\ call.key_len % HMAC_SIZE # 0
         copy_len == IF last THEN call.key_len % HMAC_SIZE ELSE HMAC_SIZE
         offset   == (block_num - 1) * HMAC_SIZE
     IN  derived_key' = SubSeq(derived_key, 1, offset) \o SubSeq(block, 1, copy_len)
  /\ block_num' = block_num + 1
  /\ pc' = "block"
  /\ UNCHANGED << ret, call, iteration, u, block >>

Return ==
  /\ pc = "block"
  /\ block_num > blocks_needed
  /\ pc' = "done"
  /\ ret' = 0
  /\ UNCHANGED << call, block_num, iteration, u, block, derived_key >>

Over == pc = "done" /\ UNCHANGED vars

Next == Check \/ StartBlock \/ Iterate \/ CopyBlock \/ Return \/ Over

Spec == Init /\ [][Next]_vars

-----------------------------------------------------------------------------
TypeOK ==
  /\ pc \in {"called", "block", "iterate", "done"}
  /\ ret \in {1, 0, -1}
  /\ call \in Calls
  /\ block_num \in Nat  /\ iteration \in Nat
  /\ u \in Seq(Byte)    /\ block \in Seq(Byte)
  /\ derived_key \in Seq(Byte)

\* RFC 2898, 5.2: U_i is the HMAC iterated i times, byte k of T_n the sum of byte
\* k of all U_i, and the key the first key_len bytes of T_1 T_2 ...
Iterated(c, n) ==
  LET iterated[k \in 1..c.iterations] ==
        hmac_compute(c.password, IF k = 1 THEN c.salt \o BlockNumber(n) ELSE iterated[k - 1])
  IN  iterated

SumOf(iterated, byte, n) ==
  LET sum[k \in 0..n] == IF k = 0 THEN 0 ELSE Xor(sum[k - 1], iterated[k][byte])
  IN  sum[n]

Pbkdf2(c) ==
  [j \in 1..c.key_len |->
     SumOf(Iterated(c, ((j - 1) \div HMAC_SIZE) + 1), ((j - 1) % HMAC_SIZE) + 1, c.iterations)]

\* kdf_derive returns the PBKDF2 key, all of it, for every length and iteration
\* count, and nothing for a length of 0 (kdf.c:20).
DerivesPbkdf2 ==
  pc = "done" => IF call.key_len = 0
                 THEN ret = -1 /\ derived_key = << >>
                 ELSE ret = 0 /\ derived_key = Pbkdf2(call)

\* No copy goes beyond the caller's array, on the way either.
StaysInKey == Len(derived_key) <= call.key_len

\* A bound on the steps that the call can still take: two for every block and one for
\* every HMAC in it.
StepsLeft ==
  CASE pc = "called"  -> blocks_needed * (call.iterations + 2) + 2
    [] pc = "block"   -> (blocks_needed + 1 - block_num) * (call.iterations + 2) + 1
    [] pc = "iterate" -> (blocks_needed - block_num) * (call.iterations + 2)
                           + (call.iterations - iteration) + 2
    [] pc = "done"    -> 0

\* Neither loop goes on for ever (kdf.c:35 and :59), for keys and iteration counts of
\* every size: every step brings the call closer to its end.
CountsDown == [][/\ StepsLeft \in Nat
                 /\ StepsLeft' < StepsLeft]_vars

=============================================================================
