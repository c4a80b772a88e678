------------------------ MODULE KeyDerivationProofs ------------------------
(***************************************************************************)
(* What TLAPS proves of KeyDerivation, for hashes, hash blocks, keys and   *)
(* passwords of every length and any number of iterations: the types, that *)
(* no copy goes beyond the caller's array, and that the result is the key  *)
(* of PBKDF2, and that its loops run out. The hash is any function that    *)
(* gives HMAC_SIZE bytes.                                                  *)
(***************************************************************************)
EXTENDS KeyDerivation, SequenceTheorems, WellFoundedInduction, TLAPS

Digest == [1..HMAC_SIZE -> Byte]

\* The one thing asked of the hash (SHA-256 in the code).
HashIsDigest == \A m \in Seq(Byte) : Hash(m) \in Digest

-----------------------------------------------------------------------------
(* Bytes.                                                                  *)

LEMMA DigestIsSeq ==
  ASSUME NEW d \in Digest
  PROVE  d \in Seq(Byte) /\ Len(d) = HMAC_SIZE
BY DerivationConstants DEF Digest

LEMMA PaddedKeyType ==
  ASSUME HashIsDigest, NEW key \in Seq(Byte), NEW pad \in Byte
  PROVE  padded_key(key, pad) \in Seq(Byte)
<1>1. Hash(key) \in Seq(Byte)
  BY DigestIsSeq DEF HashIsDigest
<1>2. \A k \in 1..HMAC_BLOCK_SIZE : key_block(key)[k] \in Byte
  <2> DEFINE short == IF Len(key) > HMAC_BLOCK_SIZE THEN Hash(key) ELSE key
  <2>1. short \in Seq(Byte)
    BY <1>1
  <2> HIDE DEF short
  <2>2. Len(short) \in Nat /\ \A k \in 1..Len(short) : short[k] \in Byte
    BY <2>1, LenProperties, ElementOfSeq
  <2>3. 0 \in Byte
    BY DerivationConstants DEF Byte
  <2>4. key_block(key) = [k \in 1..HMAC_BLOCK_SIZE |-> IF k <= Len(short) THEN short[k] ELSE 0]
    BY DEF key_block, short
  <2> QED BY <2>2, <2>3, <2>4, DerivationConstants
<1>3. padded_key(key, pad) \in [1..HMAC_BLOCK_SIZE -> Byte]
  BY <1>2, DerivationConstants DEF padded_key
<1> QED BY <1>3, DerivationConstants

LEMMA HmacType ==
  ASSUME HashIsDigest, NEW key \in Seq(Byte), NEW message \in Seq(Byte)
  PROVE  hmac_compute(key, message) \in Digest
<1>1. padded_key(key, IPAD) \in Seq(Byte) /\ padded_key(key, OPAD) \in Seq(Byte)
  BY PaddedKeyType, DerivationConstants
<1>2. padded_key(key, IPAD) \o message \in Seq(Byte)
  BY <1>1, ConcatProperties
<1>3. Hash(padded_key(key, IPAD) \o message) \in Seq(Byte)
  BY <1>2, DigestIsSeq DEF HashIsDigest
<1>4. padded_key(key, OPAD) \o Hash(padded_key(key, IPAD) \o message) \in Seq(Byte)
  BY <1>1, <1>3, ConcatProperties
<1> QED BY <1>4 DEF hmac_compute, HashIsDigest

LEMMA BlockNumberType ==
  ASSUME NEW n \in Nat
  PROVE  BlockNumber(n) \in Seq(Byte)
<1>1. ByteBase \in Nat \ {0} /\ INDEX_FIELD \in Nat
  BY DerivationConstants
<1>2. \A k \in 1..INDEX_FIELD : (n \div ByteBase^(INDEX_FIELD - k)) % ByteBase \in 0..(ByteBase - 1)
  <2>1. SUFFICES ASSUME NEW k \in 1..INDEX_FIELD
                 PROVE  (n \div ByteBase^(INDEX_FIELD - k)) % ByteBase \in 0..(ByteBase - 1)
    OBVIOUS
  <2>2. INDEX_FIELD - k \in Nat
    BY <1>1
  <2> QED BY <1>1, <2>2
<1>3. BlockNumber(n) \in [1..INDEX_FIELD -> Byte]
  BY <1>2 DEF BlockNumber, Byte
<1> QED BY <1>1, <1>3

LEMMA SumType ==
  ASSUME NEW s \in Digest, NEW t \in Digest
  PROVE  XorBytes(s, t) \in Digest
BY DerivationConstants DEF XorBytes, Digest

-----------------------------------------------------------------------------
(* The number of blocks.                                                   *)

\* The quotient and the remainder are the only numbers that do what they do.
LEMMA DivisionUnique ==
  ASSUME NEW h \in Nat \ {0}, NEW n \in Nat, NEW q \in Nat, NEW r \in 0..(h - 1),
         n = h * q + r
  PROVE  n \div h = q /\ n % h = r
<1> DEFINE p == n \div h
           s == n % h
<1>1. p \in Int /\ s \in 0..(h - 1) /\ n = h * p + s
  OBVIOUS
<1> HIDE DEF p, s
<1>2. CASE p > q
  <2>1. h * p >= h * (q + 1)
    BY <1>1, <1>2
  <2>2. h * (q + 1) = h * q + h
    OBVIOUS
  <2> QED BY <1>1, <2>1, <2>2
<1>3. CASE p < q
  <2>1. h * q >= h * (p + 1)
    BY <1>1, <1>3
  <2>2. h * (p + 1) = h * p + h
    BY <1>1
  <2> QED BY <1>1, <2>1, <2>2
<1>4. p = q
  BY <1>1, <1>2, <1>3
<1>5. s = r
  BY <1>1, <1>4
<1> QED BY <1>4, <1>5 DEF p, s

\* How much of the last block is copied.
LastLength == IF call.key_len % HMAC_SIZE # 0 THEN call.key_len % HMAC_SIZE ELSE HMAC_SIZE

\* The blocks needed fill the key, the last one perhaps in part.
LEMMA BlocksNeeded ==
  ASSUME call \in Calls, call.key_len # 0
  PROVE  /\ blocks_needed \in Nat \ {0}
         /\ call.key_len \in Nat \ {0}
         /\ call.key_len % HMAC_SIZE \in 0..(HMAC_SIZE - 1)
         /\ call.key_len = (blocks_needed - 1) * HMAC_SIZE + LastLength
<1> DEFINE L == call.key_len
           h == HMAC_SIZE
           q == L \div h
           r == L % h
<1>1. L \in Nat \ {0} /\ h \in Nat \ {0}
  BY DerivationConstants
<1> HIDE DEF L, h
<1>2. q \in Nat /\ r \in 0..(h - 1) /\ L = h * q + r
  BY <1>1
<1> HIDE DEF q, r
<1>3. CASE r = 0
  <2>1. L + h - 1 = h * q + (h - 1)
    BY <1>1, <1>2, <1>3
  <2>2. L + h - 1 \in Nat /\ h - 1 \in 0..(h - 1)
    BY <1>1
  <2>3. (L + h - 1) \div h = q
    BY <1>1, <1>2, <2>1, <2>2, DivisionUnique
  <2>4. q # 0
    BY <1>1, <1>2, <1>3
  <2>5. (q - 1) * h + h = h * q
    BY <1>1, <1>2
  <2>6. blocks_needed = q
    BY <2>3 DEF blocks_needed, L, h
  <2>7. L = (q - 1) * h + h
    BY <1>1, <1>2, <1>3, <2>5
  <2> QED BY <1>1, <1>2, <1>3, <2>4, <2>6, <2>7 DEF LastLength, L, h, r
<1>4. CASE r # 0
  <2>1. L + h - 1 = h * (q + 1) + (r - 1)
    <3>1. h * (q + 1) = h * q + h
      BY <1>1, <1>2
    <3> QED BY <1>1, <1>2, <3>1
  <2>2. L + h - 1 \in Nat /\ r - 1 \in 0..(h - 1) /\ q + 1 \in Nat
    BY <1>1, <1>2, <1>4
  <2>3. (L + h - 1) \div h = q + 1
    BY <1>1, <2>1, <2>2, DivisionUnique
  <2>4. blocks_needed = q + 1
    BY <2>3 DEF blocks_needed, L, h
  <2>5. L = ((q + 1) - 1) * h + r
    BY <1>1, <1>2
  <2> QED BY <1>1, <1>2, <1>4, <2>4, <2>5 DEF LastLength, L, h, r
<1> QED BY <1>3, <1>4

-----------------------------------------------------------------------------
(* The invariant.                                                          *)

\* Every finished block but the last is there in full, and the last as far as it goes.
Filled ==
  /\ pc = "called" => derived_key = << >> /\ block_num = 1
  /\ pc \in {"block", "iterate"} =>
       /\ call.key_len # 0
       /\ block_num \in 1..(blocks_needed + 1)
       /\ Len(derived_key) = IF block_num <= blocks_needed
                             THEN (block_num - 1) * HMAC_SIZE ELSE call.key_len
  /\ pc = "iterate" => block_num <= blocks_needed /\ u \in Digest /\ block \in Digest
  /\ pc = "done" => Len(derived_key) \in {0, call.key_len}

KeyInv == TypeOK /\ Filled

LEMMA InitKey == Init => KeyInv
<1> SUFFICES ASSUME Init PROVE KeyInv
  OBVIOUS
<1>1. << >> \in Seq(Byte)
  BY EmptySeq
<1> QED BY <1>1 DEF Init, KeyInv, TypeOK, Filled

LEMMA CheckKey == KeyInv /\ Check => KeyInv'
<1> SUFFICES ASSUME KeyInv, Check PROVE KeyInv'
  OBVIOUS
<1>1. TypeOK'
  BY DEF Check, KeyInv, TypeOK
<1>2. derived_key = << >> /\ block_num = 1 /\ Len(<< >>) = 0
  BY EmptySeq DEF Check, KeyInv, Filled
<1>3. CASE call.key_len = 0
  <2>1. pc' = "done" /\ Len(derived_key') = 0
    BY <1>2, <1>3 DEF Check
  <2> QED BY <1>1, <2>1 DEF KeyInv, Filled
<1>4. CASE call.key_len # 0
  <2>1. blocks_needed \in Nat \ {0}
    BY <1>4, BlocksNeeded DEF KeyInv, TypeOK
  <2>2. blocks_needed' = blocks_needed
    BY DEF Check, blocks_needed
  <2>3. (1 - 1) * HMAC_SIZE = 0
    BY DerivationConstants
  <2>4. pc' = "block" /\ UNCHANGED << call, block_num, derived_key >>
    BY <1>4 DEF Check
  <2> QED BY <1>1, <1>2, <1>4, <2>1, <2>2, <2>3, <2>4 DEF KeyInv, Filled
<1> QED BY <1>1, <1>3, <1>4 DEF KeyInv

LEMMA StartBlockKey == HashIsDigest /\ KeyInv /\ StartBlock => KeyInv'
<1> SUFFICES ASSUME HashIsDigest, KeyInv, StartBlock PROVE KeyInv'
  OBVIOUS
<1>1. call.password \in Seq(Byte) /\ call.salt \in Seq(Byte) /\ block_num \in Nat
  BY DerivationConstants DEF KeyInv, TypeOK
<1>2. call.salt \o BlockNumber(block_num) \in Seq(Byte)
  BY <1>1, BlockNumberType, ConcatProperties
<1>3. u' \in Digest /\ block' \in Digest
  BY <1>1, <1>2, HmacType DEF StartBlock
<1>4. TypeOK'
  BY <1>3, DigestIsSeq DEF StartBlock, KeyInv, TypeOK
<1>5. Filled'
  BY <1>3 DEF StartBlock, KeyInv, Filled, blocks_needed
<1> QED BY <1>4, <1>5 DEF KeyInv

LEMMA IterateKey == HashIsDigest /\ KeyInv /\ Iterate => KeyInv'
<1> SUFFICES ASSUME HashIsDigest, KeyInv, Iterate PROVE KeyInv'
  OBVIOUS
<1>1. call.password \in Seq(Byte) /\ u \in Seq(Byte) /\ block \in Digest
  BY DerivationConstants DEF KeyInv, TypeOK, Filled, Iterate
<1>2. u' \in Digest
  BY <1>1, HmacType DEF Iterate
<1>3. block' \in Digest
  BY <1>1, <1>2, SumType DEF Iterate
<1>4. TypeOK'
  BY <1>2, <1>3, DigestIsSeq DEF Iterate, KeyInv, TypeOK
<1>5. Filled'
  BY <1>2, <1>3 DEF Iterate, KeyInv, Filled, blocks_needed
<1> QED BY <1>4, <1>5 DEF KeyInv

LEMMA CopyBlockKey == KeyInv /\ CopyBlock => KeyInv'
<1> SUFFICES ASSUME KeyInv, CopyBlock PROVE KeyInv'
  OBVIOUS
<1> DEFINE last     == block_num = blocks_needed /\ call.key_len % HMAC_SIZE # 0
           copy_len == IF last THEN call.key_len % HMAC_SIZE ELSE HMAC_SIZE
           offset   == (block_num - 1) * HMAC_SIZE
<1>1. /\ pc = "iterate" /\ call \in Calls /\ call.key_len # 0
      /\ block_num \in Nat /\ block_num \in 1..(blocks_needed + 1) /\ block_num <= blocks_needed
      /\ block \in Digest /\ derived_key \in Seq(Byte) /\ Len(derived_key) = offset
  BY DEF KeyInv, TypeOK, Filled, CopyBlock
<1>2. /\ blocks_needed \in Nat \ {0} /\ call.key_len \in Nat
      /\ call.key_len % HMAC_SIZE \in 0..(HMAC_SIZE - 1)
      /\ call.key_len = (blocks_needed - 1) * HMAC_SIZE + LastLength
      /\ HMAC_SIZE \in Nat \ {0}
  BY <1>1, BlocksNeeded, DerivationConstants
<1>3. /\ pc' = "block" /\ block_num' = block_num + 1
      /\ UNCHANGED << ret, call, iteration, u, block >>
      /\ derived_key' = SubSeq(derived_key, 1, offset) \o SubSeq(block, 1, copy_len)
  BY DEF CopyBlock
<1>4. SubSeq(derived_key, 1, offset) = derived_key
  BY <1>1, SubSeqFull
<1>5. copy_len \in 1..HMAC_SIZE
  BY <1>2
<1>6. SubSeq(block, 1, copy_len) \in Seq(Byte) /\ Len(SubSeq(block, 1, copy_len)) = copy_len
  <2>1. \A k \in 1..copy_len : block[k] \in Byte
    BY <1>1, <1>2, <1>5 DEF Digest
  <2> HIDE DEF copy_len
  <2>2. copy_len \in Int /\ 1 \in Int /\ 1 <= copy_len /\ copy_len - 1 + 1 = copy_len
    BY <1>2, <1>5
  <2> QED BY <2>1, <2>2, SubSeqProperties
<1> HIDE DEF last, copy_len, offset
<1>7. derived_key' \in Seq(Byte) /\ Len(derived_key') = offset + copy_len
  BY <1>1, <1>3, <1>4, <1>6, ConcatProperties
<1>8. TypeOK'
  BY <1>1, <1>3, <1>7 DEF KeyInv, TypeOK
<1>9. blocks_needed' = blocks_needed
  BY <1>3 DEF blocks_needed
<1>10. CASE block_num < blocks_needed
  <2>1. copy_len = HMAC_SIZE
    BY <1>1, <1>2, <1>10 DEF copy_len, last
  <2>2. offset + HMAC_SIZE = ((block_num + 1) - 1) * HMAC_SIZE
    BY <1>1, <1>2 DEF offset
  <2>3. block_num + 1 \in 1..(blocks_needed + 1) /\ block_num + 1 <= blocks_needed
    BY <1>1, <1>2, <1>10
  <2> QED BY <1>1, <1>3, <1>7, <1>8, <1>9, <2>1, <2>2, <2>3 DEF KeyInv, Filled
<1>11. CASE block_num = blocks_needed
  <2>1. offset + copy_len = call.key_len
    BY <1>2, <1>11 DEF offset, copy_len, last, LastLength
  <2>2. block_num + 1 \in 1..(blocks_needed + 1) /\ ~ (block_num + 1 <= blocks_needed)
    BY <1>1, <1>2, <1>11
  <2> QED BY <1>1, <1>3, <1>7, <1>8, <1>9, <2>1, <2>2 DEF KeyInv, Filled
<1> QED BY <1>1, <1>2, <1>10, <1>11

LEMMA ReturnKey == KeyInv /\ Return => KeyInv'
<1> SUFFICES ASSUME KeyInv, Return PROVE KeyInv'
  OBVIOUS
<1>1. TypeOK'
  BY DEF Return, KeyInv, TypeOK
<1>2. call \in Calls /\ call.key_len # 0 /\ block_num \in Nat /\ block_num > blocks_needed
  BY DEF Return, KeyInv, TypeOK, Filled
<1>3. ~ (block_num <= blocks_needed)
  BY <1>2, BlocksNeeded
<1>4. Len(derived_key) = call.key_len
  BY <1>3 DEF Return, KeyInv, Filled
<1>5. pc' = "done" /\ UNCHANGED << call, derived_key >>
  BY DEF Return
<1> QED BY <1>1, <1>4, <1>5 DEF KeyInv, Filled

LEMMA StepKey == HashIsDigest /\ KeyInv /\ [Next]_vars => KeyInv'
<1> SUFFICES ASSUME HashIsDigest, KeyInv, [Next]_vars PROVE KeyInv'
  OBVIOUS
<1>1. CASE Over \/ UNCHANGED vars
  BY <1>1 DEF Over, vars, KeyInv, TypeOK, Filled, blocks_needed
<1> QED BY <1>1, CheckKey, StartBlockKey, IterateKey, CopyBlockKey, ReturnKey DEF Next

LEMMA FilledStays == KeyInv => StaysInKey
<1> SUFFICES ASSUME KeyInv PROVE Len(derived_key) <= call.key_len
  BY DEF StaysInKey
<1>1. call \in Calls /\ call.key_len \in Nat /\ pc \in {"called", "block", "iterate", "done"}
  BY DerivationConstants DEF KeyInv, TypeOK
<1>2. CASE pc \in {"called", "done"}
  BY <1>1, <1>2, EmptySeq DEF KeyInv, Filled
<1>3. CASE pc \in {"block", "iterate"}
  <2>1. /\ call.key_len # 0 /\ block_num \in 1..(blocks_needed + 1)
        /\ Len(derived_key) = IF block_num <= blocks_needed
                              THEN (block_num - 1) * HMAC_SIZE ELSE call.key_len
    BY <1>3 DEF KeyInv, Filled
  <2>2. CASE block_num <= blocks_needed
    <3>1. /\ blocks_needed \in Nat \ {0} /\ HMAC_SIZE \in Nat \ {0}
          /\ LastLength \in Nat
          /\ call.key_len = (blocks_needed - 1) * HMAC_SIZE + LastLength
      BY <1>1, <2>1, BlocksNeeded, DerivationConstants DEF LastLength
    <3>2. block_num \in Nat \ {0}
      BY <2>1, <3>1
    <3>3. (block_num - 1) * HMAC_SIZE <= (blocks_needed - 1) * HMAC_SIZE
      BY <2>2, <3>1, <3>2
    <3> QED BY <1>1, <2>1, <2>2, <3>1, <3>2, <3>3
  <2>3. CASE ~ (block_num <= blocks_needed)
    BY <1>1, <2>1, <2>3
  <2> QED BY <2>2, <2>3
<1> QED BY <1>1, <1>2, <1>3

\* kdf_derive keeps its counters, its blocks and the key bytes and numbers, whatever
\* it is called with (kdf.c:14-77).
THEOREM TypeCorrect == HashIsDigest /\ Spec => []TypeOK
<1> SUFFICES ASSUME HashIsDigest PROVE Spec => []TypeOK
  OBVIOUS
<1>1. KeyInv => TypeOK
  BY DEF KeyInv
<1>2. KeyInv /\ [Next]_vars => KeyInv'
  BY StepKey
<1> QED BY InitKey, <1>1, <1>2, PTL DEF Spec

\* The copy of a block (kdf.c:68-73) stays within the caller's array, for keys that
\* are a whole number of blocks and keys that are not.
THEOREM NoOverrun == HashIsDigest /\ Spec => []StaysInKey
<1> SUFFICES ASSUME HashIsDigest PROVE Spec => []StaysInKey
  OBVIOUS
<1>1. KeyInv /\ [Next]_vars => KeyInv'
  BY StepKey
<1> QED BY InitKey, FilledStays, <1>1, PTL DEF Spec

-----------------------------------------------------------------------------
(* The PBKDF2 key. Iterated and SumOf are defined by recursion: first that *)
(* the functions they define exist, and their equations.                   *)

\* Induction over the numbers, stated of a set: a counterexample would have a
\* least one.
LEMMA NatSetInduction ==
  ASSUME NEW S, 0 \in S, \A n \in Nat : n \in S => n + 1 \in S
  PROVE  Nat \subseteq S
<1> DEFINE R == OpToRel(<, Nat)
           T == Nat \ S
<1>1. SUFFICES ASSUME T # {} PROVE FALSE
  OBVIOUS
<1>2. IsWellFoundedOn(R, Nat)
  BY NatLessThanWellFounded
<1>3. PICK x \in T : \A y \in T : ~ (<<y, x>> \in R)
  <2> HIDE DEF R
  <2> QED BY <1>1, <1>2, WFMin
<1>4. x \in Nat /\ x # 0
  OBVIOUS
<1>5. x - 1 \in Nat /\ x - 1 < x /\ (x - 1) + 1 = x
  BY <1>4
<1>6. <<x - 1, x>> \in R
  BY <1>4, <1>5 DEF OpToRel
<1>7. x - 1 \in S
  BY <1>3, <1>5, <1>6
<1> QED BY <1>5, <1>7

\* The message of the k-th HMAC of block n, when `before' is the HMAC before it.
HmacInput(c, n, k, before) == IF k = 1 THEN c.salt \o BlockNumber(n) ELSE before

IsIterated(f, c, n, m) ==
  f = [k \in 1..m |-> hmac_compute(c.password, HmacInput(c, n, k, f[k - 1]))]

LEMMA IteratedExists ==
  ASSUME NEW c, NEW n, NEW m \in Nat
  PROVE  \E f : IsIterated(f, c, n, m)
<1> DEFINE S == {k \in Nat : \E f : IsIterated(f, c, n, k)}
<1>1. 0 \in S
  <2> DEFINE f == [k \in 1..0 |-> 0]
  <2>1. f = [k \in 1..0 |-> hmac_compute(c.password, HmacInput(c, n, k, f[k - 1]))]
    OBVIOUS
  <2> QED BY <2>1 DEF IsIterated
<1>2. ASSUME NEW k \in Nat, k \in S
      PROVE  k + 1 \in S
  <2>1. PICK f : IsIterated(f, c, n, k)
    BY <1>2
  <2> DEFINE new == hmac_compute(c.password, HmacInput(c, n, k + 1, f[k]))
             g == [j \in 1..(k + 1) |-> IF j <= k THEN f[j] ELSE new]
             h == [j \in 1..(k + 1) |-> hmac_compute(c.password, HmacInput(c, n, j, g[j - 1]))]
  <2>2. ASSUME NEW j \in 1..(k + 1)
        PROVE  g[j] = h[j]
    <3>1. j # 1 /\ j <= k => g[j - 1] = f[j - 1]
      OBVIOUS
    <3>2. j # 1 /\ j = k + 1 => g[j - 1] = f[k]
      OBVIOUS
    <3>3. j <= k => f[j] = hmac_compute(c.password, HmacInput(c, n, j, f[j - 1]))
      BY <2>1 DEF IsIterated
    <3>4. HmacInput(c, n, j, g[j - 1]) = HmacInput(c, n, j, IF j <= k THEN f[j - 1] ELSE f[k])
      BY <3>1, <3>2 DEF HmacInput
    <3>5. CASE j <= k
      BY <3>3, <3>4, <3>5
    <3>6. CASE j = k + 1
      BY <3>4, <3>6
    <3> QED BY <3>5, <3>6
  <2>3. g = h
    BY <2>2
  <2>4. IsIterated(g, c, n, k + 1)
    BY <2>3 DEF IsIterated
  <2> QED BY <2>4
<1> HIDE DEF S
<1>3. Nat \subseteq S
  BY <1>1, <1>2, NatSetInduction
<1> QED BY <1>3 DEF S

LEMMA IteratedEquation ==
  ASSUME NEW c, c.iterations \in Nat, NEW n
  PROVE  IsIterated(Iterated(c, n), c, n, c.iterations)
<1> DEFINE f == CHOOSE g : IsIterated(g, c, n, c.iterations)
<1>1. IsIterated(f, c, n, c.iterations)
  BY IteratedExists
<1>2. Iterated(c, n) = f
  BY DEF Iterated, IsIterated, HmacInput
<1> HIDE DEF f
<1> QED BY <1>1, <1>2

IsSum(s, f, byte, n) ==
  s = [k \in 0..n |-> IF k = 0 THEN 0 ELSE Xor(s[k - 1], f[k][byte])]

LEMMA SumExists ==
  ASSUME NEW f, NEW byte, NEW n \in Nat
  PROVE  \E s : IsSum(s, f, byte, n)
<1> DEFINE S == {k \in Nat : \E s : IsSum(s, f, byte, k)}
<1>1. 0 \in S
  <2> DEFINE s == [k \in 0..0 |-> 0]
  <2>1. s = [k \in 0..0 |-> IF k = 0 THEN 0 ELSE Xor(s[k - 1], f[k][byte])]
    OBVIOUS
  <2> QED BY <2>1 DEF IsSum
<1>2. ASSUME NEW k \in Nat, k \in S
      PROVE  k + 1 \in S
  <2>1. PICK s : IsSum(s, f, byte, k)
    BY <1>2
  <2> DEFINE g == [j \in 0..(k + 1) |-> IF j <= k THEN s[j] ELSE Xor(s[k], f[k + 1][byte])]
             h == [j \in 0..(k + 1) |-> IF j = 0 THEN 0 ELSE Xor(g[j - 1], f[j][byte])]
  <2>2. ASSUME NEW j \in 0..(k + 1)
        PROVE  g[j] = h[j]
    <3>1. CASE j = 0
      BY <2>1, <3>1 DEF IsSum
    <3>2. CASE j \in 1..k
      <4>1. j - 1 \in 0..(k + 1) /\ j - 1 <= k /\ j \in 0..k /\ j # 0
        BY <3>2
      <4>2. g[j] = s[j] /\ g[j - 1] = s[j - 1]
        BY <4>1
      <4>3. s[j] = Xor(s[j - 1], f[j][byte])
        BY <2>1, <4>1 DEF IsSum
      <4> QED BY <4>1, <4>2, <4>3
    <3>3. CASE j = k + 1
      BY <3>3
    <3> QED BY <3>1, <3>2, <3>3
  <2>3. g = h
    BY <2>2
  <2>4. IsSum(g, f, byte, k + 1)
    BY <2>3 DEF IsSum
  <2> QED BY <2>4
<1> HIDE DEF S
<1>3. Nat \subseteq S
  BY <1>1, <1>2, NatSetInduction
<1> QED BY <1>3 DEF S

LEMMA SumsAgree ==
  ASSUME NEW f, NEW byte, NEW n1 \in Nat, NEW n2 \in Nat, NEW s1, NEW s2,
         IsSum(s1, f, byte, n1), IsSum(s2, f, byte, n2),
         NEW n \in Nat, n <= n1, n <= n2
  PROVE  s1[n] = s2[n]
<1> DEFINE S == {k \in Nat : k <= n => s1[k] = s2[k]}
<1>1. 0 \in S
  BY DEF IsSum
<1>2. ASSUME NEW k \in Nat, k \in S
      PROVE  k + 1 \in S
  <2>1. SUFFICES ASSUME k + 1 <= n PROVE s1[k + 1] = s2[k + 1]
    OBVIOUS
  <2>2. s1[k] = s2[k]
    BY <1>2, <2>1
  <2>3. k + 1 \in 0..n1 /\ k + 1 \in 0..n2 /\ k + 1 # 0 /\ (k + 1) - 1 = k
    BY <2>1
  <2>4. s1[k + 1] = Xor(s1[k], f[k + 1][byte])
    BY <2>3 DEF IsSum
  <2>5. s2[k + 1] = Xor(s2[k], f[k + 1][byte])
    BY <2>3 DEF IsSum
  <2> QED BY <2>2, <2>4, <2>5
<1> HIDE DEF S
<1>3. Nat \subseteq S
  BY <1>1, <1>2, NatSetInduction
<1> QED BY <1>3 DEF S

LEMMA SumIs ==
  ASSUME NEW f, NEW byte, NEW n \in Nat
  PROVE  \E s : IsSum(s, f, byte, n) /\ SumOf(f, byte, n) = s[n]
<1> DEFINE s == CHOOSE t : IsSum(t, f, byte, n)
<1>1. IsSum(s, f, byte, n)
  BY SumExists
<1>2. SumOf(f, byte, n) = s[n]
  BY DEF SumOf, IsSum
<1> QED BY <1>1, <1>2

LEMMA SumZero ==
  ASSUME NEW f, NEW byte
  PROVE  SumOf(f, byte, 0) = 0
<1>1. PICK s : IsSum(s, f, byte, 0) /\ SumOf(f, byte, 0) = s[0]
  BY SumIs
<1> QED BY <1>1 DEF IsSum

LEMMA SumNext ==
  ASSUME NEW f, NEW byte, NEW n \in Nat
  PROVE  SumOf(f, byte, n + 1) = Xor(SumOf(f, byte, n), f[n + 1][byte])
<1>1. PICK s : IsSum(s, f, byte, n + 1) /\ SumOf(f, byte, n + 1) = s[n + 1]
  BY SumIs
<1>2. PICK t : IsSum(t, f, byte, n) /\ SumOf(f, byte, n) = t[n]
  BY SumIs
<1>3. s[n] = t[n]
  BY <1>1, <1>2, SumsAgree
<1>4. s[n + 1] = Xor(s[n], f[n + 1][byte])
  BY <1>1 DEF IsSum
<1> QED BY <1>1, <1>2, <1>3, <1>4

-----------------------------------------------------------------------------
(* The invariant of the computation.                                       *)

\* byte j of the PBKDF2 key
KeyByte(c, j) ==
  SumOf(Iterated(c, ((j - 1) \div HMAC_SIZE) + 1), ((j - 1) % HMAC_SIZE) + 1, c.iterations)

\* What is written of the key is right, u is the HMAC of this turn and every byte of
\* the block the sum of that byte of the HMACs up to this turn.
Summed ==
  /\ pc \in {"block", "iterate"} =>
       \A j \in 1..Len(derived_key) : derived_key[j] = KeyByte(call, j)
  /\ pc = "iterate" =>
       /\ iteration \in 1..call.iterations
       /\ u = Iterated(call, block_num)[iteration]
       /\ \A k \in 1..HMAC_SIZE : block[k] = SumOf(Iterated(call, block_num), k, iteration)

DerivationInv == KeyInv /\ Summed /\ DerivesPbkdf2

LEMMA CallFacts ==
  ASSUME call \in Calls
  PROVE  /\ call.iterations \in Nat \ {0} /\ call.key_len \in Nat
         /\ call.password \in Seq(Byte) /\ call.salt \in Seq(Byte)
         /\ HMAC_SIZE \in Nat \ {0}
BY DerivationConstants

\* The sum of one HMAC is the HMAC itself.
LEMMA SumOfOne ==
  ASSUME NEW f, NEW k, f[1][k] \in Byte
  PROVE  SumOf(f, k, 1) = f[1][k]
<1>1. SumOf(f, k, 0 + 1) = Xor(SumOf(f, k, 0), f[0 + 1][k])
  BY SumNext
<1>2. SumOf(f, k, 1) = Xor(0, f[1][k])
  BY <1>1, SumZero
<1> QED BY <1>2, DerivationConstants

LEMMA InitDerivation == Init => DerivationInv
<1> SUFFICES ASSUME Init PROVE DerivationInv
  OBVIOUS
<1>1. KeyInv
  BY InitKey
<1> QED BY <1>1 DEF Init, DerivationInv, Summed, DerivesPbkdf2

LEMMA CheckDerivation == DerivationInv /\ Check => Summed' /\ DerivesPbkdf2'
<1> SUFFICES ASSUME DerivationInv, Check PROVE Summed' /\ DerivesPbkdf2'
  OBVIOUS
<1>1. derived_key = << >> /\ Len(<< >>) = 0 /\ derived_key' = << >>
  BY EmptySeq DEF Check, DerivationInv, KeyInv, Filled
<1>2. CASE call.key_len = 0
  <2>1. pc' = "done" /\ ret' = -1 /\ call' = call
    BY <1>2 DEF Check
  <2> QED BY <1>1, <1>2, <2>1 DEF Summed, DerivesPbkdf2
<1>3. CASE call.key_len # 0
  <2>1. pc' = "block"
    BY <1>3 DEF Check
  <2>2. \A j \in 1..Len(derived_key') : FALSE
    BY <1>1
  <2> QED BY <2>1, <2>2 DEF Summed, DerivesPbkdf2
<1> QED BY <1>2, <1>3

LEMMA StartBlockDerivation ==
  HashIsDigest /\ DerivationInv /\ StartBlock => Summed' /\ DerivesPbkdf2'
<1> SUFFICES ASSUME HashIsDigest, DerivationInv, StartBlock PROVE Summed' /\ DerivesPbkdf2'
  OBVIOUS
<1>1. /\ pc = "block" /\ pc' = "iterate" /\ iteration' = 1 /\ block' = u'
      /\ u' = hmac_compute(call.password, call.salt \o BlockNumber(block_num))
      /\ UNCHANGED << ret, call, block_num, derived_key >>
  BY DEF StartBlock
<1>2. call \in Calls /\ block_num \in Nat
  BY DEF DerivationInv, KeyInv, TypeOK
<1> DEFINE f == Iterated(call, block_num)
<1>3. IsIterated(f, call, block_num, call.iterations) /\ call.iterations \in Nat \ {0}
  BY <1>2, CallFacts, IteratedEquation
<1> HIDE DEF f
<1>4. 1 \in 1..call.iterations /\ u' = f[1]
  <2>1. 1 \in 1..call.iterations
    BY <1>3
  <2>2. f[1] = hmac_compute(call.password, HmacInput(call, block_num, 1, f[1 - 1]))
    BY <1>3, <2>1 DEF IsIterated
  <2> QED BY <1>1, <2>1, <2>2 DEF HmacInput
<1>5. u' \in Digest
  <2>1. call.salt \o BlockNumber(block_num) \in Seq(Byte)
    BY <1>2, CallFacts, BlockNumberType, ConcatProperties
  <2> QED BY <1>1, <1>2, <2>1, CallFacts, HmacType
<1>6. \A k \in 1..HMAC_SIZE : block'[k] = SumOf(f, k, 1)
  <2>1. SUFFICES ASSUME NEW k \in 1..HMAC_SIZE PROVE block'[k] = SumOf(f, k, 1)
    OBVIOUS
  <2>2. f[1][k] \in Byte
    BY <1>4, <1>5 DEF Digest
  <2> QED BY <1>1, <1>4, <2>2, SumOfOne
<1>7. \A j \in 1..Len(derived_key) : derived_key[j] = KeyByte(call, j)
  BY <1>1 DEF DerivationInv, Summed
<1>8. f' = f
  BY <1>1 DEF f
<1>9. Summed'
  BY <1>1, <1>4, <1>6, <1>7 DEF Summed, f
<1> QED BY <1>1, <1>9 DEF DerivesPbkdf2

LEMMA IterateDerivation ==
  HashIsDigest /\ DerivationInv /\ Iterate => Summed' /\ DerivesPbkdf2'
<1> SUFFICES ASSUME HashIsDigest, DerivationInv, Iterate PROVE Summed' /\ DerivesPbkdf2'
  OBVIOUS
<1> DEFINE f == Iterated(call, block_num)
<1>1. /\ pc = "iterate" /\ pc' = "iterate" /\ iteration < call.iterations
      /\ u' = hmac_compute(call.password, u) /\ block' = XorBytes(block, u')
      /\ iteration' = iteration + 1
      /\ UNCHANGED << ret, call, block_num, derived_key >>
  BY DEF Iterate
<1>2. /\ call \in Calls /\ block_num \in Nat
      /\ iteration \in 1..call.iterations /\ u = f[iteration]
      /\ \A k \in 1..HMAC_SIZE : block[k] = SumOf(f, k, iteration)
      /\ \A j \in 1..Len(derived_key) : derived_key[j] = KeyByte(call, j)
  BY <1>1 DEF DerivationInv, KeyInv, TypeOK, Summed
<1>3. IsIterated(f, call, block_num, call.iterations) /\ call.iterations \in Nat \ {0}
  BY <1>2, CallFacts, IteratedEquation
<1> HIDE DEF f
<1>4. /\ iteration \in Nat /\ iteration + 1 \in 1..call.iterations
      /\ iteration + 1 # 1 /\ (iteration + 1) - 1 = iteration
  BY <1>1, <1>2, <1>3
<1>5. u' = f[iteration + 1]
  <2>1. f[iteration + 1]
          = hmac_compute(call.password, HmacInput(call, block_num, iteration + 1,
                                                  f[(iteration + 1) - 1]))
    BY <1>3, <1>4 DEF IsIterated
  <2> QED BY <1>1, <1>2, <1>4, <2>1 DEF HmacInput
<1>6. \A k \in 1..HMAC_SIZE : block'[k] = SumOf(f, k, iteration + 1)
  <2>1. SUFFICES ASSUME NEW k \in 1..HMAC_SIZE PROVE block'[k] = SumOf(f, k, iteration + 1)
    OBVIOUS
  <2>2. block'[k] = Xor(block[k], u'[k])
    BY <1>1 DEF XorBytes
  <2>3. SumOf(f, k, iteration + 1) = Xor(SumOf(f, k, iteration), f[iteration + 1][k])
    BY <1>4, SumNext
  <2> QED BY <1>2, <1>5, <2>2, <2>3
<1>7. Summed'
  BY <1>1, <1>2, <1>4, <1>5, <1>6 DEF Summed, f
<1> QED BY <1>1, <1>7 DEF DerivesPbkdf2

LEMMA CopyBlockDerivation == DerivationInv /\ CopyBlock => Summed' /\ DerivesPbkdf2'
<1> SUFFICES ASSUME DerivationInv, CopyBlock PROVE Summed' /\ DerivesPbkdf2'
  OBVIOUS
<1> DEFINE last     == block_num = blocks_needed /\ call.key_len % HMAC_SIZE # 0
           copy_len == IF last THEN call.key_len % HMAC_SIZE ELSE HMAC_SIZE
           offset   == (block_num - 1) * HMAC_SIZE
<1>1. /\ pc = "iterate" /\ call \in Calls /\ call.key_len # 0
      /\ block_num \in Nat /\ block_num \in 1..(blocks_needed + 1) /\ block_num <= blocks_needed
      /\ block \in Digest /\ derived_key \in Seq(Byte) /\ Len(derived_key) = offset
      /\ iteration >= call.iterations
  BY DEF DerivationInv, KeyInv, TypeOK, Filled, CopyBlock
<1>2. /\ blocks_needed \in Nat \ {0} /\ call.key_len % HMAC_SIZE \in 0..(HMAC_SIZE - 1)
      /\ HMAC_SIZE \in Nat \ {0} /\ call.iterations \in Nat \ {0}
  BY <1>1, BlocksNeeded, CallFacts
<1>3. /\ pc' = "block" /\ UNCHANGED << ret, call, iteration, u, block >>
      /\ derived_key' = SubSeq(derived_key, 1, offset) \o SubSeq(block, 1, copy_len)
  BY DEF CopyBlock
<1>4. SubSeq(derived_key, 1, offset) = derived_key
  BY <1>1, SubSeqFull
<1>5. copy_len \in 1..HMAC_SIZE
  BY <1>2
<1> HIDE DEF last, copy_len
<1>6. /\ SubSeq(block, 1, copy_len) \in Seq(Byte) /\ Len(SubSeq(block, 1, copy_len)) = copy_len
      /\ \A k \in 1..copy_len : SubSeq(block, 1, copy_len)[k] = block[k]
  <2>1. \A k \in 1..copy_len : block[k] \in Byte /\ 1 + k - 1 = k
    BY <1>1, <1>2, <1>5 DEF Digest
  <2>2. copy_len \in Int /\ 1 \in Int /\ 1 <= copy_len /\ copy_len - 1 + 1 = copy_len
    BY <1>2, <1>5
  <2> QED BY <2>1, <2>2, SubSeqProperties
<1>7. offset \in Nat /\ offset = HMAC_SIZE * (block_num - 1) /\ block_num - 1 \in Nat
  BY <1>1, <1>2
<1> HIDE DEF offset
<1>8. /\ Len(derived_key') = offset + copy_len
      /\ \A j \in 1..(offset + copy_len) :
           derived_key'[j] = IF j <= offset THEN derived_key[j] ELSE block[j - offset]
  <2> DEFINE part == SubSeq(block, 1, copy_len)
  <2>1. /\ Len(derived_key \o part) = Len(derived_key) + Len(part)
        /\ \A j \in 1..(Len(derived_key) + Len(part)) :
             (derived_key \o part)[j] = IF j <= Len(derived_key) THEN derived_key[j]
                                        ELSE part[j - Len(derived_key)]
    BY <1>1, <1>6, ConcatProperties
  <2>2. derived_key' = derived_key \o part
    BY <1>3, <1>4
  <2>3. /\ Len(part) = copy_len /\ Len(derived_key) = offset
        /\ \A k \in 1..copy_len : part[k] = block[k]
    BY <1>1, <1>6
  <2> HIDE DEF part
  <2>4. ASSUME NEW j \in 1..(offset + copy_len)
        PROVE  derived_key'[j] = IF j <= offset THEN derived_key[j] ELSE block[j - offset]
    <3>1. derived_key'[j] = IF j <= offset THEN derived_key[j] ELSE part[j - offset]
      BY <2>1, <2>2, <2>3
    <3>2. ~ (j <= offset) => j - offset \in 1..copy_len
      BY <1>2, <1>5, <1>7
    <3> QED BY <2>3, <3>1, <3>2
  <2> QED BY <2>1, <2>2, <2>3, <2>4
<1>9. /\ iteration = call.iterations
      /\ \A k \in 1..HMAC_SIZE : block[k] = SumOf(Iterated(call, block_num), k, call.iterations)
  <2>1. /\ iteration \in 1..call.iterations
        /\ \A k \in 1..HMAC_SIZE : block[k] = SumOf(Iterated(call, block_num), k, iteration)
    BY <1>1 DEF DerivationInv, Summed
  <2>2. iteration = call.iterations
    BY <1>1, <1>2, <2>1
  <2> QED BY <2>1, <2>2
<1>10. ASSUME NEW j \in 1..(offset + copy_len)
       PROVE  derived_key'[j] = KeyByte(call, j)
  <2>1. CASE j <= offset
    <3>1. j \in 1..Len(derived_key)
      BY <1>1, <1>7, <2>1
    <3>2. derived_key[j] = KeyByte(call, j)
      BY <1>1, <3>1 DEF DerivationInv, Summed
    <3> QED BY <1>8, <2>1, <3>2
  <2>2. CASE ~ (j <= offset)
    <3> DEFINE k == j - offset
    <3>1. /\ k \in 1..HMAC_SIZE /\ k - 1 \in 0..(HMAC_SIZE - 1) /\ j - 1 \in Nat
          /\ j - 1 = HMAC_SIZE * (block_num - 1) + (k - 1)
      BY <1>2, <1>5, <1>7, <2>2
    <3> HIDE DEF k
    <3>2. (j - 1) \div HMAC_SIZE = block_num - 1 /\ (j - 1) % HMAC_SIZE = k - 1
      BY <1>2, <1>7, <3>1, DivisionUnique
    <3>3. (block_num - 1) + 1 = block_num /\ (k - 1) + 1 = k
      BY <1>1, <1>2, <3>1
    <3>4. KeyByte(call, j) = SumOf(Iterated(call, block_num), k, call.iterations)
      BY <3>2, <3>3 DEF KeyByte
    <3>5. derived_key'[j] = block[k]
      BY <1>8, <2>2 DEF k
    <3> QED BY <1>9, <3>1, <3>4, <3>5
  <2> QED BY <2>1, <2>2
<1>11. \A j \in 1..Len(derived_key') : derived_key'[j] = KeyByte(call, j)
  BY <1>8, <1>10
<1> QED BY <1>3, <1>11 DEF Summed, DerivesPbkdf2

LEMMA ReturnDerivation == DerivationInv /\ Return => Summed' /\ DerivesPbkdf2'
<1> SUFFICES ASSUME DerivationInv, Return PROVE Summed' /\ DerivesPbkdf2'
  OBVIOUS
<1>1. /\ pc = "block" /\ pc' = "done" /\ ret' = 0 /\ block_num > blocks_needed
      /\ UNCHANGED << call, derived_key >>
  BY DEF Return
<1>2. /\ call \in Calls /\ call.key_len # 0 /\ block_num \in Nat /\ derived_key \in Seq(Byte)
      /\ Len(derived_key) = IF block_num <= blocks_needed
                            THEN (block_num - 1) * HMAC_SIZE ELSE call.key_len
      /\ \A j \in 1..Len(derived_key) : derived_key[j] = KeyByte(call, j)
  BY <1>1 DEF DerivationInv, KeyInv, TypeOK, Filled, Summed
<1>3. Len(derived_key) = call.key_len
  <2>1. blocks_needed \in Nat
    BY <1>2, BlocksNeeded
  <2>2. ~ (block_num <= blocks_needed)
    BY <1>1, <1>2, <2>1
  <2> QED BY <1>2, <2>2
<1>4. derived_key \in [1..call.key_len -> Byte]
  BY <1>2, <1>3, LenProperties
<1>5. derived_key = [j \in 1..call.key_len |-> KeyByte(call, j)]
  BY <1>2, <1>3, <1>4
<1>6. derived_key = Pbkdf2(call)
  BY <1>5 DEF Pbkdf2, KeyByte
<1> QED BY <1>1, <1>2, <1>6 DEF Summed, DerivesPbkdf2

LEMMA StepDerivation == HashIsDigest /\ DerivationInv /\ [Next]_vars => DerivationInv'
<1> SUFFICES ASSUME HashIsDigest, DerivationInv, [Next]_vars PROVE DerivationInv'
  OBVIOUS
<1>1. KeyInv'
  BY StepKey DEF DerivationInv
<1>2. CASE Over \/ UNCHANGED vars
  <2>1. UNCHANGED vars
    BY <1>2 DEF Over
  <2>2. Summed' /\ DerivesPbkdf2'
    BY <2>1 DEF vars, DerivationInv, Summed, DerivesPbkdf2
  <2> QED BY <1>1, <2>2 DEF DerivationInv
<1> QED BY <1>1, <1>2, CheckDerivation, StartBlockDerivation, IterateDerivation,
           CopyBlockDerivation, ReturnDerivation DEF Next, DerivationInv

\* kdf_derive returns the PBKDF2 key, whatever the password, the salt, the length of
\* the key and the number of iterations: every byte is the sum of its HMACs, no block
\* is numbered wrong and the last one is cut where the key ends (kdf.c:14-77).
THEOREM DerivationCorrect == HashIsDigest /\ Spec => []DerivesPbkdf2
<1> SUFFICES ASSUME HashIsDigest PROVE Spec => []DerivesPbkdf2
  OBVIOUS
<1>1. DerivationInv /\ [Next]_vars => DerivationInv'
  BY StepDerivation
<1>2. DerivationInv => DerivesPbkdf2
  BY DEF DerivationInv
<1> QED BY InitDerivation, <1>1, <1>2, PTL DEF Spec

-----------------------------------------------------------------------------
(* The loops run out.                                                      *)

\* i of the inner loop does not pass the number of iterations.
IterationWithin == pc = "iterate" => iteration <= call.iterations

CountInv == KeyInv /\ IterationWithin

LEMMA StepCount == HashIsDigest /\ CountInv /\ [Next]_vars => CountInv'
<1> SUFFICES ASSUME HashIsDigest, CountInv, [Next]_vars PROVE CountInv'
  OBVIOUS
<1>1. KeyInv'
  BY StepKey DEF CountInv
<1>2. call.iterations \in Nat \ {0} /\ iteration \in Nat
  BY DerivationConstants DEF CountInv, KeyInv, TypeOK
<1>3. IterationWithin'
  <2>1. CASE StartBlock
    BY <1>2, <2>1 DEF StartBlock, IterationWithin
  <2>2. CASE Iterate
    BY <1>2, <2>2 DEF Iterate, IterationWithin
  <2>3. CASE Check \/ CopyBlock \/ Return
    BY <2>3 DEF Check, CopyBlock, Return, IterationWithin
  <2>4. CASE Over \/ UNCHANGED vars
    BY <2>4 DEF Over, vars, CountInv, IterationWithin
  <2> QED BY <2>1, <2>2, <2>3, <2>4 DEF Next
<1> QED BY <1>1, <1>3 DEF CountInv

LEMMA OneMore ==
  ASSUME NEW k \in Nat, NEW w \in Nat
  PROVE  k * w \in Nat /\ (k + 1) * w = k * w + w
OBVIOUS

LEMMA BlocksAreNumber ==
  ASSUME call \in Calls
  PROVE  blocks_needed \in Nat
<1>1. call.key_len \in Nat /\ HMAC_SIZE \in Nat \ {0}
  BY DerivationConstants
<1>2. call.key_len + HMAC_SIZE - 1 \in Nat
  BY <1>1
<1> QED BY <1>1, <1>2 DEF blocks_needed

\* What StepsLeft says in each phase is a number.
LEMMA StepsLeftType == CountInv => StepsLeft \in Nat
<1> SUFFICES ASSUME CountInv PROVE StepsLeft \in Nat
  OBVIOUS
<1> DEFINE w == call.iterations + 2
<1>1. /\ call \in Calls /\ w \in Nat /\ call.iterations \in Nat /\ iteration \in Nat
      /\ block_num \in Nat /\ pc \in {"called", "block", "iterate", "done"}
  BY DerivationConstants DEF CountInv, KeyInv, TypeOK
<1>2. blocks_needed \in Nat
  BY <1>1, BlocksAreNumber
<1> HIDE DEF w
<1>3. CASE pc = "called"
  <2>1. blocks_needed * w \in Nat
    BY <1>1, <1>2, OneMore
  <2>2. StepsLeft = blocks_needed * w + 2
    BY <1>3 DEF StepsLeft, w
  <2> QED BY <2>1, <2>2
<1>4. CASE pc = "block"
  <2>1. blocks_needed + 1 - block_num \in Nat
    BY <1>1, <1>2, <1>4 DEF CountInv, KeyInv, Filled
  <2>2. (blocks_needed + 1 - block_num) * w \in Nat
    BY <1>1, <2>1, OneMore
  <2>3. StepsLeft = (blocks_needed + 1 - block_num) * w + 1
    BY <1>4 DEF StepsLeft, w
  <2> QED BY <2>2, <2>3
<1>5. CASE pc = "iterate"
  <2>1. blocks_needed - block_num \in Nat
    BY <1>1, <1>2, <1>5 DEF CountInv, KeyInv, Filled
  <2>2. (blocks_needed - block_num) * w \in Nat
    BY <1>1, <2>1, OneMore
  <2>3. StepsLeft = (blocks_needed - block_num) * w + (call.iterations - iteration) + 2
    BY <1>5 DEF StepsLeft, w
  <2>4. call.iterations - iteration \in Nat
    BY <1>1, <1>5 DEF CountInv, IterationWithin
  <2> QED BY <2>2, <2>3, <2>4
<1>6. CASE pc = "done"
  BY <1>6 DEF StepsLeft
<1> QED BY <1>1, <1>3, <1>4, <1>5, <1>6

\* Every step but the last, which changes nothing, leaves fewer of them.
LEMMA FewerStepsLeft ==
  CountInv /\ (Check \/ StartBlock \/ Iterate \/ CopyBlock \/ Return) => StepsLeft' < StepsLeft
<1> SUFFICES ASSUME CountInv, Check \/ StartBlock \/ Iterate \/ CopyBlock \/ Return
             PROVE  StepsLeft' < StepsLeft
  OBVIOUS
<1> DEFINE w == call.iterations + 2
           rest == blocks_needed - block_num
<1>1. /\ call \in Calls /\ w \in Nat \ {0} /\ call.iterations \in Nat \ {0} /\ iteration \in Nat
      /\ w = call.iterations + 2 /\ block_num \in Nat
  BY DerivationConstants DEF CountInv, KeyInv, TypeOK
<1>2. blocks_needed \in Nat
  BY <1>1, BlocksAreNumber
<1>3. call' = call /\ blocks_needed' = blocks_needed /\ w' = w
  BY DEF Check, StartBlock, Iterate, CopyBlock, Return, blocks_needed
<1> HIDE DEF w
<1>4. CASE Check
  <2>1. StepsLeft = blocks_needed * w + 2 /\ blocks_needed * w \in Nat
    BY <1>1, <1>2, <1>4, OneMore DEF Check, StepsLeft, w
  <2>2. CASE pc' = "done"
    <3>1. StepsLeft' = 0
      BY <2>2 DEF StepsLeft
    <3> QED BY <2>1, <3>1
  <2>3. CASE pc' = "block"
    <3>1. StepsLeft' = (blocks_needed + 1 - block_num) * w + 1
      BY <1>3, <1>4, <2>3 DEF Check, StepsLeft, w
    <3>2. block_num = 1
      BY <1>4 DEF Check, CountInv, KeyInv, Filled
    <3>3. blocks_needed + 1 - block_num = blocks_needed
      BY <1>2, <3>2
    <3> QED BY <2>1, <3>1, <3>3
  <2> QED BY <1>4, <2>2, <2>3 DEF Check
<1>5. CASE StartBlock
  <2>1. rest \in Nat /\ blocks_needed + 1 - block_num = rest + 1
    BY <1>1, <1>2, <1>5 DEF StartBlock
  <2>2. StepsLeft = (blocks_needed + 1 - block_num) * w + 1
    BY <1>5 DEF StartBlock, StepsLeft, w
  <2>3. StepsLeft' = rest * w + (call.iterations - 1) + 2
    BY <1>3, <1>5 DEF StartBlock, StepsLeft, w
  <2> HIDE DEF rest
  <2>4. rest * w \in Nat /\ (rest + 1) * w = rest * w + w
    BY <1>1, <2>1, OneMore
  <2> QED BY <1>1, <2>1, <2>2, <2>3, <2>4
<1>6. CASE Iterate
  <2>1. rest \in Nat
    BY <1>1, <1>2, <1>6 DEF Iterate, CountInv, KeyInv, Filled
  <2>2. StepsLeft = rest * w + (call.iterations - iteration) + 2
    BY <1>6 DEF Iterate, StepsLeft, w
  <2>3. StepsLeft' = rest * w + (call.iterations - (iteration + 1)) + 2
    BY <1>3, <1>6 DEF Iterate, StepsLeft, w
  <2> HIDE DEF rest
  <2>4. rest * w \in Nat
    BY <1>1, <2>1, OneMore
  <2> QED BY <1>1, <2>2, <2>3, <2>4
<1>7. CASE CopyBlock
  <2>1. rest \in Nat /\ blocks_needed + 1 - (block_num + 1) = rest
    BY <1>1, <1>2, <1>7 DEF CopyBlock, CountInv, KeyInv, Filled
  <2>2. StepsLeft = rest * w + (call.iterations - iteration) + 2
    BY <1>7 DEF CopyBlock, StepsLeft, w
  <2>3. StepsLeft' = (blocks_needed + 1 - (block_num + 1)) * w + 1
    BY <1>3, <1>7 DEF CopyBlock, StepsLeft, w
  <2>4. iteration <= call.iterations
    BY <1>7 DEF CopyBlock, CountInv, IterationWithin
  <2> HIDE DEF rest
  <2>5. rest * w \in Nat
    BY <1>1, <2>1, OneMore
  <2> QED BY <1>1, <2>1, <2>2, <2>3, <2>4, <2>5
<1>8. CASE Return
  <2>1. blocks_needed + 1 - block_num \in Nat
    BY <1>1, <1>2, <1>8 DEF Return, CountInv, KeyInv, Filled
  <2>2. StepsLeft = (blocks_needed + 1 - block_num) * w + 1
    BY <1>8 DEF Return, StepsLeft, w
  <2>3. (blocks_needed + 1 - block_num) * w \in Nat
    BY <1>1, <2>1, OneMore
  <2>4. StepsLeft' = 0
    BY <1>8 DEF Return, StepsLeft
  <2> QED BY <2>2, <2>3, <2>4
<1> QED BY <1>4, <1>5, <1>6, <1>7, <1>8

\* The loops of kdf_derive (kdf.c:35 and :59) run out, however long the key and however
\* many the iterations: the steps that the call can still take are bounded by a number
\* that every step makes smaller.
THEOREM StepsRunOut == HashIsDigest /\ Spec => CountsDown
<1> SUFFICES ASSUME HashIsDigest PROVE Spec => CountsDown
  OBVIOUS
<1>1. Init => CountInv
  BY InitKey DEF Init, CountInv, IterationWithin
<1>2. CountInv /\ [Next]_vars => CountInv'
  BY StepCount
<1>3. CountInv /\ [Next]_vars => [/\ StepsLeft \in Nat
                                  /\ StepsLeft' < StepsLeft]_vars
  BY StepsLeftType, FewerStepsLeft DEF Next, Over
<1> QED BY <1>1, <1>2, <1>3, PTL DEF Spec, CountsDown

=============================================================================
