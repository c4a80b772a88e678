-------------------------- MODULE ContainerProofs --------------------------
(***************************************************************************)
(* What TLAPS proves of the file format, for blocks and files of every     *)
(* size and every cipher that obeys Container's laws: what encryption does *)
(* to a block, to a chain of blocks and to the size field, decryption      *)
(* undoes; a plaintext that goes on begins its ciphertext alike; and where *)
(* the parts of a sealed file lie.                                         *)
(***************************************************************************)
EXTENDS Container, SequenceTheorems, WellFoundedInduction, TLAPS

LEMMA BlockFacts ==
  /\ BLOCK_SIZE \in Nat \ {0} /\ ByteBase \in Nat \ {0} /\ BLOCK_SIZE < ByteBase
BY SizesPositive, PaddingFitsByte

\* The xor of two blocks is a block.
LEMMA XoredBlock ==
  ASSUME NEW a \in Block, NEW b \in Block
  PROVE  [j \in 1..BLOCK_SIZE |-> Xor(a[j], b[j])] \in Block
BY XorLaws DEF Block

\* Padding makes a block of every message shorter than one, the empty one too
\* (cipher_ops.c:145-150).
THEOREM PaddingMakesBlock ==
  ASSUME NEW data \in Seq(Byte), Len(data) < BLOCK_SIZE
  PROVE  cipher_add_pkcs7_padding(data) \in Block
<1>1. \A j \in 1..BLOCK_SIZE :
        (IF j <= Len(data) THEN data[j] ELSE BLOCK_SIZE - Len(data)) \in Byte
  <2>1. SUFFICES ASSUME NEW j \in 1..BLOCK_SIZE
                 PROVE  (IF j <= Len(data) THEN data[j] ELSE BLOCK_SIZE - Len(data)) \in Byte
    OBVIOUS
  <2>2. CASE j <= Len(data)
    BY <2>1, <2>2, LenProperties, ElementOfSeq, BlockFacts
  <2>3. CASE ~ (j <= Len(data))
    BY <2>3, LenProperties, BlockFacts DEF Byte
  <2> QED BY <2>2, <2>3
<1> QED BY <1>1 DEF cipher_add_pkcs7_padding, Block

\* Unpadding finds the length of what was padded, whatever its bytes are: no data
\* is taken for padding and no padding for data (cipher_ops.c:145-179).
THEOREM PaddingUnambiguous ==
  ASSUME NEW data \in Seq(Byte), Len(data) < BLOCK_SIZE
  PROVE  LET padded == cipher_add_pkcs7_padding(data)
         IN  /\ cipher_remove_pkcs7_padding(padded) = Len(data)
             /\ SubSeq(padded, 1, Len(data)) = data
<1> DEFINE padded == cipher_add_pkcs7_padding(data)
           value  == padded[BLOCK_SIZE]
<1>1. Len(data) \in Nat /\ BLOCK_SIZE \in Nat \ {0}
  BY LenProperties, BlockFacts
<1>2. \A j \in 1..BLOCK_SIZE :
        padded[j] = IF j <= Len(data) THEN data[j] ELSE BLOCK_SIZE - Len(data)
  BY DEF cipher_add_pkcs7_padding
<1>3. padded \in Block
  BY PaddingMakesBlock
<1> HIDE DEF padded
<1>4. value = BLOCK_SIZE - Len(data)
  BY <1>1, <1>2
<1>5. cipher_remove_pkcs7_padding(padded) = Len(data)
  <2>1. value # 0 /\ ~ (value > BLOCK_SIZE) /\ BLOCK_SIZE - value = Len(data)
    BY <1>1, <1>4
  <2>2. \A j \in (BLOCK_SIZE - value + 1)..BLOCK_SIZE : padded[j] = value
    BY <1>1, <1>2, <1>4
  <2> QED BY <2>1, <2>2 DEF cipher_remove_pkcs7_padding
<1>6. SubSeq(padded, 1, Len(data)) = data
  <2>1. \A j \in 1..Len(data) : padded[j] \in Byte /\ padded[j] = data[j]
    BY <1>1, <1>2, ElementOfSeq
  <2>2. /\ SubSeq(padded, 1, Len(data)) \in Seq(Byte)
        /\ Len(SubSeq(padded, 1, Len(data))) = Len(data)
        /\ \A j \in 1..(Len(data) - 1 + 1) : SubSeq(padded, 1, Len(data))[j] = padded[1 + j - 1]
    BY <1>1, <2>1, SubSeqProperties
  <2>3. \A j \in 1..Len(data) : SubSeq(padded, 1, Len(data))[j] = data[j]
    BY <1>1, <2>1, <2>2
  <2> QED BY <2>2, <2>3, SeqEqual
<1> QED BY <1>5, <1>6 DEF padded

\* One CBC step is undone by the other under the same key and the same previous
\* block (cipher_ops.c:93-134).
THEOREM ChainingUndone ==
  ASSUME NEW key \in Key, NEW prev \in Block, NEW block \in Block
  PROVE  /\ cipher_cbc_encrypt_block(key, prev, block) \in Block
         /\ cipher_cbc_decrypt_block(key, prev, cipher_cbc_encrypt_block(key, prev, block)) = block
<1> DEFINE mixed == [j \in 1..BLOCK_SIZE |-> Xor(block[j], prev[j])]
<1>1. mixed \in Block
  BY XoredBlock
<1>2. /\ cipher_cbc_encrypt_block(key, prev, block) = Encipher(key, mixed)
      /\ Encipher(key, mixed) \in Block
      /\ Decipher(key, Encipher(key, mixed)) = mixed
  BY <1>1, CipherLaws DEF cipher_cbc_encrypt_block
<1>3. \A j \in 1..BLOCK_SIZE : Xor(mixed[j], prev[j]) = block[j]
  BY XorLaws DEF Block
<1>4. cipher_cbc_decrypt_block(key, prev, Encipher(key, mixed))
        = [j \in 1..BLOCK_SIZE |-> Xor(mixed[j], prev[j])]
  BY <1>2 DEF cipher_cbc_decrypt_block
<1>5. [j \in 1..BLOCK_SIZE |-> Xor(mixed[j], prev[j])] = block
  BY <1>3 DEF Block
<1> QED BY <1>2, <1>4, <1>5

-----------------------------------------------------------------------------
(* Induction and division.                                                 *)

\* Induction over the numbers, stated of a set: a counterexample would have a
\* least one.
LEMMA NatSetInduction ==
  ASSUME NEW S, 0 \in S, \A n \in Nat : n \in S => n + 1 \in S
  PROVE  Nat \subseteq S
<1> DEFINE R == OpToRel(<, Nat)
           T == Nat \ S
<1>1. SUFFICES ASSUME T # {} PROVE FALSE
  OBVIOUS
<1>2. IsWellFoundedOn(R, Nat)
  BY NatLessThanWellFounded
<1>3. PICK x \in T : \A y \in T : ~ (<<y, x>> \in R)
  <2> HIDE DEF R
  <2> QED BY <1>1, <1>2, WFMin
<1>4. x \in Nat /\ x # 0
  OBVIOUS
<1>5. x - 1 \in Nat /\ x - 1 < x /\ (x - 1) + 1 = x
  BY <1>4
<1>6. <<x - 1, x>> \in R
  BY <1>4, <1>5 DEF OpToRel
<1>7. x - 1 \in S
  BY <1>3, <1>5, <1>6
<1> QED BY <1>5, <1>7

\* The quotient and the remainder are the only numbers that do what they do.
LEMMA DivisionUnique ==
  ASSUME NEW h \in Nat \ {0}, NEW n \in Nat, NEW q \in Nat, NEW r \in 0..(h - 1),
         n = h * q + r
  PROVE  n \div h = q /\ n % h = r
<1> DEFINE p == n \div h
           s == n % h
<1>1. p \in Int /\ s \in 0..(h - 1) /\ n = h * p + s
  OBVIOUS
<1> HIDE DEF p, s
<1>2. CASE p > q
  <2>1. h * p >= h * (q + 1)
    BY <1>1, <1>2
  <2>2. h * (q + 1) = h * q + h
    OBVIOUS
  <2> QED BY <1>1, <2>1, <2>2
<1>3. CASE p < q
  <2>1. h * q >= h * (p + 1)
    BY <1>1, <1>3
  <2>2. h * (p + 1) = h * p + h
    BY <1>1
  <2> QED BY <1>1, <2>1, <2>2
<1>4. p = q
  BY <1>1, <1>2, <1>3
<1>5. s = r
  BY <1>1, <1>4
<1> QED BY <1>4, <1>5 DEF p, s

-----------------------------------------------------------------------------
(* Byte sequences.                                                         *)

\* A function on 1..n is a sequence of length n.
LEMMA ArrayIsSeq ==
  ASSUME NEW S, NEW n \in Nat, NEW f \in [1..n -> S]
  PROVE  f \in Seq(S) /\ Len(f) = n
OBVIOUS

\* A sequence of BLOCK_SIZE bytes is a block.
LEMMA SeqIsBlock ==
  ASSUME NEW s \in Seq(Byte), Len(s) = BLOCK_SIZE
  PROVE  s \in Block
BY LenProperties DEF Block

\* A sequence and an initial part of another make a sequence.
LEMMA ConcatType ==
  ASSUME NEW S, NEW s \in Seq(S), NEW t \in Seq(S)
  PROVE  s \o t \in Seq(S) /\ Len(s \o t) = Len(s) + Len(t)
BY ConcatProperties

\* SubSeq within the bounds of its sequence.
LEMMA SubSeqType ==
  ASSUME NEW S, NEW s \in Seq(S), NEW m \in 1..(Len(s) + 1), NEW n \in (m - 1)..Len(s)
  PROVE  SubSeq(s, m, n) \in Seq(S) /\ Len(SubSeq(s, m, n)) = n - m + 1
<1>1. \A i \in m..n : s[i] \in S
  BY ElementOfSeq
<1>2. SubSeq(s, m, n) \in Seq(S)
  BY <1>1, SubSeqProperties
<1>3. Len(SubSeq(s, m, n)) = n - m + 1
  BY <1>1, SubSeqProperties
<1> QED BY <1>2, <1>3

\* Slice stays within its sequence and has the length asked for.
LEMMA SliceType ==
  ASSUME NEW s \in Seq(Byte), NEW from \in Nat, NEW n \in Nat, from + n <= Len(s)
  PROVE  Slice(s, from, n) \in Seq(Byte) /\ Len(Slice(s, from, n)) = n
<1>1. /\ from + 1 \in 1..(Len(s) + 1)
      /\ from + n \in ((from + 1) - 1)..Len(s)
      /\ (from + n) - (from + 1) + 1 = n
  OBVIOUS
<1> QED BY <1>1, SubSeqType DEF Slice

\* An initial part of a byte sequence.
LEMMA PrefixType ==
  ASSUME NEW s \in Seq(Byte), NEW n \in 0..Len(s)
  PROVE  SubSeq(s, 1, n) \in Seq(Byte) /\ Len(SubSeq(s, 1, n)) = n
BY SubSeqType

\* Zero is a byte: what an array holds that nothing has set.
LEMMA ZeroIsByte == 0 \in Byte /\ Byte \subseteq Nat
BY SizesPositive DEF Byte

LEMMA ByteArrayType ==
  ASSUME NEW f, NEW n \in Nat
  PROVE  ByteArray(f, n) \in Seq(Byte) /\ Len(ByteArray(f, n)) = n
<1>1. ByteArray(f, n) \in [1..n -> Byte]
  BY ZeroIsByte DEF ByteArray
<1> QED BY <1>1, ArrayIsSeq

\* A block is a sequence of BLOCK_SIZE bytes.
LEMMA BlockIsSeq ==
  ASSUME NEW b \in Block
  PROVE  b \in Seq(Byte) /\ Len(b) = BLOCK_SIZE
BY SizesPositive, ArrayIsSeq DEF Block

-----------------------------------------------------------------------------
(* The CBC chain. CbcBlocks is defined by recursion: that there is such a  *)
(* function, its equations, and that a block depends only on those before. *)

IsCbc(f, key, iv, padded, n) ==
  f = [k \in 0..n |-> IF k = 0 THEN iv
                      ELSE cipher_cbc_encrypt_block(key, f[k - 1],
                                                    Slice(padded, (k - 1) * BLOCK_SIZE, BLOCK_SIZE))]

LEMMA CbcExists ==
  ASSUME NEW key, NEW iv, NEW padded, NEW n \in Nat
  PROVE  \E f : IsCbc(f, key, iv, padded, n)
<1> DEFINE BlockAt(k) == Slice(padded, (k - 1) * BLOCK_SIZE, BLOCK_SIZE)
           S == {k \in Nat : \E f : IsCbc(f, key, iv, padded, k)}
<1>1. 0 \in S
  <2> DEFINE f == [k \in 0..0 |-> iv]
  <2>1. f = [k \in 0..0 |-> IF k = 0 THEN iv ELSE cipher_cbc_encrypt_block(key, f[k - 1], BlockAt(k))]
    OBVIOUS
  <2> QED BY <2>1 DEF IsCbc
<1>2. ASSUME NEW k \in Nat, k \in S
      PROVE  k + 1 \in S
  <2>1. PICK f : IsCbc(f, key, iv, padded, k)
    BY <1>2
  <2> DEFINE new == cipher_cbc_encrypt_block(key, f[k], BlockAt(k + 1))
             g == [j \in 0..(k + 1) |-> IF j <= k THEN f[j] ELSE new]
             h == [j \in 0..(k + 1) |-> IF j = 0 THEN iv
                                        ELSE cipher_cbc_encrypt_block(key, g[j - 1], BlockAt(j))]
  <2>2. ASSUME NEW j \in 0..(k + 1)
        PROVE  g[j] = h[j]
    <3> HIDE DEF BlockAt
    <3>1. CASE j = 0
      BY <2>1, <3>1 DEF IsCbc
    <3>2. CASE j \in 1..k
      <4>1. j - 1 \in 0..(k + 1) /\ j - 1 <= k /\ j \in 0..k /\ j # 0
        BY <3>2
      <4>2. g[j] = f[j] /\ g[j - 1] = f[j - 1]
        BY <4>1
      <4>3. f[j] = cipher_cbc_encrypt_block(key, f[j - 1], BlockAt(j))
        BY <2>1, <4>1 DEF IsCbc, BlockAt
      <4> QED BY <4>1, <4>2, <4>3
    <3>3. CASE j = k + 1
      <4>1. j - 1 = k /\ k \in 0..(k + 1) /\ j # 0 /\ ~ (j <= k)
        BY <3>3
      <4>2. g[j] = new /\ g[j - 1] = f[k]
        BY <4>1
      <4> QED BY <3>3, <4>1, <4>2
    <3> QED BY <3>1, <3>2, <3>3
  <2>3. g = h
    BY <2>2
  <2>4. IsCbc(g, key, iv, padded, k + 1)
    BY <2>3 DEF IsCbc
  <2> QED BY <2>4
<1> HIDE DEF S
<1>3. Nat \subseteq S
  BY <1>1, <1>2, NatSetInduction
<1> QED BY <1>3 DEF S

LEMMA CbcEquation ==
  ASSUME NEW key, NEW iv, NEW padded, Len(padded) \div BLOCK_SIZE \in Nat
  PROVE  IsCbc(CbcBlocks(key, iv, padded), key, iv, padded, Len(padded) \div BLOCK_SIZE)
<1> DEFINE n == Len(padded) \div BLOCK_SIZE
           f == CHOOSE g : IsCbc(g, key, iv, padded, n)
<1>1. IsCbc(f, key, iv, padded, n)
  BY CbcExists
<1>2. CbcBlocks(key, iv, padded) = f
  BY DEF CbcBlocks, IsCbc
<1> HIDE DEF f
<1> QED BY <1>1, <1>2

\* The number of whole blocks of a sequence.
LEMMA WholeBlocks ==
  ASSUME NEW s \in Seq(Byte)
  PROVE  /\ Len(s) \div BLOCK_SIZE \in Nat
         /\ \A n \in Nat : n * BLOCK_SIZE <= Len(s) => n <= Len(s) \div BLOCK_SIZE
         /\ \A n \in 0..(Len(s) \div BLOCK_SIZE) : n * BLOCK_SIZE <= Len(s)
<1> DEFINE L == Len(s)
           q == L \div BLOCK_SIZE
           r == L % BLOCK_SIZE
<1>1. BLOCK_SIZE \in Nat \ {0} /\ L \in Nat
  BY SizesPositive, LenProperties
<1> HIDE DEF L
<1>2. q \in Nat /\ r \in 0..(BLOCK_SIZE - 1) /\ L = BLOCK_SIZE * q + r
  BY <1>1
<1> HIDE DEF q, r
<1>3. ASSUME NEW n \in Nat, n * BLOCK_SIZE <= L
      PROVE  n <= q
  <2>1. SUFFICES ASSUME n >= q + 1 PROVE FALSE
    BY <1>2
  <2>2. n * BLOCK_SIZE >= (q + 1) * BLOCK_SIZE
    BY <1>1, <1>2, <2>1
  <2>3. (q + 1) * BLOCK_SIZE = BLOCK_SIZE * q + BLOCK_SIZE
    BY <1>1, <1>2
  <2> QED BY <1>1, <1>2, <1>3, <2>2, <2>3
<1>4. ASSUME NEW n \in 0..q
      PROVE  n * BLOCK_SIZE <= L
  <2>1. n * BLOCK_SIZE <= q * BLOCK_SIZE
    BY <1>1, <1>2
  <2>2. q * BLOCK_SIZE = BLOCK_SIZE * q
    BY <1>1, <1>2
  <2> QED BY <1>1, <1>2, <2>1, <2>2
<1> QED BY <1>2, <1>3, <1>4 DEF q, L

\* The bytes of a slice; two sequences with the same bytes there have the same slice.
LEMMA SliceBytes ==
  ASSUME NEW s \in Seq(Byte), NEW from \in Nat, NEW n \in Nat, from + n <= Len(s)
  PROVE  /\ Slice(s, from, n) \in Seq(Byte) /\ Len(Slice(s, from, n)) = n
         /\ \A k \in 1..n : Slice(s, from, n)[k] = s[from + k]
<1>1. Len(s) \in Nat
  BY LenProperties
<1>2. \A k \in (from + 1)..(from + n) : s[k] \in Byte
  BY <1>1, ElementOfSeq
<1>3. /\ from + 1 \in Int /\ from + n \in Int /\ (from + n) - (from + 1) + 1 = n
      /\ \A k \in 1..n : (from + 1) + k - 1 = from + k
  OBVIOUS
<1>4. /\ SubSeq(s, from + 1, from + n) \in Seq(Byte)
      /\ \A k \in 1..n : SubSeq(s, from + 1, from + n)[k] = s[from + k]
  BY <1>2, <1>3, SubSeqProperties
<1> QED BY <1>4, SliceType DEF Slice

LEMMA SliceIsBlock ==
  ASSUME NEW s \in Seq(Byte), NEW from \in Nat, from + BLOCK_SIZE <= Len(s)
  PROVE  Slice(s, from, BLOCK_SIZE) \in Block
BY SizesPositive, SliceType, SeqIsBlock

LEMMA SlicesMeet ==
  ASSUME NEW s \in Seq(Byte), NEW t \in Seq(Byte), NEW from \in Nat, NEW n \in Nat,
         from + n <= Len(s), from + n <= Len(t),
         \A k \in (from + 1)..(from + n) : s[k] = t[k]
  PROVE  Slice(s, from, n) = Slice(t, from, n)
<1>1. \A k \in 1..n : Slice(s, from, n)[k] = Slice(t, from, n)[k]
  <2>1. SUFFICES ASSUME NEW k \in 1..n PROVE Slice(s, from, n)[k] = Slice(t, from, n)[k]
    OBVIOUS
  <2>2. from + k \in (from + 1)..(from + n)
    OBVIOUS
  <2> QED BY <2>2, SliceBytes
<1> QED BY <1>1, SliceBytes, SeqEqual

LEMMA SlicesAgree ==
  ASSUME NEW s \in Seq(Byte), NEW t \in Seq(Byte), NEW from \in Nat, NEW n \in Nat,
         from + n <= Len(s), from + n <= Len(t), \A k \in 1..(from + n) : s[k] = t[k]
  PROVE  Slice(s, from, n) = Slice(t, from, n)
<1>1. \A k \in (from + 1)..(from + n) : s[k] = t[k]
  OBVIOUS
<1> QED BY <1>1, SlicesMeet

\* What is appended to a sequence is found at its end, and its own slices stay.
LEMMA SliceRight ==
  ASSUME NEW s \in Seq(Byte), NEW t \in Seq(Byte)
  PROVE  Slice(s \o t, Len(s), Len(t)) = t
<1> DEFINE u == s \o t
           m == Len(s)
           n == Len(t)
<1>1. m \in Nat /\ n \in Nat
  BY LenProperties
<1>2. /\ u \in Seq(Byte) /\ Len(u) = Len(s) + Len(t)
      /\ \A k \in 1..(Len(s) + Len(t)) : u[k] = IF k <= Len(s) THEN s[k] ELSE t[k - Len(s)]
  BY ConcatProperties
<1> HIDE DEF u
<1>3. /\ Slice(u, m, n) \in Seq(Byte) /\ Len(Slice(u, m, n)) = n
      /\ \A k \in 1..n : Slice(u, m, n)[k] = u[m + k]
  <2>1. m + n <= Len(u)
    BY <1>1, <1>2
  <2> HIDE DEF m, n
  <2> QED BY <1>1, <1>2, <2>1, SliceBytes, Zenon
<1>4. ASSUME NEW k \in 1..n
      PROVE  Slice(u, m, n)[k] = t[k]
  <2>1. m + k \in 1..(m + n) /\ ~ (m + k <= m) /\ (m + k) - m = k
    BY <1>1
  <2>2. u[m + k] = t[(m + k) - m]
    BY <1>2, <2>1
  <2> QED BY <1>3, <2>1, <2>2
<1>5. Slice(u, m, n) = t
  BY <1>3, <1>4, SeqEqual
<1> QED BY <1>5 DEF u

LEMMA SliceLeft ==
  ASSUME NEW s \in Seq(Byte), NEW t \in Seq(Byte), NEW from \in Nat, NEW n \in Nat,
         from + n <= Len(s)
  PROVE  Slice(s \o t, from, n) = Slice(s, from, n)
<1>1. Len(s) \in Nat /\ Len(t) \in Nat
  BY LenProperties
<1>2. /\ s \o t \in Seq(Byte) /\ Len(s \o t) = Len(s) + Len(t)
      /\ \A k \in 1..(Len(s) + Len(t)) :
           (s \o t)[k] = IF k <= Len(s) THEN s[k] ELSE t[k - Len(s)]
  BY ConcatProperties
<1>3. \A k \in 1..(from + n) : (s \o t)[k] = s[k]
  BY <1>1, <1>2
<1>4. from + n <= Len(s \o t)
  BY <1>1, <1>2
<1> QED BY <1>2, <1>3, <1>4, SlicesAgree

LEMMA CbcZero ==
  ASSUME NEW key, NEW iv, NEW s \in Seq(Byte)
  PROVE  CbcBlocks(key, iv, s)[0] = iv
<1>1. IsCbc(CbcBlocks(key, iv, s), key, iv, s, Len(s) \div BLOCK_SIZE)
      /\ Len(s) \div BLOCK_SIZE \in Nat
  BY CbcEquation, WholeBlocks
<1> QED BY <1>1 DEF IsCbc

LEMMA CbcNext ==
  ASSUME NEW key, NEW iv, NEW s \in Seq(Byte), NEW n \in Nat, (n + 1) * BLOCK_SIZE <= Len(s)
  PROVE  CbcBlocks(key, iv, s)[n + 1]
           = cipher_cbc_encrypt_block(key, CbcBlocks(key, iv, s)[n],
                                      Slice(s, n * BLOCK_SIZE, BLOCK_SIZE))
<1> DEFINE N == Len(s) \div BLOCK_SIZE
           f == CbcBlocks(key, iv, s)
<1>1. IsCbc(f, key, iv, s, N) /\ N \in Nat /\ n + 1 <= N
  BY CbcEquation, WholeBlocks
<1> HIDE DEF N, f
<1>2. n + 1 \in 0..N /\ n + 1 # 0 /\ (n + 1) - 1 = n
  BY <1>1
<1>3. f[n + 1] = cipher_cbc_encrypt_block(key, f[(n + 1) - 1],
                                          Slice(s, ((n + 1) - 1) * BLOCK_SIZE, BLOCK_SIZE))
  BY <1>1, <1>2 DEF IsCbc
<1>4. f[n + 1] = cipher_cbc_encrypt_block(key, f[n], Slice(s, n * BLOCK_SIZE, BLOCK_SIZE))
  BY <1>2, <1>3
<1> QED BY <1>4 DEF f

\* Encryption takes blocks to blocks, and so does the chain.
LEMMA CbcType ==
  ASSUME NEW key \in Key, NEW iv \in Block, NEW s \in Seq(Byte),
         NEW n \in Nat, n * BLOCK_SIZE <= Len(s)
  PROVE  CbcBlocks(key, iv, s)[n] \in Block
<1> DEFINE S == {k \in Nat : k * BLOCK_SIZE <= Len(s) => CbcBlocks(key, iv, s)[k] \in Block}
<1>1. 0 \in S
  BY CbcZero
<1>2. ASSUME NEW k \in Nat, k \in S
      PROVE  k + 1 \in S
  <2>1. SUFFICES ASSUME (k + 1) * BLOCK_SIZE <= Len(s)
                 PROVE  CbcBlocks(key, iv, s)[k + 1] \in Block
    OBVIOUS
  <2>2. BLOCK_SIZE \in Nat \ {0} /\ Len(s) \in Nat
    BY SizesPositive, LenProperties
  <2>3. k * BLOCK_SIZE \in Nat /\ (k + 1) * BLOCK_SIZE = k * BLOCK_SIZE + BLOCK_SIZE
    BY <2>2
  <2>4. CbcBlocks(key, iv, s)[k] \in Block
    BY <1>2, <2>1, <2>2, <2>3
  <2>5. Slice(s, k * BLOCK_SIZE, BLOCK_SIZE) \in Block
    BY <2>1, <2>3, SliceIsBlock
  <2> QED BY <2>1, <2>4, <2>5, CbcNext, ChainingUndone
<1> HIDE DEF S
<1>3. Nat \subseteq S
  BY <1>1, <1>2, NatSetInduction
<1> QED BY <1>3 DEF S

\* A block of the chain depends only on the bytes before its end.
LEMMA CbcPrefix ==
  ASSUME NEW key, NEW iv, NEW s \in Seq(Byte), NEW t \in Seq(Byte), NEW n \in Nat,
         n * BLOCK_SIZE <= Len(s), n * BLOCK_SIZE <= Len(t),
         \A k \in 1..(n * BLOCK_SIZE) : s[k] = t[k]
  PROVE  \A k \in 0..n : CbcBlocks(key, iv, s)[k] = CbcBlocks(key, iv, t)[k]
<1> DEFINE S == {k \in Nat : k <= n => CbcBlocks(key, iv, s)[k] = CbcBlocks(key, iv, t)[k]}
<1>1. 0 \in S
  BY CbcZero
<1>2. ASSUME NEW k \in Nat, k \in S
      PROVE  k + 1 \in S
  <2>1. SUFFICES ASSUME k + 1 <= n
                 PROVE  CbcBlocks(key, iv, s)[k + 1] = CbcBlocks(key, iv, t)[k + 1]
    OBVIOUS
  <2>2. BLOCK_SIZE \in Nat \ {0} /\ Len(s) \in Nat /\ Len(t) \in Nat
    BY SizesPositive, LenProperties
  <2>3. /\ k * BLOCK_SIZE \in Nat /\ (k + 1) * BLOCK_SIZE = k * BLOCK_SIZE + BLOCK_SIZE
        /\ (k + 1) * BLOCK_SIZE <= n * BLOCK_SIZE /\ n * BLOCK_SIZE \in Nat
    BY <2>1, <2>2
  <2>4. CbcBlocks(key, iv, s)[k] = CbcBlocks(key, iv, t)[k]
    BY <1>2, <2>1
  <2>6. (k + 1) * BLOCK_SIZE <= Len(s) /\ (k + 1) * BLOCK_SIZE <= Len(t)
    BY <2>2, <2>3
  <2>5. Slice(s, k * BLOCK_SIZE, BLOCK_SIZE) = Slice(t, k * BLOCK_SIZE, BLOCK_SIZE)
    <3> DEFINE from == k * BLOCK_SIZE
               to   == n * BLOCK_SIZE
    <3>1. from + BLOCK_SIZE <= Len(s) /\ from + BLOCK_SIZE <= Len(t) /\ from \in Nat
          /\ from + BLOCK_SIZE <= to /\ to \in Nat
      BY <2>2, <2>3, <2>6
    <3>2. \A j \in 1..to : s[j] = t[j]
      OBVIOUS
    <3> HIDE DEF from, to
    <3>3. \A j \in 1..(from + BLOCK_SIZE) : s[j] = t[j]
      BY <2>2, <3>1, <3>2
    <3>4. Slice(s, from, BLOCK_SIZE) = Slice(t, from, BLOCK_SIZE)
      BY <2>2, <3>1, <3>3, SlicesAgree
    <3> QED BY <3>4 DEF from
  <2> QED BY <2>4, <2>5, <2>6, CbcNext
<1> HIDE DEF S
<1>3. Nat \subseteq S
  BY <1>1, <1>2, NatSetInduction
<1> QED BY <1>3 DEF S

-----------------------------------------------------------------------------
(* The bytes of the first blocks of the chain, and the padded message.     *)

CipherBytes(key, iv, s, n) ==
  [j \in 1..(n * BLOCK_SIZE) |->
     CbcBlocks(key, iv, s)[((j - 1) \div BLOCK_SIZE) + 1][((j - 1) % BLOCK_SIZE) + 1]]

\* Where byte j of a sequence of n blocks lies.
LEMMA BlockIndex ==
  ASSUME NEW n \in Nat, NEW j \in 1..(n * BLOCK_SIZE)
  PROVE  /\ (j - 1) \div BLOCK_SIZE \in 0..(n - 1)
         /\ ((j - 1) % BLOCK_SIZE) + 1 \in 1..BLOCK_SIZE
         /\ (((j - 1) \div BLOCK_SIZE) + 1) * BLOCK_SIZE <= n * BLOCK_SIZE
         /\ j = ((j - 1) \div BLOCK_SIZE) * BLOCK_SIZE + (((j - 1) % BLOCK_SIZE) + 1)
<1> DEFINE i == j - 1
           q == i \div BLOCK_SIZE
           r == i % BLOCK_SIZE
<1>1. BLOCK_SIZE \in Nat \ {0} /\ n * BLOCK_SIZE \in Nat
  BY SizesPositive
<1>2. i \in Nat /\ i < n * BLOCK_SIZE /\ j = i + 1
  BY <1>1
<1> HIDE DEF i
<1>3. q \in Nat /\ r \in 0..(BLOCK_SIZE - 1) /\ i = BLOCK_SIZE * q + r
  BY <1>1, <1>2
<1> HIDE DEF q, r
<1>4. q < n
  <2>1. SUFFICES ASSUME q >= n PROVE FALSE
    BY <1>3
  <2>2. q * BLOCK_SIZE >= n * BLOCK_SIZE /\ q * BLOCK_SIZE = BLOCK_SIZE * q
    BY <1>1, <1>3, <2>1
  <2> QED BY <1>1, <1>2, <1>3, <2>2
<1>5. (q + 1) * BLOCK_SIZE <= n * BLOCK_SIZE /\ q * BLOCK_SIZE = BLOCK_SIZE * q
  BY <1>1, <1>3, <1>4
<1>6. q \in 0..(n - 1) /\ r + 1 \in 1..BLOCK_SIZE /\ j = q * BLOCK_SIZE + (r + 1)
  BY <1>1, <1>2, <1>3, <1>4, <1>5
<1> QED BY <1>5, <1>6 DEF q, r, i

LEMMA CipherBytesType ==
  ASSUME NEW key \in Key, NEW iv \in Block, NEW s \in Seq(Byte),
         NEW n \in Nat, n * BLOCK_SIZE <= Len(s)
  PROVE  /\ CipherBytes(key, iv, s, n) \in Seq(Byte)
         /\ Len(CipherBytes(key, iv, s, n)) = n * BLOCK_SIZE
<1>1. n * BLOCK_SIZE \in Nat /\ Len(s) \in Nat
  BY SizesPositive, LenProperties
<1>2. ASSUME NEW j \in 1..(n * BLOCK_SIZE)
      PROVE  CbcBlocks(key, iv, s)[((j - 1) \div BLOCK_SIZE) + 1][((j - 1) % BLOCK_SIZE) + 1]
               \in Byte
  <2> DEFINE k == ((j - 1) \div BLOCK_SIZE) + 1
             m == ((j - 1) % BLOCK_SIZE) + 1
  <2>1. k \in Nat /\ m \in 1..BLOCK_SIZE /\ k * BLOCK_SIZE <= n * BLOCK_SIZE
    BY BlockIndex
  <2> HIDE DEF k, m
  <2>2. k * BLOCK_SIZE <= Len(s)
    BY <1>1, <2>1, SizesPositive
  <2>3. CbcBlocks(key, iv, s)[k] \in Block
    BY <2>1, <2>2, CbcType
  <2>4. CbcBlocks(key, iv, s)[k][m] \in Byte
    BY <2>1, <2>3 DEF Block
  <2> QED BY <2>4 DEF k, m
<1>3. CipherBytes(key, iv, s, n) \in [1..(n * BLOCK_SIZE) -> Byte]
  BY <1>2 DEF CipherBytes
<1> QED BY <1>1, <1>3, ArrayIsSeq

LEMMA CipherBytesZero ==
  ASSUME NEW key, NEW iv, NEW s
  PROVE  CipherBytes(key, iv, s, 0) = << >>
<1>1. 0 * BLOCK_SIZE = 0 /\ 1..0 = {}
  BY SizesPositive
<1> QED BY <1>1 DEF CipherBytes

\* One more block of the chain is appended to the bytes.
LEMMA CipherBytesNext ==
  ASSUME NEW key \in Key, NEW iv \in Block, NEW s \in Seq(Byte),
         NEW n \in Nat, (n + 1) * BLOCK_SIZE <= Len(s)
  PROVE  CipherBytes(key, iv, s, n + 1) = CipherBytes(key, iv, s, n) \o CbcBlocks(key, iv, s)[n + 1]
<1> DEFINE c  == CbcBlocks(key, iv, s)[n + 1]
           b0 == CipherBytes(key, iv, s, n)
           b1 == CipherBytes(key, iv, s, n + 1)
           N  == n * BLOCK_SIZE
<1>1. BLOCK_SIZE \in Nat \ {0} /\ Len(s) \in Nat
  BY SizesPositive, LenProperties
<1>2. N \in Nat /\ (n + 1) * BLOCK_SIZE = N + BLOCK_SIZE /\ N <= Len(s)
  BY <1>1
<1>3. /\ b0 \in Seq(Byte) /\ Len(b0) = N
      /\ b1 \in Seq(Byte) /\ Len(b1) = N + BLOCK_SIZE
  BY <1>2, CipherBytesType
<1>4. c \in Block /\ c \in Seq(Byte) /\ Len(c) = BLOCK_SIZE
  BY CbcType, BlockIsSeq
<1>5. /\ b0 \o c \in Seq(Byte) /\ Len(b0 \o c) = N + BLOCK_SIZE
      /\ \A j \in 1..(Len(b0) + Len(c)) :
           (b0 \o c)[j] = IF j <= Len(b0) THEN b0[j] ELSE c[j - Len(b0)]
  BY <1>3, <1>4, ConcatProperties
<1>6. \A j \in 1..(N + BLOCK_SIZE) :
        b1[j] = CbcBlocks(key, iv, s)[((j - 1) \div BLOCK_SIZE) + 1][((j - 1) % BLOCK_SIZE) + 1]
  BY <1>2 DEF CipherBytes
<1>7. \A j \in 1..N :
        b0[j] = CbcBlocks(key, iv, s)[((j - 1) \div BLOCK_SIZE) + 1][((j - 1) % BLOCK_SIZE) + 1]
  BY DEF CipherBytes
<1> HIDE DEF b0, b1, N
<1>8. ASSUME NEW j \in 1..(N + BLOCK_SIZE)
      PROVE  b1[j] = (b0 \o c)[j]
  <2>1. CASE j <= N
    <3>1. j \in 1..N
      BY <1>2, <2>1
    <3>2. b1[j] = b0[j]
      BY <3>1, <1>6, <1>7
    <3> QED BY <1>1, <1>2, <1>3, <1>4, <1>5, <2>1, <3>2
  <2>2. CASE j > N
    <3>1. /\ (j - 1) - N \in 0..(BLOCK_SIZE - 1) /\ j - 1 \in Nat
          /\ j - 1 = N + ((j - 1) - N)
      BY <1>1, <1>2, <2>2
    <3>2. N = BLOCK_SIZE * n
      BY <1>1 DEF N
    <3> DEFINE m == j - 1
               r == m - N
    <3>3. m \in Nat /\ r \in 0..(BLOCK_SIZE - 1) /\ m = BLOCK_SIZE * n + r
      BY <1>2, <3>1, <3>2
    <3>5. r + 1 = j - N
      BY <1>2
    <3> HIDE DEF m, r
    <3>4. m \div BLOCK_SIZE = n /\ m % BLOCK_SIZE = r
      BY <1>1, <3>3, DivisionUnique
    <3>6. b1[j] = c[r + 1]
      BY <1>6, <3>4 DEF m
    <3>7. (b0 \o c)[j] = c[j - N]
      BY <1>1, <1>2, <1>3, <1>4, <1>5, <2>2
    <3> QED BY <3>5, <3>6, <3>7
  <2>3. j <= N \/ j > N
    BY <1>1, <1>2
  <2> QED BY <2>1, <2>2, <2>3
<1>9. b1 = b0 \o c
  BY <1>3, <1>5, <1>8, SeqEqual
<1> QED BY <1>9 DEF b0, b1

LEMMA CipherBytesPrefix ==
  ASSUME NEW key, NEW iv, NEW s \in Seq(Byte), NEW t \in Seq(Byte), NEW n \in Nat,
         n * BLOCK_SIZE <= Len(s), n * BLOCK_SIZE <= Len(t),
         \A k \in 1..(n * BLOCK_SIZE) : s[k] = t[k]
  PROVE  CipherBytes(key, iv, s, n) = CipherBytes(key, iv, t, n)
<1>1. \A k \in 0..n : CbcBlocks(key, iv, s)[k] = CbcBlocks(key, iv, t)[k]
  BY CbcPrefix
<1>2. ASSUME NEW j \in 1..(n * BLOCK_SIZE)
      PROVE  CbcBlocks(key, iv, s)[((j - 1) \div BLOCK_SIZE) + 1][((j - 1) % BLOCK_SIZE) + 1]
               = CbcBlocks(key, iv, t)[((j - 1) \div BLOCK_SIZE) + 1][((j - 1) % BLOCK_SIZE) + 1]
  <2>1. ((j - 1) \div BLOCK_SIZE) + 1 \in 0..n
    BY BlockIndex
  <2> QED BY <1>1, <2>1
<1> QED BY <1>2 DEF CipherBytes

\* Padding fills the last block, or adds one to a whole number of blocks.
LEMMA PaddedShape ==
  ASSUME NEW plain \in Seq(Byte), NEW n \in Nat, NEW r \in 0..(BLOCK_SIZE - 1),
         Len(plain) = n * BLOCK_SIZE + r
  PROVE  /\ Padded(plain) \in Seq(Byte) /\ Len(Padded(plain)) = (n + 1) * BLOCK_SIZE
         /\ \A j \in 1..Len(plain) : Padded(plain)[j] = plain[j]
         /\ \A j \in (Len(plain) + 1)..((n + 1) * BLOCK_SIZE) : Padded(plain)[j] = BLOCK_SIZE - r
<1> DEFINE L    == Len(plain)
           fill == BLOCK_SIZE - r
           tail == [k \in 1..fill |-> fill]
<1>1. BLOCK_SIZE \in Nat \ {0} /\ L \in Nat /\ L = n * BLOCK_SIZE + r
  BY SizesPositive, LenProperties
<1> HIDE DEF L
<1>2. /\ n * BLOCK_SIZE = BLOCK_SIZE * n /\ (n + 1) * BLOCK_SIZE = L + fill
      /\ L = BLOCK_SIZE * n + r
  BY <1>1
<1>3. L % BLOCK_SIZE = r
  <2>1. BLOCK_SIZE \in Nat \ {0} /\ L \in Nat /\ L = BLOCK_SIZE * n + r
    BY <1>1, <1>2
  <2> QED BY <2>1, DivisionUnique, Zenon
<1>4. fill \in Nat /\ fill \in Byte
  BY <1>1, PaddingFitsByte, SizesPositive DEF Byte
<1>5. Padded(plain) = plain \o tail
  BY <1>3 DEF Padded, L
<1> HIDE DEF fill
<1>6. tail \in Seq(Byte) /\ Len(tail) = fill
  <2>1. tail \in [1..fill -> Byte]
    BY <1>4
  <2> HIDE DEF tail
  <2> QED BY <1>4, <2>1, ArrayIsSeq
<1>7. \A k \in 1..fill : tail[k] = fill
  OBVIOUS
<1> HIDE DEF tail
<1>8. /\ plain \o tail \in Seq(Byte) /\ Len(plain \o tail) = Len(plain) + Len(tail)
      /\ \A j \in 1..(Len(plain) + Len(tail)) :
           (plain \o tail)[j] = IF j <= Len(plain) THEN plain[j] ELSE tail[j - Len(plain)]
  BY <1>6, ConcatProperties
<1>9. /\ Padded(plain) \in Seq(Byte) /\ Len(Padded(plain)) = L + fill
      /\ \A j \in 1..(L + fill) : Padded(plain)[j] = IF j <= L THEN plain[j] ELSE tail[j - L]
  BY <1>5, <1>6, <1>8 DEF L
<1>10. \A j \in 1..L : Padded(plain)[j] = plain[j]
  BY <1>1, <1>4, <1>9
<1>11. \A j \in (L + 1)..(L + fill) : Padded(plain)[j] = fill
  <2>1. SUFFICES ASSUME NEW j \in (L + 1)..(L + fill) PROVE Padded(plain)[j] = fill
    OBVIOUS
  <2>2. j \in 1..(L + fill) /\ ~ (j <= L) /\ j - L \in 1..fill
    BY <1>1, <1>4
  <2> QED BY <1>7, <1>9, <2>2
<1> QED BY <1>2, <1>9, <1>10, <1>11 DEF L, fill

\* The last block of the padded message is what the streaming code pads.
LEMMA PaddedEnd ==
  ASSUME NEW plain \in Seq(Byte), NEW n \in Nat, NEW rest \in Seq(Byte), Len(rest) < BLOCK_SIZE,
         Len(plain) = n * BLOCK_SIZE + Len(rest),
         \A j \in 1..Len(rest) : plain[n * BLOCK_SIZE + j] = rest[j]
  PROVE  Slice(Padded(plain), n * BLOCK_SIZE, BLOCK_SIZE) = cipher_add_pkcs7_padding(rest)
<1> DEFINE r == Len(rest)
           N == n * BLOCK_SIZE
           p == Padded(plain)
           a == Slice(p, N, BLOCK_SIZE)
           b == cipher_add_pkcs7_padding(rest)
<1>1. BLOCK_SIZE \in Nat \ {0} /\ r \in 0..(BLOCK_SIZE - 1) /\ N \in Nat /\ Len(plain) \in Nat
  BY SizesPositive, LenProperties
<1>2. (n + 1) * BLOCK_SIZE = N + BLOCK_SIZE /\ Len(plain) = N + r
  BY <1>1
<1>3. /\ p \in Seq(Byte) /\ Len(p) = N + BLOCK_SIZE
      /\ \A j \in 1..Len(plain) : p[j] = plain[j]
      /\ \A j \in (Len(plain) + 1)..(N + BLOCK_SIZE) : p[j] = BLOCK_SIZE - r
  <2>1. /\ p \in Seq(Byte) /\ Len(p) = (n + 1) * BLOCK_SIZE
        /\ \A j \in 1..Len(plain) : p[j] = plain[j]
        /\ \A j \in (Len(plain) + 1)..((n + 1) * BLOCK_SIZE) : p[j] = BLOCK_SIZE - r
    BY <1>1, <1>2, PaddedShape, Zenon
  <2> HIDE DEF p, N, r
  <2> QED BY <1>2, <2>1
<1>4. \A j \in 1..r : plain[N + j] = rest[j]
  OBVIOUS
<1>5. b \in Block /\ b \in Seq(Byte) /\ Len(b) = BLOCK_SIZE
  BY PaddingMakesBlock, BlockIsSeq
<1>6. \A j \in 1..BLOCK_SIZE : b[j] = IF j <= r THEN rest[j] ELSE BLOCK_SIZE - r
  BY DEF cipher_add_pkcs7_padding
<1> HIDE DEF N, p, r, b
<1>7. /\ a \in Seq(Byte) /\ Len(a) = BLOCK_SIZE
      /\ \A j \in 1..BLOCK_SIZE : a[j] = p[N + j]
  <2>1. N + BLOCK_SIZE <= Len(p) /\ BLOCK_SIZE \in Nat
    BY <1>1, <1>3
  <2> QED BY <1>1, <1>3, <2>1, SliceBytes, Zenon
<1> HIDE DEF a
<1>8. ASSUME NEW j \in 1..BLOCK_SIZE
      PROVE  a[j] = b[j]
  <2>1. CASE j <= r
    <3>1. N + j \in 1..Len(plain) /\ j \in 1..r
      BY <1>1, <1>2, <2>1
    <3> QED BY <1>3, <1>4, <1>6, <1>7, <2>1, <3>1
  <2>2. CASE ~ (j <= r)
    <3>1. N + j \in (Len(plain) + 1)..(N + BLOCK_SIZE)
      BY <1>1, <1>2, <2>2
    <3> QED BY <1>3, <1>6, <1>7, <2>2, <3>1
  <2> QED BY <2>1, <2>2
<1>9. a = b
  BY <1>5, <1>7, <1>8, SeqEqual
<1> QED BY <1>9 DEF a, b, p, N

\* The one-shot ciphertext is the chain over the padded message.
LEMMA CiphertextBytes ==
  ASSUME NEW key, NEW iv, NEW plain \in Seq(Byte), NEW n \in Nat,
         NEW r \in 0..(BLOCK_SIZE - 1), Len(plain) = n * BLOCK_SIZE + r
  PROVE  Ciphertext(key, iv, plain) = CipherBytes(key, iv, Padded(plain), n + 1)
<1>1. Len(Padded(plain)) = (n + 1) * BLOCK_SIZE
  BY PaddedShape
<1> QED BY <1>1 DEF Ciphertext, CipherBytes

\* Every length is a number of whole blocks and a rest.
LEMMA BlocksAndRest ==
  ASSUME NEW s \in Seq(Byte)
  PROVE  \E n \in Nat, r \in 0..(BLOCK_SIZE - 1) : Len(s) = n * BLOCK_SIZE + r
<1> DEFINE L == Len(s)
<1>1. BLOCK_SIZE \in Nat \ {0} /\ L \in Nat
  BY SizesPositive, LenProperties
<1> HIDE DEF L
<1> DEFINE q == L \div BLOCK_SIZE
           r == L % BLOCK_SIZE
<1>2. q \in Nat /\ r \in 0..(BLOCK_SIZE - 1) /\ L = BLOCK_SIZE * q + r
  BY <1>1
<1> HIDE DEF q, r
<1>3. L = q * BLOCK_SIZE + r
  BY <1>1, <1>2
<1> QED BY <1>2, <1>3 DEF L

-----------------------------------------------------------------------------
(* Starts of byte sequences.                                               *)

StartOf(x, y) == /\ Len(x) <= Len(y)
                 /\ \A j \in 1..Len(x) : x[j] = y[j]

LEMMA StartTransitive ==
  ASSUME NEW x \in Seq(Byte), NEW y \in Seq(Byte), NEW z \in Seq(Byte),
         StartOf(x, y), StartOf(y, z)
  PROVE  StartOf(x, z)
BY LenProperties DEF StartOf

LEMMA StartReflexive ==
  ASSUME NEW x \in Seq(Byte)
  PROVE  StartOf(x, x)
BY LenProperties DEF StartOf

\* Of two starts of one sequence the shorter is a start of the longer.
LEMMA StartsOfOne ==
  ASSUME NEW x \in Seq(Byte), NEW y \in Seq(Byte), NEW z \in Seq(Byte),
         StartOf(x, z), StartOf(y, z), Len(x) <= Len(y)
  PROVE  StartOf(x, y)
BY LenProperties DEF StartOf

LEMMA StartCut ==
  ASSUME NEW y \in Seq(Byte), NEW n \in 0..Len(y)
  PROVE  StartOf(SubSeq(y, 1, n), y)
<1>1. Len(y) \in Nat /\ n \in Nat
  BY LenProperties
<1>2. \A j \in 1..n : y[j] \in Byte
  BY <1>1, ElementOfSeq
<1>3. /\ Len(SubSeq(y, 1, n)) = IF 1 <= n THEN n - 1 + 1 ELSE 0
      /\ \A j \in 1..(n - 1 + 1) : SubSeq(y, 1, n)[j] = y[1 + j - 1]
  BY <1>1, <1>2, SubSeqProperties
<1> DEFINE x == SubSeq(y, 1, n)
<1> HIDE DEF x
<1>4. Len(x) = n /\ \A j \in 1..n : x[j] = y[j]
  BY <1>1, <1>3 DEF x
<1>5. StartOf(x, y)
  BY <1>1, <1>4 DEF StartOf
<1> QED BY <1>5 DEF x

LEMMA StartIsCut ==
  ASSUME NEW x \in Seq(Byte), NEW y \in Seq(Byte), StartOf(x, y)
  PROVE  Len(x) \in 0..Len(y) /\ x = SubSeq(y, 1, Len(x))
<1> DEFINE n == Len(x)
           c == SubSeq(y, 1, n)
<1>1. n \in 0..Len(y)
  BY LenProperties DEF StartOf
<1>2. c \in Seq(Byte) /\ Len(c) = n /\ StartOf(c, y)
  BY <1>1, PrefixType, StartCut
<1> HIDE DEF c
<1>3. \A j \in 1..Len(x) : x[j] = c[j]
  BY <1>2 DEF StartOf
<1>4. x = c
  BY <1>2, <1>3, SeqEqual
<1> QED BY <1>1, <1>4 DEF c

LEMMA StartAppended ==
  ASSUME NEW x \in Seq(Byte), NEW y \in Seq(Byte)
  PROVE  StartOf(x, x \o y)
<1>1. Len(x) \in Nat /\ Len(y) \in Nat
  BY LenProperties
<1>2. /\ Len(x \o y) = Len(x) + Len(y)
      /\ \A j \in 1..(Len(x) + Len(y)) :
           (x \o y)[j] = IF j <= Len(x) THEN x[j] ELSE y[j - Len(x)]
  BY ConcatProperties
<1> QED BY <1>1, <1>2 DEF StartOf

LEMMA StartExtended ==
  ASSUME NEW h \in Seq(Byte), NEW x \in Seq(Byte), NEW y \in Seq(Byte), StartOf(x, y)
  PROVE  StartOf(h \o x, h \o y)
<1> DEFINE a == h \o x
           b == h \o y
<1>1. Len(h) \in Nat /\ Len(x) \in Nat /\ Len(y) \in Nat /\ Len(x) <= Len(y)
  BY LenProperties DEF StartOf
<1>2. /\ Len(a) = Len(h) + Len(x)
      /\ \A j \in 1..(Len(h) + Len(x)) : a[j] = IF j <= Len(h) THEN h[j] ELSE x[j - Len(h)]
  BY ConcatProperties
<1>3. /\ Len(b) = Len(h) + Len(y)
      /\ \A j \in 1..(Len(h) + Len(y)) : b[j] = IF j <= Len(h) THEN h[j] ELSE y[j - Len(h)]
  BY ConcatProperties
<1> HIDE DEF a, b
<1>4. ASSUME NEW j \in 1..(Len(h) + Len(x))
      PROVE  a[j] = b[j]
  <2>1. j \in 1..(Len(h) + Len(y))
    BY <1>1
  <2>2. CASE j <= Len(h)
    BY <1>2, <1>3, <2>1, <2>2
  <2>3. CASE ~ (j <= Len(h))
    <3>1. j - Len(h) \in 1..Len(x)
      BY <1>1, <2>3
    <3>2. x[j - Len(h)] = y[j - Len(h)]
      BY <3>1 DEF StartOf
    <3> QED BY <1>2, <1>3, <2>1, <2>3, <3>2
  <2> QED BY <2>2, <2>3
<1>5. StartOf(a, b)
  BY <1>1, <1>2, <1>3, <1>4 DEF StartOf
<1> QED BY <1>5 DEF a, b

\* However many blocks are encrypted, they are a start of the ciphertext.
LEMMA CiphertextStarts ==
  ASSUME NEW key \in Key, NEW iv \in Block, NEW plain \in Seq(Byte),
         NEW s \in {plain, Padded(plain)}, NEW m \in Nat, m * BLOCK_SIZE <= Len(s)
  PROVE  /\ Ciphertext(key, iv, plain) \in Seq(Byte)
         /\ StartOf(CipherBytes(key, iv, s, m), Ciphertext(key, iv, plain))
<1> DEFINE p == Padded(plain)
<1>1. PICK n \in Nat, r \in 0..(BLOCK_SIZE - 1) : Len(plain) = n * BLOCK_SIZE + r
  BY BlocksAndRest
<1>2. /\ p \in Seq(Byte) /\ Len(p) = (n + 1) * BLOCK_SIZE
      /\ \A j \in 1..Len(plain) : p[j] = plain[j]
  BY <1>1, PaddedShape
<1>3. Ciphertext(key, iv, plain) = CipherBytes(key, iv, p, n + 1)
  BY <1>1, CiphertextBytes
<1>4. /\ BLOCK_SIZE \in Nat \ {0} /\ n * BLOCK_SIZE \in Nat /\ m * BLOCK_SIZE \in Nat
      /\ (n + 1) * BLOCK_SIZE = n * BLOCK_SIZE + BLOCK_SIZE /\ Len(plain) \in Nat
  BY SizesPositive, LenProperties
<1> HIDE DEF p
<1>5. m * BLOCK_SIZE <= Len(p) /\ CipherBytes(key, iv, s, m) = CipherBytes(key, iv, p, m)
  <2>1. CASE s = plain
    <3>1. m * BLOCK_SIZE <= Len(plain) /\ m * BLOCK_SIZE <= Len(p)
      BY <1>1, <1>2, <1>4, <2>1
    <3>2. \A j \in 1..(m * BLOCK_SIZE) : plain[j] = p[j]
      BY <1>2, <1>4, <3>1
    <3> QED BY <1>2, <2>1, <3>1, <3>2, CipherBytesPrefix
  <2>2. CASE s = p
    BY <2>2
  <2> QED BY <2>1, <2>2 DEF p
<1>6. /\ CipherBytes(key, iv, p, m) \in Seq(Byte) /\ Len(CipherBytes(key, iv, p, m)) = m * BLOCK_SIZE
      /\ CipherBytes(key, iv, p, n + 1) \in Seq(Byte)
      /\ Len(CipherBytes(key, iv, p, n + 1)) = (n + 1) * BLOCK_SIZE
  <2>1. n + 1 \in Nat /\ (n + 1) * BLOCK_SIZE <= Len(p)
    BY <1>2, <1>4
  <2> QED BY <1>2, <1>5, <2>1, CipherBytesType, Zenon
<1>7. m * BLOCK_SIZE <= (n + 1) * BLOCK_SIZE
  BY <1>2, <1>5
<1>8. \A j \in 1..(m * BLOCK_SIZE) : CipherBytes(key, iv, p, m)[j] = CipherBytes(key, iv, p, n + 1)[j]
  <2> TAKE j \in 1..(m * BLOCK_SIZE)
  <2> DEFINE w == CbcBlocks(key, iv, p)
             v == w[((j - 1) \div BLOCK_SIZE) + 1][((j - 1) % BLOCK_SIZE) + 1]
  <2>1. j \in 1..((n + 1) * BLOCK_SIZE)
    BY <1>4, <1>7
  <2>2. CipherBytes(key, iv, p, m)[j] = v
    BY DEF CipherBytes
  <2>3. CipherBytes(key, iv, p, n + 1)[j] = v
    BY <2>1 DEF CipherBytes
  <2> QED BY <2>2, <2>3
<1>9. StartOf(CipherBytes(key, iv, p, m), CipherBytes(key, iv, p, n + 1))
  BY <1>6, <1>7, <1>8 DEF StartOf
<1> QED BY <1>3, <1>5, <1>6, <1>9


-----------------------------------------------------------------------------
(***************************************************************************)
(* Functions on 0..n defined by recursion, from a first value and a step   *)
(* to the next. The step is a function, not an operator, so that one lemma *)
(* serves more than one such definition.                                   *)
(***************************************************************************)

Iterates(f, V, first, step, n) ==
  /\ f \in [0..n -> V]
  /\ f[0] = first
  /\ \A k \in 1..n : f[k] = step[<< k, f[k - 1] >>]

LEMMA IterationExists ==
  ASSUME NEW V, NEW first \in V, NEW step \in [Nat \X V -> V], NEW n \in Nat
  PROVE  \E f : Iterates(f, V, first, step, n)
<1> DEFINE S == {k \in Nat : \E f : Iterates(f, V, first, step, k)}
<1>1. 0 \in S
  <2> DEFINE f == [k \in 0..0 |-> first]
  <2>1. f \in [0..0 -> V] /\ f[0] = first /\ \A k \in 1..0 : f[k] = step[<< k, f[k - 1] >>]
    OBVIOUS
  <2> QED BY <2>1 DEF Iterates
<1>2. ASSUME NEW k \in Nat, k \in S
      PROVE  k + 1 \in S
  <2>1. PICK f : Iterates(f, V, first, step, k)
    BY <1>2
  <2> DEFINE new == step[<< k + 1, f[k] >>]
             g == [j \in 0..(k + 1) |-> IF j <= k THEN f[j] ELSE new]
  <2>2. f \in [0..k -> V] /\ f[0] = first /\ \A j \in 1..k : f[j] = step[<< j, f[j - 1] >>]
    BY <2>1 DEF Iterates
  <2>3. f[k] \in V /\ << k + 1, f[k] >> \in Nat \X V
    BY <2>2
  <2>4. new \in V
    BY <2>3
  <2>5. g \in [0..(k + 1) -> V]
    BY <2>2, <2>4
  <2>6. (\A j \in 0..k : g[j] = f[j]) /\ g[k + 1] = new
    OBVIOUS
  <2> HIDE DEF g, new
  <2>7. \A j \in 1..(k + 1) : g[j] = step[<< j, g[j - 1] >>]
    <3>1. SUFFICES ASSUME NEW j \in 1..(k + 1) PROVE g[j] = step[<< j, g[j - 1] >>]
      OBVIOUS
    <3>2. CASE j \in 1..k
      <4>1. j \in 0..k /\ j - 1 \in 0..k
        BY <3>2
      <4> QED BY <2>2, <2>6, <3>2, <4>1
    <3>3. CASE j = k + 1
      <4>1. j - 1 = k /\ k \in 0..k
        BY <3>3
      <4> QED BY <2>6, <3>3, <4>1 DEF new
    <3> QED BY <3>2, <3>3
  <2>8. g[0] = first
    BY <2>2, <2>6
  <2> QED BY <2>5, <2>7, <2>8 DEF Iterates
<1> HIDE DEF S
<1>3. Nat \subseteq S
  BY <1>1, <1>2, NatSetInduction
<1> QED BY <1>3 DEF S

-----------------------------------------------------------------------------
(* The size field: reading it back gives what was written.                 *)

IsWeight(f) == f = [k \in 0..SIZE_BYTES |-> IF k = 0 THEN 1 ELSE ByteBase * f[k - 1]]

LEMMA WeightEquation == IsWeight(Weight)
<1> DEFINE step == [p \in Nat \X Nat |-> ByteBase * p[2]]
           w    == CHOOSE f : IsWeight(f)
<1>1. SIZE_BYTES \in Nat /\ ByteBase \in Nat /\ 1 \in Nat
  BY SizesPositive
<1>2. step \in [Nat \X Nat -> Nat]
  BY <1>1
<1>3. \A k, v \in Nat : step[<< k, v >>] = ByteBase * v
  OBVIOUS
<1> HIDE DEF step
<1>4. PICK f : Iterates(f, Nat, 1, step, SIZE_BYTES)
  BY <1>1, <1>2, IterationExists
<1>5. /\ f \in [0..SIZE_BYTES -> Nat] /\ f[0] = 1
      /\ \A k \in 1..SIZE_BYTES : f[k] = step[<< k, f[k - 1] >>]
  BY <1>4 DEF Iterates
<1>6. \A k \in 1..SIZE_BYTES : f[k] = ByteBase * f[k - 1]
  <2>1. SUFFICES ASSUME NEW k \in 1..SIZE_BYTES PROVE f[k] = ByteBase * f[k - 1]
    OBVIOUS
  <2>2. k \in Nat /\ k - 1 \in 0..SIZE_BYTES
    BY <1>1
  <2>3. f[k - 1] \in Nat
    BY <1>5, <2>2
  <2> QED BY <1>3, <1>5, <2>2, <2>3
<1> DEFINE h == [k \in 0..SIZE_BYTES |-> IF k = 0 THEN 1 ELSE ByteBase * f[k - 1]]
<1>7. ASSUME NEW k \in 0..SIZE_BYTES PROVE f[k] = h[k]
  <2>1. CASE k = 0
    BY <1>5, <2>1
  <2>2. CASE k # 0
    <3>1. k \in 1..SIZE_BYTES
      BY <1>1, <2>2
    <3> QED BY <1>6, <2>2, <3>1
  <2> QED BY <2>1, <2>2
<1>8. f = h
  BY <1>5, <1>7
<1>9. IsWeight(f)
  BY <1>8 DEF IsWeight
<1>10. IsWeight(w)
  BY <1>9
<1>11. Weight = w
  BY DEF Weight, IsWeight
<1> HIDE DEF w
<1> QED BY <1>10, <1>11

LEMMA WeightFacts ==
  /\ Weight[0] = 1
  /\ \A k \in 0..(SIZE_BYTES - 1) : Weight[k + 1] = ByteBase * Weight[k]
  /\ \A k \in 0..SIZE_BYTES : Weight[k] \in Nat \ {0}
<1>1. SIZE_BYTES \in Nat /\ ByteBase \in Nat \ {0}
  BY SizesPositive
<1>2. \A k \in 0..SIZE_BYTES : Weight[k] = IF k = 0 THEN 1 ELSE ByteBase * Weight[k - 1]
  BY WeightEquation DEF IsWeight
<1>3. Weight[0] = 1
  BY <1>1, <1>2
<1>4. \A k \in 0..(SIZE_BYTES - 1) : Weight[k + 1] = ByteBase * Weight[k]
  <2>1. SUFFICES ASSUME NEW k \in 0..(SIZE_BYTES - 1) PROVE Weight[k + 1] = ByteBase * Weight[k]
    OBVIOUS
  <2>2. k + 1 \in 0..SIZE_BYTES /\ k + 1 # 0 /\ (k + 1) - 1 = k
    BY <1>1
  <2>3. Weight[k + 1] = ByteBase * Weight[(k + 1) - 1]
    BY <1>2, <2>2
  <2> QED BY <2>2, <2>3
<1> DEFINE S == {k \in Nat : k <= SIZE_BYTES => Weight[k] \in Nat \ {0}}
<1>5. 0 \in S
  BY <1>3
<1>6. ASSUME NEW k \in Nat, k \in S PROVE k + 1 \in S
  <2>1. CASE k + 1 <= SIZE_BYTES
    <3>1. k \in 0..(SIZE_BYTES - 1) /\ k <= SIZE_BYTES
      BY <1>1, <2>1
    <3>2. Weight[k] \in Nat \ {0} /\ Weight[k + 1] = ByteBase * Weight[k]
      BY <1>4, <1>6, <3>1
    <3>3. ByteBase * Weight[k] \in Nat \ {0}
      BY <1>1, <3>2
    <3> QED BY <3>2, <3>3
  <2> QED BY <2>1
<1> HIDE DEF S
<1>7. Nat \subseteq S
  BY <1>5, <1>6, NatSetInduction
<1>8. \A k \in 0..SIZE_BYTES : Weight[k] \in Nat \ {0}
  BY <1>1, <1>7 DEF S
<1> QED BY <1>3, <1>4, <1>8

\* Dividing by a product is dividing twice, and the remainders make one digit.
LEMMA DivideTwice ==
  ASSUME NEW n \in Nat, NEW w \in Nat \ {0}, NEW b \in Nat \ {0}
  PROVE  /\ n \div w \in Nat /\ n \div (b * w) \in Nat
         /\ (n \div w) % b \in 0..(b - 1)
         /\ ((n \div (b * w)) * b) + ((n \div w) % b) = n \div w
<1> DEFINE q == n \div w
           r == n % w
           u == q \div b
           v == q % b
           d == b * w
<1>1. q \in Nat /\ r \in 0..(w - 1) /\ n = w * q + r
  OBVIOUS
<1> HIDE DEF q, r
<1>2. u \in Nat /\ v \in 0..(b - 1) /\ q = b * u + v
  BY <1>1
<1> HIDE DEF u, v
<1>3. d \in Nat \ {0}
  OBVIOUS
<1>4. w * v + r \in 0..(d - 1)
  <2>1. v \in Nat /\ r \in Nat /\ v + 1 <= b /\ r < w
    BY <1>1, <1>2
  <2>2. w * (v + 1) <= w * b
    BY <2>1
  <2>3. w * (v + 1) = w * v + w /\ w * b = d /\ w * v \in Nat
    BY <2>1
  <2> HIDE DEF d
  <2>4. w * v + r < d /\ w * v + r \in Nat
    BY <2>1, <2>2, <2>3
  <2> QED BY <1>3, <2>4
<1>5. n = d * u + (w * v + r)
  <2>1. w * q = w * (b * u + v)
    BY <1>2
  <2>2. w * (b * u + v) = w * (b * u) + w * v
    BY <1>2
  <2>3. w * (b * u) = d * u
    BY <1>2
  <2>4. w * v \in Nat /\ d * u \in Nat /\ r \in Nat
    BY <1>1, <1>2, <1>3
  <2> QED BY <1>1, <2>1, <2>2, <2>3, <2>4
<1>6. n \div d = u
  BY <1>2, <1>3, <1>4, <1>5, DivisionUnique
<1>7. (u * b) + v = q
  <2>1. u * b = b * u
    BY <1>2
  <2> QED BY <1>2, <2>1
<1>8. /\ q \in Nat /\ n \div d \in Nat /\ v \in 0..(b - 1)
      /\ ((n \div d) * b) + v = q
  BY <1>1, <1>2, <1>6, <1>7
<1> QED BY <1>8 DEF q, v

\* What cipher_encrypt_file stores, cipher_decrypt_file reads (cipher.c:54-58 and
\* :269-272): every size that fits the field.
THEOREM SizeFieldUndone ==
  ASSUME NEW n \in Nat, n < Weight[SIZE_BYTES]
  PROVE  /\ SizeToBytes(n) \in Seq(Byte) /\ Len(SizeToBytes(n)) = SIZE_BYTES
         /\ SizeFromBytes(SizeToBytes(n)) = n
<1> DEFINE bytes == SizeToBytes(n)
           digit(j) == (n \div Weight[SIZE_BYTES - j]) % ByteBase
           step  == [p \in Nat \X Nat |-> (p[2] * ByteBase) + digit(p[1])]
<1>1. SIZE_BYTES \in Nat \ {0} /\ ByteBase \in Nat \ {0}
  BY SizesPositive
<1>2. \A k \in 0..SIZE_BYTES : Weight[k] \in Nat \ {0} /\ n \div Weight[k] \in Nat
  <2>1. SUFFICES ASSUME NEW k \in 0..SIZE_BYTES
                 PROVE  Weight[k] \in Nat \ {0} /\ n \div Weight[k] \in Nat
    OBVIOUS
  <2>2. Weight[k] \in Nat \ {0}
    BY WeightFacts
  <2> QED BY <2>2
<1>3. \A j \in 1..SIZE_BYTES : digit(j) \in Byte
  <2>1. SUFFICES ASSUME NEW j \in 1..SIZE_BYTES PROVE digit(j) \in Byte
    OBVIOUS
  <2>2. SIZE_BYTES - j \in 0..SIZE_BYTES
    BY <1>1
  <2>3. n \div Weight[SIZE_BYTES - j] \in Nat
    BY <1>2, <2>2
  <2> QED BY <1>1, <2>3 DEF Byte
<1>4. bytes \in Seq(Byte) /\ Len(bytes) = SIZE_BYTES /\ \A j \in 1..SIZE_BYTES : bytes[j] = digit(j)
  <2>1. bytes \in Seq(Byte) /\ Len(bytes) = SIZE_BYTES
    BY <1>1, ByteArrayType DEF SizeToBytes
  <2>2. \A j \in 1..SIZE_BYTES : bytes[j] = digit(j)
    BY <1>3 DEF SizeToBytes, ByteArray
  <2> QED BY <2>1, <2>2
<1> HIDE DEF bytes
\* reading the digits from the left
<1>5. SizeFromBytes(bytes) = n
  <2> DEFINE f == [k \in 0..SIZE_BYTES |-> n \div Weight[SIZE_BYTES - k]]
             g == [k \in 0..SIZE_BYTES |-> IF k = 0 THEN 0 ELSE (f[k - 1] * ByteBase) + bytes[k]]
  <2>1. f = g
    <3>1. SUFFICES ASSUME NEW k \in 0..SIZE_BYTES PROVE f[k] = g[k]
      OBVIOUS
    <3>2. CASE k = 0
      <4>1. SIZE_BYTES - 0 = SIZE_BYTES /\ SIZE_BYTES \in 0..SIZE_BYTES
        BY <1>1
      <4>2. Weight[SIZE_BYTES] \in Nat \ {0}
        BY <1>2, <4>1
      <4>3. n \div Weight[SIZE_BYTES] = 0
        BY <4>2
      <4> QED BY <1>1, <3>2, <4>1, <4>3
    <3>3. CASE k # 0
      <4>1. k \in 1..SIZE_BYTES /\ k - 1 \in 0..SIZE_BYTES /\ SIZE_BYTES - k \in 0..(SIZE_BYTES - 1)
            /\ SIZE_BYTES - (k - 1) = (SIZE_BYTES - k) + 1 /\ SIZE_BYTES - k \in 0..SIZE_BYTES
        BY <1>1, <3>3
      <4>2. Weight[SIZE_BYTES - (k - 1)] = ByteBase * Weight[SIZE_BYTES - k]
            /\ Weight[SIZE_BYTES - k] \in Nat \ {0}
        BY <4>1, WeightFacts
      <4>3. f[k - 1] = n \div (ByteBase * Weight[SIZE_BYTES - k]) /\ f[k] = n \div Weight[SIZE_BYTES - k]
        BY <4>1, <4>2
      <4>4. bytes[k] = (n \div Weight[SIZE_BYTES - k]) % ByteBase
        BY <1>4, <4>1
      <4>5. ((n \div (ByteBase * Weight[SIZE_BYTES - k])) * ByteBase)
              + ((n \div Weight[SIZE_BYTES - k]) % ByteBase) = n \div Weight[SIZE_BYTES - k]
        BY <1>1, <4>2, DivideTwice
      <4>6. g[k] = (f[k - 1] * ByteBase) + bytes[k]
        BY <3>3
      <4> QED BY <4>3, <4>4, <4>5, <4>6
    <3> QED BY <3>2, <3>3
  <2> DEFINE Is(h) == h = [k \in 0..SIZE_BYTES |->
                             IF k = 0 THEN 0 ELSE (h[k - 1] * ByteBase) + bytes[k]]
             value == CHOOSE h : Is(h)
  <2>2. Is(f)
    BY <2>1
  <2>3. Is(value)
    BY <2>2
  <2>4. SizeFromBytes(bytes) = value[SIZE_BYTES]
    BY DEF SizeFromBytes
  <2>5. \A k \in 0..SIZE_BYTES :
          value[k] = IF k = 0 THEN 0 ELSE (value[k - 1] * ByteBase) + bytes[k]
    BY <2>3
  <2>6. \A k \in 0..SIZE_BYTES : f[k] = IF k = 0 THEN 0 ELSE (f[k - 1] * ByteBase) + bytes[k]
    BY <2>1
  <2>7. f[SIZE_BYTES] = n
    <3>1. SIZE_BYTES - SIZE_BYTES = 0 /\ SIZE_BYTES \in 0..SIZE_BYTES
      BY <1>1
    <3>2. f[SIZE_BYTES] = n \div Weight[0]
      BY <3>1
    <3>3. n \div 1 = n
      OBVIOUS
    <3> QED BY <3>2, <3>3, WeightFacts
  <2> HIDE DEF value, f
  <2> DEFINE S == {k \in Nat : k <= SIZE_BYTES => value[k] = f[k]}
  <2>8. 0 \in S
    BY <1>1, <2>5, <2>6
  <2>9. ASSUME NEW k \in Nat, k \in S PROVE k + 1 \in S
    <3>1. CASE k + 1 <= SIZE_BYTES
      <4>1. k + 1 \in 0..SIZE_BYTES /\ k + 1 # 0 /\ (k + 1) - 1 = k /\ k <= SIZE_BYTES
        BY <1>1, <3>1
      <4>2. value[k] = f[k]
        BY <2>9, <4>1
      <4>3. value[k + 1] = (value[k] * ByteBase) + bytes[k + 1]
        BY <2>5, <4>1
      <4>4. f[k + 1] = (f[k] * ByteBase) + bytes[k + 1]
        BY <2>6, <4>1
      <4> QED BY <4>2, <4>3, <4>4
    <3> QED BY <3>1
  <2> HIDE DEF S
  <2>10. Nat \subseteq S
    BY <2>8, <2>9, NatSetInduction
  <2>11. value[SIZE_BYTES] = f[SIZE_BYTES]
    BY <1>1, <2>10 DEF S
  <2> QED BY <2>4, <2>7, <2>11
<1> QED BY <1>4, <1>5 DEF bytes

-----------------------------------------------------------------------------
(* Reading on, block by block.                                             *)

\* Going on where a start ends.
LEMMA ReadOn ==
  ASSUME NEW s \in Seq(Byte), NEW n \in Nat, NEW k \in Nat, n + k <= Len(s)
  PROVE  SubSeq(s, 1, n) \o Slice(s, n, k) = SubSeq(s, 1, n + k)
<1>1. n \in 0..Len(s) /\ n + k \in n..Len(s) /\ Len(s) \in Nat /\ 1 \in 1..(Len(s) + 1)
  BY LenProperties
<1>2. n \in (1 - 1)..Len(s)
  BY <1>1
<1> QED BY <1>1, <1>2, ConcatAdjacentSubSeq DEF Slice

\* A slice of a slice.
LEMMA SliceOfSlice ==
  ASSUME NEW s \in Seq(Byte), NEW from \in Nat, NEW n \in Nat, from + n <= Len(s),
         NEW at \in Nat, NEW m \in Nat, at + m <= n
  PROVE  Slice(Slice(s, from, n), at, m) = Slice(s, from + at, m)
<1> DEFINE t == Slice(s, from, n)
           a == Slice(t, at, m)
           b == Slice(s, from + at, m)
<1>1. t \in Seq(Byte) /\ Len(t) = n /\ \A k \in 1..n : t[k] = s[from + k]
  BY SliceBytes
<1>2. (from + at) + m <= Len(s) /\ from + at \in Nat /\ Len(s) \in Nat
  BY LenProperties
<1> HIDE DEF t
<1>3. a \in Seq(Byte) /\ Len(a) = m /\ \A k \in 1..m : a[k] = t[at + k]
  BY <1>1, SliceBytes
<1>4. b \in Seq(Byte) /\ Len(b) = m /\ \A k \in 1..m : b[k] = s[(from + at) + k]
  BY <1>2, SliceBytes
<1> HIDE DEF a, b
<1>5. \A k \in 1..m : a[k] = b[k]
  <2>1. SUFFICES ASSUME NEW k \in 1..m PROVE a[k] = b[k]
    OBVIOUS
  <2>2. at + k \in 1..n /\ from + (at + k) = (from + at) + k
    OBVIOUS
  <2> QED BY <1>1, <1>3, <1>4, <2>2
<1>6. a = b
  BY <1>3, <1>4, <1>5, SeqEqual
<1> QED BY <1>6 DEF a, b, t

\* The ciphertext, cut into blocks, is the chain.
LEMMA CipherBlockAt ==
  ASSUME NEW key \in Key, NEW iv \in Block, NEW s \in Seq(Byte),
         NEW n \in Nat, n * BLOCK_SIZE <= Len(s), NEW k \in 0..(n - 1)
  PROVE  Slice(CipherBytes(key, iv, s, n), k * BLOCK_SIZE, BLOCK_SIZE) = CbcBlocks(key, iv, s)[k + 1]
<1> DEFINE whole == CipherBytes(key, iv, s, n)
           front == CipherBytes(key, iv, s, k)
           upto  == CipherBytes(key, iv, s, k + 1)
           block == CbcBlocks(key, iv, s)[k + 1]
<1>1. /\ BLOCK_SIZE \in Nat \ {0} /\ k \in Nat /\ k + 1 \in Nat /\ k + 1 <= n
      /\ Len(s) \in Nat
  BY SizesPositive, LenProperties
<1>2. (k + 1) * BLOCK_SIZE <= n * BLOCK_SIZE /\ (k + 1) * BLOCK_SIZE = (k * BLOCK_SIZE) + BLOCK_SIZE
      /\ k * BLOCK_SIZE \in Nat /\ n * BLOCK_SIZE \in Nat
  BY <1>1
<1>3. (k + 1) * BLOCK_SIZE <= Len(s) /\ k * BLOCK_SIZE <= Len(s)
  BY <1>1, <1>2
<1>4. /\ whole \in Seq(Byte) /\ Len(whole) = n * BLOCK_SIZE
      /\ upto \in Seq(Byte) /\ Len(upto) = (k + 1) * BLOCK_SIZE
      /\ front \in Seq(Byte) /\ Len(front) = k * BLOCK_SIZE
  BY <1>1, <1>3, CipherBytesType
<1>5. upto = front \o block
  BY <1>1, <1>3, CipherBytesNext
<1>6. block \in Seq(Byte) /\ Len(block) = BLOCK_SIZE
  <2>1. block \in Block
    BY <1>1, <1>3, CbcType
  <2> QED BY <2>1, BlockIsSeq
<1>7. \A j \in 1..((k + 1) * BLOCK_SIZE) : whole[j] = upto[j]
  <2> DEFINE lo == (k + 1) * BLOCK_SIZE
             hi == n * BLOCK_SIZE
  <2>1. lo \in Nat /\ hi \in Nat /\ lo <= hi
    BY <1>1, <1>2
  <2>2. /\ \A j \in 1..lo : upto[j] = CbcBlocks(key, iv, s)[((j - 1) \div BLOCK_SIZE) + 1]
                                                         [((j - 1) % BLOCK_SIZE) + 1]
        /\ \A j \in 1..hi : whole[j] = CbcBlocks(key, iv, s)[((j - 1) \div BLOCK_SIZE) + 1]
                                                          [((j - 1) % BLOCK_SIZE) + 1]
    BY DEF CipherBytes
  <2> HIDE DEF lo, hi, upto, whole
  <2>3. \A j \in 1..lo : j \in 1..hi
    BY <2>1
  <2>4. \A j \in 1..lo : whole[j] = upto[j]
    BY <2>2, <2>3
  <2> QED BY <2>4 DEF lo
<1> HIDE DEF whole, front, upto, block
<1>8. Slice(upto, Len(front), Len(block)) = block
  BY <1>4, <1>5, <1>6, SliceRight
<1>9. Slice(whole, k * BLOCK_SIZE, BLOCK_SIZE) = Slice(upto, k * BLOCK_SIZE, BLOCK_SIZE)
  <2>1. /\ (k * BLOCK_SIZE) + BLOCK_SIZE <= Len(whole)
        /\ (k * BLOCK_SIZE) + BLOCK_SIZE <= Len(upto)
    BY <1>2, <1>4
  <2>2. \A j \in 1..((k * BLOCK_SIZE) + BLOCK_SIZE) : whole[j] = upto[j]
    BY <1>2, <1>7, Zenon
  <2> DEFINE at == k * BLOCK_SIZE
  <2> HIDE DEF at
  <2>3. at \in Nat /\ BLOCK_SIZE \in Nat
    BY <1>1, <1>2 DEF at
  <2>4. /\ at + BLOCK_SIZE <= Len(whole) /\ at + BLOCK_SIZE <= Len(upto)
        /\ \A j \in 1..(at + BLOCK_SIZE) : whole[j] = upto[j]
    BY <2>1, <2>2 DEF at
  <2>5. Slice(whole, at, BLOCK_SIZE) = Slice(upto, at, BLOCK_SIZE)
    BY <1>4, <2>3, <2>4, SlicesAgree
  <2> QED BY <2>5 DEF at
<1>10. Slice(whole, k * BLOCK_SIZE, BLOCK_SIZE) = block
  BY <1>4, <1>6, <1>8, <1>9
<1> QED BY <1>10 DEF whole, block

\* A block of the chain, decrypted, is the block it was made from.
LEMMA ChainUndone ==
  ASSUME NEW key \in Key, NEW iv \in Block, NEW s \in Seq(Byte), NEW k \in Nat,
         (k + 1) * BLOCK_SIZE <= Len(s)
  PROVE  cipher_cbc_decrypt_block(key, CbcBlocks(key, iv, s)[k], CbcBlocks(key, iv, s)[k + 1])
           = Slice(s, k * BLOCK_SIZE, BLOCK_SIZE)
<1>1. BLOCK_SIZE \in Nat \ {0} /\ Len(s) \in Nat
  BY SizesPositive, LenProperties
<1>2. (k + 1) * BLOCK_SIZE = (k * BLOCK_SIZE) + BLOCK_SIZE /\ k * BLOCK_SIZE \in Nat
  BY <1>1
<1>3. (k * BLOCK_SIZE) + BLOCK_SIZE <= Len(s) /\ k * BLOCK_SIZE <= Len(s)
  BY <1>1, <1>2
<1>4. Slice(s, k * BLOCK_SIZE, BLOCK_SIZE) \in Block
  BY <1>2, <1>3, SliceIsBlock
<1>5. CbcBlocks(key, iv, s)[k] \in Block
  BY <1>3, CbcType
<1> QED BY <1>4, <1>5, CbcNext, ChainingUndone

-----------------------------------------------------------------------------
(* The layout of a sealed file.                                            *)

SealedHeader(size, s, v)       == SizeToBytes(size) \o s \o v
SealedText(plain, master, s, v) == Ciphertext(EncKey(master, s), v, plain)

LEMMA SealedLayout ==
  ASSUME NEW plain \in Seq(Byte), NEW size \in Nat, NEW master \in Masters,
         NEW s \in [1..KDF_SALT_SIZE -> Byte], NEW v \in Block,
         NEW f, f = Sealed(plain, size, master, s, v)
  PROVE  /\ SealedHeader(size, s, v) \in Seq(Byte) /\ Len(SealedHeader(size, s, v)) = HeaderSize
         /\ SealedText(plain, master, s, v) \in Seq(Byte) /\ f \in Seq(Byte)
         /\ Len(f) = HeaderSize + Len(SealedText(plain, master, s, v)) + HMAC_SIZE
         /\ SubSeq(f, 1, HeaderSize) = SealedHeader(size, s, v)
         /\ SizeField(f) = SizeToBytes(size)
         /\ SaltField(f) = s /\ IvField(f) = v
         /\ Slice(f, HeaderSize, Len(SealedText(plain, master, s, v)))
              = SealedText(plain, master, s, v)
         /\ Slice(f, Len(f) - HMAC_SIZE, HMAC_SIZE)
              = hmac_compute(MacKey(master, s),
                             SealedHeader(size, s, v) \o SealedText(plain, master, s, v))
<1> DEFINE g  == Sealed(plain, size, master, s, v)
           b  == SizeToBytes(size)
           hd == (b \o s) \o v
           ct == Ciphertext(EncKey(master, s), v, plain)
           M  == hmac_compute(MacKey(master, s), hd \o ct)
<1>1. /\ SIZE_BYTES \in Nat \ {0} /\ KDF_SALT_SIZE \in Nat \ {0} /\ BLOCK_SIZE \in Nat \ {0}
      /\ HMAC_SIZE \in Nat \ {0} /\ HeaderSize = SIZE_BYTES + KDF_SALT_SIZE + BLOCK_SIZE
  BY SizesPositive DEF HeaderSize
<1>2. b \in Seq(Byte) /\ Len(b) = SIZE_BYTES
  BY <1>1, ByteArrayType DEF SizeToBytes
<1>3. s \in Seq(Byte) /\ Len(s) = KDF_SALT_SIZE /\ v \in Seq(Byte) /\ Len(v) = BLOCK_SIZE
  BY <1>1, ArrayIsSeq, BlockIsSeq
<1>4. ct \in Seq(Byte) /\ Len(ct) \in Nat
  <2>1. EncKey(master, s) \in Key
    BY DeriveType DEF EncKey
  <2>2. 0 \in Nat /\ 0 * BLOCK_SIZE <= Len(plain)
    BY <1>1, LenProperties
  <2>3. ct \in Seq(Byte)
    BY <2>1, <2>2, CiphertextStarts
  <2> QED BY <2>3, LenProperties
<1>5. M \in Seq(Byte) /\ Len(M) = HMAC_SIZE
  BY <1>1, ByteArrayType DEF hmac_compute
<1>6. g = (hd \o ct) \o M
  BY DEF Sealed
<1> HIDE DEF g, b, ct, M
<1>7. b \o s \in Seq(Byte) /\ Len(b \o s) = SIZE_BYTES + KDF_SALT_SIZE
  BY <1>2, <1>3, ConcatType
<1>8. hd \in Seq(Byte) /\ Len(hd) = HeaderSize
  BY <1>1, <1>3, <1>7, ConcatType
<1>9. hd \o ct \in Seq(Byte) /\ Len(hd \o ct) = HeaderSize + Len(ct)
  BY <1>4, <1>8, ConcatType
<1>10. g \in Seq(Byte) /\ Len(g) = HeaderSize + Len(ct) + HMAC_SIZE
  BY <1>5, <1>6, <1>9, ConcatType
<1>11. Slice(g, Len(g) - HMAC_SIZE, HMAC_SIZE) = M
  <2>1. Len(g) - HMAC_SIZE = Len(hd \o ct)
    BY <1>1, <1>4, <1>9, <1>10
  <2>2. Slice((hd \o ct) \o M, Len(hd \o ct), Len(M)) = M
    BY <1>5, <1>9, SliceRight
  <2> QED BY <1>5, <1>6, <2>1, <2>2
<1>12. \A from, n \in Nat : from + n <= HeaderSize + Len(ct) => Slice(g, from, n) = Slice(hd \o ct, from, n)
  BY <1>5, <1>6, <1>9, SliceLeft
<1>13. Slice(g, HeaderSize, Len(ct)) = ct
  <2>1. Slice(hd \o ct, Len(hd), Len(ct)) = ct
    BY <1>4, <1>8, SliceRight
  <2>2. HeaderSize \in Nat
    BY <1>1
  <2> QED BY <1>4, <1>8, <1>12, <2>1, <2>2
<1>14. \A from, n \in Nat : from + n <= HeaderSize => Slice(g, from, n) = Slice(hd, from, n)
  <2>1. SUFFICES ASSUME NEW from \in Nat, NEW n \in Nat, from + n <= HeaderSize
                 PROVE  Slice(g, from, n) = Slice(hd, from, n)
    OBVIOUS
  <2>2. from + n <= HeaderSize + Len(ct)
    BY <1>1, <1>4, <2>1
  <2>3. Slice(hd \o ct, from, n) = Slice(hd, from, n)
    BY <1>4, <1>8, <2>1, SliceLeft
  <2> QED BY <1>12, <2>2, <2>3
<1> HIDE DEF hd
<1>15. SubSeq(g, 1, HeaderSize) = hd
  <2>1. 0 \in Nat /\ HeaderSize \in Nat /\ 0 + HeaderSize <= HeaderSize /\ 0 + 1 = 1
        /\ 0 + HeaderSize = HeaderSize
    BY <1>1
  <2>2. Slice(g, 0, HeaderSize) = Slice(hd, 0, HeaderSize)
    BY <1>14, <2>1
  <2>3. SubSeq(g, 1, HeaderSize) = SubSeq(hd, 1, Len(hd))
    BY <1>8, <2>1, <2>2 DEF Slice
  <2> QED BY <1>8, <2>3, SubSeqFull
<1>16. SizeField(g) = b
  <2>1. 0 \in Nat /\ SIZE_BYTES \in Nat /\ 0 + SIZE_BYTES <= HeaderSize
        /\ 0 + SIZE_BYTES <= Len(b \o s) /\ 0 + SIZE_BYTES <= Len(b)
    BY <1>1, <1>2, <1>7
  <2>2. Slice(hd, 0, SIZE_BYTES) = Slice(b \o s, 0, SIZE_BYTES)
    BY <1>3, <1>7, <2>1, SliceLeft DEF hd
  <2>3. Slice(b \o s, 0, SIZE_BYTES) = Slice(b, 0, SIZE_BYTES)
    BY <1>2, <1>3, <2>1, SliceLeft
  <2>4. Slice(b, 0, SIZE_BYTES) = SubSeq(b, 1, Len(b))
    BY <1>1, <1>2 DEF Slice
  <2> QED BY <1>2, <1>14, <2>1, <2>2, <2>3, <2>4, SubSeqFull DEF SizeField
<1>17. SaltField(g) = s
  <2>1. SIZE_BYTES \in Nat /\ KDF_SALT_SIZE \in Nat /\ SIZE_BYTES + KDF_SALT_SIZE <= HeaderSize
        /\ SIZE_BYTES + KDF_SALT_SIZE <= Len(b \o s)
    BY <1>1, <1>7
  <2>2. Slice(hd, SIZE_BYTES, KDF_SALT_SIZE) = Slice(b \o s, SIZE_BYTES, KDF_SALT_SIZE)
    BY <1>3, <1>7, <2>1, SliceLeft DEF hd
  <2>3. Slice(b \o s, Len(b), Len(s)) = s
    BY <1>2, <1>3, SliceRight
  <2> QED BY <1>2, <1>3, <1>14, <2>1, <2>2, <2>3 DEF SaltField
<1>18. IvField(g) = v
  <2>1. SIZE_BYTES + KDF_SALT_SIZE \in Nat /\ BLOCK_SIZE \in Nat
        /\ (SIZE_BYTES + KDF_SALT_SIZE) + BLOCK_SIZE <= HeaderSize
    BY <1>1
  <2>2. Slice(hd, Len(b \o s), Len(v)) = v
    BY <1>3, <1>7, SliceRight DEF hd
  <2> QED BY <1>3, <1>7, <1>14, <2>1, <2>2 DEF IvField
<1>19. f = g /\ SealedHeader(size, s, v) = hd /\ SealedText(plain, master, s, v) = ct
  BY DEF g, hd, ct, b, SealedHeader, SealedText
<1> QED BY <1>4, <1>8, <1>10, <1>11, <1>13, <1>15, <1>16, <1>17, <1>18, <1>19 DEF b, M

\* A whole block of a message is a block of the padded one.
LEMMA WholeBlockOfPadded ==
  ASSUME NEW plain \in Seq(Byte), NEW k \in Nat, (k + 1) * BLOCK_SIZE <= Len(plain)
  PROVE  /\ Slice(Padded(plain), k * BLOCK_SIZE, BLOCK_SIZE) = Slice(plain, k * BLOCK_SIZE, BLOCK_SIZE)
         /\ SubSeq(plain, 1, k * BLOCK_SIZE) \o Slice(plain, k * BLOCK_SIZE, BLOCK_SIZE)
              = SubSeq(plain, 1, (k + 1) * BLOCK_SIZE)
<1> DEFINE p  == Padded(plain)
           at == k * BLOCK_SIZE
<1>1. PICK n \in Nat, r \in 0..(BLOCK_SIZE - 1) : Len(plain) = n * BLOCK_SIZE + r
  BY BlocksAndRest
<1>2. /\ p \in Seq(Byte) /\ Len(p) = (n + 1) * BLOCK_SIZE
      /\ \A j \in 1..Len(plain) : p[j] = plain[j]
  BY <1>1, PaddedShape
<1>3. /\ BLOCK_SIZE \in Nat \ {0} /\ Len(plain) \in Nat /\ at \in Nat
      /\ (k + 1) * BLOCK_SIZE = at + BLOCK_SIZE /\ Len(plain) <= (n + 1) * BLOCK_SIZE
  BY <1>1, SizesPositive, LenProperties
<1> HIDE DEF p, at
<1>4. at + BLOCK_SIZE <= Len(plain) /\ at + BLOCK_SIZE <= Len(p)
  BY <1>2, <1>3
<1>5. \A j \in 1..(at + BLOCK_SIZE) : p[j] = plain[j]
  BY <1>2, <1>3, <1>4
<1>6. Slice(p, at, BLOCK_SIZE) = Slice(plain, at, BLOCK_SIZE)
  BY <1>2, <1>3, <1>4, <1>5, SlicesAgree
<1>7. SubSeq(plain, 1, at) \o Slice(plain, at, BLOCK_SIZE) = SubSeq(plain, 1, at + BLOCK_SIZE)
  BY <1>3, <1>4, ReadOn
<1> QED BY <1>3, <1>6, <1>7 DEF p, at

\* The last block of a padded message: what its padding says, and the rest of the
\* message that it begins with.
LEMMA LastBlockOfPadded ==
  ASSUME NEW plain \in Seq(Byte), NEW n \in Nat, NEW r \in 0..(BLOCK_SIZE - 1),
         Len(plain) = n * BLOCK_SIZE + r
  PROVE  LET last == Slice(Padded(plain), n * BLOCK_SIZE, BLOCK_SIZE)
         IN  /\ cipher_remove_pkcs7_padding(last) = r
             /\ \A m \in 0..r : /\ SubSeq(last, 1, m) \in Seq(Byte) /\ Len(SubSeq(last, 1, m)) = m
                                /\ SubSeq(plain, 1, n * BLOCK_SIZE) \o SubSeq(last, 1, m)
                                     = SubSeq(plain, 1, n * BLOCK_SIZE + m)
<1> DEFINE at   == n * BLOCK_SIZE
           rest == Slice(plain, at, r)
           last == Slice(Padded(plain), at, BLOCK_SIZE)
<1>1. /\ BLOCK_SIZE \in Nat \ {0} /\ at \in Nat /\ r \in Nat /\ r < BLOCK_SIZE
      /\ Len(plain) = at + r
  BY SizesPositive
<1>2. rest \in Seq(Byte) /\ Len(rest) = r /\ \A j \in 1..r : rest[j] = plain[at + j]
  <2> HIDE DEF at
  <2>1. at + r <= Len(plain)
    BY <1>1
  <2>2. \A f \in Nat, m \in Nat : f + m <= Len(plain) =>
          /\ Slice(plain, f, m) \in Seq(Byte) /\ Len(Slice(plain, f, m)) = m
          /\ \A j \in 1..m : Slice(plain, f, m)[j] = plain[f + j]
    BY SliceBytes
  <2> QED BY <1>1, <2>1, <2>2
<1> HIDE DEF rest
<1>3. last = cipher_add_pkcs7_padding(rest)
  <2>1. /\ Len(rest) < BLOCK_SIZE /\ Len(plain) = n * BLOCK_SIZE + Len(rest)
        /\ \A j \in 1..Len(rest) : plain[n * BLOCK_SIZE + j] = rest[j]
    BY <1>1, <1>2
  <2> QED BY <1>2, <2>1, PaddedEnd
<1> HIDE DEF last, at
<1>4. cipher_remove_pkcs7_padding(last) = r /\ SubSeq(last, 1, r) = rest
  BY <1>1, <1>2, <1>3, PaddingUnambiguous
<1>5. last \in Seq(Byte) /\ Len(last) = BLOCK_SIZE
  BY <1>1, <1>2, <1>3, PaddingMakesBlock, BlockIsSeq
<1>6. ASSUME NEW m \in 0..r
      PROVE  /\ SubSeq(last, 1, m) \in Seq(Byte) /\ Len(SubSeq(last, 1, m)) = m
             /\ SubSeq(plain, 1, at) \o SubSeq(last, 1, m) = SubSeq(plain, 1, at + m)
  <2>1. m \in 0..Len(last) /\ m \in Nat
    BY <1>1, <1>5
  <2>2. SubSeq(last, 1, m) \in Seq(Byte) /\ Len(SubSeq(last, 1, m)) = m
    BY <1>5, <2>1, PrefixType
  <2>3. 0 + m <= r /\ 0 + r <= Len(last) /\ 0 \in Nat /\ r \in Nat /\ 0 + 1 = 1 /\ 0 + m = m /\ 0 + r = r
        /\ 0 + 0 = 0
    BY <1>1, <1>5, <2>1
  <2>4. SubSeq(last, 1, m) = Slice(last, 0, m) /\ rest = Slice(last, 0, r)
    BY <1>4, <2>3 DEF Slice
  <2>5. Slice(Slice(last, 0, r), 0, m) = Slice(last, 0 + 0, m)
    BY <1>5, <2>1, <2>3, SliceOfSlice
  <2>6. SubSeq(last, 1, m) = Slice(rest, 0, m)
    BY <2>3, <2>4, <2>5
  <2>7. Slice(Slice(plain, at, r), 0, m) = Slice(plain, at + 0, m)
    <3>1. at \in Nat /\ r \in Nat /\ at + r <= Len(plain) /\ 0 \in Nat /\ m \in Nat /\ 0 + m <= r
      BY <1>1, <2>1, <2>3
    <3> QED BY <3>1, SliceOfSlice
  <2>8. SubSeq(last, 1, m) = Slice(plain, at, m)
    BY <1>1, <2>6, <2>7 DEF rest
  <2>9. SubSeq(plain, 1, at) \o Slice(plain, at, m) = SubSeq(plain, 1, at + m)
    BY <1>1, <2>1, ReadOn
  <2> QED BY <2>2, <2>8, <2>9
<1> QED BY <1>4, <1>6 DEF last, at

=============================================================================
