-------------------------- MODULE HashStreamProofs --------------------------
(***************************************************************************)
(* What TLAPS proves of HashStream, for blocks and length fields of every  *)
(* size, messages of every length and any compression function: the        *)
(* types, that the context is a function of the message alone, and that    *)
(* the calls implement the one-shot hash of MerkleDamgard.                 *)
(***************************************************************************)
EXTENDS HashStream, SequenceTheorems, WellFoundedInduction, TLAPS

-----------------------------------------------------------------------------
(* Induction and division.                                                 *)

\* Induction over the numbers, stated of a set: a counterexample would have a
\* least one.
LEMMA NatSetInduction ==
  ASSUME NEW S, 0 \in S, \A n \in Nat : n \in S => n + 1 \in S
  PROVE  Nat \subseteq S
<1> DEFINE R == OpToRel(<, Nat)
           T == Nat \ S
<1>1. SUFFICES ASSUME T # {} PROVE FALSE
  OBVIOUS
<1>2. IsWellFoundedOn(R, Nat)
  BY NatLessThanWellFounded
<1>3. PICK x \in T : \A y \in T : ~ (<<y, x>> \in R)
  <2> HIDE DEF R
  <2> QED BY <1>1, <1>2, WFMin
<1>4. x \in Nat /\ x # 0
  OBVIOUS
<1>5. x - 1 \in Nat /\ x - 1 < x /\ (x - 1) + 1 = x
  BY <1>4
<1>6. <<x - 1, x>> \in R
  BY <1>4, <1>5 DEF OpToRel
<1>7. x - 1 \in S
  BY <1>3, <1>5, <1>6
<1> QED BY <1>5, <1>7

\* The quotient and the remainder are the only numbers that do what they do.
LEMMA DivisionUnique ==
  ASSUME NEW h \in Nat \ {0}, NEW n \in Nat, NEW q \in Nat, NEW r \in 0..(h - 1),
         n = h * q + r
  PROVE  n \div h = q /\ n % h = r
<1> DEFINE p == n \div h
           s == n % h
<1>1. p \in Int /\ s \in 0..(h - 1) /\ n = h * p + s
  OBVIOUS
<1> HIDE DEF p, s
<1>2. CASE p > q
  <2>1. h * p >= h * (q + 1)
    BY <1>1, <1>2
  <2>2. h * (q + 1) = h * q + h
    OBVIOUS
  <2> QED BY <1>1, <2>1, <2>2
<1>3. CASE p < q
  <2>1. h * q >= h * (p + 1)
    BY <1>1, <1>3
  <2>2. h * (p + 1) = h * p + h
    BY <1>1
  <2> QED BY <1>1, <2>1, <2>2
<1>4. p = q
  BY <1>1, <1>2, <1>3
<1>5. s = r
  BY <1>1, <1>4
<1> QED BY <1>4, <1>5 DEF p, s

-----------------------------------------------------------------------------
(* The chain of compressions. Chained is defined by recursion, so first    *)
(* that there is a function it defines, and only one.                      *)

IsChain(f, m, n) ==
  f = [k \in 0..n |-> IF k = 0 THEN FirstState ELSE Mix(f[k - 1], OneShot!BlockOf(m, k))]

LEMMA ChainExists ==
  ASSUME NEW m, NEW n \in Nat
  PROVE  \E f : IsChain(f, m, n)
<1> DEFINE S == {k \in Nat : \E f : IsChain(f, m, k)}
<1>1. 0 \in S
  <2> DEFINE f == [k \in 0..0 |-> FirstState]
  <2>1. f = [k \in 0..0 |-> IF k = 0 THEN FirstState ELSE Mix(f[k - 1], OneShot!BlockOf(m, k))]
    OBVIOUS
  <2> QED BY <2>1 DEF IsChain
<1>2. ASSUME NEW k \in Nat, k \in S
      PROVE  k + 1 \in S
  <2>1. PICK f : IsChain(f, m, k)
    BY <1>2
  <2> DEFINE g == [j \in 0..(k + 1) |-> IF j <= k THEN f[j]
                                        ELSE Mix(f[k], OneShot!BlockOf(m, k + 1))]
             h == [j \in 0..(k + 1) |-> IF j = 0 THEN FirstState
                                        ELSE Mix(g[j - 1], OneShot!BlockOf(m, j))]
  <2>2. ASSUME NEW j \in 0..(k + 1)
        PROVE  g[j] = h[j]
    <3>1. CASE j = 0
      BY <2>1, <3>1 DEF IsChain
    <3>2. CASE j \in 1..k
      <4>1. j - 1 \in 0..(k + 1) /\ j - 1 <= k /\ j \in 0..k /\ j # 0
        BY <3>2
      <4>2. g[j] = f[j] /\ g[j - 1] = f[j - 1]
        BY <4>1
      <4>3. f[j] = Mix(f[j - 1], OneShot!BlockOf(m, j))
        BY <2>1, <4>1 DEF IsChain
      <4> QED BY <4>1, <4>2, <4>3
    <3>3. CASE j = k + 1
      BY <3>3
    <3> QED BY <3>1, <3>2, <3>3
  <2>3. g = h
    BY <2>2
  <2>4. IsChain(g, m, k + 1)
    BY <2>3 DEF IsChain
  <2> QED BY <2>4
<1> HIDE DEF S
<1>3. Nat \subseteq S
  BY <1>1, <1>2, NatSetInduction
<1> QED BY <1>3 DEF S

\* Two chains over the same blocks go through the same states.
LEMMA ChainsAgree ==
  ASSUME NEW m1, NEW m2, NEW n1 \in Nat, NEW n2 \in Nat, NEW f1, NEW f2,
         IsChain(f1, m1, n1), IsChain(f2, m2, n2),
         NEW n \in Nat, n <= n1, n <= n2,
         \A k \in 1..n : OneShot!BlockOf(m1, k) = OneShot!BlockOf(m2, k)
  PROVE  f1[n] = f2[n]
<1> DEFINE S == {k \in Nat : k <= n => f1[k] = f2[k]}
<1>1. 0 \in S
  BY DEF IsChain
<1>2. ASSUME NEW k \in Nat, k \in S
      PROVE  k + 1 \in S
  <2>1. SUFFICES ASSUME k + 1 <= n PROVE f1[k + 1] = f2[k + 1]
    OBVIOUS
  <2>2. f1[k] = f2[k]
    BY <1>2, <2>1
  <2>3. /\ k + 1 \in 0..n1 /\ k + 1 \in 0..n2 /\ k + 1 \in 1..n /\ k + 1 # 0
        /\ (k + 1) - 1 = k
    BY <2>1
  <2>4. f1[k + 1] = Mix(f1[k], OneShot!BlockOf(m1, k + 1))
    BY <2>3 DEF IsChain
  <2>5. f2[k + 1] = Mix(f2[k], OneShot!BlockOf(m2, k + 1))
    BY <2>3 DEF IsChain
  <2> QED BY <2>2, <2>3, <2>4, <2>5
<1> HIDE DEF S
<1>3. Nat \subseteq S
  BY <1>1, <1>2, NatSetInduction
<1> QED BY <1>3 DEF S

LEMMA ChainedIs ==
  ASSUME NEW m, NEW n \in Nat
  PROVE  \E f : IsChain(f, m, n) /\ OneShot!Chained(m, n) = f[n]
<1> DEFINE f == CHOOSE g : IsChain(g, m, n)
<1>1. IsChain(f, m, n)
  BY ChainExists
<1>2. OneShot!Chained(m, n) = f[n]
  BY DEF OneShot!Chained, IsChain
<1> QED BY <1>1, <1>2

\* The equations of the recursion, and that the chain depends on its blocks alone.
LEMMA ChainedZero ==
  ASSUME NEW m
  PROVE  OneShot!Chained(m, 0) = FirstState
<1>1. PICK f : IsChain(f, m, 0) /\ OneShot!Chained(m, 0) = f[0]
  BY ChainedIs
<1> QED BY <1>1 DEF IsChain

LEMMA ChainedSame ==
  ASSUME NEW m1, NEW m2, NEW n \in Nat,
         \A k \in 1..n : OneShot!BlockOf(m1, k) = OneShot!BlockOf(m2, k)
  PROVE  OneShot!Chained(m1, n) = OneShot!Chained(m2, n)
<1>1. PICK f : IsChain(f, m1, n) /\ OneShot!Chained(m1, n) = f[n]
  BY ChainedIs
<1>2. PICK g : IsChain(g, m2, n) /\ OneShot!Chained(m2, n) = g[n]
  BY ChainedIs
<1>3. f[n] = g[n]
  BY <1>1, <1>2, ChainsAgree
<1> QED BY <1>1, <1>2, <1>3

LEMMA ChainedNext ==
  ASSUME NEW m, NEW n \in Nat
  PROVE  OneShot!Chained(m, n + 1) = Mix(OneShot!Chained(m, n), OneShot!BlockOf(m, n + 1))
<1>1. PICK f : IsChain(f, m, n + 1) /\ OneShot!Chained(m, n + 1) = f[n + 1]
  BY ChainedIs
<1>2. PICK g : IsChain(g, m, n) /\ OneShot!Chained(m, n) = g[n]
  BY ChainedIs
<1>3. f[n] = g[n]
  BY <1>1, <1>2, ChainsAgree
<1>4. f[n + 1] = Mix(f[n], OneShot!BlockOf(m, n + 1))
  BY <1>1 DEF IsChain
<1> QED BY <1>1, <1>2, <1>3, <1>4

-----------------------------------------------------------------------------
(* The padding.                                                            *)

LEMMA SizeFacts ==
  /\ Size \in Nat \ {0} /\ LENGTH_FIELD \in Nat \ {0} /\ LENGTH_FIELD < Size
  /\ ByteBase \in Nat /\ ByteBase >= 2
  /\ 0 \in Byte /\ OneShot!PaddingStart \in Byte
BY HashSizes DEF Size, Byte, OneShot!PaddingStart

\* ShiftedLength is recursive from the last byte to the first: that there is such a
\* function, and that it gives numbers.
LEMMA ShiftedLengthType ==
  ASSUME NEW n \in Nat, NEW k \in 1..LENGTH_FIELD
  PROVE  OneShot!ShiftedLength(n)[k] \in Nat
<1> DEFINE W == LENGTH_FIELD
           Shifts(f, from) ==
             f = [j \in from..W |-> IF j = W THEN n * 8 ELSE f[j + 1] \div ByteBase]
           S == {d \in Nat : d < W => \E f : Shifts(f, W - d)}
<1>1. W \in Nat \ {0} /\ ByteBase \in Nat \ {0}
  BY SizeFacts
<1> HIDE DEF W
<1>2. 0 \in S
  <2> DEFINE f == [j \in W..W |-> n * 8]
  <2>1. f = [j \in W..W |-> IF j = W THEN n * 8 ELSE f[j + 1] \div ByteBase]
    BY <1>1
  <2>2. W - 0 = W
    BY <1>1
  <2> QED BY <2>1, <2>2
<1>3. ASSUME NEW d \in Nat, d \in S
      PROVE  d + 1 \in S
  <2>1. SUFFICES ASSUME d + 1 < W PROVE \E f : Shifts(f, W - (d + 1))
    OBVIOUS
  <2>2. PICK f : Shifts(f, W - d)
    BY <1>1, <1>3, <2>1
  <2> DEFINE low == W - (d + 1)
             g == [j \in low..W |-> IF j = low THEN f[low + 1] \div ByteBase ELSE f[j]]
             h == [j \in low..W |-> IF j = W THEN n * 8 ELSE g[j + 1] \div ByteBase]
  <2>3. low \in Nat /\ low < W /\ low + 1 = W - d
    BY <1>1, <2>1
  <2> HIDE DEF low
  <2>4. ASSUME NEW j \in low..W
        PROVE  g[j] = h[j]
    <3>1. CASE j = low
      <4>1. j + 1 \in low..W /\ j + 1 # low /\ j # W
        BY <1>1, <2>3, <3>1
      <4> QED BY <3>1, <4>1
    <3>2. CASE j # low
      <4>1. j \in (low + 1)..W
        BY <1>1, <2>3, <3>2
      <4>2. f[j] = IF j = W THEN n * 8 ELSE f[j + 1] \div ByteBase
        BY <2>2, <2>3, <4>1
      <4>3. j # W => j + 1 \in low..W /\ j + 1 # low
        BY <1>1, <2>3, <4>1
      <4> QED BY <3>2, <4>2, <4>3
    <3> QED BY <3>1, <3>2
  <2>5. g = h
    BY <2>4
  <2>6. Shifts(g, low)
    BY <2>5
  <2> QED BY <2>6 DEF low
<1> HIDE DEF S
<1>4. Nat \subseteq S
  BY <1>2, <1>3, NatSetInduction
<1>5. \E f : Shifts(f, 1)
  <2>1. W - 1 \in Nat /\ W - 1 < W /\ W - (W - 1) = 1
    BY <1>1
  <2>2. W - 1 \in S
    BY <1>4, <2>1
  <2>3. \E f : Shifts(f, W - (W - 1))
    BY <2>1, <2>2 DEF S
  <2> QED BY <2>1, <2>3
<1> DEFINE s == CHOOSE f : Shifts(f, 1)
<1>6. Shifts(s, 1)
  BY <1>5
<1>7. OneShot!ShiftedLength(n) = s
  BY DEF OneShot!ShiftedLength, W
<1> HIDE DEF s
<1> DEFINE T == {d \in Nat : d < W => s[W - d] \in Nat}
<1>8. 0 \in T
  <2>1. W - 0 = W /\ W \in 1..W
    BY <1>1
  <2>2. s[W] = n * 8
    BY <1>6, <2>1
  <2> QED BY <2>1, <2>2
<1>9. ASSUME NEW d \in Nat, d \in T
      PROVE  d + 1 \in T
  <2>1. SUFFICES ASSUME d + 1 < W PROVE s[W - (d + 1)] \in Nat
    OBVIOUS
  <2>2. /\ W - (d + 1) \in 1..W /\ W - (d + 1) # W /\ (W - (d + 1)) + 1 = W - d
    BY <1>1, <2>1
  <2>3. s[W - (d + 1)] = s[W - d] \div ByteBase
    BY <1>6, <2>2
  <2>4. s[W - d] \in Nat
    BY <1>1, <1>9, <2>1
  <2> QED BY <1>1, <2>3, <2>4
<1> HIDE DEF T
<1>10. Nat \subseteq T
  BY <1>8, <1>9, NatSetInduction
<1>11. W - k \in Nat /\ W - k < W /\ W - (W - k) = k
  BY <1>1 DEF W
<1>12. s[k] \in Nat
  BY <1>10, <1>11 DEF T
<1> QED BY <1>7, <1>12

LEMMA LengthFieldType ==
  ASSUME NEW n \in Nat
  PROVE  /\ OneShot!LengthField(n) \in [1..LENGTH_FIELD -> Byte]
         /\ OneShot!LengthField(n) \in Seq(Byte)
         /\ Len(OneShot!LengthField(n)) = LENGTH_FIELD
<1>1. \A k \in 1..LENGTH_FIELD : OneShot!ShiftedLength(n)[k] % ByteBase \in Byte
  BY ShiftedLengthType, SizeFacts DEF Byte
<1>2. OneShot!LengthField(n) \in [1..LENGTH_FIELD -> Byte]
  BY <1>1 DEF OneShot!LengthField
<1> QED BY <1>2, SizeFacts

LEMMA ZerosType ==
  ASSUME NEW n \in Nat
  PROVE  /\ OneShot!Zeros(n) \in Seq(Byte) /\ Len(OneShot!Zeros(n)) = n
         /\ \A k \in 1..n : OneShot!Zeros(n)[k] = 0
<1>1. OneShot!Zeros(n) \in [1..n -> Byte]
  BY SizeFacts DEF OneShot!Zeros
<1> QED BY <1>1 DEF OneShot!Zeros

\* The zeros of a padded message whose last block holds r bytes.
Fill(r) == IF r + 1 + LENGTH_FIELD <= Size THEN Size - LENGTH_FIELD - r - 1
           ELSE 2 * Size - LENGTH_FIELD - r - 1

\* A padded message byte by byte.
LEMMA PaddedBytes ==
  ASSUME NEW m \in Seq(Byte), NEW q \in Nat, NEW r \in 0..(Size - 1), Len(m) = Size * q + r
  PROVE  LET L == Len(m)
             P == OneShot!Padded(m)
         IN  /\ Fill(r) \in Nat
             /\ P \in Seq(Byte)
             /\ Len(P) = L + 1 + Fill(r) + LENGTH_FIELD
             /\ \A j \in 1..Len(P) :
                  P[j] = IF j <= L THEN m[j]
                         ELSE IF j = L + 1 THEN OneShot!PaddingStart
                         ELSE IF j <= L + 1 + Fill(r) THEN 0
                         ELSE OneShot!LengthField(L)[j - (L + 1 + Fill(r))]
<1> DEFINE L == Len(m)
           used == (L + 1 + LENGTH_FIELD) % HASH_BLOCK_SIZE
           z == (HASH_BLOCK_SIZE - used) % HASH_BLOCK_SIZE
           start == << OneShot!PaddingStart >>
           zeros == OneShot!Zeros(z)
           field == OneShot!LengthField(L)
<1>1. /\ Size \in Nat \ {0} /\ LENGTH_FIELD \in Nat \ {0} /\ LENGTH_FIELD < Size
      /\ HASH_BLOCK_SIZE = Size /\ L \in Nat /\ L = Size * q + r
  BY SizeFacts, LenProperties DEF Size
<1> HIDE DEF L
<1>2. z = Fill(r) /\ z \in Nat
  <2>1. CASE r + 1 + LENGTH_FIELD < Size
    <3>1. r + 1 + LENGTH_FIELD \in 0..(Size - 1) /\ L + 1 + LENGTH_FIELD \in Nat
          /\ L + 1 + LENGTH_FIELD = Size * q + (r + 1 + LENGTH_FIELD)
      BY <1>1, <2>1
    <3>2. used = r + 1 + LENGTH_FIELD
      BY <1>1, <3>1, DivisionUnique
    <3> HIDE DEF used
    <3>3. HASH_BLOCK_SIZE - used \in 0..(Size - 1)
      BY <1>1, <3>1, <3>2
    <3>4. z = HASH_BLOCK_SIZE - used
      BY <1>1, <3>3
    <3> QED BY <1>1, <2>1, <3>2, <3>3, <3>4 DEF Fill
  <2>2. CASE r + 1 + LENGTH_FIELD = Size
    <3>1. Size * (q + 1) = Size * q + Size
      BY <1>1
    <3>2. /\ 0 \in 0..(Size - 1) /\ q + 1 \in Nat /\ L + 1 + LENGTH_FIELD \in Nat
          /\ L + 1 + LENGTH_FIELD = Size * (q + 1) + 0
      BY <1>1, <2>2, <3>1
    <3>3. used = 0
      BY <1>1, <3>2, DivisionUnique
    <3> HIDE DEF used
    <3>4. z = Size % Size
      BY <1>1, <3>3
    <3>5. Size % Size = 0
      BY <1>1
    <3> QED BY <1>1, <2>2, <3>4, <3>5 DEF Fill
  <2>3. CASE r + 1 + LENGTH_FIELD > Size
    <3>1. Size * (q + 1) = Size * q + Size
      BY <1>1
    <3>2. /\ r + 1 + LENGTH_FIELD - Size \in 0..(Size - 1) /\ q + 1 \in Nat
          /\ L + 1 + LENGTH_FIELD \in Nat
          /\ L + 1 + LENGTH_FIELD = Size * (q + 1) + (r + 1 + LENGTH_FIELD - Size)
      BY <1>1, <2>3, <3>1
    <3>3. used = r + 1 + LENGTH_FIELD - Size
      BY <1>1, <3>2, DivisionUnique
    <3> HIDE DEF used
    <3>4. HASH_BLOCK_SIZE - used \in 0..(Size - 1)
      BY <1>1, <2>3, <3>2, <3>3
    <3>5. z = HASH_BLOCK_SIZE - used
      BY <1>1, <3>4
    <3> QED BY <1>1, <2>3, <3>3, <3>4, <3>5 DEF Fill
  <2> QED BY <1>1, <2>1, <2>2, <2>3
<1>3. /\ start \in Seq(Byte) /\ Len(start) = 1 /\ start[1] = OneShot!PaddingStart
  BY SizeFacts
<1>4. /\ zeros \in Seq(Byte) /\ Len(zeros) = z /\ \A k \in 1..z : zeros[k] = 0
  BY <1>2, ZerosType
<1>5. field \in Seq(Byte) /\ Len(field) = LENGTH_FIELD
  BY <1>1, LengthFieldType
<1>6. OneShot!Padded(m) = ((m \o start) \o zeros) \o field
  BY DEF OneShot!Padded, L
<1> HIDE DEF used, z, start, zeros, field
<1>7. /\ m \o start \in Seq(Byte) /\ Len(m \o start) = L + 1
      /\ \A j \in 1..(L + 1) : (m \o start)[j] = IF j <= L THEN m[j] ELSE start[j - L]
  <2>1. /\ m \o start \in Seq(Byte) /\ Len(m \o start) = Len(m) + Len(start)
        /\ \A j \in 1..(Len(m) + Len(start)) :
             (m \o start)[j] = IF j <= Len(m) THEN m[j] ELSE start[j - Len(m)]
    BY <1>3, ConcatProperties
  <2>2. Len(m) = L /\ Len(start) = 1
    BY <1>3 DEF L
  <2> QED BY <2>1, <2>2
<1>8. /\ (m \o start) \o zeros \in Seq(Byte) /\ Len((m \o start) \o zeros) = L + 1 + z
      /\ \A j \in 1..(L + 1 + z) : ((m \o start) \o zeros)[j] =
           IF j <= L + 1 THEN (m \o start)[j] ELSE zeros[j - (L + 1)]
  BY <1>4, <1>7, ConcatProperties
<1>9. /\ OneShot!Padded(m) \in Seq(Byte)
      /\ Len(OneShot!Padded(m)) = L + 1 + z + LENGTH_FIELD
      /\ \A j \in 1..(L + 1 + z + LENGTH_FIELD) : OneShot!Padded(m)[j] =
           IF j <= L + 1 + z THEN ((m \o start) \o zeros)[j] ELSE field[j - (L + 1 + z)]
  <2> DEFINE front == (m \o start) \o zeros
  <2>1. front \in Seq(Byte) /\ Len(front) = L + 1 + z
    BY <1>8
  <2>2. OneShot!Padded(m) = front \o field
    BY <1>6
  <2> HIDE DEF front
  <2>3. /\ front \o field \in Seq(Byte) /\ Len(front \o field) = Len(front) + Len(field)
        /\ \A j \in 1..(Len(front) + Len(field)) :
             (front \o field)[j] = IF j <= Len(front) THEN front[j] ELSE field[j - Len(front)]
    BY <1>5, <2>1, ConcatProperties
  <2>4. /\ OneShot!Padded(m) \in Seq(Byte)
        /\ Len(OneShot!Padded(m)) = L + 1 + z + LENGTH_FIELD
        /\ \A j \in 1..(L + 1 + z + LENGTH_FIELD) : OneShot!Padded(m)[j] =
             IF j <= L + 1 + z THEN front[j] ELSE field[j - (L + 1 + z)]
    BY <1>5, <2>1, <2>2, <2>3
  <2> QED BY <2>4 DEF front
<1>10. ASSUME NEW j \in 1..(L + 1 + z + LENGTH_FIELD)
       PROVE  OneShot!Padded(m)[j] =
                IF j <= L THEN m[j]
                ELSE IF j = L + 1 THEN OneShot!PaddingStart
                ELSE IF j <= L + 1 + z THEN 0
                ELSE field[j - (L + 1 + z)]
  <2>1. CASE j <= L
    <3>1. j <= L + 1 + z /\ j \in 1..(L + 1 + z) /\ j <= L + 1 /\ j \in 1..(L + 1)
      BY <1>1, <1>2, <2>1
    <3>2. OneShot!Padded(m)[j] = m[j]
      BY <1>7, <1>8, <1>9, <2>1, <3>1
    <3> QED BY <2>1, <3>2
  <2>2. CASE j = L + 1
    <3>1. /\ j - L = 1 /\ ~ (j <= L)
          /\ j <= L + 1 + z /\ j \in 1..(L + 1 + z) /\ j <= L + 1 /\ j \in 1..(L + 1)
      BY <1>1, <1>2, <2>2
    <3>2. OneShot!Padded(m)[j] = start[j - L]
      BY <1>7, <1>8, <1>9, <3>1
    <3> QED BY <1>3, <2>2, <3>1, <3>2
  <2>3. CASE j > L + 1 /\ j <= L + 1 + z
    <3>1. /\ j - (L + 1) \in 1..z /\ j \in 1..(L + 1 + z)
          /\ ~ (j <= L) /\ j # L + 1 /\ ~ (j <= L + 1)
      BY <1>1, <1>2, <2>3
    <3>2. OneShot!Padded(m)[j] = zeros[j - (L + 1)]
      BY <1>8, <1>9, <2>3, <3>1
    <3> QED BY <1>4, <2>3, <3>1, <3>2
  <2>4. CASE j > L + 1 + z
    BY <1>1, <1>2, <1>9, <2>4
  <2> QED BY <1>1, <1>2, <2>1, <2>2, <2>3, <2>4
<1> QED BY <1>2, <1>9, <1>10 DEF L, field

-----------------------------------------------------------------------------
(* The invariant: ContextIsMessage, byte by byte.                          *)

ContextBytes ==
  pc # "idle" =>
    LET rest == Len(message) % Size
    IN  /\ count = Len(message)
        /\ state = OneShot!Chained(message, Len(message) \div Size)
        /\ \A k \in 1..rest : buffer[k] = message[Len(message) - rest + k]

HashInv == TypeOK /\ ContextBytes

LEMMA OverwrittenType ==
  ASSUME NEW block \in [1..Size -> Byte], NEW from \in Nat, NEW bytes \in Seq(Byte)
  PROVE  /\ Overwritten(block, from, bytes) \in [1..Size -> Byte]
         /\ \A k \in 1..Size : Overwritten(block, from, bytes)[k] =
              IF k > from /\ k <= from + Len(bytes) THEN bytes[k - from] ELSE block[k]
<1>1. ASSUME NEW k \in 1..Size
      PROVE  (IF k > from /\ k <= from + Len(bytes) THEN bytes[k - from] ELSE block[k]) \in Byte
  <2>1. CASE k > from /\ k <= from + Len(bytes)
    <3>1. Len(bytes) \in Nat
      BY LenProperties
    <3>2. k - from \in 1..Len(bytes)
      BY <2>1, <3>1, SizeFacts
    <3> QED BY <2>1, <3>2, ElementOfSeq
  <2>2. CASE ~ (k > from /\ k <= from + Len(bytes))
    BY <2>2
  <2> QED BY <2>1, <2>2
<1> QED BY <1>1 DEF Overwritten

\* Blocks that lie within the first message are blocks of its extension.
LEMMA BlockOfPrefix ==
  ASSUME NEW m \in Seq(Byte), NEW t \in Seq(Byte), Len(m) <= Len(t),
         \A j \in 1..Len(m) : t[j] = m[j],
         NEW n \in Nat, Size * n <= Len(m), NEW k \in 1..n
  PROVE  OneShot!BlockOf(t, k) = OneShot!BlockOf(m, k)
<1> DEFINE lo == (k - 1) * Size + 1
           hi == k * Size
<1>1. Size \in Nat \ {0} /\ Len(m) \in Nat /\ Len(t) \in Nat
  BY SizeFacts, LenProperties
<1>2. lo \in Nat \ {0} /\ hi \in Nat /\ hi <= Len(m) /\ lo <= hi /\ hi - lo + 1 = Size
  <2>1. k * Size <= n * Size
    BY <1>1
  <2>2. n * Size = Size * n
    BY <1>1
  <2>3. (k - 1) * Size = k * Size - Size
    BY <1>1
  <2>4. (k - 1) * Size \in Nat
    BY <1>1
  <2> QED BY <1>1, <2>1, <2>2, <2>3, <2>4
<1> HIDE DEF lo, hi
<1>3. \A j \in lo..hi : m[j] \in Byte /\ t[j] \in Byte /\ t[j] = m[j]
  <2>1. SUFFICES ASSUME NEW j \in lo..hi PROVE m[j] \in Byte /\ t[j] \in Byte /\ t[j] = m[j]
    OBVIOUS
  <2>2. j \in 1..Len(m) /\ j \in 1..Len(t)
    BY <1>1, <1>2
  <2> QED BY <2>2, ElementOfSeq
<1>4. /\ SubSeq(m, lo, hi) \in Seq(Byte) /\ Len(SubSeq(m, lo, hi)) = Size
      /\ \A j \in 1..Size : SubSeq(m, lo, hi)[j] = m[lo + j - 1]
  BY <1>1, <1>2, <1>3, SubSeqProperties
<1>5. /\ SubSeq(t, lo, hi) \in Seq(Byte) /\ Len(SubSeq(t, lo, hi)) = Size
      /\ \A j \in 1..Size : SubSeq(t, lo, hi)[j] = t[lo + j - 1]
  BY <1>1, <1>2, <1>3, SubSeqProperties
<1>6. \A j \in 1..Size : SubSeq(t, lo, hi)[j] = SubSeq(m, lo, hi)[j]
  <2>1. SUFFICES ASSUME NEW j \in 1..Size
                 PROVE  SubSeq(t, lo, hi)[j] = SubSeq(m, lo, hi)[j]
    OBVIOUS
  <2>2. lo + j - 1 \in lo..hi
    BY <1>1, <1>2
  <2> QED BY <1>3, <1>4, <1>5, <2>2
<1>7. SubSeq(t, lo, hi) = SubSeq(m, lo, hi)
  BY <1>4, <1>5, <1>6, SeqEqual
<1> QED BY <1>7 DEF OneShot!BlockOf, lo, hi, Size

\* A block of the buffer's size and a block of the message are the same if their bytes are.
LEMMA BlockIsBuffer ==
  ASSUME NEW m \in Seq(Byte), NEW n \in Nat, Size * (n + 1) <= Len(m),
         NEW block \in [1..Size -> Byte], \A k \in 1..Size : block[k] = m[Size * n + k]
  PROVE  OneShot!BlockOf(m, n + 1) = block
<1> DEFINE lo == n * Size + 1
           hi == (n + 1) * Size
<1>1. /\ Size \in Nat \ {0} /\ Len(m) \in Nat /\ n * Size \in Nat /\ n * Size = Size * n
      /\ (n + 1) * Size = Size * n + Size /\ Size * (n + 1) = Size * n + Size
  BY SizeFacts, LenProperties
<1>2. lo \in Nat \ {0} /\ hi \in Nat /\ hi <= Len(m) /\ lo <= hi /\ hi - lo + 1 = Size
  BY <1>1
<1>3. \A k \in 1..Size : lo + k - 1 = Size * n + k
  BY <1>1
<1>4. OneShot!BlockOf(m, n + 1) = SubSeq(m, lo, hi)
  <2>1. (n + 1) - 1 = n
    OBVIOUS
  <2> QED BY <2>1 DEF OneShot!BlockOf, Size
<1> HIDE DEF lo, hi
<1>5. \A j \in lo..hi : m[j] \in Byte
  BY <1>1, <1>2, ElementOfSeq
<1>6. /\ SubSeq(m, lo, hi) \in Seq(Byte) /\ Len(SubSeq(m, lo, hi)) = Size
      /\ \A j \in 1..Size : SubSeq(m, lo, hi)[j] = m[lo + j - 1]
  BY <1>1, <1>2, <1>5, SubSeqProperties
<1>7. block \in Seq(Byte) /\ Len(block) = Size
  BY <1>1
<1>8. \A j \in 1..Size : SubSeq(m, lo, hi)[j] = block[j]
  BY <1>3, <1>6
<1> QED BY <1>4, <1>6, <1>7, <1>8, SeqEqual

\* More bytes after a message do not change the chain over its whole blocks.
LEMMA ChainedPrefix ==
  ASSUME NEW m \in Seq(Byte), NEW t \in Seq(Byte), Len(m) <= Len(t),
         \A j \in 1..Len(m) : t[j] = m[j],
         NEW n \in Nat, Size * n <= Len(m)
  PROVE  OneShot!Chained(t, n) = OneShot!Chained(m, n)
<1>1. \A k \in 1..n : OneShot!BlockOf(t, k) = OneShot!BlockOf(m, k)
  BY BlockOfPrefix
<1> QED BY <1>1, ChainedSame

-----------------------------------------------------------------------------
(* The calls.                                                              *)

LEMMA InitHash == Init => HashInv
<1> SUFFICES ASSUME Init PROVE HashInv
  OBVIOUS
<1>1. << >> \in Seq(Byte)
  BY EmptySeq
<1>2. buffer \in [1..Size -> Byte]
  BY StreamConstants DEF Init
<1> QED BY <1>1, <1>2 DEF Init, HashInv, TypeOK, ContextBytes

LEMMA HashInitHash == HashInv /\ HashInit => HashInv'
<1> SUFFICES ASSUME HashInv, HashInit PROVE HashInv'
  OBVIOUS
<1>1. << >> \in Seq(Byte) /\ Len(<< >>) = 0
  BY EmptySeq
<1>2. TypeOK'
  BY <1>1 DEF HashInit, HashInv, TypeOK
<1>3. 0 \div Size = 0 /\ 0 % Size = 0
  BY SizeFacts
<1>4. ContextBytes'
  BY <1>1, <1>3, ChainedZero DEF HashInit, ContextBytes
<1> QED BY <1>2, <1>4 DEF HashInv

LEMMA CallUpdateHash == HashInv /\ CallUpdate => HashInv'
<1> SUFFICES ASSUME HashInv, CallUpdate PROVE HashInv'
  OBVIOUS
<1>1. data' \in Seq(Byte)
  BY StreamConstants DEF CallUpdate
<1> QED BY <1>1 DEF CallUpdate, HashInv, TypeOK, ContextBytes, ctx

LEMMA ReturnUpdateHash == HashInv /\ ReturnUpdate => HashInv'
<1> SUFFICES ASSUME HashInv, ReturnUpdate PROVE HashInv'
  OBVIOUS
<1>1. data' \in Seq(Byte)
  BY EmptySeq DEF ReturnUpdate
<1> QED BY <1>1 DEF ReturnUpdate, HashInv, TypeOK, ContextBytes, ctx

\* One turn of the loop of hash_update takes at least a byte of the data, and no
\* more than it has.
LEMMA TurnTakes ==
  ASSUME HashInv, HashUpdate
  PROVE  \E taken \in Seq(Byte) :
           /\ Len(taken) \in 1..(Size - (count % Size))
           /\ message' = message \o taken
           /\ count' = count + Len(taken)
           /\ i' \in Nat
           /\ buffer' = Overwritten(buffer, count % Size, taken)
<1> DEFINE space == Size - (count % Size)
           chunk == IF Len(data) - i < space THEN Len(data) - i ELSE space
           taken == SubSeq(data, i + 1, i + chunk)
<1>1. /\ data \in Seq(Byte) /\ Len(data) \in Nat /\ i \in Nat /\ i < Len(data)
      /\ count \in Nat
  BY LenProperties DEF HashInv, TypeOK, HashUpdate
<1>2. space \in 1..Size
  <2>1. Size \in Nat \ {0} /\ count \in Nat
    BY <1>1, SizeFacts
  <2>2. count % Size \in 0..(Size - 1)
    BY <2>1
  <2> QED BY <2>1, <2>2
<1>3. /\ buffer' = Overwritten(buffer, count % Size, taken)
      /\ count' = count + chunk /\ i' = i + chunk /\ message' = message \o taken
  BY Zenon DEF HashUpdate
<1> HIDE DEF space
<1>4. chunk \in 1..space /\ i + chunk <= Len(data)
  BY <1>1, <1>2
<1> HIDE DEF chunk
<1>5. /\ i + 1 \in Int /\ i + chunk \in Int /\ i + 1 <= i + chunk
      /\ (i + chunk) - (i + 1) + 1 = chunk /\ i + chunk \in Nat
  BY <1>1, <1>2, <1>4
<1>6. \A j \in (i + 1)..(i + chunk) : data[j] \in Byte
  BY <1>1, <1>2, <1>4, ElementOfSeq
<1>7. taken \in Seq(Byte) /\ Len(taken) = chunk
  BY <1>5, <1>6, SubSeqProperties
<1> HIDE DEF taken
<1> QED BY <1>3, <1>4, <1>5, <1>7 DEF space

LEMMA HashUpdateHash == HashInv /\ HashUpdate => HashInv'
<1> SUFFICES ASSUME HashInv, HashUpdate PROVE HashInv'
  OBVIOUS
<1> DEFINE L == Len(message)
           q == L \div Size
           r == L % Size
<1>1. PICK taken \in Seq(Byte) :
        /\ Len(taken) \in 1..(Size - (count % Size))
        /\ message' = message \o taken
        /\ count' = count + Len(taken)
        /\ i' \in Nat
        /\ buffer' = Overwritten(buffer, count % Size, taken)
  BY TurnTakes
<1> DEFINE c == Len(taken)
<1>2. /\ pc = "update" /\ pc' = "update" /\ data' = data
      /\ state' = IF count' % Size = 0 THEN hash_compress(state, buffer') ELSE state
  BY DEF HashUpdate
<1>3. /\ count = L /\ state = OneShot!Chained(message, q)
      /\ \A k \in 1..r : buffer[k] = message[L - r + k]
      /\ message \in Seq(Byte) /\ buffer \in [1..Size -> Byte] /\ L \in Nat
  BY <1>2, LenProperties DEF HashInv, TypeOK, ContextBytes
<1>4. Size \in Nat \ {0}
  BY SizeFacts
<1> HIDE DEF L
<1>5. q \in Nat /\ r \in 0..(Size - 1) /\ L = Size * q + r /\ count % Size = r
  <2>1. L \in Nat /\ count = L
    BY <1>3
  <2> QED BY <1>4, <2>1
<1> HIDE DEF q, r
<1>6. c \in 1..(Size - r)
  BY <1>1, <1>5
<1>7. /\ message' \in Seq(Byte) /\ Len(message') = L + c
      /\ \A j \in 1..(L + c) : message'[j] = IF j <= L THEN message[j] ELSE taken[j - L]
  BY <1>1, <1>3, ConcatProperties DEF L
<1> HIDE DEF c
<1>8. /\ buffer' \in [1..Size -> Byte]
      /\ \A k \in 1..Size : buffer'[k] = IF k > r /\ k <= r + c THEN taken[k - r] ELSE buffer[k]
  <2>1. r \in Nat
    BY <1>4, <1>5
  <2>2. buffer' = Overwritten(buffer, r, taken)
    BY <1>1, <1>5
  <2>3. /\ Overwritten(buffer, r, taken) \in [1..Size -> Byte]
        /\ \A k \in 1..Size : Overwritten(buffer, r, taken)[k] =
             IF k > r /\ k <= r + Len(taken) THEN taken[k - r] ELSE buffer[k]
    BY <1>3, <2>1, OverwrittenType
  <2> QED BY <2>2, <2>3 DEF c
<1>9. count' = L + c /\ L + c \in Nat
  BY <1>1, <1>3, <1>4, <1>5, <1>6 DEF c
<1>10. TypeOK'
  BY <1>1, <1>2, <1>7, <1>8, <1>9 DEF HashInv, TypeOK
<1>11. \A k \in 1..(r + c) : buffer'[k] = message'[Size * q + k]
  <2>1. SUFFICES ASSUME NEW k \in 1..(r + c) PROVE buffer'[k] = message'[Size * q + k]
    OBVIOUS
  <2>2. Size * q \in Nat /\ L - r = Size * q
    BY <1>4, <1>5
  <2>3. k \in 1..Size /\ Size * q + k \in 1..(L + c)
    BY <1>4, <1>5, <1>6, <2>2
  <2>4. CASE k <= r
    <3>1. k \in 1..r /\ Size * q + k <= L
      BY <1>4, <1>5, <2>2, <2>4
    <3>2. buffer'[k] = buffer[k]
      BY <1>4, <1>5, <1>8, <2>3, <2>4
    <3> QED BY <1>3, <1>7, <2>2, <2>3, <3>1, <3>2
  <2>5. CASE k > r
    <3>1. ~ (Size * q + k <= L) /\ Size * q + k - L = k - r
      BY <1>4, <1>5, <2>2, <2>5
    <3>2. buffer'[k] = taken[k - r]
      BY <1>8, <2>3, <2>5
    <3> DEFINE j == Size * q + k
    <3>3. message'[j] = taken[j - L]
      <4>1. j \in 1..(L + c) /\ ~ (j <= L)
        BY <2>3, <3>1
      <4> HIDE DEF j
      <4> QED BY <1>7, <4>1
    <3>4. j - L = k - r
      BY <1>4, <1>5, <2>2
    <3> HIDE DEF j
    <3>5. buffer'[k] = message'[j]
      BY <3>2, <3>3, <3>4
    <3> QED BY <3>5 DEF j
  <2> QED BY <1>4, <1>5, <2>4, <2>5
<1>12. OneShot!Chained(message', q) = OneShot!Chained(message, q)
  <2>1. Size * q <= Len(message) /\ Len(message) <= Len(message')
    BY <1>4, <1>5, <1>6, <1>7 DEF L
  <2>2. \A j \in 1..Len(message) : message'[j] = message[j]
    BY <1>3, <1>4, <1>6, <1>7 DEF L
  <2> QED BY <1>3, <1>5, <1>7, <2>1, <2>2, ChainedPrefix
<1>13. CASE r + c < Size
  <2>1. r + c \in 0..(Size - 1) /\ L + c = Size * q + (r + c)
    BY <1>4, <1>5, <1>6, <1>13
  <2>2. (L + c) \div Size = q /\ (L + c) % Size = r + c
    <3> DEFINE n == L + c
               s == r + c
    <3>1. n \in Nat /\ s \in 0..(Size - 1) /\ n = Size * q + s
      BY <1>9, <2>1
    <3>2. q \in Nat
      BY <1>5
    <3> HIDE DEF n, s
    <3>3. n \div Size = q /\ n % Size = s
      BY <1>4, <3>1, <3>2, DivisionUnique
    <3> QED BY <3>3 DEF n, s
  <2>3. r + c # 0 /\ (L + c) - (r + c) = Size * q
    BY <1>4, <1>5, <1>6
  <2>4. state' = OneShot!Chained(message', q)
    BY <1>2, <1>3, <1>9, <1>12, <2>2, <2>3
  <2>5. ContextBytes'
    BY <1>7, <1>9, <1>11, <2>2, <2>3, <2>4 DEF ContextBytes
  <2> QED BY <1>10, <2>5 DEF HashInv
<1>14. CASE r + c = Size
  <2>1. Size * (q + 1) = Size * q + Size
    BY <1>4, <1>5
  <2>2. 0 \in 0..(Size - 1) /\ q + 1 \in Nat /\ L + c = Size * (q + 1) + 0
    BY <1>4, <1>5, <1>6, <1>14, <2>1
  <2>3. (L + c) \div Size = q + 1 /\ (L + c) % Size = 0
    <3> DEFINE n == L + c
               p == q + 1
    <3>1. n \in Nat /\ p \in Nat /\ n = Size * p + 0 /\ 0 \in 0..(Size - 1)
      BY <1>9, <2>2
    <3> HIDE DEF n, p
    <3>2. n \div Size = p /\ n % Size = 0
      BY <1>4, <3>1, DivisionUnique
    <3> QED BY <3>2 DEF n, p
  <2>4. OneShot!BlockOf(message', q + 1) = buffer'
    <3>1. Size * (q + 1) <= Len(message')
      BY <1>4, <1>7, <1>9, <2>2
    <3>2. \A k \in 1..Size : buffer'[k] = message'[Size * q + k]
      BY <1>11, <1>14
    <3> QED BY <1>5, <1>7, <1>8, <3>1, <3>2, BlockIsBuffer
  <2>5. state' = Mix(state, buffer')
    BY <1>2, <1>9, <2>3 DEF hash_compress
  <2>6. state' = OneShot!Chained(message', q + 1)
    BY <1>3, <1>5, <1>12, <2>4, <2>5, ChainedNext
  <2>7. ContextBytes'
    BY <1>7, <1>9, <2>3, <2>6 DEF ContextBytes
  <2> QED BY <1>10, <2>7 DEF HashInv
<1> QED BY <1>4, <1>5, <1>6, <1>13, <1>14

\* The last block of a padded message: the rest of the message, the mark, zeros and
\* the length; and the one before it, when the length finds no room.
LEMMA HashFinalDigest ==
  ASSUME HashInv, HashFinal
  PROVE  /\ buffer' \in [1..Size -> Byte]
         /\ digest' = OneShot!HashOf(message)
<1> DEFINE L == Len(message)
           q == L \div Size
           r == L % Size
           P == OneShot!Padded(message)
           limit == Size - LENGTH_FIELD
           index == (count % Size) + 1
           mark == << OneShot!PaddingStart >>
           marked == Overwritten(buffer, index - 1, mark)
           spill == index > limit
           first == Overwritten(marked, index, OneShot!Zeros(Size - index))
           start == IF spill THEN 0 ELSE index
           zeroed == Overwritten(IF spill THEN first ELSE marked, start,
                                 OneShot!Zeros(limit - start))
           last == Overwritten(zeroed, limit, OneShot!LengthField(count))
<1>1. /\ buffer' = last
      /\ state' = hash_compress(IF spill THEN hash_compress(state, first) ELSE state, buffer')
      /\ digest' = state' /\ pc = "ready"
  BY Zenon DEF HashFinal
<1>2. /\ count = L /\ state = OneShot!Chained(message, q)
      /\ \A k \in 1..r : buffer[k] = message[L - r + k]
      /\ message \in Seq(Byte) /\ buffer \in [1..Size -> Byte] /\ L \in Nat
  BY <1>1, LenProperties DEF HashInv, TypeOK, ContextBytes
<1>3. /\ Size \in Nat \ {0} /\ LENGTH_FIELD \in Nat \ {0} /\ LENGTH_FIELD < Size
      /\ mark \in Seq(Byte) /\ Len(mark) = 1 /\ mark[1] = OneShot!PaddingStart
  BY SizeFacts
<1> HIDE DEF L
<1>4. /\ q \in Nat /\ r \in 0..(Size - 1) /\ L = Size * q + r
      /\ index = r + 1 /\ index - 1 = r /\ limit \in 1..(Size - 1)
  <2>1. L \in Nat /\ Size \in Nat \ {0} /\ count % Size = r
    BY <1>2, <1>3
  <2>2. q \in Nat /\ r \in 0..(Size - 1) /\ L = Size * q + r
    BY <2>1
  <2>3. index = r + 1
    BY <2>1
  <2> HIDE DEF r, index
  <2>4. index - 1 = r
    BY <2>2, <2>3
  <2>5. limit \in 1..(Size - 1)
    BY <1>3
  <2> QED BY <2>2, <2>3, <2>4, <2>5
<1> HIDE DEF q, r, limit, index, mark
<1>5. /\ marked \in [1..Size -> Byte]
      /\ \A k \in 1..Size : marked[k] = IF k = r + 1 THEN OneShot!PaddingStart ELSE buffer[k]
  <2>1. r \in Nat /\ r + 1 - r = 1
    BY <1>3, <1>4
  <2>2. /\ Overwritten(buffer, r, mark) \in [1..Size -> Byte]
        /\ \A k \in 1..Size : Overwritten(buffer, r, mark)[k] =
             IF k > r /\ k <= r + Len(mark) THEN mark[k - r] ELSE buffer[k]
    BY <1>2, <1>3, <2>1, OverwrittenType
  <2>3. \A k \in 1..Size : (k > r /\ k <= r + Len(mark)) <=> k = r + 1
    BY <1>3, <2>1
  <2>4. \A k \in 1..Size : Overwritten(buffer, r, mark)[k] =
             IF k = r + 1 THEN OneShot!PaddingStart ELSE buffer[k]
    BY <1>3, <2>1, <2>2, <2>3
  <2> QED BY <1>4, <2>2, <2>4
<1> HIDE DEF marked
<1>6. /\ first \in [1..Size -> Byte]
      /\ \A k \in 1..Size : first[k] = IF k > r + 1 THEN 0 ELSE marked[k]
  <2>1. r + 1 \in Nat /\ Size - index \in Nat /\ Size - index = Size - (r + 1)
    BY <1>3, <1>4
  <2> DEFINE zs == OneShot!Zeros(Size - index)
  <2>2. zs \in Seq(Byte) /\ Len(zs) = Size - (r + 1) /\ \A k \in 1..Len(zs) : zs[k] = 0
    BY <2>1, ZerosType
  <2> HIDE DEF zs
  <2>3. /\ Overwritten(marked, r + 1, zs) \in [1..Size -> Byte]
        /\ \A k \in 1..Size : Overwritten(marked, r + 1, zs)[k] =
             IF k > r + 1 /\ k <= (r + 1) + Len(zs) THEN zs[k - (r + 1)] ELSE marked[k]
    BY <1>5, <2>1, <2>2, OverwrittenType
  <2>4. \A k \in 1..Size : Overwritten(marked, r + 1, zs)[k] =
             IF k > r + 1 THEN 0 ELSE marked[k]
    <3>1. SUFFICES ASSUME NEW k \in 1..Size
                   PROVE  Overwritten(marked, r + 1, zs)[k] = IF k > r + 1 THEN 0 ELSE marked[k]
      OBVIOUS
    <3>2. CASE k > r + 1
      <4>1. k - (r + 1) \in 1..Len(zs) /\ k <= (r + 1) + Len(zs)
        BY <1>3, <1>4, <2>2, <3>2
      <4> QED BY <2>2, <2>3, <3>2, <4>1
    <3>3. CASE ~ (k > r + 1)
      BY <2>3, <3>3
    <3> QED BY <3>2, <3>3
  <2>5. first = Overwritten(marked, r + 1, zs)
    BY <1>4 DEF zs
  <2> QED BY <2>3, <2>4, <2>5
<1> HIDE DEF first
<1>7. spill <=> r + 1 > limit
  BY <1>4
<1> HIDE DEF spill
<1>8. start \in Nat /\ start <= limit /\ limit \in Nat /\ limit - start \in Nat
  BY <1>3, <1>4, <1>7
<1>9. /\ zeroed \in [1..Size -> Byte]
      /\ \A k \in 1..limit : zeroed[k] =
           IF spill THEN 0 ELSE IF k > r + 1 THEN 0 ELSE marked[k]
  <2> DEFINE zs == OneShot!Zeros(limit - start)
             under == IF spill THEN first ELSE marked
  <2>1. zs \in Seq(Byte) /\ Len(zs) = limit - start /\ \A k \in 1..Len(zs) : zs[k] = 0
    BY <1>8, ZerosType
  <2>2. under \in [1..Size -> Byte]
    BY <1>5, <1>6
  <2>3. start = IF spill THEN 0 ELSE r + 1
    BY <1>4
  <2> HIDE DEF zs, under, start
  <2>4. /\ Overwritten(under, start, zs) \in [1..Size -> Byte]
        /\ \A k \in 1..Size : Overwritten(under, start, zs)[k] =
             IF k > start /\ k <= start + Len(zs) THEN zs[k - start] ELSE under[k]
    BY <1>8, <2>1, <2>2, OverwrittenType
  <2>5. ASSUME NEW k \in 1..limit
        PROVE  Overwritten(under, start, zs)[k] =
                 IF spill THEN 0 ELSE IF k > r + 1 THEN 0 ELSE marked[k]
    <3>1. k \in 1..Size
      BY <1>3, <1>4
    <3>2. CASE k > start
      <4>1. k - start \in 1..Len(zs) /\ k <= start + Len(zs)
        BY <1>8, <2>1, <3>2
      <4>2. Overwritten(under, start, zs)[k] = 0
        BY <2>1, <2>4, <3>1, <3>2, <4>1
      <4> QED BY <2>3, <3>2, <4>2
    <3>3. CASE ~ (k > start)
      <4>1. ~ spill /\ ~ (k > r + 1)
        BY <1>4, <2>3, <3>3
      <4>2. under = marked
        BY <4>1 DEF under
      <4> QED BY <2>4, <3>1, <3>3, <4>1, <4>2
    <3> QED BY <3>2, <3>3
  <2>6. zeroed = Overwritten(under, start, zs)
    BY DEF zs, under
  <2> QED BY <2>4, <2>5, <2>6
<1> HIDE DEF zeroed, start
<1>10. /\ last \in [1..Size -> Byte]
       /\ \A k \in 1..Size : last[k] =
            IF k > limit THEN OneShot!LengthField(L)[k - limit] ELSE zeroed[k]
  <2> DEFINE field == OneShot!LengthField(count)
  <2>1. field \in Seq(Byte) /\ Len(field) = LENGTH_FIELD
    BY <1>2, LengthFieldType
  <2>2. limit + LENGTH_FIELD = Size
    BY <1>3 DEF limit
  <2>3. field = OneShot!LengthField(L)
    BY <1>2
  <2> HIDE DEF field
  <2>4. /\ Overwritten(zeroed, limit, field) \in [1..Size -> Byte]
        /\ \A k \in 1..Size : Overwritten(zeroed, limit, field)[k] =
             IF k > limit /\ k <= limit + Len(field) THEN field[k - limit] ELSE zeroed[k]
    BY <1>8, <1>9, <2>1, OverwrittenType
  <2>5. \A k \in 1..Size : k <= limit + Len(field)
    BY <2>1, <2>2
  <2>6. last = Overwritten(zeroed, limit, field)
    BY DEF field
  <2> QED BY <2>3, <2>4, <2>5, <2>6
<1> HIDE DEF last
<1>11. /\ Fill(r) \in Nat /\ P \in Seq(Byte) /\ Len(P) = L + 1 + Fill(r) + LENGTH_FIELD
       /\ \A j \in 1..Len(P) :
            P[j] = IF j <= L THEN message[j]
                   ELSE IF j = L + 1 THEN OneShot!PaddingStart
                   ELSE IF j <= L + 1 + Fill(r) THEN 0
                   ELSE OneShot!LengthField(L)[j - (L + 1 + Fill(r))]
  BY <1>2, <1>4, PaddedBytes DEF L
<1> HIDE DEF P
<1>12. /\ Size * (q + 1) = Size * q + Size /\ Size * q \in Nat
       /\ Size * ((q + 1) + 1) = Size * q + 2 * Size
  BY <1>3, <1>4
<1>13. OneShot!Chained(P, q) = state
  <2>1. Size * q <= Len(message) /\ Len(message) <= Len(P)
    BY <1>2, <1>3, <1>4, <1>11, <1>12 DEF L
  <2>2. \A j \in 1..Len(message) : P[j] = message[j]
    BY <1>2, <1>11, <2>1 DEF L
  <2> QED BY <1>2, <1>4, <1>11, <2>1, <2>2, ChainedPrefix
<1>14. OneShot!HashOf(message) = OneShot!Chained(P, Len(P) \div Size)
  BY DEF OneShot!HashOf, P, Size
\* the bytes of the message and the mark, wherever the length is
<1>15. \A k \in 1..(r + 1) : P[Size * q + k] = marked[k]
  <2>1. SUFFICES ASSUME NEW k \in 1..(r + 1) PROVE P[Size * q + k] = marked[k]
    OBVIOUS
  <2> DEFINE j == Size * q + k
  <2>2. j \in 1..Len(P) /\ k \in 1..Size /\ j <= L + 1 /\ (j <= L <=> k <= r)
        /\ (j = L + 1 <=> k = r + 1) /\ (k <= r => L - r + k = j)
    <3> DEFINE whole == Size * q
    <3>1. /\ whole \in Nat /\ L = whole + r /\ r \in 0..(Size - 1) /\ k \in 1..(r + 1)
          /\ L \in Nat /\ Size \in Nat \ {0} /\ j = whole + k
      BY <1>2, <1>3, <1>4, <1>12
    <3>2. Len(P) \in Nat /\ L + 1 <= Len(P)
      BY <1>2, <1>3, <1>11
    <3> HIDE DEF whole, j
    <3>3. j \in Nat /\ j >= 1 /\ j <= L + 1 /\ k \in 1..Size
      BY <3>1
    <3>4. j \in 1..Len(P)
      BY <3>1, <3>2, <3>3
    <3>5. (j <= L <=> k <= r) /\ (j = L + 1 <=> k = r + 1) /\ L - r + k = j
      BY <3>1
    <3> QED BY <3>3, <3>4, <3>5
  <2> HIDE DEF j
  <2>3. P[j] = IF j <= L THEN message[j] ELSE OneShot!PaddingStart
    BY <1>2, <1>11, <2>2
  <2>4. CASE k <= r
    <3>1. k \in 1..r /\ k # r + 1
      BY <1>3, <1>4, <2>4
    <3>2. buffer[k] = message[L - r + k]
      BY <1>2, <3>1
    <3>3. marked[k] = buffer[k]
      BY <1>5, <2>2, <3>1
    <3>4. P[j] = marked[k]
      BY <2>2, <2>3, <2>4, <3>2, <3>3
    <3> QED BY <3>4 DEF j
  <2>5. CASE k = r + 1
    <3>1. ~ (j <= L)
      BY <1>3, <1>4, <2>2, <2>5
    <3>2. P[j] = marked[k]
      BY <1>5, <2>2, <2>3, <2>5, <3>1
    <3> QED BY <3>2 DEF j
  <2> QED BY <1>4, <2>4, <2>5
<1>16. CASE ~ spill
  <2>1. /\ Fill(r) = limit - (r + 1) /\ r + 1 <= limit
        /\ Len(P) = Size * (q + 1) + 0 /\ L + 1 + Fill(r) = Size * q + limit
    BY <1>2, <1>3, <1>4, <1>7, <1>11, <1>12, <1>16 DEF Fill, limit
  <2>2. Len(P) \div Size = q + 1
    <3>1. Len(P) \in Nat /\ 0 \in 0..(Size - 1) /\ q + 1 \in Nat
      BY <1>3, <1>4, <1>12, <2>1
    <3> QED BY <1>3, <2>1, <3>1, DivisionUnique
  <2>3. \A k \in 1..Size : last[k] = P[Size * q + k]
    <3>1. SUFFICES ASSUME NEW k \in 1..Size PROVE last[k] = P[Size * q + k]
      OBVIOUS
    <3>2. CASE k <= r + 1
      <4>1. k \in 1..(r + 1) /\ k \in 1..limit /\ ~ (k > limit) /\ ~ (k > r + 1)
        BY <1>3, <1>4, <2>1, <3>2
      <4> QED BY <1>9, <1>10, <1>15, <1>16, <4>1
    <3>3. CASE k > r + 1 /\ k <= limit
      <4> DEFINE j == Size * q + k
      <4>1. /\ j \in 1..Len(P) /\ ~ (j <= L) /\ j # L + 1 /\ j <= L + 1 + Fill(r)
            /\ k \in 1..limit /\ ~ (k > limit)
        BY <1>2, <1>3, <1>4, <1>12, <2>1, <3>3
      <4> HIDE DEF j
      <4>2. P[j] = 0
        BY <1>11, <4>1
      <4>3. last[k] = 0
        BY <1>9, <1>10, <1>16, <3>3, <4>1
      <4> QED BY <4>2, <4>3 DEF j
    <3>4. CASE k > limit
      <4> DEFINE j == Size * q + k
      <4>1. /\ j \in 1..Len(P) /\ ~ (j <= L) /\ j # L + 1 /\ ~ (j <= L + 1 + Fill(r))
            /\ j - (L + 1 + Fill(r)) = k - limit
        BY <1>2, <1>3, <1>4, <1>12, <2>1, <3>4
      <4> HIDE DEF j
      <4>2. P[j] = OneShot!LengthField(L)[k - limit]
        BY <1>11, <4>1
      <4>3. last[k] = OneShot!LengthField(L)[k - limit]
        BY <1>10, <3>4
      <4> QED BY <4>2, <4>3 DEF j
    <3> QED BY <1>3, <1>4, <3>2, <3>3, <3>4
  <2>4. OneShot!BlockOf(P, q + 1) = last
    <3>1. Size * (q + 1) <= Len(P)
      BY <1>3, <1>4, <1>12, <2>1
    <3> QED BY <1>4, <1>10, <1>11, <2>3, <3>1, BlockIsBuffer
  <2>5. OneShot!Chained(P, q + 1) = Mix(state, last)
    BY <1>4, <1>13, <2>4, ChainedNext
  <2>6. digest' = Mix(state, last)
    BY <1>1, <1>16 DEF hash_compress
  <2> QED BY <1>1, <1>10, <1>14, <2>2, <2>5, <2>6
<1>17. CASE spill
  <2>1. /\ Fill(r) = Size + limit - (r + 1) /\ r + 1 > limit
        /\ Len(P) = Size * ((q + 1) + 1) + 0 /\ L + 1 + Fill(r) = Size * (q + 1) + limit
    BY <1>2, <1>3, <1>4, <1>7, <1>11, <1>12, <1>17 DEF Fill, limit
  <2>2. Len(P) \div Size = (q + 1) + 1
    <3>1. Len(P) \in Nat /\ 0 \in 0..(Size - 1) /\ (q + 1) + 1 \in Nat
      BY <1>3, <1>4, <1>12, <2>1
    <3> QED BY <1>3, <2>1, <3>1, DivisionUnique
  <2>3. \A k \in 1..Size : first[k] = P[Size * q + k]
    <3>1. SUFFICES ASSUME NEW k \in 1..Size PROVE first[k] = P[Size * q + k]
      OBVIOUS
    <3>2. CASE k <= r + 1
      <4>1. k \in 1..(r + 1) /\ ~ (k > r + 1)
        BY <1>3, <1>4, <3>2
      <4> QED BY <1>6, <1>15, <4>1
    <3>3. CASE k > r + 1
      <4> DEFINE j == Size * q + k
      <4>1. j \in 1..Len(P) /\ ~ (j <= L) /\ j # L + 1 /\ j <= L + 1 + Fill(r)
        BY <1>2, <1>3, <1>4, <1>12, <2>1, <3>3
      <4> HIDE DEF j
      <4>2. P[j] = 0
        BY <1>11, <4>1
      <4>3. first[k] = 0
        BY <1>6, <3>3
      <4> QED BY <4>2, <4>3 DEF j
    <3> QED BY <1>3, <1>4, <3>2, <3>3
  <2>4. \A k \in 1..Size : last[k] = P[Size * (q + 1) + k]
    <3>1. SUFFICES ASSUME NEW k \in 1..Size PROVE last[k] = P[Size * (q + 1) + k]
      OBVIOUS
    <3> DEFINE j == Size * (q + 1) + k
    <3>2. j \in 1..Len(P) /\ ~ (j <= L) /\ j # L + 1 /\ (j <= L + 1 + Fill(r) <=> k <= limit)
          /\ j - (L + 1 + Fill(r)) = k - limit
      BY <1>2, <1>3, <1>4, <1>12, <2>1
    <3> HIDE DEF j
    <3>3. P[j] = IF k <= limit THEN 0 ELSE OneShot!LengthField(L)[k - limit]
      BY <1>11, <3>2
    <3>4. CASE k <= limit
      <4>1. k \in 1..limit /\ ~ (k > limit)
        BY <1>3, <1>4, <3>4
      <4>2. last[k] = 0
        BY <1>9, <1>10, <1>17, <4>1
      <4> QED BY <3>3, <3>4, <4>2 DEF j
    <3>5. CASE ~ (k <= limit)
      <4>1. k > limit
        BY <1>3, <1>4, <3>5
      <4>2. last[k] = OneShot!LengthField(L)[k - limit]
        BY <1>10, <4>1
      <4> QED BY <3>3, <3>5, <4>2 DEF j
    <3> QED BY <3>4, <3>5
  <2>5. OneShot!BlockOf(P, q + 1) = first
    <3>1. Size * (q + 1) <= Len(P)
      BY <1>3, <1>4, <1>12, <2>1
    <3> QED BY <1>4, <1>6, <1>11, <2>3, <3>1, BlockIsBuffer
  <2>6. OneShot!BlockOf(P, (q + 1) + 1) = last
    <3>1. Size * ((q + 1) + 1) <= Len(P) /\ q + 1 \in Nat
      BY <1>3, <1>4, <1>12, <2>1
    <3> QED BY <1>10, <1>11, <2>4, <3>1, BlockIsBuffer
  <2>7. OneShot!Chained(P, q + 1) = Mix(state, first)
    BY <1>4, <1>13, <2>5, ChainedNext
  <2>8. OneShot!Chained(P, (q + 1) + 1) = Mix(Mix(state, first), last)
    <3>1. q + 1 \in Nat
      BY <1>4
    <3> QED BY <2>6, <2>7, <3>1, ChainedNext
  <2>9. digest' = Mix(Mix(state, first), last)
    BY <1>1, <1>17 DEF hash_compress
  <2> QED BY <1>1, <1>10, <1>14, <2>2, <2>8, <2>9
<1> QED BY <1>16, <1>17

LEMMA HashFinalHash == HashInv /\ HashFinal => HashInv'
<1> SUFFICES ASSUME HashInv, HashFinal PROVE HashInv'
  OBVIOUS
<1>1. buffer' \in [1..Size -> Byte]
  BY HashFinalDigest
<1>2. pc' = "idle" /\ UNCHANGED << count, data, i, message >>
  BY DEF HashFinal
<1> QED BY <1>1, <1>2 DEF HashInv, TypeOK, ContextBytes

LEMMA StepHash == HashInv /\ [Next]_vars => HashInv'
<1> SUFFICES ASSUME HashInv, [Next]_vars PROVE HashInv'
  OBVIOUS
<1>1. CASE UNCHANGED vars
  BY <1>1 DEF vars, ctx, HashInv, TypeOK, ContextBytes
<1> QED BY <1>1, HashInitHash, CallUpdateHash, HashUpdateHash, ReturnUpdateHash, HashFinalHash
        DEF Next

LEMMA BytesGiveContext == HashInv => ContextIsMessage
<1> SUFFICES ASSUME HashInv, pc # "idle"
             PROVE  LET rest == Len(message) % Size
                    IN  /\ count = Len(message)
                        /\ state = OneShot!Chained(message, Len(message) \div Size)
                        /\ SubSeq(buffer, 1, rest)
                             = SubSeq(message, Len(message) - rest + 1, Len(message))
  BY DEF ContextIsMessage
<1> DEFINE L == Len(message)
           rest == L % Size
           front == SubSeq(buffer, 1, rest)
           back == SubSeq(message, L - rest + 1, L)
<1>1. /\ count = L /\ state = OneShot!Chained(message, L \div Size)
      /\ \A k \in 1..rest : buffer[k] = message[L - rest + k]
      /\ message \in Seq(Byte) /\ buffer \in [1..Size -> Byte] /\ L \in Nat
  BY LenProperties DEF HashInv, TypeOK, ContextBytes
<1>2. Size \in Nat \ {0}
  BY SizeFacts
<1>3. rest \in 0..(Size - 1) /\ rest <= L
  <2> DEFINE q == L \div Size
  <2> HIDE DEF L
  <2>1. q \in Nat /\ rest \in 0..(Size - 1) /\ L = Size * q + rest
    BY <1>1, <1>2
  <2> HIDE DEF q, rest
  <2>2. Size * q \in Nat
    BY <1>2, <2>1
  <2> QED BY <1>1, <1>2, <2>1, <2>2
<1> HIDE DEF rest
<1>4. \A k \in 1..rest : buffer[k] \in Byte
  BY <1>1, <1>2, <1>3
<1>5. front \in Seq(Byte) /\ Len(front) = rest /\ \A k \in 1..rest : front[k] = buffer[k]
  <2>1. /\ rest \in Int /\ rest - 1 + 1 = rest /\ (1 <= rest \/ rest = 0)
        /\ \A k \in 1..rest : 1 + k - 1 = k
    BY <1>2, <1>3
  <2> QED BY <1>4, <2>1, SubSeqProperties
<1> HIDE DEF L
<1>6. \A k \in (L - rest + 1)..L : message[k] \in Byte
  <2>1. \A k \in (L - rest + 1)..L : k \in 1..L
    BY <1>1, <1>2, <1>3
  <2> QED BY <1>1, <2>1, ElementOfSeq DEF L
<1>7. back \in Seq(Byte) /\ Len(back) = rest
      /\ \A k \in 1..rest : back[k] = message[L - rest + k]
  <2>1. /\ L - rest + 1 \in Int /\ L \in Int /\ L - (L - rest + 1) + 1 = rest
        /\ (L - rest + 1 <= L \/ rest = 0)
        /\ (rest = 0 => ~ (L - rest + 1 <= L))
        /\ \A k \in 1..rest : (L - rest + 1) + k - 1 = L - rest + k
    BY <1>1, <1>2, <1>3
  <2> DEFINE lo == L - rest + 1
  <2>2. /\ SubSeq(message, lo, L) \in Seq(Byte)
        /\ Len(SubSeq(message, lo, L)) = IF lo <= L THEN L - lo + 1 ELSE 0
        /\ \A k \in 1..(L - lo + 1) : SubSeq(message, lo, L)[k] = message[lo + k - 1]
    <3> HIDE DEF lo
    <3>1. lo \in Int /\ \A k \in lo..L : message[k] \in Byte
      BY <1>6, <2>1 DEF lo
    <3> QED BY <2>1, <3>1, SubSeqProperties
  <2> QED BY <2>1, <2>2
<1>8. front = back
  BY <1>1, <1>5, <1>7, SeqEqual
<1> QED BY <1>1, <1>8 DEF rest, L

-----------------------------------------------------------------------------
(* The steps of the one-shot hash.                                         *)

LEMMA UpdateExtends == HashInv /\ HashUpdate => OneShot!Extend
<1> SUFFICES ASSUME HashInv, HashUpdate PROVE OneShot!Extend
  OBVIOUS
<1>1. PICK taken \in Seq(Byte) :
        Len(taken) \in 1..(Size - (count % Size)) /\ message' = message \o taken
  BY TurnTakes
<1>2. message \in Seq(Byte) /\ Len(message) \in Nat
  BY LenProperties DEF HashInv, TypeOK
<1>3. /\ message' \in Seq(Byte) /\ Len(message') = Len(message) + Len(taken)
      /\ \A j \in 1..Len(message) : message'[j] = message[j]
  <2>1. Len(taken) \in Nat
    BY LenProperties
  <2> QED BY <1>1, <1>2, <2>1, ConcatProperties
<1>4. Len(message') > Len(message)
  <2>1. Len(taken) \in Nat /\ Len(taken) >= 1
    BY <1>1, LenProperties
  <2> QED BY <1>2, <1>3, <2>1
<1>5. SubSeq(message', 1, Len(message)) = message
  <2>1. \A j \in 1..Len(message) : message'[j] \in Byte
    BY <1>2, <1>3, ElementOfSeq
  <2>2. Len(message) - 1 + 1 = Len(message) /\ (1 <= Len(message) \/ Len(message) = 0)
    BY <1>2
  <2>3. /\ SubSeq(message', 1, Len(message)) \in Seq(Byte)
        /\ Len(SubSeq(message', 1, Len(message))) = Len(message)
        /\ \A j \in 1..Len(message) : SubSeq(message', 1, Len(message))[j] = message'[1 + j - 1]
    BY <1>2, <2>1, <2>2, SubSeqProperties
  <2>4. \A j \in 1..Len(message) : SubSeq(message', 1, Len(message))[j] = message[j]
    BY <1>2, <1>3, <2>3
  <2> QED BY <1>2, <2>3, <2>4, SeqEqual
<1>6. pc = "update" /\ UNCHANGED << pc, digest >>
  BY DEF HashUpdate
<1> QED BY <1>4, <1>5, <1>6 DEF OneShot!Extend

LEMMA StepOneShot ==
  HashInv /\ [Next]_vars =>
    [OneShot!Open \/ OneShot!Extend \/ OneShot!Close]_<< message, digest, pc # "idle" >>
<1> SUFFICES ASSUME HashInv, [Next]_vars
             PROVE  [OneShot!Open \/ OneShot!Extend \/ OneShot!Close]_<<
                      message, digest, pc # "idle" >>
  OBVIOUS
<1>1. CASE HashInit
  <2>1. OneShot!Open
    BY <1>1 DEF HashInit, OneShot!Open
  <2> QED BY <2>1
<1>2. CASE CallUpdate \/ ReturnUpdate
  BY <1>2 DEF CallUpdate, ReturnUpdate
<1>3. CASE HashUpdate
  BY <1>3, UpdateExtends
<1>4. CASE HashFinal
  <2>1. digest' = OneShot!HashOf(message)
    BY <1>4, HashFinalDigest
  <2>2. OneShot!Close
    BY <1>4, <2>1 DEF HashFinal, OneShot!Close
  <2> QED BY <2>2
<1>5. CASE UNCHANGED vars
  BY <1>5 DEF vars
<1> QED BY <1>1, <1>2, <1>3, <1>4, <1>5 DEF Next

\* A hash context keeps bytes and numbers, whatever hash_init finds in its buffer
\* (hash.c:122-199).
THEOREM TypeCorrect == Spec => []TypeOK
<1>1. HashInv => TypeOK
  BY DEF HashInv
<1> QED BY InitHash, StepHash, <1>1, PTL DEF Spec

\* Between two calls, and between two turns of the loop of hash_update, the context
\* is a function of the message hashed so far: neither the cuts between the updates
\* nor the bytes of earlier messages in the buffer show (hash.c:137-159).
THEOREM ContextCorrect == Spec => []ContextIsMessage
BY InitHash, StepHash, BytesGiveContext, PTL DEF Spec

\* However a message is cut into updates, hash_final gives the one-shot digest of
\* the whole: the padding, its length field and the block that is added when the
\* length finds no room in the last one are those of the standard (hash.c:122-199).
THEOREM StreamImplementsOneShot == Spec => ImplementsOneShot
<1>1. Init => OneShot!Init
  BY DEF Init, OneShot!Init
<1> QED BY InitHash, StepHash, StepOneShot, <1>1, PTL DEF Spec, ImplementsOneShot, OneShot!Spec

-----------------------------------------------------------------------------
(* The loop runs out.                                                      *)

WithinData == pc = "update" => i <= Len(data)

\* A turn of the loop moves on in the data and not beyond its end.
LEMMA TurnMovesOn == HashInv /\ HashUpdate => i' > i /\ i' <= Len(data)
<1> SUFFICES ASSUME HashInv, HashUpdate PROVE i' > i /\ i' <= Len(data)
  OBVIOUS
<1> DEFINE space == Size - (count % Size)
           chunk == IF Len(data) - i < space THEN Len(data) - i ELSE space
<1>1. Len(data) \in Nat /\ i \in Nat /\ i < Len(data) /\ count \in Nat
  BY LenProperties DEF HashInv, TypeOK, HashUpdate
<1>2. space \in 1..Size
  <2>1. count % Size \in 0..(Size - 1) /\ Size \in Nat \ {0}
    BY <1>1, SizeFacts
  <2> QED BY <2>1
<1>3. i' = i + chunk
  BY Zenon DEF HashUpdate
<1> HIDE DEF space
<1> QED BY <1>1, <1>2, <1>3

LEMMA StepWithinData == HashInv /\ WithinData /\ [Next]_vars => WithinData'
<1> SUFFICES ASSUME HashInv, WithinData, [Next]_vars PROVE WithinData'
  OBVIOUS
<1>1. CASE HashUpdate
  BY <1>1, TurnMovesOn DEF HashUpdate, WithinData
<1>2. CASE CallUpdate
  <2>1. data' \in Seq(Byte) /\ i' = 0
    BY <1>2, StreamConstants DEF CallUpdate
  <2>2. Len(data') \in Nat
    BY <2>1, LenProperties
  <2> QED BY <2>1, <2>2 DEF WithinData
<1>3. CASE HashInit \/ ReturnUpdate \/ HashFinal
  BY <1>3 DEF HashInit, ReturnUpdate, HashFinal, WithinData
<1>4. CASE UNCHANGED vars
  BY <1>4 DEF vars, WithinData
<1> QED BY <1>1, <1>2, <1>3, <1>4 DEF Next

\* The loop of hash_update (hash.c:140) runs out, whatever its argument and whatever the
\* context already held: every turn takes at least a byte of what is left of the
\* argument, and it is left when that is nothing.
THEOREM UpdateRunsOut == Spec => CountsDown
<1> DEFINE moves == pc = "update" => \/ pc' = "update" /\ i' > i /\ i' <= Len(data)
                                     \/ pc' = "ready" /\ i = Len(data)
<1>1. Init => WithinData
  BY DEF Init, WithinData
<1>2. ASSUME HashInv, WithinData, [Next]_vars, ~ UNCHANGED vars PROVE moves
  <2>1. SUFFICES ASSUME pc = "update" PROVE moves
    OBVIOUS
  <2>2. CASE HashUpdate
    BY <1>2, <2>2, TurnMovesOn DEF HashUpdate
  <2>3. CASE ReturnUpdate
    <3>1. i \in Nat /\ Len(data) \in Nat
      BY <1>2, LenProperties DEF HashInv, TypeOK
    <3> QED BY <1>2, <2>1, <2>3, <3>1 DEF ReturnUpdate, WithinData
  <2>4. ~ (HashInit \/ CallUpdate \/ HashFinal)
    BY <2>1 DEF HashInit, CallUpdate, HashFinal
  <2> QED BY <1>2, <2>2, <2>3, <2>4 DEF Next
<1>3. HashInv /\ WithinData /\ [Next]_vars => [moves]_vars
  BY <1>2
<1> QED BY InitHash, StepHash, StepWithinData, <1>1, <1>3, PTL DEF Spec, CountsDown

=============================================================================
