-------------------------- MODULE AesBlockProofs --------------------------
(***************************************************************************)
(* Decryption undoes encryption, for every number of rounds, every S-box   *)
(* that maps no two bytes to one, every key schedule and every message;    *)
(* and equal blocks come out alike only if what they are chained to does.  *)
(***************************************************************************)
EXTENDS AesBlock, TLAPS

-----------------------------------------------------------------------------
(* Exclusive or *)

LEMMA XorByte ==
  ASSUME NEW a \in Byte, NEW b \in Byte
  PROVE  Xor(a, b) \in Byte
BY XorIsBitwise

LEMMA BitOfXor ==
  ASSUME NEW a \in Byte, NEW b \in Byte, NEW i
  PROVE  i \in Bits(Xor(a, b)) <=> ((i \in Bits(a)) # (i \in Bits(b)))
<1>1. Bits(Xor(a, b)) = (Bits(a) \ Bits(b)) \cup (Bits(b) \ Bits(a))
  BY XorIsBitwise
<1> QED BY <1>1

LEMMA SameBits ==
  ASSUME NEW a \in Byte, NEW b \in Byte, \A i : i \in Bits(a) <=> i \in Bits(b)
  PROVE  a = b
<1>1. Bits(a) = Bits(b)
  OBVIOUS
<1> QED BY <1>1, XorIsBitwise

LEMMA ZeroByte == 0 \in Byte /\ \A i : i \notin Bits(0)
BY AesConstants, XorIsBitwise

LEMMA XorTwice ==
  ASSUME NEW a \in Byte, NEW b \in Byte
  PROVE  Xor(Xor(a, b), b) = a
<1>1. Xor(a, b) \in Byte /\ Xor(Xor(a, b), b) \in Byte
  BY XorByte
<1>2. \A i : i \in Bits(Xor(Xor(a, b), b)) <=> i \in Bits(a)
  BY <1>1, BitOfXor
<1> QED BY <1>1, <1>2, SameBits

LEMMA XorZero ==
  ASSUME NEW a \in Byte
  PROVE  Xor(a, 0) = a
<1>1. Xor(a, 0) \in Byte
  BY XorByte, ZeroByte
<1>2. \A i : i \in Bits(Xor(a, 0)) <=> i \in Bits(a)
  BY BitOfXor, ZeroByte
<1> QED BY <1>1, <1>2, SameBits

\* Two sums of two, by rows or by columns.
LEMMA XorSwap ==
  ASSUME NEW a \in Byte, NEW b \in Byte, NEW c \in Byte, NEW d \in Byte
  PROVE  Xor(Xor(a, b), Xor(c, d)) = Xor(Xor(a, c), Xor(b, d))
<1>1. /\ Xor(a, b) \in Byte /\ Xor(c, d) \in Byte /\ Xor(a, c) \in Byte /\ Xor(b, d) \in Byte
      /\ Xor(Xor(a, b), Xor(c, d)) \in Byte /\ Xor(Xor(a, c), Xor(b, d)) \in Byte
  BY XorByte
<1>2. ASSUME NEW i
      PROVE  i \in Bits(Xor(Xor(a, b), Xor(c, d))) <=> i \in Bits(Xor(Xor(a, c), Xor(b, d)))
  BY <1>1, BitOfXor
<1> QED BY <1>1, <1>2, SameBits

LEMMA Xor4Byte ==
  ASSUME NEW a \in Byte, NEW b \in Byte, NEW c \in Byte, NEW d \in Byte
  PROVE  Xor4(a, b, c, d) \in Byte
BY XorByte DEF Xor4

LEMMA Xor4Rotate ==
  ASSUME NEW a \in Byte, NEW b \in Byte, NEW c \in Byte, NEW d \in Byte
  PROVE  Xor4(a, b, c, d) = Xor4(d, a, b, c)
<1>1. /\ Xor(a, b) \in Byte /\ Xor(Xor(a, b), c) \in Byte
      /\ Xor(d, a) \in Byte /\ Xor(Xor(d, a), b) \in Byte
      /\ Xor4(a, b, c, d) \in Byte /\ Xor4(d, a, b, c) \in Byte
  BY XorByte, Xor4Byte
<1>2. ASSUME NEW i
      PROVE  i \in Bits(Xor4(a, b, c, d)) <=> i \in Bits(Xor4(d, a, b, c))
  BY <1>1, BitOfXor DEF Xor4
<1> QED BY <1>1, <1>2, SameBits

\* The sum of four sums.
LEMMA Xor4Sum ==
  ASSUME NEW a \in Byte, NEW b \in Byte, NEW c \in Byte, NEW d \in Byte,
         NEW p \in Byte, NEW q \in Byte, NEW s \in Byte, NEW t \in Byte
  PROVE  Xor4(Xor(a, p), Xor(b, q), Xor(c, s), Xor(d, t)) = Xor(Xor4(a, b, c, d), Xor4(p, q, s, t))
<1>1. /\ Xor(a, b) \in Byte /\ Xor(p, q) \in Byte
      /\ Xor(Xor(a, b), c) \in Byte /\ Xor(Xor(p, q), s) \in Byte
  BY XorByte
<1>2. Xor(Xor(a, p), Xor(b, q)) = Xor(Xor(a, b), Xor(p, q))
  BY XorSwap
<1>3. Xor(Xor(Xor(a, b), Xor(p, q)), Xor(c, s)) = Xor(Xor(Xor(a, b), c), Xor(Xor(p, q), s))
  BY <1>1, XorSwap
<1>4. Xor(Xor(Xor(Xor(a, b), c), Xor(Xor(p, q), s)), Xor(d, t))
        = Xor(Xor(Xor(Xor(a, b), c), d), Xor(Xor(Xor(p, q), s), t))
  BY <1>1, XorSwap
<1> QED BY <1>2, <1>3, <1>4 DEF Xor4

\* A table of sixteen, summed by rows or by columns.
LEMMA Xor4Transpose ==
  ASSUME NEW a1 \in Byte, NEW a2 \in Byte, NEW a3 \in Byte, NEW a4 \in Byte,
         NEW b1 \in Byte, NEW b2 \in Byte, NEW b3 \in Byte, NEW b4 \in Byte,
         NEW c1 \in Byte, NEW c2 \in Byte, NEW c3 \in Byte, NEW c4 \in Byte,
         NEW d1 \in Byte, NEW d2 \in Byte, NEW d3 \in Byte, NEW d4 \in Byte
  PROVE  Xor4(Xor4(a1, a2, a3, a4), Xor4(b1, b2, b3, b4), Xor4(c1, c2, c3, c4), Xor4(d1, d2, d3, d4))
           = Xor4(Xor4(a1, b1, c1, d1), Xor4(a2, b2, c2, d2), Xor4(a3, b3, c3, d3), Xor4(a4, b4, c4, d4))
<1>1. /\ Xor(a1, a2) \in Byte /\ Xor(Xor(a1, a2), a3) \in Byte
      /\ Xor(b1, b2) \in Byte /\ Xor(Xor(b1, b2), b3) \in Byte
      /\ Xor(c1, c2) \in Byte /\ Xor(Xor(c1, c2), c3) \in Byte
      /\ Xor(d1, d2) \in Byte /\ Xor(Xor(d1, d2), d3) \in Byte
  BY XorByte
<1> DEFINE Sum(a, b, c, d, p, q, s, t) ==
      Xor4(Xor(a, p), Xor(b, q), Xor(c, s), Xor(d, t)) = Xor(Xor4(a, b, c, d), Xor4(p, q, s, t))
<1>0. \A a, b, c, d, p, q, s, t \in Byte : Sum(a, b, c, d, p, q, s, t)
  BY Xor4Sum
<1> HIDE DEF Sum
<1>2. Sum(a1, b1, c1, d1, a2, b2, c2, d2)
  BY <1>0
<1>3. Sum(Xor(a1, a2), Xor(b1, b2), Xor(c1, c2), Xor(d1, d2), a3, b3, c3, d3)
  BY <1>0, <1>1
<1>4. Sum(Xor(Xor(a1, a2), a3), Xor(Xor(b1, b2), b3), Xor(Xor(c1, c2), c3), Xor(Xor(d1, d2), d3),
          a4, b4, c4, d4)
  BY <1>0, <1>1
<1>5. /\ Xor4(a1, a2, a3, a4) = Xor(Xor(Xor(a1, a2), a3), a4)
      /\ Xor4(b1, b2, b3, b4) = Xor(Xor(Xor(b1, b2), b3), b4)
      /\ Xor4(c1, c2, c3, c4) = Xor(Xor(Xor(c1, c2), c3), c4)
      /\ Xor4(d1, d2, d3, d4) = Xor(Xor(Xor(d1, d2), d3), d4)
  BY DEF Xor4
<1> DEFINE w1 == Xor4(a1, b1, c1, d1)
           w2 == Xor4(a2, b2, c2, d2)
           w3 == Xor4(a3, b3, c3, d3)
           w4 == Xor4(a4, b4, c4, d4)
<1>6. Xor4(w1, w2, w3, w4) = Xor(Xor(Xor(w1, w2), w3), w4)
  BY DEF Xor4
<1> QED BY <1>2, <1>3, <1>4, <1>5, <1>6 DEF Sum

-----------------------------------------------------------------------------
(* The steps of a round and what undoes them *)

LEMMA BlockCell ==
  ASSUME NEW b \in Block, NEW c \in Cells
  PROVE  b[c] \in Byte
BY DEF Block

LEMMA KeyUndone ==
  ASSUME NEW b \in Block, NEW k \in Block
  PROVE  /\ round_xor_with_key(b, k) \in Block
         /\ round_xor_with_key(round_xor_with_key(b, k), k) = b
<1>1. \A c \in Cells : Xor(b[c], k[c]) \in Byte /\ Xor(Xor(b[c], k[c]), k[c]) = b[c]
  BY BlockCell, XorByte, XorTwice
<1> QED BY <1>1 DEF round_xor_with_key, Block

LEMMA SboxUndone ==
  ASSUME NEW b \in Block
  PROVE  /\ round_apply_sbox(b) \in Block
         /\ initialized => round_apply_inv_sbox(round_apply_sbox(b)) = b
<1>1. ASSUME NEW x \in Byte
      PROVE  SBOX[x] \in Byte /\ INVERSE[SBOX[x]] = x
  <2>1. SBOX[x] \in Byte
    BY SboxInjective
  <2>2. INVERSE[SBOX[x]] = CHOOSE z \in Byte : SBOX[z] = SBOX[x]
    BY <2>1 DEF INVERSE
  <2>3. \A z \in Byte : SBOX[z] = SBOX[x] => z = x
    BY SboxInjective
  <2> QED BY <2>1, <2>2, <2>3
<1>2. \A c \in Cells : SBOX[b[c]] \in Byte /\ INVERSE[SBOX[b[c]]] = b[c]
  BY <1>1, BlockCell
<1>3. round_apply_sbox(b) \in Block
  BY <1>2 DEF round_apply_sbox, Block
<1>4. ASSUME initialized
      PROVE  round_apply_inv_sbox(round_apply_sbox(b)) = b
  <2>1. \A c \in Cells : INV_SBOX(round_apply_sbox(b)[c]) = b[c]
    BY <1>2, <1>4 DEF INV_SBOX, round_apply_sbox
  <2> QED BY <2>1 DEF round_apply_inv_sbox, Block
<1> QED BY <1>3, <1>4

LEMMA InverseByte ==
  ASSUME NEW b \in Block
  PROVE  round_apply_inv_sbox(b) \in Block
<1>1. \A y \in Byte : INVERSE[y] \in Byte
  BY ZeroByte DEF INVERSE
<1>2. \A y \in Byte : INV_SBOX(y) \in Byte
  BY <1>1, ZeroByte DEF INV_SBOX
<1> QED BY <1>2, BlockCell DEF round_apply_inv_sbox, Block

LEMMA ShiftUndone ==
  ASSUME NEW b \in Block
  PROVE  /\ round_shift_rows(b) \in Block /\ round_inv_shift_rows(b) \in Block
         /\ round_inv_shift_rows(round_shift_rows(b)) = b
<1>1. ASSUME NEW c \in Cells
      PROVE  /\ (c + 4 * (c % 4)) % 16 \in Cells /\ (c + 12 * (c % 4)) % 16 \in Cells
             /\ LET d == (c + 12 * (c % 4)) % 16 IN (d + 4 * (d % 4)) % 16 = c
  BY DEF Cells
<1>2. round_shift_rows(b) \in Block /\ round_inv_shift_rows(b) \in Block
  BY <1>1, BlockCell DEF round_shift_rows, round_inv_shift_rows, Block
<1>3. \A c \in Cells : round_inv_shift_rows(round_shift_rows(b))[c] = b[c]
  BY <1>1 DEF round_shift_rows, round_inv_shift_rows
<1> QED BY <1>2, <1>3 DEF round_inv_shift_rows, Block

\* Multiplication of a sum of four.
LEMMA TimesSum ==
  ASSUME NEW f \in Factor, NEW a \in Byte, NEW b \in Byte, NEW c \in Byte, NEW d \in Byte
  PROVE  /\ Times(f, a) \in Byte
         /\ Times(f, Xor4(a, b, c, d)) = Xor4(Times(f, a), Times(f, b), Times(f, c), Times(f, d))
<1>1. Xor(a, b) \in Byte /\ Xor(Xor(a, b), c) \in Byte
  BY XorByte
<1>2. Times(f, Xor(a, b)) = Xor(Times(f, a), Times(f, b))
  BY TimesLinear
<1>3. Times(f, Xor(Xor(a, b), c)) = Xor(Times(f, Xor(a, b)), Times(f, c))
  BY <1>1, TimesLinear
<1>4. Times(f, Xor(Xor(Xor(a, b), c), d)) = Xor(Times(f, Xor(Xor(a, b), c)), Times(f, d))
  BY <1>1, TimesLinear
<1>5. Times(f, a) \in Byte
  BY TimesLinear
<1> QED BY <1>2, <1>3, <1>4, <1>5 DEF Xor4

\* One column of the two mixes, seen from one of its cells.
LEMMA ColumnUndone ==
  ASSUME NEW x0 \in Byte, NEW x1 \in Byte, NEW x2 \in Byte, NEW x3 \in Byte
  PROVE  Xor4(Times(14, Xor4(Times(2, x0), Times(3, x1), x2, x3)),
              Times(11, Xor4(Times(2, x1), Times(3, x2), x3, x0)),
              Times(13, Xor4(Times(2, x2), Times(3, x3), x0, x1)),
              Times(9, Xor4(Times(2, x3), Times(3, x0), x1, x2))) = x0
<1> DEFINE T(f, x) == Times(f, x)
<1>0. \A f \in Factor, x \in Byte : T(f, x) \in Byte
  BY TimesLinear
<1> DEFINE Linear(f, a, b, c, d) == T(f, Xor4(a, b, c, d)) = Xor4(T(f, a), T(f, b), T(f, c), T(f, d))
<1>1. \A f \in Factor : \A a, b, c, d \in Byte : Linear(f, a, b, c, d)
  BY TimesSum
<1>2. {2, 3, 9, 11, 13, 14} = Factor
  BY DEF Factor
<1> DEFINE Rotated(a, b, c, d) == Xor4(a, b, c, d) = Xor4(d, a, b, c)
<1>3. \A a, b, c, d \in Byte : Rotated(a, b, c, d)
  BY Xor4Rotate
<1>4. /\ T(2, x0) \in Byte /\ T(2, x1) \in Byte /\ T(2, x2) \in Byte /\ T(2, x3) \in Byte
      /\ T(3, x0) \in Byte /\ T(3, x1) \in Byte /\ T(3, x2) \in Byte /\ T(3, x3) \in Byte
  BY <1>0, <1>2
<1> HIDE DEF T, Rotated, Linear
\* each sum with its terms in the order x0, x1, x2, x3
<1>5. /\ Rotated(T(2, x1), T(3, x2), x3, x0)
      /\ Rotated(T(2, x2), T(3, x3), x0, x1) /\ Rotated(x1, T(2, x2), T(3, x3), x0)
      /\ Rotated(T(2, x3), T(3, x0), x1, x2) /\ Rotated(x2, T(2, x3), T(3, x0), x1)
      /\ Rotated(x1, x2, T(2, x3), T(3, x0))
  BY <1>3, <1>4
<1>6. /\ Xor4(T(2, x1), T(3, x2), x3, x0) = Xor4(x0, T(2, x1), T(3, x2), x3)
      /\ Xor4(T(2, x2), T(3, x3), x0, x1) = Xor4(x0, x1, T(2, x2), T(3, x3))
      /\ Xor4(T(2, x3), T(3, x0), x1, x2) = Xor4(T(3, x0), x1, x2, T(2, x3))
  BY <1>5 DEF Rotated
<1>7. /\ T(14, Xor4(T(2, x0), T(3, x1), x2, x3)) = Xor4(T(14, T(2, x0)), T(14, T(3, x1)), T(14, x2), T(14, x3))
      /\ T(11, Xor4(x0, T(2, x1), T(3, x2), x3)) = Xor4(T(11, x0), T(11, T(2, x1)), T(11, T(3, x2)), T(11, x3))
      /\ T(13, Xor4(x0, x1, T(2, x2), T(3, x3))) = Xor4(T(13, x0), T(13, x1), T(13, T(2, x2)), T(13, T(3, x3)))
      /\ T(9, Xor4(T(3, x0), x1, x2, T(2, x3))) = Xor4(T(9, T(3, x0)), T(9, x1), T(9, x2), T(9, T(2, x3)))
  <2>1. /\ Linear(14, T(2, x0), T(3, x1), x2, x3) /\ Linear(11, x0, T(2, x1), T(3, x2), x3)
        /\ Linear(13, x0, x1, T(2, x2), T(3, x3)) /\ Linear(9, T(3, x0), x1, x2, T(2, x3))
    BY <1>1, <1>2, <1>4
  <2> QED BY <2>1 DEF Linear
<1>8. /\ T(14, T(2, x0)) \in Byte /\ T(14, T(3, x1)) \in Byte /\ T(14, x2) \in Byte /\ T(14, x3) \in Byte
      /\ T(11, x0) \in Byte /\ T(11, T(2, x1)) \in Byte /\ T(11, T(3, x2)) \in Byte /\ T(11, x3) \in Byte
      /\ T(13, x0) \in Byte /\ T(13, x1) \in Byte /\ T(13, T(2, x2)) \in Byte /\ T(13, T(3, x3)) \in Byte
      /\ T(9, T(3, x0)) \in Byte /\ T(9, x1) \in Byte /\ T(9, x2) \in Byte /\ T(9, T(2, x3)) \in Byte
  BY <1>0, <1>2, <1>4
\* what becomes of each byte: one comes back, three cancel
<1>9. /\ Xor4(T(14, T(2, x0)), T(11, x0), T(13, x0), T(9, T(3, x0))) = x0
      /\ Xor4(T(14, T(3, x1)), T(11, T(2, x1)), T(13, x1), T(9, x1)) = 0
      /\ Xor4(T(14, x2), T(11, T(3, x2)), T(13, T(2, x2)), T(9, x2)) = 0
      /\ Xor4(T(14, x3), T(11, x3), T(13, T(3, x3)), T(9, T(2, x3))) = 0
  BY MatricesInverse DEF T
<1>10. Xor4(x0, 0, 0, 0) = x0
  BY XorZero DEF Xor4
<1> DEFINE Table(a1, a2, a3, a4, b1, b2, b3, b4, c1, c2, c3, c4, d1, d2, d3, d4) ==
      Xor4(Xor4(a1, a2, a3, a4), Xor4(b1, b2, b3, b4), Xor4(c1, c2, c3, c4), Xor4(d1, d2, d3, d4))
        = Xor4(Xor4(a1, b1, c1, d1), Xor4(a2, b2, c2, d2), Xor4(a3, b3, c3, d3), Xor4(a4, b4, c4, d4))
<1>11. \A a1, a2, a3, a4, b1, b2, b3, b4, c1, c2, c3, c4, d1, d2, d3, d4 \in Byte :
         Table(a1, a2, a3, a4, b1, b2, b3, b4, c1, c2, c3, c4, d1, d2, d3, d4)
  BY Xor4Transpose
<1> HIDE DEF Table
<1>12. Table(T(14, T(2, x0)), T(14, T(3, x1)), T(14, x2), T(14, x3),
             T(11, x0), T(11, T(2, x1)), T(11, T(3, x2)), T(11, x3),
             T(13, x0), T(13, x1), T(13, T(2, x2)), T(13, T(3, x3)),
             T(9, T(3, x0)), T(9, x1), T(9, x2), T(9, T(2, x3)))
  BY <1>8, <1>11
<1>13. Xor4(T(14, Xor4(T(2, x0), T(3, x1), x2, x3)), T(11, Xor4(T(2, x1), T(3, x2), x3, x0)),
            T(13, Xor4(T(2, x2), T(3, x3), x0, x1)), T(9, Xor4(T(2, x3), T(3, x0), x1, x2)))
         = Xor4(x0, 0, 0, 0)
  BY <1>6, <1>7, <1>9, <1>12 DEF Table
<1> QED BY <1>10, <1>13 DEF T

LEMMA MixUndone ==
  ASSUME NEW b \in Block
  PROVE  /\ round_mix(b, TRUE) \in Block /\ round_inv_mix(b, TRUE) \in Block
         /\ round_inv_mix(round_mix(b, TRUE), TRUE) = b
<1>1. ASSUME NEW c \in Cells
      PROVE  /\ Below(c, 1) \in Cells /\ Below(c, 2) \in Cells /\ Below(c, 3) \in Cells
             /\ Below(Below(c, 1), 1) = Below(c, 2) /\ Below(Below(c, 1), 2) = Below(c, 3) /\ Below(Below(c, 1), 3) = c
             /\ Below(Below(c, 2), 1) = Below(c, 3) /\ Below(Below(c, 2), 2) = c /\ Below(Below(c, 2), 3) = Below(c, 1)
             /\ Below(Below(c, 3), 1) = c /\ Below(Below(c, 3), 2) = Below(c, 1) /\ Below(Below(c, 3), 3) = Below(c, 2)
  BY DEF Cells, Below
<1>2. \A c \in Cells :
        /\ Xor4(gf_mul(2, b[c], TRUE), gf_mul(3, b[Below(c, 1)], TRUE), b[Below(c, 2)], b[Below(c, 3)]) \in Byte
        /\ Xor4(gf_mul(14, b[c], TRUE), gf_mul(11, b[Below(c, 1)], TRUE),
                gf_mul(13, b[Below(c, 2)], TRUE), gf_mul(9, b[Below(c, 3)], TRUE)) \in Byte
  BY <1>1, BlockCell, TimesLinear, Xor4Byte DEF gf_mul, Factor
<1>3. round_mix(b, TRUE) \in Block /\ round_inv_mix(b, TRUE) \in Block
  BY <1>2 DEF round_mix, round_inv_mix, Block
<1> DEFINE m == round_mix(b, TRUE)
<1>4. \A c \in Cells :
        m[c] = Xor4(Times(2, b[c]), Times(3, b[Below(c, 1)]), b[Below(c, 2)], b[Below(c, 3)])
  BY DEF round_mix, gf_mul
<1> HIDE DEF m
<1>5. ASSUME NEW c \in Cells
      PROVE  Xor4(Times(14, m[c]), Times(11, m[Below(c, 1)]), Times(13, m[Below(c, 2)]), Times(9, m[Below(c, 3)])) = b[c]
  <2>1. /\ m[c] = Xor4(Times(2, b[c]), Times(3, b[Below(c, 1)]), b[Below(c, 2)], b[Below(c, 3)])
        /\ m[Below(c, 1)] = Xor4(Times(2, b[Below(c, 1)]), Times(3, b[Below(c, 2)]), b[Below(c, 3)], b[c])
        /\ m[Below(c, 2)] = Xor4(Times(2, b[Below(c, 2)]), Times(3, b[Below(c, 3)]), b[c], b[Below(c, 1)])
        /\ m[Below(c, 3)] = Xor4(Times(2, b[Below(c, 3)]), Times(3, b[c]), b[Below(c, 1)], b[Below(c, 2)])
    BY <1>1, <1>4
  <2>2. b[c] \in Byte /\ b[Below(c, 1)] \in Byte /\ b[Below(c, 2)] \in Byte /\ b[Below(c, 3)] \in Byte
    BY <1>1, BlockCell
  <2> QED BY <2>1, <2>2, ColumnUndone
<1>6. round_inv_mix(m, TRUE) = [c \in Cells |-> b[c]]
  BY <1>5 DEF round_inv_mix, gf_mul
<1> QED BY <1>3, <1>6 DEF m, Block

-----------------------------------------------------------------------------
(* Rounds *)

Round(b, k)     == round_xor_with_key(round_mix(round_shift_rows(round_apply_sbox(b)), TRUE), k)
LastRound(b, k) == round_xor_with_key(round_shift_rows(round_apply_sbox(b)), k)

\* What the rounds of decrypt_block undo.
LEMMA RoundUndone ==
  ASSUME NEW b \in Block, NEW k \in Block
  PROVE  /\ Round(b, k) \in Block
         /\ initialized =>
              round_apply_inv_sbox(round_inv_shift_rows(
                round_inv_mix(round_xor_with_key(Round(b, k), k), TRUE))) = b
<1>1. round_apply_sbox(b) \in Block
  BY SboxUndone
<1>2. round_shift_rows(round_apply_sbox(b)) \in Block
  BY <1>1, ShiftUndone
<1>3. round_mix(round_shift_rows(round_apply_sbox(b)), TRUE) \in Block
  BY <1>2, MixUndone
<1>4. /\ Round(b, k) \in Block
      /\ round_xor_with_key(Round(b, k), k) = round_mix(round_shift_rows(round_apply_sbox(b)), TRUE)
  BY <1>3, KeyUndone DEF Round
<1>5. round_inv_mix(round_mix(round_shift_rows(round_apply_sbox(b)), TRUE), TRUE)
        = round_shift_rows(round_apply_sbox(b))
  BY <1>2, MixUndone
<1>6. round_inv_shift_rows(round_shift_rows(round_apply_sbox(b))) = round_apply_sbox(b)
  BY <1>1, ShiftUndone
<1> QED BY <1>4, <1>5, <1>6, SboxUndone

LEMMA LastRoundUndone ==
  ASSUME NEW b \in Block, NEW k \in Block
  PROVE  /\ LastRound(b, k) \in Block
         /\ initialized =>
              round_apply_inv_sbox(round_inv_shift_rows(round_xor_with_key(LastRound(b, k), k))) = b
<1>1. round_apply_sbox(b) \in Block
  BY SboxUndone
<1>2. round_shift_rows(round_apply_sbox(b)) \in Block
  BY <1>1, ShiftUndone
<1>3. LastRound(b, k) \in Block /\ round_xor_with_key(LastRound(b, k), k) = round_shift_rows(round_apply_sbox(b))
  BY <1>2, KeyUndone DEF LastRound
<1>4. round_inv_shift_rows(round_shift_rows(round_apply_sbox(b))) = round_apply_sbox(b)
  BY <1>1, ShiftUndone
<1> QED BY <1>3, <1>4, SboxUndone

\* One round of decrypt_block makes a block of a block.
LEMMA UndoingIsBlock ==
  ASSUME NEW b \in Block, NEW k \in Block
  PROVE  /\ round_apply_inv_sbox(round_inv_shift_rows(round_xor_with_key(b, k))) \in Block
         /\ round_apply_inv_sbox(round_inv_shift_rows(
              round_inv_mix(round_xor_with_key(b, k), TRUE))) \in Block
<1>1. round_xor_with_key(b, k) \in Block
  BY KeyUndone
<1>2. round_inv_mix(round_xor_with_key(b, k), TRUE) \in Block
  BY <1>1, MixUndone
<1> QED BY <1>1, <1>2, ShiftUndone, InverseByte

LEMMA Sizes == ROUNDS \in Nat /\ ROUNDS >= 1 /\ NoBlock \in Block
<1>1. ROUNDS \in Nat /\ ROUNDS >= 1
  BY AesConstants
<1>2. NoBlock \in Block
  BY ZeroByte DEF NoBlock, Block
<1> QED BY <1>1, <1>2

LEMMA CallTypes ==
  ASSUME TypeOK
  PROVE  /\ call.message \in Seq(Block) /\ call.iv \in Block
         /\ Expand(call.key) \in [0..ROUNDS -> Block]
BY AesConstants DEF TypeOK

LEMMA InitType == Init => TypeOK
<1> SUFFICES ASSUME Init PROVE TypeOK
  OBVIOUS
<1>1. round_keys \in [0..ROUNDS -> Block]
  BY Sizes DEF Init
<1> QED BY <1>1, Sizes DEF Init, TypeOK

LEMMA StepType == TypeOK /\ [Next]_vars => TypeOK'
<1> SUFFICES ASSUME TypeOK, [Next]_vars PROVE TypeOK'
  OBVIOUS
<1> USE Sizes
<1>1. CASE Prepare
  BY <1>1, CallTypes DEF Prepare, sbox_init, TypeOK
<1>2. CASE BeginEncrypt
  <2>1. call.message[Len(sealed) + 1] \in Block
    BY <1>2, CallTypes DEF BeginEncrypt, TypeOK
  <2>2. round_keys[0] \in Block /\ prev \in Block
    BY DEF TypeOK
  <2>3. block' \in Block
    BY <1>2, <2>1, <2>2, KeyUndone DEF BeginEncrypt
  <2> QED BY <1>2, <2>3 DEF BeginEncrypt, tables, TypeOK
<1>3. CASE EncryptRound
  <2>1. r \in 0..ROUNDS /\ r < ROUNDS /\ block \in Block /\ round_keys[r] \in Block
    BY <1>3 DEF EncryptRound, FullRound, TypeOK
  <2>2. block' = Round(block, round_keys[r]) /\ gf_tables_initialized' = TRUE
    BY <1>3 DEF EncryptRound, UseTables, Round
  <2>3. block' \in Block
    BY <2>1, <2>2, RoundUndone
  <2> QED BY <1>3, <2>1, <2>2, <2>3 DEF EncryptRound, TypeOK
<1>4. CASE EndEncrypt
  <2>1. block \in Block /\ round_keys[ROUNDS] \in Block
    BY DEF TypeOK
  <2>2. block' = LastRound(block, round_keys[ROUNDS])
    BY <1>4 DEF EndEncrypt, LastRound
  <2>3. block' \in Block
    BY <2>1, <2>2, LastRoundUndone
  <2> QED BY <1>4, <2>3 DEF EndEncrypt, ChainEncrypted, tables, TypeOK
<1>5. CASE NewProcess
  <2>1. round_keys' \in [0..ROUNDS -> Block]
    BY <1>5 DEF NewProcess
  <2>2. /\ decoding' = TRUE /\ initialized' = FALSE /\ gf_tables_initialized' = FALSE
        /\ prev' \in Block /\ r' \in 0..ROUNDS /\ block' \in Block /\ pc' = "start"
        /\ UNCHANGED << call, sealed, opened >>
    BY <1>5 DEF NewProcess
  <2> QED BY <2>1, <2>2 DEF TypeOK
<1>6. CASE BeginDecrypt
  <2>1. sealed[Len(opened) + 1] \in Block /\ round_keys[ROUNDS] \in Block
    BY <1>6 DEF BeginDecrypt, TypeOK
  <2>2. block' \in Block
    BY <1>6, <2>1, UndoingIsBlock DEF BeginDecrypt
  <2> QED BY <1>6, <2>2 DEF BeginDecrypt, tables, TypeOK
<1>7. CASE DecryptRound
  <2>1. r \in 0..ROUNDS /\ r >= 1 /\ block \in Block /\ round_keys[r] \in Block
    BY <1>7 DEF DecryptRound, TypeOK
  <2>2. block' \in Block
    BY <1>7, <2>1, UndoingIsBlock DEF DecryptRound, UseTables
  <2>3. r' \in 0..ROUNDS /\ gf_tables_initialized' = TRUE
    BY <1>7, <2>1 DEF DecryptRound, UseTables
  <2>4. UNCHANGED << pc, decoding, initialized, round_keys, prev, call, sealed, opened >>
    BY <1>7 DEF DecryptRound
  <2> QED BY <2>2, <2>3, <2>4 DEF TypeOK
<1>8. CASE EndDecrypt
  <2>1. block \in Block /\ round_keys[0] \in Block /\ prev \in Block
    BY DEF TypeOK
  <2>2. block' \in Block
    BY <1>8, <2>1, KeyUndone DEF EndDecrypt
  <2>3. prev' \in Block
    <3>1. CASE InPlace
      BY <1>8, <2>2, <3>1 DEF EndDecrypt, ChainDecrypted
    <3>2. CASE ~ InPlace
      BY <1>8, <3>2 DEF EndDecrypt, ChainDecrypted, TypeOK
    <3> QED BY <3>1, <3>2
  <2> QED BY <1>8, <2>2, <2>3 DEF EndDecrypt, tables, TypeOK
<1>9. CASE Over \/ UNCHANGED vars
  BY <1>9 DEF Over, vars, tables, TypeOK
<1> QED BY <1>1, <1>2, <1>3, <1>4, <1>5, <1>6, <1>7, <1>8, <1>9 DEF Next

\* Keys, blocks and counters stay in their types, for every number of rounds; the
\* round number stays within the key schedule (encrypt_block, decrypt_block).
THEOREM TypeCorrect == Spec => []TypeOK
BY InitType, StepType, PTL DEF Spec

-----------------------------------------------------------------------------
(* The invariant *)

\* What block m of the message is chained to.
Previous(m) == IF m = 1 THEN call.iv ELSE sealed[m - 1]

Schedule == Expand(call.key)

\* The trace of block m up to round n is what encrypt_block makes of it.
Traced(m, n) ==
  /\ trace[m] \in [1..n -> Block]
  /\ trace[m][1] = round_xor_with_key(round_xor_with_key(call.message[m], Previous(m)), Schedule[0])
  /\ \A k \in 1..(n - 1) : trace[m][k + 1] = Round(trace[m][k], Schedule[k])

Complete(m) ==
  /\ Traced(m, ROUNDS)
  /\ sealed[m] = LastRound(trace[m][ROUNDS], Schedule[ROUNDS])

Traces == UNION {[1..n -> Block] : n \in 1..ROUNDS}

\* What has been encoded, and how far.
EncodedInv ==
  /\ trace \in Seq(Traces)
  /\ Len(trace) = Len(sealed) + (IF pc = "round" /\ ~ decoding THEN 1 ELSE 0)
  /\ Len(sealed) <= Len(call.message)
  /\ decoding => Len(sealed) = Len(call.message)
  /\ \A m \in 1..Len(sealed) : Complete(m)
  /\ pc # "start" => round_keys = Schedule /\ initialized

EncodingInv ==
  ~ decoding =>
    /\ opened = << >>
    /\ pc = "start" => sealed = << >>
    /\ pc # "start" => prev = Previous(Len(sealed) + 1)
    /\ pc = "round" => /\ Len(sealed) < Len(call.message)
                       /\ r \in 1..ROUNDS
                       /\ Traced(Len(trace), r)
                       /\ block = trace[Len(trace)][r]

DecodingInv ==
  decoding =>
    /\ Len(opened) <= Len(sealed)
    /\ pc = "start" => opened = << >>
    /\ pc # "start" => prev = Previous(Len(opened) + 1)
    /\ pc = "round" => /\ Len(opened) < Len(sealed)
                       /\ r \in 0..(ROUNDS - 1)
                       /\ block = trace[Len(opened) + 1][r + 1]

UndoInv == TypeOK /\ EncodedInv /\ EncodingInv /\ DecodingInv /\ RoundTrip

\* What was encoded is not touched: it stays complete when blocks are added behind it.
LEMMA StaysComplete ==
  ASSUME TypeOK, EncodedInv, UNCHANGED call,
         \A m \in 1..Len(sealed) : m <= Len(sealed') /\ sealed'[m] = sealed[m] /\ trace'[m] = trace[m],
         NEW m \in 1..Len(sealed)
  PROVE  Complete(m)'
<1>1. Complete(m)
  BY DEF EncodedInv
<1>2. Previous(m)' = Previous(m)
  <2>1. CASE m = 1
    BY <2>1 DEF Previous
  <2>2. CASE m # 1
    <3>1. m - 1 \in 1..Len(sealed)
      BY <2>2 DEF TypeOK
    <3> QED BY <2>2, <3>1 DEF Previous
  <2> QED BY <2>1, <2>2
<1>3. Schedule' = Schedule
  BY DEF Schedule
<1> QED BY <1>1, <1>2, <1>3 DEF Complete, Traced

LEMMA InitUndo == Init => UndoInv
<1> SUFFICES ASSUME Init PROVE UndoInv
  OBVIOUS
<1>1. TypeOK
  BY InitType
<1>2. Len(call.message) \in Nat
  BY <1>1, CallTypes
<1> QED BY <1>1, <1>2 DEF Init, UndoInv, EncodedInv, EncodingInv, DecodingInv, RoundTrip

\* Encoding: each step adds to the trace what it makes of the block.
LEMMA EncodeUndo ==
  ASSUME UndoInv, TypeOK', BeginEncrypt \/ EncryptRound \/ EndEncrypt
  PROVE  UndoInv'
<1> USE Sizes DEF UndoInv
<1>1. /\ call.message \in Seq(Block) /\ sealed \in Seq(Block) /\ Len(sealed) \in Nat
      /\ trace \in Seq(Traces) /\ Len(trace) \in Nat
      /\ Schedule \in [0..ROUNDS -> Block] /\ UNCHANGED << call, opened, decoding >> /\ ~ decoding
  BY CallTypes DEF BeginEncrypt, EncryptRound, EndEncrypt, TypeOK, EncodedInv, Schedule
<1>2. RoundTrip' /\ DecodingInv' /\ Schedule' = Schedule
  BY <1>1 DEF EncodingInv, RoundTrip, DecodingInv, Schedule
<1>3. CASE BeginEncrypt
  <2>1. /\ trace' = Append(trace, [k \in {1} |-> block'])
        /\ Len(trace) = Len(sealed) /\ sealed' = sealed /\ r' = 1 /\ pc' = "round" /\ prev' = prev
        /\ round_keys' = round_keys /\ initialized' = initialized /\ round_keys = Schedule /\ initialized
        /\ prev = Previous(Len(sealed) + 1) /\ Len(sealed) < Len(call.message)
    BY <1>1, <1>3 DEF BeginEncrypt, tables, EncodedInv, EncodingInv
  <2>2. block' \in Block
    BY DEF TypeOK
  <2>3. [k \in {1} |-> block'] \in [1..1 -> Block]
    BY <2>2
  <2>4. trace' \in Seq(Traces) /\ Len(trace') = Len(trace) + 1
    <3> DEFINE first == [k \in {1} |-> block']
    <3>1. first \in Traces
      BY <2>3 DEF Traces
    <3>2. trace' = Append(trace, first)
      BY <2>1
    <3> HIDE DEF first
    <3> QED BY <1>1, <3>1, <3>2
  <2>5. \A m \in 1..Len(sealed) : trace'[m] = trace[m]
    BY <1>1, <2>1
  <2>6. \A m \in 1..Len(sealed') : Complete(m)'
    BY <1>1, <2>1, <2>5, StaysComplete
  <2>7. EncodedInv'
    BY <1>1, <1>2, <2>1, <2>4, <2>6 DEF EncodedInv
  <2>8. Previous(Len(sealed) + 1)' = Previous(Len(sealed) + 1)
    BY <1>1, <2>1 DEF Previous
  <2>9. block' = round_xor_with_key(round_xor_with_key(call.message[Len(sealed) + 1], prev), Schedule[0])
    BY <1>3, <2>1 DEF BeginEncrypt
  <2>10. trace'[Len(trace')] = [k \in {1} |-> block'] /\ Len(trace') = Len(sealed) + 1
    BY <1>1, <2>1
  <2>11. Traced(Len(trace), r)'
    BY <1>1, <1>2, <2>1, <2>3, <2>8, <2>9, <2>10 DEF Traced
  <2>12. EncodingInv'
    BY <1>1, <2>1, <2>8, <2>10, <2>11 DEF EncodingInv
  <2> QED BY <1>2, <2>7, <2>12
<1>4. CASE EncryptRound
  <2> DEFINE t == trace[Len(trace)]
             u == [k \in 1..(r + 1) |-> IF k = r + 1 THEN block' ELSE t[k]]
  <2>1. /\ Len(trace) = Len(sealed) + 1 /\ r \in 1..ROUNDS /\ r < ROUNDS
        /\ Traced(Len(trace), r) /\ block = t[r]
        /\ sealed' = sealed /\ r' = r + 1 /\ pc' = "round" /\ pc = "round" /\ prev' = prev
        /\ round_keys' = round_keys /\ initialized' = initialized /\ round_keys = Schedule /\ initialized
        /\ prev = Previous(Len(sealed) + 1) /\ Len(sealed) < Len(call.message)
    BY <1>1, <1>4 DEF EncryptRound, FullRound, EncodedInv, EncodingInv
  <2>2. trace' = [trace EXCEPT ![Len(trace)] = u]
    BY <1>4, <2>1 DEF EncryptRound
  <2>3. block' = Round(t[r], Schedule[r]) /\ block' \in Block
    BY <1>4, <2>1 DEF EncryptRound, UseTables, Round, TypeOK
  <2>4. t \in [1..r -> Block]
    BY <2>1 DEF Traced
  <2>5. u \in [1..(r + 1) -> Block]
    BY <2>1, <2>3, <2>4
  <2>6. u \in Traces
    BY <2>1, <2>5 DEF Traces
  <2>7. Len(trace) \in 1..Len(trace)
    BY <1>1, <2>1
  <2>8. /\ trace' \in Seq(Traces) /\ Len(trace') = Len(trace) /\ trace'[Len(trace)] = u
        /\ \A m \in 1..Len(sealed) : trace'[m] = trace[m]
    <3> HIDE DEF u
    <3> QED BY <1>1, <2>1, <2>2, <2>6, <2>7
  <2>9. \A m \in 1..Len(sealed') : Complete(m)'
    BY <1>1, <2>1, <2>8, StaysComplete
  <2>10. EncodedInv'
    BY <1>1, <1>2, <2>1, <2>8, <2>9 DEF EncodedInv
  <2>11. Previous(Len(sealed) + 1)' = Previous(Len(sealed) + 1)
    BY <1>1, <2>1 DEF Previous
  <2>12. /\ u[1] = t[1] /\ u[r + 1] = block'
         /\ \A k \in 1..r : u[k] = t[k]
    BY <2>1, <2>4
  <2>13. \A k \in 1..r : u[k + 1] = Round(u[k], Schedule[k])
    <3>1. \A k \in 1..(r - 1) : t[k + 1] = Round(t[k], Schedule[k])
      BY <2>1 DEF Traced
    <3>2. ASSUME NEW k \in 1..r
          PROVE  u[k + 1] = Round(u[k], Schedule[k])
      <4>1. CASE k = r
        BY <2>1, <2>3, <2>12, <4>1
      <4>2. CASE k # r
        <5>1. k \in 1..(r - 1) /\ k + 1 \in 1..r
          BY <2>1, <4>2
        <5> HIDE DEF u, t
        <5> QED BY <2>12, <3>1, <5>1
      <4> QED BY <4>1, <4>2
    <3> QED BY <3>2
  <2>14. t[1] = round_xor_with_key(round_xor_with_key(call.message[Len(trace)], Previous(Len(trace))), Schedule[0])
    BY <2>1 DEF Traced
  <2> HIDE DEF u, t
  <2>15. Traced(Len(trace), r)'
    BY <1>1, <1>2, <2>1, <2>5, <2>8, <2>11, <2>12, <2>13, <2>14 DEF Traced
  <2>16. EncodingInv'
    BY <1>1, <2>1, <2>8, <2>11, <2>12, <2>15 DEF EncodingInv
  <2> QED BY <1>2, <2>10, <2>16
<1>5. CASE EndEncrypt
  <2>1. /\ Len(trace) = Len(sealed) + 1 /\ r = ROUNDS
        /\ Traced(Len(trace), ROUNDS) /\ block = trace[Len(trace)][ROUNDS]
        /\ sealed' = Append(sealed, block') /\ trace' = trace /\ pc' = "next" /\ pc = "round" /\ prev' = block'
        /\ round_keys' = round_keys /\ initialized' = initialized /\ round_keys = Schedule /\ initialized
        /\ Len(sealed) < Len(call.message)
    BY <1>1, <1>5 DEF EndEncrypt, ChainEncrypted, FullRound, tables, EncodedInv, EncodingInv
  <2>2. block' = LastRound(trace[Len(trace)][ROUNDS], Schedule[ROUNDS]) /\ block' \in Block
    BY <1>5, <2>1 DEF EndEncrypt, LastRound, TypeOK
  <2>3. /\ Len(sealed') = Len(sealed) + 1 /\ sealed'[Len(sealed) + 1] = block'
        /\ \A m \in 1..Len(sealed) : sealed'[m] = sealed[m] /\ m <= Len(sealed')
    BY <1>1, <2>1, <2>2
  <2>4. \A m \in 1..Len(sealed) : Complete(m)'
    BY <1>1, <2>1, <2>3, StaysComplete
  <2>5. Previous(Len(trace))' = Previous(Len(trace))
    BY <1>1, <2>1, <2>3 DEF Previous
  <2>6. Complete(Len(trace))'
    BY <1>1, <1>2, <2>1, <2>2, <2>3, <2>5 DEF Complete, Traced
  <2>7. \A m \in 1..Len(sealed') : Complete(m)'
    <3> TAKE m \in 1..Len(sealed')
    <3>1. CASE m \in 1..Len(sealed)
      BY <2>4, <3>1
    <3>2. CASE m \notin 1..Len(sealed)
      <4>1. m = Len(trace)
        BY <1>1, <2>1, <2>3, <3>2
      <4> QED BY <2>1, <2>6, <4>1
    <3> QED BY <3>1, <3>2
  <2>8. EncodedInv'
    BY <1>1, <1>2, <2>1, <2>3, <2>7 DEF EncodedInv
  <2>9. EncodingInv'
    BY <1>1, <2>1, <2>3 DEF EncodingInv, Previous
  <2> QED BY <1>2, <2>8, <2>9
<1> QED BY <1>3, <1>4, <1>5

\* What a step leaves alone when it touches neither call, trace nor what is sealed.
LEMMA UntouchedStaysComplete ==
  ASSUME TypeOK, EncodedInv, UNCHANGED << call, trace, sealed >>
  PROVE  /\ Schedule' = Schedule /\ Len(trace') = Len(trace)
         /\ \A m \in 1..Len(sealed') : Complete(m)'
         /\ \A m : Previous(m)' = Previous(m)
<1>1. \A m \in 1..Len(sealed) : m <= Len(sealed') /\ sealed'[m] = sealed[m] /\ trace'[m] = trace[m]
  BY DEF TypeOK
<1>2. \A m \in 1..Len(sealed') : Complete(m)'
  BY <1>1, StaysComplete
<1> QED BY <1>2 DEF Schedule, Previous

\* The start of both processes, the end, and the change from one to the other.
LEMMA ProcessUndo ==
  ASSUME UndoInv, TypeOK', Prepare \/ NewProcess \/ Over \/ UNCHANGED vars
  PROVE  UndoInv'
<1> USE Sizes DEF UndoInv
<1>1. UNCHANGED << call, trace, sealed, opened >>
  BY DEF Prepare, NewProcess, Over, vars
<1>2. /\ Schedule' = Schedule /\ \A m \in 1..Len(sealed') : Complete(m)'
      /\ \A m : Previous(m)' = Previous(m)
  BY <1>1, UntouchedStaysComplete
<1>3. RoundTrip'
  BY <1>1 DEF RoundTrip
<1>4. Len(sealed) \in Nat /\ Len(opened) \in Nat /\ Len(call.message) \in Nat
  BY CallTypes DEF TypeOK
<1>5. CASE Prepare
  <2>1. /\ pc = "start" /\ pc' = "next" /\ initialized' /\ round_keys' = Schedule /\ prev' = call.iv
        /\ decoding' = decoding
    BY <1>5 DEF Prepare, sbox_init, Schedule
  <2>2. Previous(1)' = call.iv
    BY <1>1 DEF Previous
  <2>3. EncodedInv'
    BY <1>1, <1>2, <2>1 DEF EncodedInv
  <2>4. EncodingInv'
    BY <1>1, <1>4, <2>1, <2>2 DEF EncodingInv
  <2>5. DecodingInv'
    BY <1>1, <1>4, <2>1, <2>2 DEF DecodingInv
  <2> QED BY <1>3, <2>3, <2>4, <2>5
<1>6. CASE NewProcess
  <2>1. /\ ~ decoding /\ decoding' /\ pc = "next" /\ pc' = "start" /\ Len(sealed) = Len(call.message)
    BY <1>6 DEF NewProcess
  <2>2. EncodedInv'
    BY <1>1, <1>2, <2>1 DEF EncodedInv
  <2>3. EncodingInv'
    BY <2>1 DEF EncodingInv
  <2>4. DecodingInv'
    BY <1>1, <1>4, <2>1 DEF DecodingInv, EncodingInv
  <2> QED BY <1>3, <2>2, <2>3, <2>4
<1>7. CASE Over \/ UNCHANGED vars
  <2>1. UNCHANGED << pc, decoding, initialized, round_keys, prev, r, block >>
    BY <1>7 DEF Over, vars, tables
  <2>2. EncodedInv'
    BY <1>1, <1>2, <2>1 DEF EncodedInv
  <2>3. EncodingInv'
    BY <1>1, <1>2, <2>1 DEF EncodingInv, Traced
  <2>4. DecodingInv'
    BY <1>1, <1>2, <2>1 DEF DecodingInv
  <2> QED BY <1>3, <2>2, <2>3, <2>4
<1> QED BY <1>5, <1>6, <1>7

\* Decoding: each step finds in the trace what it has to make of the block.
LEMMA DecodeUndo ==
  ASSUME UndoInv, TypeOK', ~ InPlace, BeginDecrypt \/ DecryptRound \/ EndDecrypt
  PROVE  UndoInv'
<1> USE Sizes DEF UndoInv
<1> DEFINE n == Len(opened) + 1
<1>1. /\ decoding /\ decoding' /\ pc # "start" /\ pc' # "start"
      /\ UNCHANGED << call, trace, sealed, round_keys, initialized >>
  BY DEF BeginDecrypt, DecryptRound, EndDecrypt, tables
<1>2. /\ Schedule' = Schedule /\ \A m \in 1..Len(sealed') : Complete(m)'
      /\ \A m : Previous(m)' = Previous(m)
  BY <1>1, UntouchedStaysComplete
<1>3. /\ Len(sealed) \in Nat /\ Len(opened) \in Nat /\ opened \in Seq(Block)
      /\ call.message \in Seq(Block) /\ call.iv \in Block
      /\ Schedule \in [0..ROUNDS -> Block]
  BY CallTypes DEF TypeOK, Schedule
<1>4. EncodedInv'
  BY <1>1, <1>2 DEF EncodedInv
<1>5. EncodingInv'
  BY <1>1 DEF EncodingInv
<1>6. round_keys = Schedule /\ initialized /\ prev = Previous(n) /\ Len(opened) <= Len(sealed)
  BY <1>1 DEF EncodedInv, DecodingInv
<1>7. ASSUME Len(opened) < Len(sealed)
      PROVE  /\ n \in 1..Len(sealed) /\ n \in 1..Len(call.message)
             /\ Traced(n, ROUNDS) /\ trace[n] \in [1..ROUNDS -> Block]
             /\ sealed[n] = LastRound(trace[n][ROUNDS], Schedule[ROUNDS])
  <2>1. n \in 1..Len(sealed) /\ n \in 1..Len(call.message)
    BY <1>1, <1>3, <1>7 DEF EncodedInv
  <2>2. Complete(n)
    BY <2>1 DEF EncodedInv
  <2> QED BY <2>1, <2>2 DEF Complete, Traced
<1>8. CASE BeginDecrypt
  <2>1. /\ Len(opened) < Len(sealed) /\ r' = ROUNDS - 1 /\ pc' = "round" /\ UNCHANGED << prev, opened >>
        /\ block' = round_apply_inv_sbox(round_inv_shift_rows(round_xor_with_key(sealed[n], Schedule[ROUNDS])))
    BY <1>6, <1>8 DEF BeginDecrypt
  <2>2. trace[n][ROUNDS] \in Block /\ Schedule[ROUNDS] \in Block
    BY <1>3, <1>7, <2>1
  <2>3. block' = trace[n][ROUNDS]
    BY <1>6, <1>7, <2>1, <2>2, LastRoundUndone
  <2>4. DecodingInv'
    BY <1>1, <1>2, <1>3, <1>6, <2>1, <2>3 DEF DecodingInv
  <2>5. RoundTrip'
    BY <1>1, <2>1 DEF RoundTrip
  <2> QED BY <1>4, <1>5, <2>4, <2>5
<1>9. CASE DecryptRound
  <2>1. /\ pc = "round" /\ pc' = "round" /\ r >= 1 /\ r' = r - 1 /\ UNCHANGED << prev, opened >>
        /\ block' = round_apply_inv_sbox(round_inv_shift_rows(
                      round_inv_mix(round_xor_with_key(block, Schedule[r]), TRUE)))
    BY <1>6, <1>9 DEF DecryptRound, UseTables
  <2>2. /\ Len(opened) < Len(sealed) /\ r \in 1..(ROUNDS - 1)
        /\ block = trace[n][r + 1]
    BY <1>1, <2>1 DEF DecodingInv
  <2>3. /\ trace[n][r] \in Block /\ Schedule[r] \in Block
        /\ trace[n][r + 1] = Round(trace[n][r], Schedule[r])
    BY <1>3, <1>7, <2>2 DEF Traced
  <2>4. block' = trace[n][r]
    BY <1>6, <2>1, <2>2, <2>3, RoundUndone
  <2>5. r' \in 0..(ROUNDS - 1) /\ r' + 1 = r
    BY <2>1, <2>2
  <2>6. block' = trace'[(Len(opened) + 1)'][(r + 1)']
    BY <1>1, <2>1, <2>4, <2>5
  <2>7. prev' = Previous(Len(opened) + 1)'
    BY <1>2, <1>6, <2>1
  <2>8. DecodingInv'
    BY <1>1, <1>3, <2>1, <2>2, <2>5, <2>6, <2>7 DEF DecodingInv
  <2>9. RoundTrip'
    BY <1>1, <2>1 DEF RoundTrip
  <2> QED BY <1>4, <1>5, <2>8, <2>9
<1>10. CASE EndDecrypt
  <2>1. /\ pc = "round" /\ pc' = "next" /\ r < 1 /\ opened' = Append(opened, block') /\ prev' = sealed[n]
        /\ block' = round_xor_with_key(round_xor_with_key(block, Schedule[0]), Previous(n))
    BY <1>6, <1>10 DEF EndDecrypt, ChainDecrypted
  <2>2. Len(opened) < Len(sealed) /\ r = 0 /\ block = trace[n][1]
    BY <1>1, <2>1 DEF DecodingInv
  <2>3. block = round_xor_with_key(round_xor_with_key(call.message[n], Previous(n)), Schedule[0])
    BY <1>7, <2>2 DEF Traced
  <2>4. call.message[n] \in Block /\ Previous(n) \in Block /\ Schedule[0] \in Block
    BY <1>3, <1>6, <1>7, <2>2 DEF TypeOK
  <2>5. round_xor_with_key(call.message[n], Previous(n)) \in Block
    BY <2>4, KeyUndone
  <2>6. block' = call.message[n]
    BY <2>1, <2>3, <2>4, <2>5, KeyUndone
  <2>7. block' \in Block
    BY <2>4, <2>6
  <2>8. /\ Len(opened') = n /\ opened'[n] = call.message[n]
        /\ \A m \in 1..Len(opened) : opened'[m] = opened[m]
    BY <1>3, <2>1, <2>6, <2>7
  <2>9. RoundTrip'
    <3> SUFFICES ASSUME NEW m \in 1..Len(opened')
                 PROVE  opened'[m] = call.message[m]
      BY <1>1 DEF RoundTrip
    <3>1. m = n \/ m \in 1..Len(opened)
      BY <1>3, <2>8
    <3> QED BY <2>8, <3>1 DEF RoundTrip
  <2>10. prev' = Previous(Len(opened) + 1)'
    <3>1. \A m : m # 1 => Previous(m)' = sealed[m - 1]
      BY <1>1 DEF Previous
    <3>2. (Len(opened) + 1)' # 1 /\ (Len(opened) + 1)' - 1 = n
      BY <1>3, <2>8
    <3> QED BY <2>1, <3>1, <3>2
  <2>11. DecodingInv'
    BY <1>1, <1>3, <2>1, <2>2, <2>8, <2>10 DEF DecodingInv
  <2> QED BY <1>4, <1>5, <2>9, <2>11
<1> QED BY <1>8, <1>9, <1>10

LEMMA StepUndo ==
  ASSUME ~ InPlace
  PROVE  UndoInv /\ [Next]_vars => UndoInv'
<1> SUFFICES ASSUME UndoInv, [Next]_vars PROVE UndoInv'
  OBVIOUS
<1>1. TypeOK'
  BY StepType DEF UndoInv
<1> QED BY <1>1, ProcessUndo, EncodeUndo, DecodeUndo DEF Next

\* Decryption gives back every block that was encrypted, however many rounds and
\* blocks there are, when it writes to another buffer than it reads.
THEOREM EncryptionUndone == InPlace = FALSE /\ Spec => []RoundTrip
<1> SUFFICES ASSUME InPlace = FALSE
             PROVE  Spec => []RoundTrip
  OBVIOUS
<1>1. UndoInv => RoundTrip
  BY DEF UndoInv
<1>2. UndoInv /\ [Next]_vars => UndoInv'
  BY StepUndo
<1> QED BY InitUndo, <1>1, <1>2, PTL DEF Spec

\* The rounds of decrypt_block go back through the states of encrypt_block, one by one.
THEOREM RoundsGoBack == InPlace = FALSE /\ Spec => []RoundsUndone
<1> SUFFICES ASSUME InPlace = FALSE
             PROVE  Spec => []RoundsUndone
  OBVIOUS
<1>1. UndoInv => RoundsUndone
  BY DEF UndoInv, DecodingInv, RoundsUndone
<1>2. UndoInv /\ [Next]_vars => UndoInv'
  BY StepUndo
<1> QED BY InitUndo, <1>1, <1>2, PTL DEF Spec

-----------------------------------------------------------------------------
(* Chaining                                                                *)

\* Two blocks that were encoded alike began alike, and so does the one that is
\* encoded now, when it meets one of them at the same round.
BranchInv ==
  /\ \A m, n \in 1..Len(sealed) : sealed[m] = sealed[n] => trace[m][1] = trace[n][1]
  /\ pc = "round" /\ ~ decoding =>
       \A n \in 1..Len(sealed) : trace[n][r] = block => trace[n][1] = trace[Len(trace)][1]

\* No two blocks are chained to the same block.
ChainsApart ==
  \A m, n \in 1..Len(sealed) : m # n => Previous(m) # Previous(n)

LEMMA XorCancel ==
  ASSUME NEW a \in Byte, NEW b \in Byte, NEW c \in Byte, Xor(a, b) = Xor(a, c)
  PROVE  b = c
<1>1. \A i : i \in Bits(b) <=> i \in Bits(c)
  BY BitOfXor
<1> QED BY <1>1, SameBits

\* The first of the rounds takes different blocks to different blocks.
LEMMA BeginsApart ==
  ASSUME NEW b \in Block, NEW p \in Block, NEW q \in Block, NEW k \in Block,
         round_xor_with_key(round_xor_with_key(b, p), k)
           = round_xor_with_key(round_xor_with_key(b, q), k)
  PROVE  p = q
<1>1. round_xor_with_key(b, p) \in Block /\ round_xor_with_key(b, q) \in Block
  BY KeyUndone
<1>2. round_xor_with_key(b, p) = round_xor_with_key(b, q)
  BY <1>1, KeyUndone
<1>3. \A c \in Cells : Xor(b[c], p[c]) = Xor(b[c], q[c])
  <2> TAKE c \in Cells
  <2>1. round_xor_with_key(b, p)[c] = round_xor_with_key(b, q)[c]
    BY <1>2
  <2> QED BY <2>1 DEF round_xor_with_key
<1>4. \A c \in Cells : p[c] = q[c]
  BY <1>3, BlockCell, XorCancel
<1> QED BY <1>4 DEF Block

LEMMA RoundsApart ==
  ASSUME initialized, NEW a \in Block, NEW b \in Block, NEW k \in Block
  PROVE  /\ Round(a, k) = Round(b, k) => a = b
         /\ LastRound(a, k) = LastRound(b, k) => a = b
<1>1. ASSUME Round(a, k) = Round(b, k) PROVE a = b
  <2> DEFINE undo(x) == round_apply_inv_sbox(round_inv_shift_rows(
                          round_inv_mix(round_xor_with_key(x, k), TRUE)))
  <2>1. undo(Round(a, k)) = a /\ undo(Round(b, k)) = b
    BY RoundUndone
  <2> QED BY <1>1, <2>1
<1>2. ASSUME LastRound(a, k) = LastRound(b, k) PROVE a = b
  <2> DEFINE undo(x) == round_apply_inv_sbox(round_inv_shift_rows(round_xor_with_key(x, k)))
  <2>1. undo(LastRound(a, k)) = a /\ undo(LastRound(b, k)) = b
    BY LastRoundUndone
  <2> QED BY <1>2, <2>1
<1> QED BY <1>1, <1>2

\* A step of the encoding that meets an earlier block met it one round before.
LEMMA EncodeBranch ==
  ASSUME UndoInv, TypeOK', BranchInv, EncryptRound \/ EndEncrypt
  PROVE  BranchInv'
<1>1. /\ pc = "round" /\ ~ decoding /\ decoding' = decoding /\ Len(sealed) \in Nat
      /\ Len(trace) = Len(sealed) + 1 /\ trace \in Seq(Traces)
      /\ r \in 1..ROUNDS /\ ROUNDS \in Nat /\ initialized
      /\ round_keys = Schedule /\ Schedule \in [0..ROUNDS -> Block]
      /\ Traced(Len(trace), r) /\ block = trace[Len(trace)][r] /\ block \in Block
      /\ \A n \in 1..Len(sealed) : Complete(n)
  BY Sizes
  DEF EncryptRound, EndEncrypt, UndoInv, EncodedInv, EncodingInv, TypeOK
<1>2. ASSUME NEW n \in 1..Len(sealed)
      PROVE  /\ trace[n] \in [1..ROUNDS -> Block]
             /\ \A k \in 1..(ROUNDS - 1) : trace[n][k + 1] = Round(trace[n][k], Schedule[k])
             /\ sealed[n] = LastRound(trace[n][ROUNDS], Schedule[ROUNDS])
  BY <1>1 DEF Complete, Traced
<1>3. CASE EncryptRound
  <2>1. /\ r < ROUNDS /\ block' = Round(block, round_keys[r]) /\ r' = r + 1
        /\ sealed' = sealed /\ pc' = pc
        /\ trace' = [trace EXCEPT ![Len(trace)] =
                       [k \in 1..r' |-> IF k = r' THEN block' ELSE @[k]]]
    BY <1>1, <1>3 DEF EncryptRound, FullRound, UseTables, Round
  <2>2. Len(trace) \in DOMAIN trace /\ \A n \in 1..Len(sealed) : n # Len(trace)
    BY <1>1
  <2>3. Len(trace') = Len(trace) /\ \A n \in 1..Len(sealed) : trace'[n] = trace[n]
    BY <1>1, <2>1, <2>2
  <2>4. trace'[Len(trace)][1] = trace[Len(trace)][1]
    <3>1. trace'[Len(trace)] = [k \in 1..r' |-> IF k = r' THEN block' ELSE trace[Len(trace)][k]]
      BY <2>1, <2>2
    <3>2. 1 \in 1..r' /\ 1 # r'
      BY <1>1, <2>1
    <3> QED BY <3>1, <3>2
  <2>5. ASSUME NEW n \in 1..Len(sealed), trace'[n][r'] = block'
        PROVE  trace'[n][1] = trace'[Len(trace')][1]
    <3>1. r \in 1..(ROUNDS - 1) /\ r \in 0..ROUNDS
      BY <1>1, <2>1
    <3>2. Round(trace[n][r], Schedule[r]) = Round(block, Schedule[r])
      BY <1>1, <1>2, <2>1, <2>3, <2>5, <3>1
    <3>3. trace[n][r] \in Block /\ Schedule[r] \in Block
      BY <1>1, <1>2, <3>1
    <3>4. trace[n][r] = block
      BY <1>1, <3>2, <3>3, RoundsApart
    <3> QED BY <1>1, <2>3, <2>4, <3>4 DEF BranchInv
  <2>6. \A m, n \in 1..Len(sealed') : sealed'[m] = sealed'[n] => trace'[m][1] = trace'[n][1]
    <3>1. sealed' = sealed
      BY <2>1
    <3> QED BY <2>3, <3>1 DEF BranchInv
  <2> QED BY <2>1, <2>5, <2>6 DEF BranchInv
<1>4. CASE EndEncrypt
  <2>1. /\ r = ROUNDS /\ block' = LastRound(block, Schedule[ROUNDS])
        /\ sealed' = Append(sealed, block') /\ trace' = trace /\ pc' = "next"
    BY <1>1, <1>4 DEF EndEncrypt, FullRound, LastRound
  <2>2. /\ Len(sealed') = Len(sealed) + 1 /\ sealed'[Len(sealed) + 1] = block'
        /\ \A n \in 1..Len(sealed) : sealed'[n] = sealed[n]
    BY <2>1 DEF UndoInv, TypeOK
  <2>3. ASSUME NEW n \in 1..Len(sealed), sealed[n] = block'
        PROVE  trace[n][1] = trace[Len(trace)][1]
    <3>1. ROUNDS \in 1..ROUNDS /\ ROUNDS \in 0..ROUNDS
      BY <1>1
    <3>2. LastRound(trace[n][ROUNDS], Schedule[ROUNDS]) = LastRound(block, Schedule[ROUNDS])
      BY <1>2, <2>1, <2>3
    <3>3. trace[n][ROUNDS] \in Block /\ Schedule[ROUNDS] \in Block
      BY <1>1, <1>2, <3>1
    <3>4. trace[n][r] = block
      BY <1>1, <2>1, <3>2, <3>3, RoundsApart
    <3> QED BY <1>1, <3>4 DEF BranchInv
  <2>4. ASSUME NEW m \in 1..Len(sealed'), NEW n \in 1..Len(sealed'), sealed'[m] = sealed'[n]
        PROVE  trace'[m][1] = trace'[n][1]
    <3>1. /\ m \in 1..Len(sealed) \/ m = Len(trace)
          /\ n \in 1..Len(sealed) \/ n = Len(trace)
      BY <1>1, <2>2
    <3>2. CASE m \in 1..Len(sealed) /\ n \in 1..Len(sealed)
      BY <2>1, <2>2, <2>4, <3>2 DEF BranchInv
    <3>3. CASE m \in 1..Len(sealed) /\ n = Len(trace)
      BY <1>1, <2>1, <2>2, <2>3, <2>4, <3>3
    <3>4. CASE m = Len(trace) /\ n \in 1..Len(sealed)
      BY <1>1, <2>1, <2>2, <2>3, <2>4, <3>4
    <3>5. CASE m = Len(trace) /\ n = Len(trace)
      BY <3>5
    <3> QED BY <3>1, <3>2, <3>3, <3>4, <3>5
  <2> QED BY <2>1, <2>4 DEF BranchInv
<1> QED BY <1>3, <1>4

LEMMA StepBranch ==
  ASSUME ~ InPlace
  PROVE  UndoInv /\ BranchInv /\ [Next]_vars => BranchInv'
<1> SUFFICES ASSUME UndoInv, BranchInv, [Next]_vars PROVE BranchInv'
  OBVIOUS
<1>1. TypeOK'
  BY StepType DEF UndoInv
<1>2. CASE EncryptRound \/ EndEncrypt
  BY <1>1, <1>2, EncodeBranch
<1>3. CASE BeginEncrypt
  <2>1. /\ pc = "next" /\ ~ decoding /\ sealed' = sealed /\ r' = 1
        /\ trace' = Append(trace, [k \in {1} |-> block']) /\ block' = block'
        /\ Len(trace) = Len(sealed) /\ trace \in Seq(Traces)
    BY <1>3 DEF BeginEncrypt, UndoInv, EncodedInv
  <2>2. [k \in {1} |-> block'] \in Traces
    <3>1. block' \in Block /\ 1 \in 1..ROUNDS
      BY <1>1, Sizes DEF TypeOK
    <3>2. [k \in {1} |-> block'] \in [1..1 -> Block]
      BY <3>1
    <3> QED BY <3>1, <3>2 DEF Traces
  <2> DEFINE first == [k \in {1} |-> block']
  <2>3. first[1] = block' /\ first \in Traces /\ trace' = Append(trace, first)
    BY <2>1, <2>2
  <2> HIDE DEF first
  <2>4. /\ \A n \in 1..Len(sealed) : trace'[n] = trace[n]
        /\ trace'[Len(trace')] = first
    BY <2>1, <2>3
  <2> QED BY <2>1, <2>3, <2>4 DEF BranchInv
<1>4. CASE \/ Prepare \/ NewProcess \/ BeginDecrypt \/ DecryptRound \/ EndDecrypt \/ Over
           \/ UNCHANGED vars
  BY <1>4
  DEF Prepare, NewProcess, BeginDecrypt, DecryptRound, EndDecrypt, Over, vars, BranchInv
<1> QED BY <1>2, <1>3, <1>4 DEF Next

\* "identical plaintext blocks produce different ciphertext blocks" (cipher_ops.c:98,
\* readme.md:61), exactly: equal blocks of the message can only be encoded alike
\* where they are chained to the same block, so that as long as no ciphertext block
\* comes up a second time, nor the IV, they never are.
THEOREM ChainingSeparates == InPlace = FALSE /\ Spec => [](ChainsApart => EqualBlocksDiffer)
<1> SUFFICES ASSUME InPlace = FALSE
             PROVE  Spec => [](ChainsApart => EqualBlocksDiffer)
  OBVIOUS
<1>1. Init => BranchInv
  BY DEF Init, BranchInv
<1>2. UndoInv /\ BranchInv => (ChainsApart => EqualBlocksDiffer)
  <2> SUFFICES ASSUME UndoInv, BranchInv, NEW m \in 1..Len(sealed), NEW n \in 1..Len(sealed),
                      call.message[m] = call.message[n], sealed[m] = sealed[n]
               PROVE  Previous(m) = Previous(n)
    BY DEF ChainsApart, EqualBlocksDiffer
  <2>1. trace[m][1] = trace[n][1]
    BY DEF BranchInv
  <2>2. /\ Complete(m) /\ Complete(n) /\ Len(sealed) <= Len(call.message)
        /\ sealed \in Seq(Block) /\ Len(sealed) \in Nat
        /\ call.message \in Seq(Block) /\ call.iv \in Block
        /\ Schedule[0] \in Block
    BY CallTypes, Sizes DEF UndoInv, EncodedInv, TypeOK, Schedule
  <2>3. call.message[m] \in Block /\ Previous(m) \in Block /\ Previous(n) \in Block
    <3>1. m \in 1..Len(call.message)
      BY <2>2, CallTypes DEF UndoInv
    <3>2. \A k \in 1..Len(sealed) : k # 1 => k - 1 \in 1..Len(sealed)
      BY <2>2
    <3> QED BY <2>2, <3>1, <3>2 DEF Previous
  <2>4. round_xor_with_key(round_xor_with_key(call.message[m], Previous(m)), Schedule[0])
          = round_xor_with_key(round_xor_with_key(call.message[m], Previous(n)), Schedule[0])
    BY <2>1, <2>2 DEF Complete, Traced
  <2> QED BY <2>2, <2>3, <2>4, BeginsApart
<1>3. UndoInv /\ BranchInv /\ [Next]_vars => (UndoInv /\ BranchInv)'
  BY StepUndo, StepBranch
<1> QED BY InitUndo, <1>1, <1>2, <1>3, PTL DEF Spec

=============================================================================
