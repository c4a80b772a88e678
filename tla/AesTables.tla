----------------------------- MODULE AesTables -----------------------------
(***************************************************************************)
(* The numbers of AES-256 as source/core has them: the S-box (sbox.c), the *)
(* multiplication the MixColumns tables are filled with (round_ops.c) and  *)
(* the key schedule (keygen.c). AesBlock is about what is done with them.  *)
(***************************************************************************)
EXTENDS Integers, SequencesExt

CONSTANTS
  HmacOf(_, _)  \* hmac_compute of (key, message)

\* A table, with every entry evaluated once: SubSeq makes a tuple of it.
Table(f(_)) == SubSeq([i \in 1..256 |-> f(i - 1)], 1, 256)

\* A byte as the set of its bits, and back.
BitsTable == Table(LAMBDA n : {i \in 0..7 : (n \div 2^i) % 2 = 1})
BitsOf(n) == BitsTable[n + 1]
Number(bits) == SumSet({2^i : i \in bits})

XorTable == Table(LAMBDA a : Table(LAMBDA b : Number(SymDiff(BitsOf(a), BitsOf(b)))))
ByteXor(a, b) == XorTable[a + 1][b + 1]

SboxBytes ==
  <<  99, 124, 119, 123, 242, 107, 111, 197,  48,   1, 103,  43, 254, 215, 171, 118,
     202, 130, 201, 125, 250,  89,  71, 240, 173, 212, 162, 175, 156, 164, 114, 192,
     183, 253, 147,  38,  54,  63, 247, 204,  52, 165, 229, 241, 113, 216,  49,  21,
       4, 199,  35, 195,  24, 150,   5, 154,   7,  18, 128, 226, 235,  39, 178, 117,
       9, 131,  44,  26,  27, 110,  90, 160,  82,  59, 214, 179,  41, 227,  47, 132,
      83, 209,   0, 237,  32, 252, 177,  91, 106, 203, 190,  57,  74,  76,  88, 207,
     208, 239, 170, 251,  67,  77,  51, 133,  69, 249,   2, 127,  80,  60, 159, 168,
      81, 163,  64, 143, 146, 157,  56, 245, 188, 182, 218,  33,  16, 255, 243, 210,
     205,  12,  19, 236,  95, 151,  68,  23, 196, 167, 126,  61, 100,  93,  25, 115,
      96, 129,  79, 220,  34,  42, 144, 136,  70, 238, 184,  20, 222,  94,  11, 219,
     224,  50,  58,  10,  73,   6,  36,  92, 194, 211, 172,  98, 145, 149, 228, 121,
     231, 200,  55, 109, 141, 213,  78, 169, 108,  86, 244, 234, 101, 122, 174,   8,
     186, 120,  37,  46,  28, 166, 180, 198, 232, 221, 116,  31,  75, 189, 139, 138,
     112,  62, 181, 102,  72,   3, 246,  14,  97,  53,  87, 185, 134, 193,  29, 158,
     225, 248, 152,  17, 105, 217, 142, 148, 155,  30, 135, 233, 206,  85,  40, 223,
     140, 161, 137,  13, 191, 230,  66, 104,  65, 153,  45,  15, 176,  84, 187,  22 >>

RealSbox == [x \in 0..255 |-> SboxBytes[x + 1]]

Rcon == << 1, 2, 4, 8, 16, 32, 64, 128, 27, 54, 108, 216, 171, 77 >>

\* x times y in GF(2^8) modulo 0x11b, by shift and add
gf_mul_slow(x, y) ==
  FoldLeft(LAMBDA s, i : [p |-> IF i \in BitsOf(y) THEN ByteXor(s.p, s.a) ELSE s.p,
                          a |-> IF s.a >= 128 THEN ByteXor((2 * s.a) % 256, 27) ELSE 2 * s.a],
           [p |-> 0, a |-> x], << 0, 1, 2, 3, 4, 5, 6, 7 >>).p

-----------------------------------------------------------------------------
\* A 32-bit word is its four bytes, the highest first.
SubWord(word) == [k \in 1..4 |-> RealSbox[word[k]]]
RotWord(word) == Tail(word) \o << Head(word) >>
XorWord(v, w) == [k \in 1..4 |-> ByteXor(v[k], w[k])]

\* "apex-key-expansion-salt-v1", with the zero that ends a string
salt == << 97, 112, 101, 120, 45, 107, 101, 121, 45, 101, 120, 112, 97, 110, 115, 105, 111, 110, 45,
           115, 97, 108, 116, 45, 118, 49, 0 >>

\* slip: the zero taken into the message
SaltWithZero == salt

SaltText == SubSeq(salt, 1, Len(salt) - 1)

\* the first 32 bytes of a key, or a shorter key stretched to 32
key256(key) == IF Len(key) >= 32 THEN SubSeq(key, 1, 32) ELSE HmacOf(key, SaltText)

\* slip: the round constants taken one too late
RoundConstantLate(i) == << Rcon[(i \div 8) + 1], 0, 0, 0 >>

RoundConstant(i) == << Rcon[i \div 8], 0, 0, 0 >>

\* word i of the schedule, after the words 0 .. i - 1
NextWord(W) ==
  LET i    == Len(W)
      temp == W[i]
  IN  XorWord(W[i - 7],
        CASE i % 8 = 0 -> XorWord(SubWord(RotWord(temp)), RoundConstant(i))
          [] i % 8 = 4 -> SubWord(temp)
          [] OTHER     -> temp)

Key256 == [1..32 -> 0..255]

\* the words of the schedule of 32 bytes
ExpandedWords[key \in Key256] ==
  FoldLeft(LAMBDA words, i : Append(words, NextWord(words)),
           [i \in 1..8 |-> SubSeq(key, 4 * i - 3, 4 * i)], [i \in 1..52 |-> i])

\* the round keys 0 .. 14 of a key: each is four words, as 16 bytes
keygen_expand(key) ==
  LET W == ExpandedWords[key256(key)]
  IN  [r \in 0..14 |-> [c \in 0..15 |-> W[4 * r + (c \div 4) + 1][(c % 4) + 1]]]

=============================================================================
