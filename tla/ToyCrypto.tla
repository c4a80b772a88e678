----------------------------- MODULE ToyCrypto -----------------------------
(***************************************************************************)
(* Small primitives with which TLC evaluates the specifications of the     *)
(* file operations: bytes of four bits, blocks of a few, MACs of four.     *)
(* They satisfy the laws Container assumes and mix their arguments enough  *)
(* for a misplaced block, byte or key to show in the result.               *)
(***************************************************************************)
EXTENDS Integers
LOCAL INSTANCE Bitwise
LOCAL INSTANCE SequencesExt

ToyByteBase == 16

XorTable == [a \in 0..15 |-> [b \in 0..15 |-> a ^^ b]]

ToyXor(a, b) == XorTable[a][b]

ToyMasters == {0, 1}

\* a key is a number and the purpose it was derived for
ToyKey == (0..15) \X {"ENC", "MAC"}

ToyDerive(master, salt, tag) ==
  << (7 * master + 3 * salt[1] + 5 * salt[2]) % 16, tag >>

ToyF(x, k) == (x * x + 5 * k + 3) % 16
ToyG(x, k) == (7 * x + x * x * k + k) % 16

\* A tuple equal to the sequence s: TLC evaluates it once, a function each time.
Evaluated(s) == s \o << >>

\* the first byte is masked by the second, each later byte by the one before
ToyEncipher(key, block) ==
  LET k == key[1]
      b == Evaluated(block)
      c[i \in DOMAIN b] == (b[i] + IF i = 1 THEN ToyF(b[2], k) ELSE ToyG(c[i - 1], k)) % 16
  IN  Evaluated(c)

ToyDecipher(key, block) ==
  LET k == key[1]
      tail == [i \in DOMAIN block \ {1} |-> (block[i] - ToyG(block[i - 1], k)) % 16]
  IN  Evaluated([i \in DOMAIN block |->
                   IF i = 1 THEN (block[1] - ToyF(tail[2], k)) % 16 ELSE tail[i]])

\* a polynomial of the data, its value cut into four digits
ToyHmac(key, data) ==
  LET hash == FoldLeft(LAMBDA h, b : (h * 251 + b + 1) % 65521, 17 * key[1] + 99, data)
      last == (hash * 30011) % 65521
  IN  << last \div 4096, (last \div 256) % 16, (last \div 16) % 16, last % 16 >>

=============================================================================
