------------------------------- MODULE Sha256 -------------------------------
(***************************************************************************)
(* The compression function of source/core/hash.c at its real size. A word *)
(* of 32 bits is the set of the places of its ones; place 0 is the lowest. *)
(***************************************************************************)
EXTENDS Integers, SequencesExt

HASH_ROUNDS == 64

\* the places of the ones in a number of 16 bits
Ones(n) == {i \in 0..15 : (n \div 2^i) % 2 = 1}

\* a word of two halves, which are numbers, and the halves of a word
Word(halves) == {i + 16 : i \in Ones(halves[1])} \cup Ones(halves[2])
High(w) == SumSet({2^(i - 16) : i \in w \cap 16..31})
Low(w)  == SumSet({2^i : i \in w \cap 0..15})

\* slip: the carry between the halves lost
SumUncarried(ws) ==
  Word(<< FoldLeft(LAMBDA n, w : n + High(w), 0, ws) % 2^16,
          FoldLeft(LAMBDA n, w : n + Low(w), 0, ws) % 2^16 >>)

\* the sum of words, modulo 2^32
SumOfWords(ws) ==
  LET low  == FoldLeft(LAMBDA n, w : n + Low(w), 0, ws)
      high == FoldLeft(LAMBDA n, w : n + High(w), low \div 2^16, ws)
  IN  Word(<< high % 2^16, low % 2^16 >>)

XorWords(x, y, z) == SymDiff(SymDiff(x, y), z)

SHR(x, n)    == {i - n : i \in {j \in x : j >= n}}
ROTR(x, n)   == {(i + 32 - n) % 32 : i \in x}
CH(x, y, z)  == (x \cap y) \cup (z \ x)
MAJ(x, y, z) == XorWords(x \cap y, x \cap z, y \cap z)
EP0(x)       == XorWords(ROTR(x, 2), ROTR(x, 13), ROTR(x, 22))
EP1(x)       == XorWords(ROTR(x, 6), ROTR(x, 11), ROTR(x, 25))
SIG0(x)      == XorWords(ROTR(x, 7), ROTR(x, 18), SHR(x, 3))
SIG1(x)      == XorWords(ROTR(x, 17), ROTR(x, 19), SHR(x, 10))

K ==
  << << \h428a, \h2f98 >>, << \h7137, \h4491 >>, << \hb5c0, \hfbcf >>, << \he9b5, \hdba5 >>,
     << \h3956, \hc25b >>, << \h59f1, \h11f1 >>, << \h923f, \h82a4 >>, << \hab1c, \h5ed5 >>,
     << \hd807, \haa98 >>, << \h1283, \h5b01 >>, << \h2431, \h85be >>, << \h550c, \h7dc3 >>,
     << \h72be, \h5d74 >>, << \h80de, \hb1fe >>, << \h9bdc, \h06a7 >>, << \hc19b, \hf174 >>,
     << \he49b, \h69c1 >>, << \hefbe, \h4786 >>, << \h0fc1, \h9dc6 >>, << \h240c, \ha1cc >>,
     << \h2de9, \h2c6f >>, << \h4a74, \h84aa >>, << \h5cb0, \ha9dc >>, << \h76f9, \h88da >>,
     << \h983e, \h5152 >>, << \ha831, \hc66d >>, << \hb003, \h27c8 >>, << \hbf59, \h7fc7 >>,
     << \hc6e0, \h0bf3 >>, << \hd5a7, \h9147 >>, << \h06ca, \h6351 >>, << \h1429, \h2967 >>,
     << \h27b7, \h0a85 >>, << \h2e1b, \h2138 >>, << \h4d2c, \h6dfc >>, << \h5338, \h0d13 >>,
     << \h650a, \h7354 >>, << \h766a, \h0abb >>, << \h81c2, \hc92e >>, << \h9272, \h2c85 >>,
     << \ha2bf, \he8a1 >>, << \ha81a, \h664b >>, << \hc24b, \h8b70 >>, << \hc76c, \h51a3 >>,
     << \hd192, \he819 >>, << \hd699, \h0624 >>, << \hf40e, \h3585 >>, << \h106a, \ha070 >>,
     << \h19a4, \hc116 >>, << \h1e37, \h6c08 >>, << \h2748, \h774c >>, << \h34b0, \hbcb5 >>,
     << \h391c, \h0cb3 >>, << \h4ed8, \haa4a >>, << \h5b9c, \hca4f >>, << \h682e, \h6ff3 >>,
     << \h748f, \h82ee >>, << \h78a5, \h636f >>, << \h84c8, \h7814 >>, << \h8cc7, \h0208 >>,
     << \h90be, \hfffa >>, << \ha450, \h6ceb >>, << \hbef9, \ha3f7 >>, << \hc671, \h78f2 >> >>

KWords == SubSeq([t \in 1..HASH_ROUNDS |-> Word(K[t])], 1, HASH_ROUNDS)

\* what hash_init puts into the state
InitialState ==
  LET halves == << << \h6a09, \he667 >>, << \hbb67, \hae85 >>, << \h3c6e, \hf372 >>, << \ha54f, \hf53a >>,
                   << \h9b05, \h688c >>, << \h1f83, \hd9ab >>, << \h5be0, \hcd19 >>, << \hcbbb, \h9d5d >> >>
  IN  SubSeq([k \in 1..8 |-> Word(halves[k])], 1, 8)

WordSet   == SUBSET (0..31)
State     == [1..8 -> WordSet]
HashBlock == [1..64 -> 0..255]

\* the message schedule: the words of the block, then words made of earlier ones
Schedule(block) ==
  FoldLeft(LAMBDA W, t : Append(W, SumOfWords(<< SIG1(W[t - 2]), W[t - 7], SIG0(W[t - 15]), W[t - 16] >>)),
           [t \in 1..16 |-> Word(<< 256 * block[4 * t - 3] + block[4 * t - 2],
                                    256 * block[4 * t - 1] + block[4 * t] >>)],
           [i \in 1..48 |-> i + 16])

\* one round: s is a, b, c, d, e, f, g, h
Round[s \in State, k \in WordSet, w \in WordSet] ==
  LET T1 == SumOfWords(<< s[8], EP1(s[5]), CH(s[5], s[6], s[7]), k, w >>)
      T2 == SumOfWords(<< EP0(s[1]), MAJ(s[1], s[2], s[3]) >>)
  IN  << SumOfWords(<< T1, T2 >>), s[1], s[2], s[3], SumOfWords(<< s[4], T1 >>), s[5], s[6], s[7] >>

hash_mix[state \in State, block \in HashBlock] ==
  LET W == Schedule(block)
      after[t \in 0..HASH_ROUNDS] == IF t = 0 THEN state ELSE Round[after[t - 1], KWords[t], W[t]]
      last == after[HASH_ROUNDS]
  IN  [k \in 1..8 |-> SumOfWords(<< state[k], last[k] >>)]

\* the bytes of the state, as hash_final gives them out: the highest of a word first
DigestBytes(state) ==
  [k \in 1..32 |-> LET w == state[((k - 1) \div 4) + 1]
                       h == IF k % 4 \in {1, 2} THEN High(w) ELSE Low(w)
                   IN  IF k % 2 = 1 THEN h \div 256 ELSE h % 256]

=============================================================================
