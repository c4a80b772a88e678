------------------------------- MODULE MCKey -------------------------------
(***************************************************************************)
(* An instance of KeyDerivation for TLC: hashes of two bytes of four bits, *)
(* hash blocks of three.                                                   *)
(***************************************************************************)
EXTENDS KeyDerivation, ToyCrypto
LOCAL INSTANCE SequencesExt

ToyHash(message) ==
  LET h == FoldLeft(LAMBDA a, b : (a * 251 + b + 1) % 65521, 77, message)
  IN  << (h \div 16) % 16, h % 16 >>

\* passwords shorter than a hash block, as long and longer; keys of no byte up to
\* three blocks, whole and cut; up to four iterations
MCCalls ==
  [password : {<< >>, << 4 >>, << 4, 0 >>, << 1, 2, 3 >>, << 1, 2, 3, 4, 5 >>},
   salt : {<< 2, 11 >>, << 9, 9, 14 >>},
   iterations : 1..4,
   key_len : 0..6]

=============================================================================
