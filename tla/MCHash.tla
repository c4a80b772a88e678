------------------------------- MODULE MCHash -------------------------------
(***************************************************************************)
(* An instance of HashStream for TLC: blocks of four bytes of four bits,   *)
(* the last two for the length.                                            *)
(***************************************************************************)
EXTENDS HashStream
LOCAL INSTANCE SequencesExt

\* depends on the state and on every byte of the block
ToyMix(s, block) == << FoldLeft(LAMBDA h, b : (h * 251 + b + 1) % 65521, s[1], block) >>

ToyFirstState == << 7 >>

\* arguments of five lengths: nothing, less than a block, a block, more than the
\* rest of any block
MCDatas == {[k \in 1..n |-> (5 * k + n) % 16] : n \in {0, 1, 3, 4, 6}}

MCGarbage == {[k \in 1..4 |-> 15], [k \in 1..4 |-> 3 * k]}

=============================================================================
