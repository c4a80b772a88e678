------------------------------- MODULE MCSha -------------------------------
(***************************************************************************)
(* HashStream at its real size, with the compression and the initial state *)
(* of the source, beside the standard's.                                   *)
(***************************************************************************)
EXTENDS HashStream, Sha256

RealMix(s, block) == hash_mix[s, block]

\* the text of the standard's example, in one update or two
Abc == << 97, 98, 99 >>
MCTexts == {Abc, << 97 >>, << 98, 99 >>}

MCZeros == {[k \in 1..Size |-> 0]}

\* FIPS 180-4, 5.3.3
FipsState ==
  LET halves == << << \h6a09, \he667 >>, << \hbb67, \hae85 >>, << \h3c6e, \hf372 >>, << \ha54f, \hf53a >>,
                   << \h510e, \h527f >>, << \h9b05, \h688c >>, << \h1f83, \hd9ab >>, << \h5be0, \hcd19 >> >>
  IN  [k \in 1..8 |-> Word(halves[k])]

Fips == INSTANCE MerkleDamgard WITH FirstState <- FipsState, open <- FALSE

\* "initializes sha-256 context with the standard initial hash values"
\* (hash.c:119): the digest of a message is its SHA-256.
DigestIsSha256 ==
  pc = "idle" /\ digest # NoDigest => digest = Fips!HashOf(message)

=============================================================================
