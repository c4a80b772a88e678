----------------------------- MODULE MCSession -----------------------------
(***************************************************************************)
(* Session with digits of one bit, bytes of two, keys of one byte          *)
(* and names of at most five parts.                                         *)
(***************************************************************************)
EXTENDS Session

MCHexChar  == {"0", "1", "I"}
MCDigit    == [c \in MCHexChar |-> IF c = "0" THEN 0 ELSE 1]
MCLowerHex == [v \in 0..1 |-> IF v = 0 THEN "0" ELSE "1"]
MCChar     == {"0", "1", "I", "z"}
MCCode     == [c \in MCChar |-> IF c = "0" THEN 0 ELSE IF c = "1" THEN 1 ELSE IF c = "I" THEN 2 ELSE 3]

\* one stem with two extensions; no extension in a directory that has one, and
\* nothing else; two names that are longer than what is kept of them
MCDisks == {{<< "a", ".", "c" >>, << "a", ".", "h" >>},
            {<< "d", ".", "v", "/", "b" >>, << ".", "p" >>},
            {<< "d", "/", "e", "/", "f", ".", "t" >>, << "d", "/", "e", "/", "f", "g" >>}}

\* nothing; digits in both cases, too many of them, an odd number of them; too
\* much text
MCArguments == {<< >>, << "0", "I" >>, << "0", "1", "1", "0" >>, << "1" >>, << "z", "0" >>}

MCPart == {"/", ".", "enc", "dec", "a", "b", "c", "d", "e", "f", "g", "h", "p", "t", "v"}

AllNames == UNION MCDisks \cup {make_output_name(n, e) : n \in UNION MCDisks, e \in {"enc", "dec"}}

MCCommandLines ==
  {<< >>, << "encode" >>, << "list", << "a", ".", "c" >> >>, << "decode", << "a", ".", "c" >> >>}
    \cup {<< "encode", n >> : n \in AllNames}
    \cup {<< c, n, k >> : c \in {"encode", "decode"}, n \in AllNames, k \in MCArguments}

MCRandomKeys == {<< 2 >>}

\* the name that the code gives, and the one that its comments promise (args.c:127)
ActualName(n, e) == make_output_name(n, e)
DocumentedName(n, e) == n \o << ".", e >>

=============================================================================
