---------------------------- MODULE CommandLine ----------------------------
(***************************************************************************)
(* What the commands make of their arguments (source/cli/args.c): the key  *)
(* from its argument, its print, and the name of the output file.          *)
(***************************************************************************)
EXTENDS Integers, Sequences

CONSTANTS
  BASE,              \* 16: a byte is two digits
  HexChar, Digit,    \* the characters isxdigit accepts, and their values
  LowerHex,          \* the digit "%x" prints for a value
  Char, Code,        \* the characters of an argument, and their bytes
  KEY_ROOM,          \* 64: the size of the array a key is put into
  DEFAULT_KEY_SIZE,  \* 32: the length of a random key
  NAME_ROOM          \* 1019: what is kept of a name

Byte == 0..(BASE * BASE - 1)

ASSUME CommandLineConstants ==
  /\ BASE \in Nat \ {0}
  /\ HexChar \subseteq Char
  /\ Digit \in [HexChar -> 0..(BASE - 1)]
  /\ LowerHex \in [0..(BASE - 1) -> HexChar]
  /\ \A v \in 0..(BASE - 1) : Digit[LowerHex[v]] = v
  /\ Code \in [Char -> Byte]
  /\ KEY_ROOM \in Nat
  /\ DEFAULT_KEY_SIZE \in 0..KEY_ROOM
  /\ NAME_ROOM \in Nat

Lesser(m, n) == IF m < n THEN m ELSE n

-----------------------------------------------------------------------------
is_hex_string(str) == str # << >> /\ \A i \in 1..Len(str) : str[i] \in HexChar

hex_to_bytes(hex) ==
  [i \in 1..(Len(hex) \div 2) |-> BASE * Digit[hex[2 * i - 1]] + Digit[hex[2 * i]]]

IsHexKey(str) == Len(str) % 2 = 0 /\ is_hex_string(str)

\* a password, byte by byte, cut to the array
PasswordBytes(str) == [i \in 1..Lesser(Len(str), KEY_ROOM) |-> Code[str[i]]]

prepare_key(str) == IF IsHexKey(str) THEN hex_to_bytes(str) ELSE PasswordBytes(str)

\* slip: a key typed for decoding is always a password
DecodeKeyAsPassword(str) == PasswordBytes(str)

\* args_decrypt_file has a copy of its own
decode_key(str) == IF IsHexKey(str) THEN hex_to_bytes(str) ELSE PasswordBytes(str)

\* hex_to_bytes has no bound: it writes beyond the array.
Overrun(str) == IsHexKey(str) /\ Len(str) > 2 * KEY_ROOM

\* two digits for a byte
utils_show_key(key) ==
  [i \in 1..(2 * Len(key)) |->
    LowerHex[IF i % 2 = 1 THEN key[(i + 1) \div 2] \div BASE ELSE key[i \div 2] % BASE]]

-----------------------------------------------------------------------------
\* A name is a sequence of "/", "." and other parts; an extension is one part.
\* The directory is what comes before a slash, slashes included.
InDirectory(name) == {i \in 1..Len(name) : \E j \in i..Len(name) : name[j] = "/"}
Directory(name) == [i \in InDirectory(name) |-> name[i]]

\* slip: the last dot, wherever it is
DotsAnywhere(name) == {i \in 1..Len(name) : /\ name[i] = "."
                                            /\ \A j \in (i + 1)..Len(name) : name[j] # "."}

\* the last dot, when it comes after the last slash
Dots(name) == {i \in 1..Len(name) : /\ name[i] = "."
                                    /\ \A j \in (i + 1)..Len(name) : name[j] \notin {".", "/"}}

Stem(name) == IF Dots(name) = {} THEN name
              ELSE SubSeq(name, 1, (CHOOSE i \in Dots(name) : TRUE) - 1)

make_output_name(filename, ext) ==
  Stem(SubSeq(filename, 1, Lesser(Len(filename), NAME_ROOM))) \o << ".", ext >>

=============================================================================
