--------------------------- MODULE SessionProofs ---------------------------
(***************************************************************************)
(* What Session promises, for names and keys of every length, any sets of  *)
(* documents and any command lines.                                        *)
(***************************************************************************)
EXTENDS Session, TLAPS

-----------------------------------------------------------------------------
(* Keys *)

\* A number is its quotient and its remainder.
LEMMA TwoDigits ==
  ASSUME NEW n \in Byte
  PROVE  /\ n \div BASE \in 0..(BASE - 1)
         /\ n % BASE \in 0..(BASE - 1)
         /\ BASE * (n \div BASE) + (n % BASE) = n
<1>1. BASE \in Nat /\ BASE > 0 /\ n \in Nat /\ n < BASE * BASE
  BY CommandLineConstants DEF Byte
<1>2. /\ n \div BASE \in Int
      /\ n % BASE \in 0..(BASE - 1)
      /\ n = BASE * (n \div BASE) + (n % BASE)
  BY <1>1
<1>3. n \div BASE >= 0
  BY <1>1, <1>2
<1>4. n \div BASE < BASE
  <2>1. SUFFICES ASSUME n \div BASE >= BASE PROVE FALSE
    BY <1>1, <1>2
  <2>2. BASE * (n \div BASE) >= BASE * BASE
    BY <1>1, <1>2, <2>1
  <2> QED BY <1>1, <1>2, <2>2
<1> QED BY <1>1, <1>2, <1>3, <1>4

\* What is printed is two digits for each byte.
LEMMA PrintedDigits ==
  ASSUME NEW k \in Seq(Byte)
  PROVE  /\ utils_show_key(k) \in Seq(HexChar)
         /\ Len(utils_show_key(k)) = 2 * Len(k)
         /\ \A i \in 1..Len(k) : /\ Digit[utils_show_key(k)[2 * i - 1]] = k[i] \div BASE
                                 /\ Digit[utils_show_key(k)[2 * i]] = k[i] % BASE
<1> DEFINE D(i) == IF i % 2 = 1 THEN k[(i + 1) \div 2] \div BASE ELSE k[i \div 2] % BASE
<1>1. Len(k) \in Nat /\ 2 * Len(k) \in Nat
  OBVIOUS
<1>2. \A i \in 1..(2 * Len(k)) : D(i) \in 0..(BASE - 1)
  <2> TAKE i \in 1..(2 * Len(k))
  <2>1. CASE i % 2 = 1
    <3>1. (i + 1) \div 2 \in 1..Len(k)
      BY <1>1, <2>1
    <3>2. k[(i + 1) \div 2] \in Byte
      BY <3>1
    <3> QED BY <2>1, <3>2, TwoDigits
  <2>2. CASE i % 2 # 1
    <3>1. i \div 2 \in 1..Len(k)
      BY <1>1, <2>2
    <3>2. k[i \div 2] \in Byte
      BY <3>1
    <3> QED BY <2>2, <3>2, TwoDigits
  <2> QED BY <2>1, <2>2
<1>3. utils_show_key(k) = [i \in 1..(2 * Len(k)) |-> LowerHex[D(i)]]
  BY DEF utils_show_key
<1>4. \A i \in 1..(2 * Len(k)) : LowerHex[D(i)] \in HexChar /\ Digit[LowerHex[D(i)]] = D(i)
  BY <1>2, CommandLineConstants
<1> HIDE DEF D
<1>5. utils_show_key(k) \in Seq(HexChar) /\ Len(utils_show_key(k)) = 2 * Len(k)
  BY <1>1, <1>3, <1>4
<1>6. ASSUME NEW i \in 1..Len(k)
      PROVE  /\ Digit[utils_show_key(k)[2 * i - 1]] = k[i] \div BASE
             /\ Digit[utils_show_key(k)[2 * i]] = k[i] % BASE
  <2>1. 2 * i - 1 \in 1..(2 * Len(k)) /\ 2 * i \in 1..(2 * Len(k))
    BY <1>1
  <2>2. /\ (2 * i - 1) % 2 = 1 /\ ((2 * i - 1) + 1) \div 2 = i
        /\ (2 * i) % 2 = 0 /\ (2 * i) \div 2 = i
    BY <1>1
  <2>3. D(2 * i - 1) = k[i] \div BASE /\ D(2 * i) = k[i] % BASE
    BY <2>2 DEF D
  <2> QED BY <1>3, <1>4, <2>1, <2>3
<1> QED BY <1>5, <1>6

\* A key is read back from its print.
LEMMA PrintReopens ==
  ASSUME NEW k \in Seq(Byte)
  PROVE  decode_key(utils_show_key(k)) = k
<1> DEFINE str == utils_show_key(k)
<1>1. str \in Seq(HexChar) /\ Len(str) = 2 * Len(k) /\ Len(k) \in Nat
  BY PrintedDigits
<1>2. ASSUME NEW i \in 1..Len(k)
      PROVE  BASE * Digit[str[2 * i - 1]] + Digit[str[2 * i]] = k[i]
  <2>1. k[i] \in Byte
    OBVIOUS
  <2> QED BY <2>1, PrintedDigits, TwoDigits
<1> HIDE DEF str
<1>3. CASE Len(k) = 0
  <2>1. str = << >> /\ k = << >>
    BY <1>1, <1>3
  <2>2. PasswordBytes(str) = << >>
    BY <2>1, CommandLineConstants DEF PasswordBytes, Lesser
  <2> QED BY <2>1, <2>2 DEF decode_key, IsHexKey, is_hex_string, str
<1>4. CASE Len(k) > 0
  <2>1. IsHexKey(str)
    BY <1>1, <1>4 DEF IsHexKey, is_hex_string
  <2>2. Len(str) \div 2 = Len(k)
    BY <1>1
  <2>3. hex_to_bytes(str) = [i \in 1..Len(k) |-> k[i]]
    BY <1>2, <2>2 DEF hex_to_bytes
  <2> QED BY <2>1, <2>3 DEF decode_key, str
<1> QED BY <1>1, <1>3, <1>4

\* The two commands make the same bytes of the same argument.
LEMMA PreparedKey ==
  ASSUME NEW str \in Seq(Char)
  PROVE  prepare_key(str) \in Seq(Byte) /\ decode_key(str) = prepare_key(str)
<1>1. Len(str) \in Nat /\ \A i \in 1..Len(str) : str[i] \in Char
  OBVIOUS
<1>2. CASE IsHexKey(str)
  <2>1. \A i \in 1..(Len(str) \div 2) : 2 * i - 1 \in 1..Len(str) /\ 2 * i \in 1..Len(str)
    BY <1>1
  <2>2. \A i \in 1..(Len(str) \div 2) :
          Digit[str[2 * i - 1]] \in 0..(BASE - 1) /\ Digit[str[2 * i]] \in 0..(BASE - 1)
    BY <1>2, <2>1, CommandLineConstants DEF IsHexKey, is_hex_string
  <2>3. ASSUME NEW h \in 0..(BASE - 1), NEW l \in 0..(BASE - 1)
        PROVE  BASE * h + l \in Byte
    <3>1. BASE \in Nat /\ BASE >= 1
      BY CommandLineConstants
    <3>2. BASE * h <= BASE * (BASE - 1)
      BY <3>1
    <3>3. BASE * (BASE - 1) = BASE * BASE - BASE
      BY <3>1
    <3>4. BASE * h \in Nat /\ BASE * BASE \in Nat
      BY <3>1
    <3> QED BY <3>1, <3>2, <3>3, <3>4 DEF Byte
  <2>4. Len(str) \div 2 \in Nat
    BY <1>1
  <2>5. hex_to_bytes(str) \in Seq(Byte)
    BY <2>2, <2>3, <2>4 DEF hex_to_bytes
  <2> QED BY <1>2, <2>5 DEF prepare_key, decode_key
<1>3. CASE ~ IsHexKey(str)
  <2>1. Lesser(Len(str), KEY_ROOM) \in Nat /\ Lesser(Len(str), KEY_ROOM) <= Len(str)
    BY <1>1, CommandLineConstants DEF Lesser
  <2>2. \A i \in 1..Lesser(Len(str), KEY_ROOM) : Code[str[i]] \in Byte
    BY <1>1, <2>1, CommandLineConstants
  <2>3. PasswordBytes(str) \in Seq(Byte)
    BY <2>1, <2>2 DEF PasswordBytes
  <2> QED BY <1>3, <2>3 DEF prepare_key, decode_key
<1> QED BY <1>2, <1>3

-----------------------------------------------------------------------------
(* Names *)

\* The stem of a name is a start of it that has all its slashes.
LEMMA StemIsStart ==
  ASSUME NEW n \in Seq(Part)
  PROVE  \E m \in 0..Len(n) : /\ Stem(n) = SubSeq(n, 1, m)
                              /\ \A j \in (m + 1)..Len(n) : n[j] # "/"
<1>1. Len(n) \in Nat
  OBVIOUS
<1>2. CASE Dots(n) = {}
  <2>1. Stem(n) = SubSeq(n, 1, Len(n))
    BY <1>2 DEF Stem
  <2> QED BY <1>1, <2>1
<1>3. CASE Dots(n) # {}
  <2> DEFINE d == CHOOSE i \in Dots(n) : TRUE
  <2>1. d \in Dots(n)
    BY <1>3
  <2>2. Stem(n) = SubSeq(n, 1, d - 1)
    BY <1>3 DEF Stem
  <2> HIDE DEF d
  <2>3. /\ d \in 1..Len(n)
        /\ n[d] = "."
        /\ \A j \in (d + 1)..Len(n) : n[j] \notin {".", "/"}
    BY <2>1 DEF Dots
  <2>4. d - 1 \in 0..Len(n) /\ \A j \in ((d - 1) + 1)..Len(n) : n[j] # "/"
    BY <1>1, <2>3
  <2> QED BY <2>2, <2>4
<1> QED BY <1>2, <1>3

\* An output name is a name.
LEMMA NameOfOutput ==
  ASSUME NEW n \in Seq(Part), NEW e \in {"enc", "dec"}
  PROVE  make_output_name(n, e) \in Seq(Part)
<1> DEFINE cut == SubSeq(n, 1, Lesser(Len(n), NAME_ROOM))
<1>1. Len(n) \in Nat /\ Lesser(Len(n), NAME_ROOM) \in 0..Len(n)
  BY CommandLineConstants DEF Lesser
<1>2. cut \in Seq(Part) /\ Len(cut) \in Nat
  BY <1>1
<1> HIDE DEF cut
<1>3. PICK m \in 0..Len(cut) : Stem(cut) = SubSeq(cut, 1, m)
  BY <1>2, StemIsStart
<1>4. Stem(cut) \in Seq(Part)
  BY <1>2, <1>3
<1>5. << ".", e >> \in Seq(Part)
  BY SessionConstants
<1> QED BY <1>4, <1>5 DEF make_output_name, cut

\* It is in the directory of the input.
LEMMA SameDirectory ==
  ASSUME NEW n \in Seq(Part), Len(n) <= NAME_ROOM, NEW e \in {"enc", "dec"}
  PROVE  Directory(make_output_name(n, e)) = Directory(n)
<1> DEFINE out == make_output_name(n, e)
<1>1. Len(n) \in Nat /\ n = SubSeq(n, 1, Lesser(Len(n), NAME_ROOM))
  BY CommandLineConstants DEF Lesser
<1>2. PICK m \in 0..Len(n) : /\ Stem(n) = SubSeq(n, 1, m)
                             /\ \A j \in (m + 1)..Len(n) : n[j] # "/"
  BY StemIsStart
<1>3. out = SubSeq(n, 1, m) \o << ".", e >>
  BY <1>1, <1>2 DEF make_output_name
<1>4. /\ Len(out) = m + 2
      /\ \A i \in 1..m : out[i] = n[i]
      /\ out[m + 1] # "/" /\ out[m + 2] # "/"
  BY <1>1, <1>3
<1> HIDE DEF out
<1>5. InDirectory(out) = InDirectory(n) /\ InDirectory(n) \subseteq 1..m
  BY <1>1, <1>2, <1>4 DEF InDirectory
<1>6. \A i \in InDirectory(n) : out[i] = n[i]
  BY <1>4, <1>5
<1> QED BY <1>5, <1>6 DEF Directory, out

-----------------------------------------------------------------------------
(* The invariant *)

\* A layer that opens with what the user has of its key, and what a file holds.
Reopening ==
  {layer \in [key : Seq(Byte), printed : Seq(HexChar), typed : SUBSET Seq(Char)] :
     \A str \in {layer.printed} \cup layer.typed : decode_key(str) = layer.key}
Content == [doc : Seq(Part), layers : Seq(Reopening)]

\* A command line whose names and keys are what they look like.
GoodLine(line) ==
  /\ Len(line) \in Nat
  /\ Len(line) >= 2 => line[2] \in Seq(Part)
  /\ Len(line) >= 3 => line[3] \in Seq(Char)

ArgumentsInv ==
  /\ pc \in {"shell", "main", "measure", "key", "name", "call", "writing"}
  /\ result \in {NoResult, Killed, 0, 1, -1}
  /\ key \in Seq(Byte)
  /\ GoodLine(args)
  /\ pc \in {"measure", "key", "name", "call", "writing"} => Usable
  /\ pc \in {"key", "name", "call", "writing"} => name \in DOMAIN files
  /\ pc \in {"name", "call", "writing"} /\ Len(args) > 2 => key = decode_key(args[3])
  /\ pc \in {"call", "writing"} => output_name = make_output_name(name, ext)
  /\ pc # "shell" => spent = {}
  /\ spent \subseteq DOMAIN files

FilesInv ==
  /\ DOMAIN files \subseteq Seq(Part)
  /\ \A p \in DOMAIN files : files[p] \in Content

\* Until it is opened, the output has a free name; from then on it is not the input.
FreeInv ==
  /\ pc \in {"main", "measure", "key", "name", "call"} /\ Len(args) >= 2 =>
       make_output_name(name, ext) \notin DOMAIN files
  /\ pc = "writing" => name # output_name

\* Each document is in a file, and not only in one that is being written or removed.
KeptInv ==
  /\ \A n \in documents : \E p \in DOMAIN files : files[p].doc = n
  /\ pc = "writing" =>
       \A n \in documents : \E p \in DOMAIN files : p # output_name /\ files[p].doc = n
  /\ \A q \in spent : \E p \in DOMAIN files : p \notin spent /\ files[p].doc = files[q].doc

\* The user looks for the name the output will have.
ExpectsActual == \A n, e : Expected(n, e) = make_output_name(n, e)

-----------------------------------------------------------------------------
LEMMA InitArguments == Init => ArgumentsInv /\ FilesInv
<1> SUFFICES ASSUME Init PROVE ArgumentsInv /\ FilesInv
  OBVIOUS
<1>1. documents \subseteq Seq(Part)
  BY SessionConstants DEF Init
<1>2. \A n \in documents : Document(n) \in Content
  BY <1>1 DEF Document, Content
<1>3. FilesInv
  BY <1>1, <1>2 DEF Init, FilesInv
<1>4. ArgumentsInv
  BY DEF Init, ArgumentsInv, GoodLine
<1> QED BY <1>3, <1>4

\* What is typed, or copied from a print, is a command line.
LEMMA LinesAreGood ==
  ASSUME FilesInv, NEW line \in CommandLines \cup PrintedKeys
  PROVE  GoodLine(line)
<1>1. CASE line \in CommandLines
  BY <1>1, SessionConstants DEF GoodLine
<1>2. CASE line \in PrintedKeys
  <2>1. PICK p \in DOMAIN files :
          /\ files[p].layers # << >>
          /\ line = << "decode", p, files[p].layers[Len(files[p].layers)].printed >>
    BY <1>2 DEF PrintedKeys
  <2>2. p \in Seq(Part) /\ files[p].layers \in Seq(Reopening)
    BY DEF FilesInv, Content
  <2>3. files[p].layers[Len(files[p].layers)] \in Reopening
    BY <2>1, <2>2
  <2>4. files[p].layers[Len(files[p].layers)].printed \in Seq(HexChar)
    BY <2>3 DEF Reopening
  <2>5. Seq(HexChar) \subseteq Seq(Char)
    BY CommandLineConstants
  <2> QED BY <2>1, <2>2, <2>4, <2>5 DEF GoodLine
<1> QED BY <1>1, <1>2

\* The end of a process keeps the invariant when the files are as good as before.
LEMMA ExitKeeps ==
  ASSUME ArgumentsInv, NEW code \in {Killed, 0, 1, -1}, Exit(code),
         code = 0 => name \in DOMAIN files'
  PROVE  ArgumentsInv'
<1>1. /\ pc' = "shell" /\ args' = << >> /\ key' = << >> /\ result' = code
      /\ spent' \subseteq DOMAIN files'
  BY DEF Exit
<1>2. GoodLine(args') /\ key' \in Seq(Byte)
  BY <1>1 DEF GoodLine
<1> QED BY <1>1, <1>2 DEF ArgumentsInv

LEMMA PutKeeps ==
  ASSUME FilesInv, NEW path \in Seq(Part), NEW content \in Content, Put(path, content)
  PROVE  FilesInv'
BY DEF Put, FilesInv

\* The layer that an encoding adds opens with the key's print and with what was typed.
LEMMA LayerReopens ==
  ASSUME ArgumentsInv, pc = "writing"
  PROVE  Layer \in Reopening
<1> DEFINE typed == IF Len(args) > 2 THEN {args[3]} ELSE {}
<1>1. key \in Seq(Byte) /\ utils_show_key(key) \in Seq(HexChar)
  BY PrintedDigits DEF ArgumentsInv
<1>2. typed \in SUBSET Seq(Char) /\ \A str \in typed : decode_key(str) = key
  BY DEF ArgumentsInv, GoodLine
<1>3. decode_key(utils_show_key(key)) = key
  BY <1>1, PrintReopens
<1>4. Layer = [key |-> key, printed |-> utils_show_key(key), typed |-> typed]
  BY DEF Layer
<1> HIDE DEF typed
<1> QED BY <1>1, <1>2, <1>3, <1>4 DEF Reopening

\* What a command writes is content: of a document, or of none.
LEMMA WrittenContent ==
  ASSUME FilesInv, name \in DOMAIN files, Layer \in Reopening
  PROVE  /\ NoDocument \in Content
         /\ Seal(files[name], Layer) \in Content
         /\ Seal(files[name], Layer).doc = files[name].doc
<1>1. NoDocument \in Content
  BY DEF NoDocument, Content
<1>2. files[name] \in Content
  BY DEF FilesInv
<1> DEFINE c == files[name]
<1>3. Append(c.layers, Layer) \in Seq(Reopening)
  BY <1>2 DEF Content
<1> HIDE DEF c
<1>4. [c EXCEPT !.layers = Append(@, Layer)] \in Content /\ [c EXCEPT !.layers = Append(@, Layer)].doc = c.doc
  BY <1>2, <1>3 DEF Content, c
<1> QED BY <1>1, <1>2, <1>4 DEF Seal, c

LEMMA OpenedContent ==
  ASSUME FilesInv, name \in DOMAIN files
  PROVE  Unseal(files[name]) \in Content /\ Unseal(files[name]).doc = files[name].doc
<1>1. files[name] \in Content
  BY DEF FilesInv
<1> DEFINE c == files[name]
<1>2. SubSeq(c.layers, 1, Len(c.layers) - 1) \in Seq(Reopening)
  BY <1>1 DEF Content
<1> HIDE DEF c
<1>3. /\ [c EXCEPT !.layers = SubSeq(@, 1, Len(@) - 1)] \in Content
      /\ [c EXCEPT !.layers = SubSeq(@, 1, Len(@) - 1)].doc = c.doc
  BY <1>1, <1>2 DEF Content, c
<1> QED BY <1>1, <1>3 DEF Unseal, c

\* A complete output is content too, of the input's document.
LEMMA MadeIsContent ==
  ASSUME ArgumentsInv, FilesInv, pc = "writing", Put(output_name, Made)
  PROVE  /\ FilesInv' /\ Made.doc = files[name].doc
         /\ name \in DOMAIN files' /\ output_name \in DOMAIN files' /\ files'[output_name] = Made
         /\ \A p \in DOMAIN files : p # output_name => p \in DOMAIN files' /\ files'[p] = files[p]
<1>1. name \in DOMAIN files /\ output_name = make_output_name(name, ext)
  BY DEF ArgumentsInv
<1>2. name \in Seq(Part) /\ ext \in {"enc", "dec"}
  BY <1>1 DEF FilesInv, ext
<1>3. output_name \in Seq(Part)
  BY <1>1, <1>2, NameOfOutput
<1>4. Layer \in Reopening
  BY LayerReopens
<1>5. Made \in Content /\ Made.doc = files[name].doc
  BY <1>1, <1>4, WrittenContent, OpenedContent DEF Made
<1>6. FilesInv'
  BY <1>3, <1>5, PutKeeps
<1>7. /\ name \in DOMAIN files' /\ output_name \in DOMAIN files' /\ files'[output_name] = Made
      /\ \A p \in DOMAIN files : p # output_name => p \in DOMAIN files' /\ files'[p] = files[p]
  BY <1>1 DEF Put
<1> QED BY <1>5, <1>6, <1>7

LEMMA StepArguments == ArgumentsInv /\ FilesInv /\ [Next]_vars => ArgumentsInv' /\ FilesInv'
<1> SUFFICES ASSUME ArgumentsInv, FilesInv, [Next]_vars PROVE ArgumentsInv' /\ FilesInv'
  OBVIOUS
<1>1. CASE Enter
  <2>1. PICK line \in CommandLines \cup PrintedKeys : args' = line
    BY <1>1 DEF Enter
  <2>2. GoodLine(args')
    BY <2>1, LinesAreGood
  <2> QED BY <1>1, <2>2 DEF Enter, ArgumentsInv, FilesInv
<1>2. CASE main
  <2>1. CASE Usable
    <3>1. Usable'
      BY <1>2, <2>1 DEF main, memory, Usable, op
    <3>2. GoodLine(args')
      BY <1>2, <2>1 DEF main, memory, ArgumentsInv
    <3> QED BY <1>2, <2>1, <3>1, <3>2 DEF main, Goto, memory, ArgumentsInv, FilesInv
  <2>2. CASE ~ Usable
    BY <1>2, <2>2, ExitKeeps DEF main, FilesInv
  <2> QED BY <2>1, <2>2
<1>3. CASE MeasureInput
  <2>1. CASE Exit(1)
    BY <1>3, <2>1, ExitKeeps DEF MeasureInput, FilesInv
  <2>2. CASE name \in DOMAIN files /\ Goto("key") /\ UNCHANGED memory
    <3>1. (Usable <=> Usable') /\ GoodLine(args') /\ name' = name
      BY <2>2 DEF memory, ArgumentsInv, Usable, op, name
    <3> QED BY <1>3, <2>2, <3>1 DEF MeasureInput, Goto, memory, ArgumentsInv, FilesInv
  <2> QED BY <1>3, <2>1, <2>2 DEF MeasureInput
<1>4. CASE PrepareKey
  <2>1. CASE Exit(Killed)
    BY <1>4, <2>1, ExitKeeps DEF PrepareKey, FilesInv, Killed
  <2>2. CASE ~ Exit(Killed)
    <3>1. /\ IF Len(args) > 2
             THEN key' = IF op = "encode" THEN prepare_key(args[3]) ELSE decode_key(args[3])
             ELSE key' \in RandomKeys
          /\ Goto("name")
          /\ UNCHANGED << args, output_name, files >>
      BY <1>4, <2>2 DEF PrepareKey
    <3>2. key' \in Seq(Byte) /\ (Len(args) > 2 => key' = decode_key(args[3]))
      <4>1. CASE Len(args) > 2
        BY <3>1, <4>1, PreparedKey DEF ArgumentsInv, GoodLine
      <4>2. CASE ~ Len(args) > 2
        <5>1. DEFAULT_KEY_SIZE \in Nat
          BY CommandLineConstants
        <5> QED BY <3>1, <4>2, <5>1, SessionConstants
      <4> QED BY <4>1, <4>2
    <3>3. (Usable <=> Usable') /\ GoodLine(args') /\ name' = name
      BY <3>1 DEF ArgumentsInv, Usable, op, name
    <3> QED BY <1>4, <3>1, <3>2, <3>3 DEF PrepareKey, Goto, ArgumentsInv, FilesInv
  <2> QED BY <2>1, <2>2
<1>5. CASE NameOutput
  <2>1. CASE Exit(1)
    BY <1>5, <2>1, ExitKeeps DEF NameOutput, FilesInv
  <2>2. CASE ~ Exit(1)
    <3>1. /\ output_name' = make_output_name(name, ext)
          /\ Goto("call")
          /\ UNCHANGED << args, key, files >>
      BY <1>5, <2>2 DEF NameOutput
    <3>2. (Usable <=> Usable') /\ GoodLine(args') /\ name' = name /\ ext' = ext
      BY <3>1 DEF ArgumentsInv, Usable, op, name, ext
    <3> QED BY <1>5, <3>1, <3>2 DEF NameOutput, Goto, ArgumentsInv, FilesInv
  <2> QED BY <2>1, <2>2
<1>6. CASE OpenOutput \/ WriteOutput
  <2>1. CASE CallFails /\ UNCHANGED files
    BY <2>1, ExitKeeps DEF CallFails, FilesInv
  <2>2. CASE ~ (CallFails /\ UNCHANGED files)
    <3>1. output_name \in Seq(Part) /\ name \in DOMAIN files
      <4>1. /\ name \in DOMAIN files
            /\ output_name = make_output_name(name, ext)
        BY <1>6 DEF OpenOutput, WriteOutput, ArgumentsInv
      <4>2. name \in Seq(Part) /\ ext \in {"enc", "dec"}
        BY <4>1 DEF FilesInv, ext
      <4> QED BY <4>1, <4>2, NameOfOutput
    <3>2. CASE OpenOutput
      <4>1. Put(output_name, NoDocument) /\ Goto("writing") /\ UNCHANGED memory
        BY <2>2, <3>2 DEF OpenOutput
      <4>2. NoDocument \in Content
        BY DEF NoDocument, Content
      <4>3. FilesInv'
        BY <3>1, <4>1, <4>2, PutKeeps
      <4>4. /\ (Usable <=> Usable') /\ GoodLine(args')
            /\ name' = name /\ ext' = ext /\ DOMAIN files \subseteq DOMAIN files'
        BY <4>1 DEF Put, memory, ArgumentsInv, Usable, op, name, ext
      <4> QED BY <3>2, <4>1, <4>3, <4>4 DEF OpenOutput, Goto, memory, ArgumentsInv
    <3>3. CASE WriteOutput
      <4>1. pc = "writing" /\ Put(output_name, Made) /\ Exit(0)
        BY <2>2, <3>3 DEF WriteOutput
      <4> QED BY <4>1, MadeIsContent, ExitKeeps
    <3> QED BY <1>6, <3>2, <3>3
  <2> QED BY <2>1, <2>2
<1>7. CASE Kill
  <2>1. Exit(Killed) /\ Killed # 0
    BY <1>7 DEF Kill, Killed
  <2>2. ArgumentsInv'
    BY <2>1, ExitKeeps
  <2>3. FilesInv'
    BY <1>7, MadeIsContent DEF Kill, FilesInv
  <2> QED BY <2>2, <2>3
<1>8. CASE RemoveInput
  <2>1. files' = [p \in DOMAIN files \ spent |-> files[p]] /\ spent' = {}
    BY <1>8 DEF RemoveInput
  <2>2. FilesInv'
    BY <2>1 DEF FilesInv
  <2> QED BY <1>8, <2>1, <2>2 DEF RemoveInput, memory, ArgumentsInv
<1>9. CASE UNCHANGED vars
  BY <1>9 DEF vars, memory, ArgumentsInv, FilesInv, Usable, op, name, ext
<1> QED
  BY <1>1, <1>2, <1>3, <1>4, <1>5, <1>6, <1>7, <1>8, <1>9 DEF Next

\* The command types, keys and names of a session are right (see Session!TypeOK).
THEOREM TypeCorrect == Spec => []TypeOK
<1>1. ArgumentsInv => TypeOK
  BY DEF ArgumentsInv, TypeOK
<1> QED BY <1>1, InitArguments, StepArguments, PTL DEF Spec

\* Whatever was typed or drawn as a key, of any length, its print opens the file
\* again, and so does the argument itself (prepare_key, args_decrypt_file).
THEOREM KeysAlwaysReopen == Spec => []KeysReopen
<1>1. FilesInv => KeysReopen
  <2> SUFFICES ASSUME FilesInv,
                      NEW content \in Contents, NEW n \in 1..Len(content.layers)
               PROVE  \A str \in {content.layers[n].printed} \cup content.layers[n].typed :
                        decode_key(str) = content.layers[n].key
    BY DEF KeysReopen
  <2>1. content \in Content
    BY DEF Contents, FilesInv
  <2>2. content.layers[n] \in Reopening
    BY <2>1 DEF Content
  <2> QED BY <2>2 DEF Reopening
<1> QED BY <1>1, InitArguments, StepArguments, PTL DEF Spec

\* The output of every command is in the directory of its input, unless the name
\* does not fit (make_output_name).
THEOREM OutputStaysBeside == Spec => []OutputBesideInput
<1>1. ArgumentsInv /\ FilesInv => OutputBesideInput
  <2> SUFFICES ASSUME ArgumentsInv, FilesInv, pc \in {"call", "writing"}, Len(name) <= NAME_ROOM
               PROVE  Directory(output_name) = Directory(name)
    BY DEF OutputBesideInput
  <2>1. output_name = make_output_name(name, ext) /\ name \in Seq(Part) /\ ext \in {"enc", "dec"}
    BY DEF ArgumentsInv, FilesInv, ext
  <2> QED BY <2>1, SameDirectory
<1> QED BY <1>1, InitArguments, StepArguments, PTL DEF Spec

-----------------------------------------------------------------------------
(* No document is lost. *)

LEMMA InitKept == Init => FreeInv /\ KeptInv
BY DEF Init, FreeInv, KeptInv, Document

\* The end of a process that has written nothing since.
LEMMA ExitKeepsFiles ==
  ASSUME KeptInv, NEW code \in {Killed, 1, -1}, Exit(code), UNCHANGED files
  PROVE  FreeInv' /\ KeptInv'
<1>1. pc' = "shell" /\ spent' = {} /\ documents' = documents
  BY DEF Exit, Killed
<1> QED BY <1>1 DEF FreeInv, KeptInv

\* A step of the program before its output is opened.
LEMMA GotoKeepsFiles ==
  ASSUME FreeInv, KeptInv, NEW next \in {"measure", "key", "name", "call"}, Goto(next),
         pc \in {"main", "measure", "key", "name"}, UNCHANGED << args, files >>
  PROVE  FreeInv' /\ KeptInv'
BY DEF Goto, FreeInv, KeptInv, name, ext, op

LEMMA StepKept ==
  ASSUME ExpectsActual, ArgumentsInv, FilesInv, FreeInv, KeptInv, [Next]_vars
  PROVE  FreeInv' /\ KeptInv'
<1>1. CASE Enter
  <2>1. PICK line \in CommandLines \cup PrintedKeys : Careful(line) /\ args' = line
    BY <1>1 DEF Enter
  <2>2. Len(args') >= 2 => make_output_name(name', ext') \notin DOMAIN files
    BY <2>1 DEF Careful, ExpectsActual, name, ext, op
  <2> QED BY <1>1, <2>2 DEF Enter, FreeInv, KeptInv
<1>2. CASE main
  BY <1>2, ExitKeepsFiles, GotoKeepsFiles DEF main, memory
<1>3. CASE MeasureInput
  BY <1>3, ExitKeepsFiles, GotoKeepsFiles DEF MeasureInput, memory
<1>4. CASE PrepareKey
  BY <1>4, ExitKeepsFiles, GotoKeepsFiles DEF PrepareKey
<1>5. CASE NameOutput
  BY <1>5, ExitKeepsFiles, GotoKeepsFiles DEF NameOutput
<1>6. CASE OpenOutput
  <2>1. CASE CallFails /\ UNCHANGED files
    BY <2>1, ExitKeepsFiles DEF CallFails
  <2>2. CASE ~ (CallFails /\ UNCHANGED files)
    <3>1. Put(output_name, NoDocument) /\ Goto("writing") /\ UNCHANGED memory
      BY <1>6, <2>2 DEF OpenOutput
    <3>2. /\ name \in DOMAIN files /\ output_name \notin DOMAIN files
          /\ spent = {} /\ name' = name /\ output_name' = output_name
      BY <1>6, <3>1 DEF OpenOutput, ArgumentsInv, FreeInv, Usable, memory, name
    <3>3. \A p \in DOMAIN files : /\ p \in DOMAIN files' /\ p # output_name
                                  /\ files'[p] = files[p]
      BY <3>1, <3>2 DEF Put
    <3>4. FreeInv'
      BY <3>1, <3>2 DEF Goto, FreeInv
    <3>5. \A n \in documents : \E p \in DOMAIN files' : p # output_name /\ files'[p].doc = n
      BY <3>3 DEF KeptInv
    <3> QED BY <3>1, <3>2, <3>4, <3>5 DEF Goto, KeptInv
  <2> QED BY <2>1, <2>2
<1>7. CASE WriteOutput
  <2>1. CASE CallFails /\ UNCHANGED files
    BY <2>1, ExitKeepsFiles DEF CallFails
  <2>2. CASE ~ (CallFails /\ UNCHANGED files)
    <3>1. pc = "writing" /\ Put(output_name, Made) /\ Exit(0)
      BY <1>7, <2>2 DEF WriteOutput
    <3>2. name \in DOMAIN files /\ name # output_name
      BY <3>1 DEF ArgumentsInv, FreeInv
    <3>3. Made.doc = files[name].doc
      BY <3>1, MadeIsContent
    <3>4. /\ output_name \in DOMAIN files' /\ files'[output_name] = Made
          /\ \A p \in DOMAIN files : p # output_name => p \in DOMAIN files' /\ files'[p] = files[p]
      BY <3>1, MadeIsContent
    <3>5. pc' = "shell" /\ spent' = {name} /\ documents' = documents
      BY <3>1 DEF Exit
    <3>6. \A n \in documents : \E p \in DOMAIN files' : files'[p].doc = n
      BY <1>7, <3>4 DEF WriteOutput, KeptInv
    <3>7. \A q \in spent' : \E p \in DOMAIN files' : p \notin spent' /\ files'[p].doc = files'[q].doc
      BY <3>2, <3>3, <3>4, <3>5
    <3> QED BY <3>5, <3>6, <3>7 DEF FreeInv, KeptInv
  <2> QED BY <2>1, <2>2
<1>8. CASE Kill
  <2>1. CASE UNCHANGED files
    BY <1>8, <2>1, ExitKeepsFiles DEF Kill
  <2>2. CASE pc = "writing" /\ Put(output_name, Made)
    <3>1. pc' = "shell" /\ spent' = {} /\ documents' = documents
      BY <1>8 DEF Kill, Exit, Killed
    <3>2. \A p \in DOMAIN files : p # output_name => p \in DOMAIN files' /\ files'[p] = files[p]
      BY <2>2, MadeIsContent
    <3>3. \A n \in documents : \E p \in DOMAIN files' : files'[p].doc = n
      BY <2>2, <3>2 DEF KeptInv
    <3> QED BY <3>1, <3>3 DEF FreeInv, KeptInv
  <2> QED BY <1>8, <2>1, <2>2 DEF Kill
<1>9. CASE RemoveInput
  <2>1. /\ pc' = "shell" /\ spent' = {} /\ documents' = documents
        /\ files' = [p \in DOMAIN files \ spent |-> files[p]]
    BY <1>9 DEF RemoveInput
  <2>2. ASSUME NEW n \in documents
        PROVE  \E p \in DOMAIN files' : files'[p].doc = n
    <3>1. PICK p \in DOMAIN files : files[p].doc = n
      BY DEF KeptInv
    <3>2. CASE p \notin spent
      BY <2>1, <3>1, <3>2
    <3>3. CASE p \in spent
      <4>1. PICK q \in DOMAIN files : q \notin spent /\ files[q].doc = files[p].doc
        BY <3>3 DEF KeptInv
      <4> QED BY <2>1, <3>1, <4>1
    <3> QED BY <3>2, <3>3
  <2> QED BY <2>1, <2>2 DEF FreeInv, KeptInv
<1>10. CASE UNCHANGED vars
  BY <1>10 DEF vars, memory, FreeInv, KeptInv, name, ext, op
<1> QED
  BY <1>1, <1>2, <1>3, <1>4, <1>5, <1>6, <1>7, <1>8, <1>9, <1>10 DEF Next

\* A user who runs a command only when the name of its output is free, and removes
\* nothing but the inputs of commands that returned 0, loses no document, whatever
\* fails and whenever a command is killed (args_encrypt_file, args_decrypt_file).
THEOREM NoDocumentLost == ExpectsActual /\ Spec => []DocumentsSurvive
<1> SUFFICES ASSUME ExpectsActual PROVE Spec => []DocumentsSurvive
  OBVIOUS
<1> DEFINE IInv == ArgumentsInv /\ FilesInv /\ FreeInv /\ KeptInv
<1>1. Init => IInv
  BY InitArguments, InitKept
<1>2. IInv /\ [Next]_vars => IInv'
  BY StepArguments, StepKept
<1>3. IInv => DocumentsSurvive
  BY DEF KeptInv, DocumentsSurvive, Contents
<1> QED BY <1>1, <1>2, <1>3, PTL DEF Spec

=============================================================================
