------------------------------ MODULE Session ------------------------------
(***************************************************************************)
(* A user at the shell runs one command after another (main.c, args.c).    *)
(* The calls into the cipher do what EncryptFile and DecryptFile are shown *)
(* to do when reads and writes do not fail: a result of 0 means a complete *)
(* output, a file is opened by its key alone, a refused one leaves the     *)
(* output as it was, and a call that fails later leaves a part, or, killed *)
(* at the very end, the whole. The user runs a command only when the name  *)
(* that is expected of its output is free, and may remove the input of a   *)
(* command that returned 0: what is left must be enough.                   *)
(***************************************************************************)
EXTENDS CommandLine

CONSTANTS
  Disks,           \* sets of the documents' names there may be at the start
  Part,            \* what names are made of
  CommandLines,    \* what the user may type, after the program's name
  RandomKeys,      \* what keygen_random_key can return
  Expected(_, _)   \* the output name the user expects, of name and extension

ASSUME SessionConstants ==
  /\ {".", "enc", "dec"} \subseteq Part
  /\ Disks \subseteq SUBSET Seq(Part)
  /\ RandomKeys \subseteq [1..DEFAULT_KEY_SIZE -> Byte]
  /\ \A line \in CommandLines :
       /\ Len(line) \in Nat
       /\ Len(line) >= 2 => line[2] \in Seq(Part)
       /\ Len(line) >= 3 => line[3] \in Seq(Char)

VARIABLES
  documents,    \* the names of the documents at the start (history)
  files,        \* the files that exist, and what they hold
  pc, args,     \* the command that runs
  key, output_name,
  result,       \* the exit code of the last command that ended
  spent         \* the input of the last command, when it returned 0

memory == << args, key, output_name >>
vars   == << documents, files, pc, memory, result, spent >>

NoResult == 1000
Killed   == 1001

op   == args[1]
name == args[2]
ext  == IF op = "encode" THEN "enc" ELSE "dec"

\* What a file holds: a document under any number of layers of encryption, the
\* outermost last, each with its key and what the user has of it (history): its
\* print and, unless it is random, what was typed. Or no document at all.
NoDocument == [doc |-> << >>, layers |-> << >>]
Document(n) == [doc |-> n, layers |-> << >>]

\* of NoDocument, encoded or decoded, comes none
Seal(content, layer) ==
  IF content = NoDocument THEN content ELSE [content EXCEPT !.layers = Append(@, layer)]
Unseal(content) ==
  IF content = NoDocument THEN content
  ELSE [content EXCEPT !.layers = SubSeq(@, 1, Len(@) - 1)]

Layer == [key |-> key, printed |-> utils_show_key(key),
          typed |-> IF Len(args) > 2 THEN {args[3]} ELSE {}]

Opens(content, k) ==
  content = NoDocument \/ (content.layers # << >> /\ content.layers[Len(content.layers)].key = k)

Put(path, content) ==
  files' = [p \in DOMAIN files \cup {path} |-> IF p = path THEN content ELSE files[p]]

\* The process is gone, and its memory with it.
Exit(code) ==
  /\ pc' = "shell"
  /\ args' = << >> /\ key' = << >> /\ output_name' = << >>
  /\ result' = code
  /\ UNCHANGED documents
  /\ spent' = IF code = 0 THEN {name} ELSE {}

Goto(next) == pc' = next /\ UNCHANGED << documents, result, spent >>

-----------------------------------------------------------------------------
Init ==
  /\ documents \in Disks
  /\ files = [n \in documents |-> Document(n)]
  /\ pc = "shell"   /\ args = << >>
  /\ key = << >>    /\ output_name = << >>
  /\ result = NoResult  /\ spent = {}

\* decode with a key as it was printed
PrintedKeys ==
  {<< "decode", p, files[p].layers[Len(files[p].layers)].printed >> :
     p \in {q \in DOMAIN files : files[q].layers # << >>}}

Careful(line) ==
  Len(line) >= 2 => Expected(line[2], IF line[1] = "encode" THEN "enc" ELSE "dec") \notin DOMAIN files

Enter ==
  /\ pc = "shell"
  /\ \E line \in CommandLines \cup PrintedKeys : Careful(line) /\ args' = line
  /\ pc' = "main"
  /\ result' = NoResult /\ spent' = {}
  /\ UNCHANGED << documents, files, key, output_name >>

Usable ==
  \/ Len(args) = 3 /\ op = "decode"
  \/ Len(args) >= 2 /\ op = "encode"

main ==
  /\ pc = "main"
  /\ IF Usable THEN Goto("measure") /\ UNCHANGED memory ELSE Exit(1)
  /\ UNCHANGED files

\* slip: the result of fopen not looked at
MeasureInputUnchecked ==
  /\ pc = "measure"
  /\ Goto("key")
  /\ UNCHANGED << memory, files >>

\* fopen, ftell: no file, no permission, or nothing in it
MeasureInput ==
  /\ pc = "measure"
  /\ \/ Exit(1)
     \/ name \in DOMAIN files /\ Goto("key") /\ UNCHANGED memory
  /\ UNCHANGED files

\* The key is printed before anything is written. When the array is overrun the
\* process may go on or die.
PrepareKey ==
  /\ pc = "key"
  /\ \/ /\ IF Len(args) > 2
           THEN key' = IF op = "encode" THEN prepare_key(args[3]) ELSE decode_key(args[3])
           ELSE key' \in RandomKeys
        /\ Goto("name")
        /\ UNCHANGED << args, output_name >>
     \/ Len(args) > 2 /\ Overrun(args[3]) /\ Exit(Killed)
  /\ UNCHANGED files

\* make_output_name, whose malloc may fail
NameOutput ==
  /\ pc = "name"
  /\ \/ Exit(1)
     \/ /\ output_name' = make_output_name(name, ext)
        /\ Goto("call")
        /\ UNCHANGED << args, key >>
  /\ UNCHANGED files

\* slip: the result of the call not returned
CallFailsUnnoticed == Exit(0)

CallFails == Exit(-1)

\* cipher_encrypt_file, or cipher_decrypt_file once the MAC is right, empties the
\* output file; or the call fails before.
OpenOutput ==
  /\ pc = "call"
  /\ \/ /\ op = "encode" \/ Opens(files[name], key)
        /\ Put(output_name, NoDocument)
        /\ Goto("writing")
        /\ UNCHANGED memory
     \/ CallFails /\ UNCHANGED files

\* What the command makes of its input.
Made == IF op = "encode" THEN Seal(files[name], Layer) ELSE Unseal(files[name])

WriteOutput ==
  /\ pc = "writing"
  /\ \/ /\ Put(output_name, Made)
        /\ Exit(0)
     \/ CallFails /\ UNCHANGED files

\* The output may be complete by then.
Kill ==
  /\ pc # "shell"
  /\ Exit(Killed)
  /\ \/ UNCHANGED files
     \/ pc = "writing" /\ Put(output_name, Made)

\* The user removes the input of a command that returned 0.
RemoveInput ==
  /\ pc = "shell"
  /\ spent # {}
  /\ files' = [p \in DOMAIN files \ spent |-> files[p]]
  /\ spent' = {}
  /\ UNCHANGED << documents, pc, memory, result >>

Next ==
  \/ Enter \/ main \/ MeasureInput \/ PrepareKey \/ NameOutput
  \/ OpenOutput \/ WriteOutput \/ Kill \/ RemoveInput

Spec == Init /\ [][Next]_vars

-----------------------------------------------------------------------------
Contents == {files[p] : p \in DOMAIN files}

TypeOK ==
  /\ pc \in {"shell", "main", "measure", "key", "name", "call", "writing"}
  /\ result \in {NoResult, Killed, 0, 1, -1}
  /\ key \in Seq(Byte)
  /\ \A p \in spent : p \in DOMAIN files
  /\ pc \in {"measure", "key", "name", "call", "writing"} => Usable
  /\ pc \in {"call", "writing"} => /\ name \in DOMAIN files
                                   /\ output_name = make_output_name(name, ext)

\* Every layer of every file opens with what the user has of its key: the print,
\* taken for hexadecimal digits, and what was typed, under the rules of the other
\* command (args.c:69, args.c:194).
KeysReopen ==
  \A content \in Contents : \A n \in 1..Len(content.layers) :
    LET layer == content.layers[n]
    IN  \A str \in {layer.printed} \cup layer.typed : decode_key(str) = layer.key

\* No document is lost, whatever is encoded, decoded, killed and removed, as long
\* as the output of a command had a name that was free (args.c:148).
DocumentsSurvive ==
  \A n \in documents : \E content \in Contents : content.doc = n

\* The output file is in the directory of the input, for names that fit
\* (args.c:111, "not a directory name with a dot").
OutputBesideInput ==
  pc \in {"call", "writing"} /\ Len(name) <= NAME_ROOM =>
    Directory(output_name) = Directory(name)

=============================================================================
