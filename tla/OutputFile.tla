----------------------------- MODULE OutputFile -----------------------------
(***************************************************************************)
(* What a call of cipher_encrypt_file or cipher_decrypt_file promises to   *)
(* who looks at the file at output_path from outside, at any moment. The   *)
(* file stays as it is when there is nothing to write, and until the call  *)
(* knows that there is. Then it is emptied, once, and from there on only   *)
(* grows, always a start of a complete output; 0 is returned when it is    *)
(* complete, and whatever was returned, nothing happens to it afterwards.  *)
(* No chunks, blocks, streams or keys.                                     *)
(***************************************************************************)
EXTENDS Integers, Sequences

CONSTANTS
  Completions(_),  \* what a complete output can be, of the request
  NoResult

VARIABLES
  request,  \* what the call was asked to do; it never changes
  phase,    \* "before" the output is opened, "writing", and "over"
  disk,     \* the content of the file at output_path
  result

StartOf(s, whole) == Len(s) <= Len(whole) /\ SubSeq(whole, 1, Len(s)) = s

\* The file keeps what it has; it may have got more, towards some complete output.
Grown ==
  /\ StartOf(disk, disk')
  /\ \E whole \in Completions(request) : StartOf(disk', whole)

Init == phase = "before" /\ result = NoResult

Refuse ==
  /\ phase = "before" /\ phase' = "over"
  /\ result' \in {NoResult, -1}
  /\ UNCHANGED << request, disk >>

Empty ==
  /\ phase = "before" /\ phase' = "writing"
  /\ Completions(request) # {}
  /\ disk' = << >>
  /\ UNCHANGED << request, result >>

Write ==
  /\ phase = "writing"
  /\ disk' # disk
  /\ Grown
  /\ UNCHANGED << request, phase, result >>

\* an error, or the end of the process, which returns nothing
GiveUp ==
  /\ phase = "writing" /\ phase' = "over"
  /\ result' \in {NoResult, -1}
  /\ Grown
  /\ UNCHANGED request

Complete ==
  /\ phase = "writing" /\ phase' = "over"
  /\ result' = 0
  /\ Grown
  /\ disk' \in Completions(request)
  /\ UNCHANGED request

Next == Refuse \/ Empty \/ Write \/ GiveUp \/ Complete

Spec == Init /\ [][Next]_<< request, phase, disk, result >>

=============================================================================
