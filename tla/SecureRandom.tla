---------------------------- MODULE SecureRandom ----------------------------
(***************************************************************************)
(* keygen_generate_iv and keygen_random_key (source/core/keygen.c): one    *)
(* call that fills an array from getrandom and, when that falls short,     *)
(* from /dev/urandom (the Linux branch of secure_random), and aborts the   *)
(* process when neither does.                                              *)
(***************************************************************************)
EXTENDS Naturals

CONSTANT Lengths  \* of the arrays the callers pass

ASSUME LengthsPositive == Lengths \subseteq Nat \ {0}

VARIABLES
  pc,          \* where the call is
  len,
  random,      \* for each byte of buf: whether the system has set it
  bytes_read,
  device       \* /dev/urandom is open

vars == << pc, len, random, bytes_read, device >>

Stopped == {"returned", "aborted"}

\* random, after `n' bytes were stored from offset `from' on
Stored(from, n) == [j \in 1..len |-> random[j] \/ j \in (from + 1)..(from + n)]

-----------------------------------------------------------------------------
Init ==
  /\ pc = "getrandom"
  /\ len \in Lengths
  /\ random = [j \in 1..len |-> FALSE]
  /\ bytes_read = 0
  /\ device = FALSE

\* getrandom fails (0) or delivers some of the bytes, or all.
GetRandom ==
  /\ pc = "getrandom"
  /\ \E result \in 0..len :
       /\ random' = Stored(0, result)
       /\ bytes_read' = result
       /\ pc' = IF result = len THEN "returned" ELSE "open"
  /\ UNCHANGED << len, device >>

\* fopen of /dev/urandom
OpenDevice ==
  /\ pc = "open"
  /\ \/ pc' = "fill" /\ device' = TRUE
     \/ pc' = "failed" /\ UNCHANGED device
  /\ UNCHANGED << len, random, bytes_read >>

\* slip: every fread asks for the whole length
FillWholeLength ==
  /\ pc = "fill"
  /\ bytes_read < len
  /\ \E r \in 1..len :
       /\ random' = Stored(bytes_read, r)
       /\ bytes_read' = bytes_read + r
  /\ UNCHANGED << pc, len, device >>

\* slip: each fread stored at the start of the array
FillFromStart ==
  /\ pc = "fill"
  /\ bytes_read < len
  /\ \E r \in 1..(len - bytes_read) :
       /\ random' = Stored(0, r)
       /\ bytes_read' = bytes_read + r
  /\ UNCHANGED << pc, len, device >>

\* slip: after an empty read the device is opened again
FillAgain ==
  /\ pc = "fill"
  /\ bytes_read < len
  /\ \/ /\ \E r \in 1..(len - bytes_read) :
             /\ random' = Stored(bytes_read, r)
             /\ bytes_read' = bytes_read + r
        /\ UNCHANGED << pc, device >>
     \/ /\ pc' = "open"
        /\ device' = FALSE
        /\ UNCHANGED << random, bytes_read >>
  /\ UNCHANGED len

\* one turn of the loop (of both copies of it): fread delivers some bytes, or none
\* and the call fails
Fill ==
  /\ pc = "fill"
  /\ bytes_read < len
  /\ \/ /\ \E r \in 1..(len - bytes_read) :
             /\ random' = Stored(bytes_read, r)
             /\ bytes_read' = bytes_read + r
        /\ UNCHANGED << pc, device >>
     \/ /\ pc' = "failed"
        /\ device' = FALSE
        /\ UNCHANGED << random, bytes_read >>
  /\ UNCHANGED len

EndOfFill ==
  /\ pc = "fill"
  /\ bytes_read >= len
  /\ pc' = "returned"
  /\ device' = FALSE
  /\ UNCHANGED << len, random, bytes_read >>

\* what the callers of secure_random do with -1
Abort ==
  /\ pc = "failed"
  /\ pc' = "aborted"
  /\ UNCHANGED << len, random, bytes_read, device >>

Call == GetRandom \/ OpenDevice \/ Fill \/ EndOfFill \/ Abort

\* The call is over: nothing happens any more.
Over == pc \in Stopped /\ UNCHANGED vars

Next == Call \/ Over

Spec == Init /\ [][Next]_vars

-----------------------------------------------------------------------------
\* bytes_read stays within the array on the way, too.
TypeOK ==
  /\ pc \in {"getrandom", "open", "fill", "failed"} \cup Stopped
  /\ len \in Lengths
  /\ random \in [1..len -> BOOLEAN]
  /\ bytes_read \in 0..len
  /\ device \in BOOLEAN

\* What cipher.c takes for granted (lines 69 and 90): a salt or an IV that was
\* returned is random to the last byte, whichever of the two sources, in however
\* many parts, has delivered it.
ReturnedIsRandom == pc = "returned" => \A j \in 1..len : random[j]

\* A bound on the steps that the call can still take: one for every byte that is
\* missing, on top of what is done once.
StepsLeft ==
  CASE pc = "getrandom" -> len + 5
    [] pc = "open"      -> (len - bytes_read) + 4
    [] pc = "fill"      -> (len - bytes_read) + 3
    [] pc = "failed"    -> 1
    [] pc \in Stopped   -> 0

\* The loop over /dev/urandom runs out (keygen.c:67 and :80), however little each
\* read delivers: every step brings the call closer to its end.
CountsDown == [][/\ StepsLeft \in Nat
                 /\ StepsLeft' < StepsLeft]_vars

=============================================================================
