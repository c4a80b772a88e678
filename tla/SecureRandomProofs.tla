------------------------- MODULE SecureRandomProofs -------------------------
(***************************************************************************)
(* What TLAPS proves of SecureRandom, for arrays of every length.          *)
(***************************************************************************)
EXTENDS SecureRandom, TLAPS

\* Nothing is set at first; the first bytes_read bytes are random; the loop is left when that is all.
SetSoFar ==
  /\ pc = "getrandom" => bytes_read = 0
  /\ \A j \in 1..bytes_read : random[j]
  /\ pc = "returned" => bytes_read = len

IInv == TypeOK /\ SetSoFar

LEMMA InitInvariant == Init => IInv
<1> SUFFICES ASSUME Init PROVE IInv
  OBVIOUS
<1>1. len \in Nat /\ random \in [1..len -> BOOLEAN] /\ bytes_read \in 0..len
  BY LengthsPositive DEF Init
<1>2. TypeOK
  BY <1>1 DEF Init, TypeOK
<1>3. SetSoFar
  BY DEF Init, SetSoFar
<1> QED BY <1>2, <1>3 DEF IInv

\* Bytes stored behind the random ones extend them.
LEMMA StoredExtends ==
  ASSUME TypeOK, NEW n \in Nat, bytes_read + n <= len, \A j \in 1..bytes_read : random[j],
         random' = Stored(bytes_read, n), bytes_read' = bytes_read + n, len' = len
  PROVE  /\ random' \in [1..len' -> BOOLEAN]
         /\ bytes_read' \in 0..len'
         /\ \A j \in 1..bytes_read' : random'[j]
<1>1. len \in Nat /\ bytes_read \in Nat
  BY LengthsPositive DEF TypeOK
<1>2. random' \in [1..len' -> BOOLEAN] /\ bytes_read' \in 0..len'
  BY <1>1 DEF Stored
<1>3. ASSUME NEW j \in 1..bytes_read' PROVE random'[j]
  <2>1. j \in 1..len
    BY <1>1
  <2>2. random'[j] = (random[j] \/ j \in (bytes_read + 1)..(bytes_read + n))
    BY <2>1 DEF Stored
  <2>3. j \in 1..bytes_read \/ j \in (bytes_read + 1)..(bytes_read + n)
    BY <1>1
  <2> QED BY <2>2, <2>3
<1> QED BY <1>2, <1>3

LEMMA NextInvariant == IInv /\ [Next]_vars => IInv'
<1> SUFFICES ASSUME IInv, [Next]_vars PROVE IInv'
  OBVIOUS
<1> USE DEF IInv
<1>1. len \in Nat /\ len > 0
  BY LengthsPositive DEF TypeOK
<1>2. CASE GetRandom
  <2>1. PICK result \in 0..len :
          /\ random' = Stored(0, result)
          /\ bytes_read' = result
          /\ pc' = IF result = len THEN "returned" ELSE "open"
    BY <1>2 DEF GetRandom
  <2>2. /\ bytes_read = 0 /\ result \in Nat /\ UNCHANGED << len, device >>
        /\ bytes_read + result <= len /\ bytes_read' = bytes_read + result
        /\ random' = Stored(bytes_read, result)
    BY <1>1, <1>2, <2>1 DEF GetRandom, SetSoFar
  <2>3. /\ random' \in [1..len' -> BOOLEAN] /\ bytes_read' \in 0..len'
        /\ \A j \in 1..bytes_read' : random'[j]
    BY <2>2, StoredExtends DEF SetSoFar
  <2>4. TypeOK'
    BY <2>1, <2>2, <2>3 DEF TypeOK, Stopped
  <2>5. SetSoFar'
    BY <2>1, <2>2, <2>3 DEF SetSoFar
  <2> QED BY <2>4, <2>5
<1>3. CASE OpenDevice \/ EndOfFill \/ Abort
  <2>1. UNCHANGED << len, random, bytes_read >>
    BY <1>3 DEF OpenDevice, EndOfFill, Abort
  <2>2. TypeOK'
    BY <1>3, <2>1 DEF OpenDevice, EndOfFill, Abort, TypeOK, Stopped
  <2>3. pc' # "getrandom" /\ (pc' = "returned" => bytes_read' = len')
    BY <1>1, <1>3, <2>1 DEF OpenDevice, EndOfFill, Abort, TypeOK
  <2> QED BY <2>1, <2>2, <2>3 DEF SetSoFar
<1>4. CASE Fill
  <2>1. CASE /\ \E r \in 1..(len - bytes_read) :
                  random' = Stored(bytes_read, r) /\ bytes_read' = bytes_read + r
             /\ UNCHANGED << pc, device >>
    <3>1. PICK r \in 1..(len - bytes_read) :
            random' = Stored(bytes_read, r) /\ bytes_read' = bytes_read + r
      BY <2>1
    <3>2. r \in Nat /\ bytes_read + r <= len
      BY <1>1 DEF TypeOK
    <3>3. /\ random' \in [1..len' -> BOOLEAN] /\ bytes_read' \in 0..len'
          /\ \A j \in 1..bytes_read' : random'[j]
      BY <1>4, <3>1, <3>2, StoredExtends DEF Fill, SetSoFar
    <3>4. TypeOK'
      BY <1>4, <2>1, <3>3 DEF Fill, TypeOK
    <3>5. SetSoFar'
      BY <1>4, <2>1, <3>3 DEF Fill, SetSoFar
    <3> QED BY <3>4, <3>5
  <2>2. CASE pc' = "failed" /\ device' = FALSE /\ UNCHANGED << random, bytes_read >>
    BY <1>4, <2>2 DEF Fill, TypeOK, SetSoFar, Stopped
  <2> QED BY <1>4, <2>1, <2>2 DEF Fill
<1>5. CASE Over \/ UNCHANGED vars
  BY <1>5 DEF Over, vars, TypeOK, SetSoFar
<1> QED BY <1>2, <1>3, <1>4, <1>5 DEF Next, Call

-----------------------------------------------------------------------------
\* The array is never overrun: bytes_read, the offset of every store, stays
\* within it, for arrays of every length.
THEOREM TypeCorrect == Spec => []TypeOK
<1>1. IInv => TypeOK
  BY DEF IInv
<1> QED BY InitInvariant, NextInvariant, <1>1, PTL DEF Spec

\* Whatever getrandom and /dev/urandom deliver, a call that returns has set every
\* byte of the array from one of the two.
THEOREM RandomWhenReturned == Spec => []ReturnedIsRandom
<1>1. IInv => ReturnedIsRandom
  BY DEF IInv, SetSoFar, ReturnedIsRandom
<1> QED BY InitInvariant, NextInvariant, <1>1, PTL DEF Spec

\* Every step of the call leaves fewer of them.
LEMMA FewerStepsLeft == TypeOK /\ Call => StepsLeft \in Nat /\ StepsLeft' < StepsLeft
<1> SUFFICES ASSUME TypeOK, Call PROVE StepsLeft \in Nat /\ StepsLeft' < StepsLeft
  OBVIOUS
<1>1. len \in Nat \ {0} /\ bytes_read \in 0..len /\ len' = len
  BY LengthsPositive DEF TypeOK, Call, GetRandom, OpenDevice, Fill, EndOfFill, Abort
<1>2. CASE GetRandom
  <2>1. PICK result \in 0..len :
          bytes_read' = result /\ pc' = IF result = len THEN "returned" ELSE "open"
    BY <1>2 DEF GetRandom
  <2>2. StepsLeft = len + 5
    BY <1>2 DEF GetRandom, StepsLeft, Stopped
  <2>3. StepsLeft' = 0 \/ StepsLeft' = (len - result) + 4
    BY <1>1, <2>1 DEF StepsLeft, Stopped
  <2> QED BY <1>1, <2>2, <2>3
<1>3. CASE OpenDevice
  <2>1. StepsLeft = (len - bytes_read) + 4
    BY <1>3 DEF OpenDevice, StepsLeft, Stopped
  <2>2. StepsLeft' = (len - bytes_read) + 3 \/ StepsLeft' = 1
    BY <1>1, <1>3 DEF OpenDevice, StepsLeft, Stopped
  <2> QED BY <1>1, <2>1, <2>2
<1>4. CASE Fill
  <2>1. StepsLeft = (len - bytes_read) + 3
    BY <1>4 DEF Fill, StepsLeft, Stopped
  <2>2. CASE pc' = "failed"
    <3>1. StepsLeft' = 1
      BY <2>2 DEF StepsLeft, Stopped
    <3>2. bytes_read <= len
      BY <1>1
    <3> QED BY <1>1, <2>1, <3>1, <3>2
  <2>3. CASE \E r \in 1..(len - bytes_read) : bytes_read' = bytes_read + r /\ pc' = pc
    <3>1. PICK r \in 1..(len - bytes_read) : bytes_read' = bytes_read + r /\ pc' = pc
      BY <2>3
    <3>2. StepsLeft' = (len - (bytes_read + r)) + 3
      BY <1>1, <1>4, <3>1 DEF Fill, StepsLeft, Stopped
    <3> QED BY <1>1, <2>1, <3>2
  <2> QED BY <1>4, <2>2, <2>3 DEF Fill
<1>5. CASE EndOfFill \/ Abort
  <2>1. StepsLeft = (len - bytes_read) + 3 \/ StepsLeft = 1
    BY <1>5 DEF EndOfFill, Abort, StepsLeft, Stopped
  <2>2. StepsLeft' = 0
    BY <1>5 DEF EndOfFill, Abort, StepsLeft, Stopped
  <2> QED BY <1>1, <2>1, <2>2
<1> QED BY <1>2, <1>3, <1>4, <1>5 DEF Call

\* The loop over /dev/urandom (keygen.c:67 and :80) runs out, however little each fread
\* delivers and however long the array is.
THEOREM StepsRunOut == Spec => CountsDown
<1>1. IInv => TypeOK
  BY DEF IInv
<1>2. TypeOK /\ [Next]_vars => [/\ StepsLeft \in Nat
                                /\ StepsLeft' < StepsLeft]_vars
  BY FewerStepsLeft DEF Next, Over
<1> QED BY InitInvariant, NextInvariant, <1>1, <1>2, PTL DEF Spec, CountsDown

=============================================================================
