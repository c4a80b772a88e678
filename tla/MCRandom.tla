------------------------------ MODULE MCRandom ------------------------------
(***************************************************************************)
(* SecureRandom at its real sizes: salt and IV of 16 bytes, a key of 32.   *)
(***************************************************************************)
EXTENDS SecureRandom

MCLengths == {16, 32}

=============================================================================
