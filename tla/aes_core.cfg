\* AES-256 in CBC mode at its real size, encoded by one process, decoded by another.
SPECIFICATION Spec
CONSTANTS
  Byte <- MCByte
  ROUNDS = 14
  SBOX <- RealSbox
  Bits <- BitsOf
  Xor <- ByteXor
  Times <- TableTimes
  Expand <- keygen_expand
  HmacOf <- RealHmac
  Keys <- MCKeys
  Ivs <- MCIvs
  Messages <- MCMessages
  InPlace = FALSE
INVARIANTS
  TypeOK
  RoundTrip
  RoundsUndone
  EqualBlocksDiffer
  KnownAnswer
  ShortKeyStretched
