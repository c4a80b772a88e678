\* The digest that hash.c makes, compared with the standard's.
SPECIFICATION Spec
CONSTANTS
  ByteBase = 256
  HASH_BLOCK_SIZE = 64
  LENGTH_FIELD = 8
  FirstState <- InitialState
  Mix <- RealMix
  Datas <- MCTexts
  Garbage <- MCZeros
  MaxCount = 3
INVARIANTS
  DigestIsSha256
