\* Up to eight bytes in any cut into updates, message after message.
SPECIFICATION Spec
CONSTANTS
  ByteBase = 16
  HASH_BLOCK_SIZE = 4
  LENGTH_FIELD = 2
  FirstState <- ToyFirstState
  Mix <- ToyMix
  Datas <- MCDatas
  Garbage <- MCGarbage
  MaxCount = 8
INVARIANTS
  TypeOK
  ContextIsMessage
PROPERTIES
  ImplementsOneShot
  CountsDown
