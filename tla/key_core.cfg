\* PBKDF2 for every length of password and key, block by block.
SPECIFICATION Spec
CONSTANTS
  ByteBase <- ToyByteBase
  HMAC_SIZE = 2
  HMAC_BLOCK_SIZE = 3
  IPAD = 3
  OPAD = 5
  INDEX_FIELD = 2
  SALT_BLOCK = 8
  Xor <- ToyXor
  Hash <- ToyHash
  Calls <- MCCalls
INVARIANTS
  TypeOK
  DerivesPbkdf2
  StaysInKey
