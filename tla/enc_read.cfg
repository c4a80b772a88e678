\* A read can fail.
SPECIFICATION Spec
CONSTANTS
  ByteBase <- ToyByteBase
  BLOCK_SIZE = 2
  SIZE_BYTES = 2
  KDF_SALT_SIZE = 2
  HMAC_SIZE = 4
  STREAM_CHUNK = 4
  Masters <- ToyMasters
  Key <- ToyKey
  Derive <- ToyDerive
  Encipher <- ToyEncipher
  Decipher <- ToyDecipher
  Xor <- ToyXor
  Hmac <- ToyHmac
  Inputs <- OneOfEachLength
  Salts <- MCSalts
  Ivs <- MCIvs
  Master = 1
  SameFile = FALSE
  Env = {"read"}
  MaxGrowth = 0
INVARIANTS
  SuccessMeansSealed
