\* The whole call with its ordinary surroundings, byte for byte, and the output file
\* seen from outside at every moment of it.
SPECIFICATION Spec
CONSTANTS
  ByteBase <- ToyByteBase
  BLOCK_SIZE = 2
  SIZE_BYTES = 2
  KDF_SALT_SIZE = 2
  HMAC_SIZE = 4
  STREAM_CHUNK = 5
  Masters <- ToyMasters
  Key <- ToyKey
  Derive <- ToyDerive
  Encipher <- ToyEncipher
  Decipher <- ToyDecipher
  Xor <- ToyXor
  Hmac <- ToyHmac
  Inputs <- MCInputs
  Salts <- MCSalts
  Ivs <- MCIvs
  Master = 1
  SameFile = FALSE
  Env <- OrdinaryEnv
  MaxGrowth = 0
INVARIANTS
  TypeOK
  SuccessMeansSealed
  SuccessIsGenuine
PROPERTIES
  ImplementsOutputFile
