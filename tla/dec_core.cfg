\* Every kind of file, the ordinary surroundings.
SPECIFICATION Spec
CONSTANTS
  ByteBase <- ToyByteBase
  BLOCK_SIZE = 2
  SIZE_BYTES = 2
  KDF_SALT_SIZE = 2
  HMAC_SIZE = 4
  STREAM_CHUNK = 4
  Masters <- ToyMasters
  Key <- ToyKey
  Derive <- ToyDerive
  Encipher <- ToyEncipher
  Decipher <- ToyDecipher
  Xor <- ToyXor
  Hmac <- ToyHmac
  Files <- AllFiles
  Master = 1
  OldOutput <- MCOldOutput
  SameFile = FALSE
  Uninitialised <- Zeros
  Env <- OrdinaryEnv
INVARIANTS
  TypeOK
  SuccessMeansOpened
  GenuineOpens
  ClampNeverWraps
  WrittenIsPlaintext
PROPERTIES
  ImplementsOutputFile
