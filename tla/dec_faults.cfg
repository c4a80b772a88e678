\* Any library call can fail, the process can be killed, and the input file can be cut short or modified.
SPECIFICATION FairSpec
CONSTANTS
  ByteBase <- ToyByteBase
  BLOCK_SIZE = 2
  SIZE_BYTES = 2
  KDF_SALT_SIZE = 2
  HMAC_SIZE = 4
  STREAM_CHUNK = 4
  Masters <- ToyMasters
  Key <- ToyKey
  Derive <- ToyDerive
  Encipher <- ToyEncipher
  Decipher <- ToyDecipher
  Xor <- ToyXor
  Hmac <- ToyHmac
  Files <- SomeFiles
  Master = 1
  OldOutput <- MCOldOutput
  SameFile = FALSE
  Uninitialised <- Zeros
  Env <- FaultyEnv
INVARIANTS
  RejectedUntouched
  CleanExit
PROPERTIES
  CountsDown
  Termination
