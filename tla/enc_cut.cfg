\* The input ends early or late: a read error, or another program changes its length.
SPECIFICATION FairSpec
CONSTANTS
  ByteBase <- ToyByteBase
  BLOCK_SIZE = 3
  SIZE_BYTES = 2
  KDF_SALT_SIZE = 2
  HMAC_SIZE = 4
  STREAM_CHUNK = 6
  Masters <- ToyMasters
  Key <- ToyKey
  Derive <- ToyDerive
  Encipher <- ToyEncipher
  Decipher <- ToyDecipher
  Xor <- ToyXor
  Hmac <- ToyHmac
  Inputs <- FewLengths
  Salts <- MCSalts
  Ivs <- OneIv
  Master = 1
  SameFile = FALSE
  Env <- CutEnv
  MaxGrowth = 1
INVARIANTS
  SuccessSealsWhatWasRead
PROPERTIES
  CountsDown
  Termination
