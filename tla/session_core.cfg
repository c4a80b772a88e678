\* Sequences of commands over two documents at a time, by a user who overwrites nothing.
SPECIFICATION Spec
CONSTANTS
  BASE = 2
  HexChar <- MCHexChar
  Digit <- MCDigit
  LowerHex <- MCLowerHex
  Char <- MCChar
  Code <- MCCode
  KEY_ROOM = 1
  DEFAULT_KEY_SIZE = 1
  NAME_ROOM = 5
  Disks <- MCDisks
  Part <- MCPart
  CommandLines <- MCCommandLines
  RandomKeys <- MCRandomKeys
  Expected <- ActualName
INVARIANTS
  TypeOK
  KeysReopen
  DocumentsSurvive
  OutputBesideInput
