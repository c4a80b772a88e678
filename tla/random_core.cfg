\* Every way for getrandom and /dev/urandom to deliver in parts or fail.
SPECIFICATION Spec
CONSTANT Lengths <- MCLengths
INVARIANTS
  TypeOK
  ReturnedIsRandom
PROPERTIES
  CountsDown
