SPECIFICATION Spec
CONSTANTS
  ByteBits = 2
  WordBytes = 2
  Block = 6
  Message <- MCMessage
INVARIANTS
  TypeOK
  DigestOfMessage
  RefusesOnlyLongOrLate
PROPERTIES
  DigestIsFinal
