SPECIFICATION Spec
CONSTANTS
  Bytes = 2
  Bits = 2
  Tables <- AlignedTables
  Addrs <- Address
CHECK_DEADLOCK FALSE
INVARIANTS
  FindsLongestPrefix
