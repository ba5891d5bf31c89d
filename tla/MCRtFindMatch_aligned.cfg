SPECIFICATION Spec
CONSTANTS
  Bytes = 2
  Bits = 2
  Tables <- AlignedTables
  Addrs <- NonZeroAddrs
CHECK_DEADLOCK FALSE
INVARIANTS
  FindsLongestAlignedPrefix
