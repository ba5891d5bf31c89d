SPECIFICATION FairSpec
CONSTANTS
  Lengths <- MCLengths
  MaxLength = 12
INVARIANTS
  TypeOK
  InStep
  RefusesOnlyLong
PROPERTIES
  EveryCommandDispatched
  ImplementsFeed
