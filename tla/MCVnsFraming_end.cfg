SPECIFICATION FairSpec
CONSTANTS
  Lengths <- MCLengths
  MaxLength = 12
PROPERTIES
  ReadReturnsAtEnd
