SPECIFICATION Spec
CONSTANTS
  a = a
  b = b
  ipa = ipa
  ipb = ipb
  vrhost = vrhost
  other = other
  VrHost = vrhost
  Unset = Unset
  Missing = Missing
  Malformed = Malformed
  Name <- MCName
  IP <- MCIP
  Host <- MCHost
  Command <- MCCommands
  Files <- MCFiles
  MaxInterfaces = 4
  MaxReplies = 3
INVARIANTS
  TypeOK
  OpensWhenGranted
  PassesOnlyWhenConsistent
  LoadsReceivedTable
PROPERTIES
  InterfacesKeepAddress
