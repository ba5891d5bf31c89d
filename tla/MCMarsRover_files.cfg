SPECIFICATION Spec
CONSTANTS
  HALF = 4
  Malformed = Malformed
  Files <- MCFiles
INVARIANTS
  TypeOK
  TestIsExact
  EndsWhereRouteLeads
  CodeTellsAll
