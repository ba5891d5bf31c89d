SPECIFICATION Spec
CONSTANTS
  Every = 3
  MaxInputs = 4
  Args <- MCArgs
INVARIANTS
  TypeOK
  PatternsComplete
  SampledEveryTenth
  ReportsFirst
