SPECIFICATION Spec
CONSTANTS
  Every = 3
  MaxInputs = 4
  Args <- MCArgs
INVARIANT
  CsvLabelled
