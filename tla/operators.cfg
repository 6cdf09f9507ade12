SPECIFICATION Spec
CONSTANTS
  a = a
  b = b
  Path <- MCPath
  TfPath = b
  Stored = {"cloud", "las", "grid"}
  Ops <- Operator
  Rejects = TRUE
  MaxMeddles = 1
INVARIANTS
  TypeOK
  Delivers
  Fitting
  EndsForAReason
PROPERTIES
  Atomicity
CHECK_DEADLOCK FALSE
