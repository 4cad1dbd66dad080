SPECIFICATION Spec
CONSTANTS
  Shapes = {10000}
  Columns = {4}
  MaxDefects = 1
INVARIANTS
  CertifiedIsClean
CHECK_DEADLOCK FALSE
