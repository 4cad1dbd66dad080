SPECIFICATION Spec
CONSTANTS
  Shapes = {0, 1, 3, 40}
  Columns = {0, 2, 4}
  MaxDefects = 3
INVARIANTS
  CertifiedIffEligible
  GatesAreNested
PROPERTIES
  RepairNeverHurts
CHECK_DEADLOCK FALSE
