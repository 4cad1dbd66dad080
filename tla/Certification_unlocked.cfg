SPECIFICATION Spec
CONSTANTS
  Contents <- AllFour
  Workers = {w1, w2}
  Ids = {d1}
  TextLens = {1}
  MaxRequests = 3
  MaxReplacements = 1
  MaxCrashes = 1
  Absent = Absent
  Blank = Blank
  Garbled = Garbled
  NoJob = NoJob
  w1 = w1
  w2 = w2
  d1 = d1
SYMMETRY Interchangeable
INVARIANTS
  EligibleOnlyByRules
  AuditTrailIsGapless
PROPERTIES
  ImplementsLedger
