SPECIFICATION Spec
CONSTANTS
  Workers = {w1, w2}
  Identities = {i1}
  Dependents = {o1}
  NoRef = NoRef
  TextLens = {1, 3}
  MaxTxn = 3
  MaxCrashes = 1
  Absent = Absent
  Blank = Blank
  Garbled = Garbled
  NoJob = NoJob
  w1 = w1
  w2 = w2
  i1 = i1
  o1 = o1
SYMMETRY Interchangeable
INVARIANTS
  StoredIsReplayable
  SoloWritesSurvive
PROPERTIES
  MissingWasNeverRegistered
  ImplementsRegistry
