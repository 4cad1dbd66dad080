SPECIFICATION Spec
CONSTANTS
  Workers = {w1, w2}
  Packages = {p1}
  TextLens = {1}
  Attributions = {TRUE}
  MaxTxn = 4
  MaxCrashes = 0
  Absent = Absent
  Blank = Blank
  Garbled = Garbled
  NoJob = NoJob
  w1 = w1
  w2 = w2
  p1 = p1
SYMMETRY Interchangeable
INVARIANTS
  ArchivedIsTerminal
