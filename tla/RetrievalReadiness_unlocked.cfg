SPECIFICATION Spec
CONSTANTS
  Workers = {w1, w2}
  Others = {o1, o2}
  Packages = {p1, p2}
  Assessed = {p1}
  Start <- TwoRecords
  StartObjects <- SourcedObject
  MaxMoves = 2
  MaxCrashes = 1
  Absent = Absent
  Blank = Blank
  Garbled = Garbled
  NoJob = NoJob
  w1 = w1
  w2 = w2
  o1 = o1
  o2 = o2
  p1 = p1
  p2 = p2
SYMMETRY Interchangeable
INVARIANTS
  EvidenceIsJustified
  EvidenceMovesForward
  BundleIsOrdered
PROPERTIES
  DiscoveryIsComplete
