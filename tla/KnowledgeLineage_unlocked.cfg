SPECIFICATION Spec
CONSTANTS
  Workers = {w1, w2}
  Packages = {p1, p2, p3, p4}
  Unknown = {p4}
  OldSchema = {p3}
  Parents = {p1, p2}
  TextLens = {1}
  MaxObjects = 3
  MaxCrashes = 1
  Absent = Absent
  Blank = Blank
  Garbled = Garbled
  NoParent = NoParent
  NoJob = NoJob
  w1 = w1
  w2 = w2
  p1 = p1
  p2 = p2
  p3 = p3
  p4 = p4
SYMMETRY Interchangeable
INVARIANTS
  KeysAgree
  SoloAdoptionsSurvive
  ChildIsListed
PROPERTIES
  WalkIsExact
