SPECIFICATION FairSpec
CONSTANTS
  Workers = {w1, w2}
  Packages = {p1}
  TextLens = {1, 2}
  Attributions = {TRUE}
  MaxTxn = 4
  MaxCrashes = 1
  Absent = Absent
  Blank = Blank
  Garbled = Garbled
  NoJob = NoJob
  w1 = w1
  w2 = w2
  p1 = p1
INVARIANTS
  StoredIsReplayable
  SoloTransitionsSurvive
  UndisturbedIsExact
  AuditNeverAlarms
PROPERTIES
  DamagedIsNeverReplaced
  ImplementsLifecycle
  UnreadableOnlyInPassing
