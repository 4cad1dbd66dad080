SPECIFICATION Spec
CONSTANTS
  Contents <- CleanAndGappy
  Workers = {w1}
  Ids = {d1}
  TextLens = {1}
  MaxRequests = 3
  MaxReplacements = 0
  MaxCrashes = 0
  Absent = Absent
  Blank = Blank
  Garbled = Garbled
  NoJob = NoJob
  w1 = w1
  d1 = d1
INVARIANTS
  RejectedHasReasons
