SPECIFICATION Spec
CONSTANTS
  Workers = {w1, w2}
  Ids = {i1, i2, i3}
  Details = {a}
  Absent = Absent
  Keep = Keep
  NoJob = NoJob
  MaxRequests = 4
  Dimensions = {sdk, gov}
  Statuses = {NotStarted, done}
  NotStarted = NotStarted
  w1 = w1
  w2 = w2
  i1 = i1
  i2 = i2
  i3 = i3
  a = a
  sdk = sdk
  gov = gov
  done = done
SYMMETRY Interchangeable
INVARIANTS
  DanglingWasDeleted
  UndisturbedIsExact
  WalkIsExact
  UnracedRecordIsExact
  RecordsOfRegistered
  SnapshotAddsUp
