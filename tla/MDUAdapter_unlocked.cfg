SPECIFICATION FairSpec
CONSTANTS
  Workers = {w1, w2}
  Datasets = {d1, d2}
  Direct = {1}
  Versions <- SomeVersions
  Locals <- Declared
  Lists <- SomeLists
  StartLists <- DeclaredFirst
  MaxIds = 2
  MaxChanges = 1
  MaxRestarts = 1
  NoVersion = NoVersion
  NoRecord = NoRecord
  NoJob = NoJob
  w1 = w1
  w2 = w2
  d1 = d1
  d2 = d2
INVARIANTS
  CacheIsMDUs
PROPERTIES
  VerdictIsExact
  EveryRequestIsAnswered
