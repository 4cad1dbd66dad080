SPECIFICATION Spec
CONSTANTS
  Workers = {w1, w2}
  Docs = {d1, d2}
  Categories = {c1}
  Contents = {x, y}
  NoDoc = NoDoc
  NoText = NoText
  NoJob = NoJob
  MaxPublications = 3
  w1 = w1
  w2 = w2
  d1 = d1
  d2 = d2
  c1 = c1
  x = x
  y = y
SYMMETRY Interchangeable
INVARIANTS
  NumbersWithoutGap
  EveryVersionExtends
  LatestIsFound
  PublishedIsKept
  UndisturbedVerifies
  IndexPointsHome
