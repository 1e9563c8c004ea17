SPECIFICATION Spec
CONSTANTS
  low = low
  high = high
  p1 = p1
  p2 = p2
  w1 = w1
  w2 = w2
  Keys <- TwoKeys
  Priority <- HighFirst
  Concurrency = 1
  MaxId = 2
  MaxHandle = 2
  Driver = "redis"
  Procs = {p1}
  Workers <- TwoWorkers
  Home <- AllInOne
  MayExpire = FALSE
  MayStall = TRUE
  MayTimeOut = TRUE
  MayCrash = FALSE
SYMMETRY WorkersAlike
INVARIANTS
  TypeOK
  EntryWhole
  OwnerHasEntry
  ActiveWithinConcurrency
PROPERTIES
  CancelsItsOwnQuery
  KeepsPromise
CHECK_DEADLOCK FALSE
