SPECIFICATION Spec
CONSTANTS
  low = low
  high = high
  p1 = p1
  p2 = p2
  w1 = w1
  w2 = w2
  Keys <- TwoKeys
  Priority <- HighFirst
  Concurrency = 1
  MaxId = 2
  MaxHandle = 1
  Driver = "local"
  Procs = {p1}
  Workers <- TwoWorkers
  Home <- AllInOne
  MayExpire = TRUE
  MayStall = FALSE
  MayTimeOut = FALSE
  MayCrash = FALSE
SYMMETRY WorkersAlike
INVARIANTS
  ConcurrencyRespected
PROPERTIES
  KeepsPromise
CHECK_DEADLOCK FALSE
