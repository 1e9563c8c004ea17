SPECIFICATION FairSpec
CONSTANTS
  low = low
  high = high
  p1 = p1
  p2 = p2
  w1 = w1
  w2 = w2
  Keys = {low}
  Priority <- Equal
  Concurrency = 1
  MaxId = 2
  MaxHandle = 0
  Driver = "redis"
  Procs = {p1, p2}
  Workers <- TwoWorkers
  Home <- OneEach
  MayExpire = FALSE
  MayStall = FALSE
  MayTimeOut = FALSE
  MayCrash = TRUE
INVARIANTS
  ActiveBelongsToOwner
  LockIsReclaimable
PROPERTIES
  AbandonedIsReclaimed
CHECK_DEADLOCK FALSE
