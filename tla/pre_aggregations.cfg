SPECIFICATION FairSpec
CONSTANTS
  Requests = {r1, r2}
  r1 = r1
  r2 = r2
  Contents = {"a", "b"}
  Renewing = {r2}
  Concurrency = 1
  MaxBuilds = 2
  MaxUpsets = 1
INVARIANTS
  TypeOK
  NotBeingLoaded
PROPERTIES
  ReplacedFirst
  EventuallyCurrent
