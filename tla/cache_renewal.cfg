SPECIFICATION FairSpec
CONSTANTS
  c1 = c1
  p1 = p1
  p2 = p2
  Calls = {c1}
  Procs = {p1, p2}
  Failing = {"key", "main"}
  MaxData = 2
INVARIANTS
  TypeOK
  OwnEntryMatchesKey
PROPERTIES
  EventuallyFresh
  RequestsEnd
