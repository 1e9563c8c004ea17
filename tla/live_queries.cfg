SPECIFICATION FairSpec
CONSTANTS
  MaxConnections = 2
  MaxData = 2
  MaxFailures = 1
  MaxMessages = 1
  MaxPending = 2
INVARIANTS
  TypeOK
  AuthorizedFirst
PROPERTIES
  LatestArrives
  Settles
  DeadAreForgotten
CHECK_DEADLOCK FALSE
