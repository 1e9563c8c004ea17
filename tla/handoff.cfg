SPECIFICATION FairSpec
CONSTANTS
  c1 = c1
  c2 = c2
  c3 = c3
  Clients <- ThreeClients
  MaxResults = 2
INVARIANTS
  TypeOK
  OneCopy
  NotAnsweredAgain
PROPERTIES
  WaitersAreServed
CHECK_DEADLOCK FALSE
