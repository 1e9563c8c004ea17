SPECIFICATION FairSpec
CONSTANTS
  a = a
  b = b
  Keys <- TwoKeys
  Concurrency = 1
  MaxMessages = 1
  MaxFailures = 1
INVARIANTS
  TypeOK
  HeardBeforeWaiting
  NoPlaceIsLost
PROPERTIES
  AddedIsAnswered
CHECK_DEADLOCK FALSE
