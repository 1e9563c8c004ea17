SPECIFICATION FairSpec
CONSTANTS
  Rows = {"a", "b"}
  Touches <- Overlapping
  MaxWrites = 3
  MaxTimes = 5
  MaxFaults = 2
INVARIANTS
  TypeOK
  NotBehindCheckPoint
  SyncedIsHeld
PROPERTIES
  WritesGetUploaded
CHECK_DEADLOCK FALSE
