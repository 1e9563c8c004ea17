SPECIFICATION Spec
CONSTANTS
  Rows = {"a", "b"}
  Touches <- Overlapping
  MaxWrites = 3
  MaxTimes = 4
  MaxFaults = 2
PROPERTY UploadedIsRestored
CHECK_DEADLOCK FALSE
