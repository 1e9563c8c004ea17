SPECIFICATION FairSpec
CONSTANTS
  MaxKey = 2
  Imports <- ThreeImports
  Loaded = {"loaded"}
  KeysOf <- WideAndNarrow
  SplitThreshold = 1
  MaxPartitions = 3
  MaxChunks = 4
  MaxFailures = 1
  QueryTimeout = 1
  NotUsedTimeout = 2
INVARIANTS
  TypeOK
  EachRowIsRead
  FilesAreKept
PROPERTIES
  ChunksMoveOn
CHECK_DEADLOCK FALSE
