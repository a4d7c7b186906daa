SPECIFICATION Spec
CONSTANTS
  Kinds = {"file", "readonly", "vec"}
  Faults = TRUE
  Bytes <- MCBytes
  Chunks <- MCChunks
  Starts <- Backward
  Offsets <- Backward
  MaxLen = 2
  Half = 4
INVARIANT TypeOK
INVARIANT MappingFits
PROPERTY ImplementsMapped
CHECK_DEADLOCK FALSE
