SPECIFICATION MCSpec
CONSTANTS
  FileFeatures = {"encode"}
  Paths = {p, q}
  Chunk = 3
  MaxContent = 3
  WatchFeatures = {}
  MaxLines = 3
  MaxCuts = 2
INVARIANT EncodeErrorsAreReported
CHECK_DEADLOCK FALSE
