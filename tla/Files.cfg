SPECIFICATION MCSpec
CONSTANTS
  FileFeatures = {}
  Paths = {p, q}
  Chunk = 3
  MaxContent = 3
  WatchFeatures = {}
  MaxLines = 3
  MaxCuts = 2
INVARIANT CallsDoWhatTheySay
INVARIANT ReadersAgree
INVARIANT SourcesSurvive
PROPERTY LinesAreReported
CHECK_DEADLOCK FALSE
