SPECIFICATION MCSpec
CONSTANTS
  QueueSize = 1
  MaxRequests = 3
  MaxEvents = 1
  Features = {}
  KumaFeatures = {}
  MaxPings = 1
CHECK_DEADLOCK FALSE
INVARIANT OwnRecordingIsFlagged
PROPERTY ShutdownEnds
PROPERTY RecordingIsStopped
INVARIANT KumaResultsMean
PROPERTY KumaReturns
