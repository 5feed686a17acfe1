SPECIFICATION Spec
CONSTANTS
  Files = {f1, f2, f3}
  Script = f1
  None = None
  MaxIncludes = 2
  MaxPasses = 3
CHECK_DEADLOCK FALSE
INVARIANT ActiveIsPending
INVARIANT FirstPassIsRight
PROPERTY LoopIsReal
