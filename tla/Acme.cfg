SPECIFICATION Spec
CONSTANTS
  Directories = {stage, prod}
  Keys = {key1, key2, key3}
  None = None
  Broken = Broken
  MaxCalls = 3
  MaxCrashes = 1
  Features = {}
CHECK_DEADLOCK FALSE
INVARIANT AccountsReachable
INVARIANT NoRecordLeft
INVARIANT ResultsAreDeserved
PROPERTY CallEnds
