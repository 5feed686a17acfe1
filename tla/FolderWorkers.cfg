SPECIFICATION Spec
CONSTANTS
  Files = {f1, f2, f3}
  None = None
  Slots = 2
  JobCap = 1
  ResultCap = 2
  MaxMatches = 2
  Features = {}
INVARIANT NothingLost
PROPERTY ReturnsComplete
