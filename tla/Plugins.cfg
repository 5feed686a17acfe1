SPECIFICATION Spec
CONSTANTS
  Plugins = {p, q}
  Optional = {"json"}
  p = p
  q = q
  Builtins = {"file.Copy", "media.Info", "json.Get"}
  Registers <- MCRegisters
  Uses <- MCUses
  Nobody = Nobody
  NoFile = NoFile
  MaxUses = 2
  MaxCalls = 2
  MaxRequests = 1
  MaxCrashes = 1
  Features = {}
CHECK_DEADLOCK FALSE
INVARIANT MemoryReturned
INVARIANT AnswersAreTrue
INVARIANT TargetIsKept
