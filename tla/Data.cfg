SPECIFICATION MCSpec
CONSTANTS
  ArrayFeatures = {}
  Names = {a, b, c}
  None = none
  Elements = {1, 2}
  MaxArray = 3
  MaxStatements = 3
  JsonFeatures = {}
  Files = {f}
  NoFile = nofile
  MaxPath = 2
  MaxCalls = 2
  TextFeatures = {}
  MaxText = 5
  MaxPart = 2
  ValueFeatures = {}
  MaxCases = 3
SYMMETRY MCSymmetry
INVARIANT ArrayCallsMean
INVARIANT FunctionsAgree
INVARIANT SameEitherWay
INVARIANT ChangesMeanWhatTheySay
INVARIANT JsonIsNotLost
PROPERTY OnlyRelativesChange
CHECK_DEADLOCK FALSE
