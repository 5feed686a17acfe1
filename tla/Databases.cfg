SPECIFICATION Spec
CONSTANTS
  k1 = k1
  k2 = k2
  k3 = k3
  a = a
  b = b
  Keys = {k1, k2, k3}
  NullKey = NullKey
  Absent = Absent
  Untouched = Untouched
  TableOf <- MCTableOf
  TableOrder <- MCTableOrder
  SourceColumns <- MCColumns
  TargetColumns <- MCColumns
  Values = {1, 2}
  BatchSizes = {1, 2}
  MaxCalls = 1
  MaxForeign = 1
  MaxStatements = 2
  Features = {}
SYMMETRY SameTable
CHECK_DEADLOCK FALSE
INVARIANT AllOrNothing
INVARIANT PartialSyncIsSafe
INVARIANT ReportIsTrue
