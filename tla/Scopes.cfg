SPECIFICATION Spec
CONSTANTS
  r = r
  name = name
  main = main
  f = f
  g = g
  e1 = e1
  e2 = e2
  Env = {r, e1, e2}
  Root = r
  NoEnv = NoEnv
  Names = {name}
  Procs = {main, f, g}
  Main = main
  Params <- MCParams
  Nodes = {"mVar", "fCompound", "gAssign", "gLoop"}
  NoNode = NoNode
  NodeName <- MCNodeNames
  NodeProc <- MCNodeProc
  NodeKind <- MCNodeKind
  Values = {0, 1}
  Zero = 0
  Combine <- MCCombine
  Undeclared = Undeclared
  ConstError = ConstError
  Ok = Ok
  Features = {}
SYMMETRY Activations
CHECK_DEADLOCK FALSE
INVARIANT TypeOK
INVARIANT CacheCoherent
PROPERTY RefinesLexicalScope
