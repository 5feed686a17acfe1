-------------------------------- MODULE MCScopes --------------------------------
(***************************************************************************)
(* Scopes on one variable name, a top level and two procedures that may    *)
(* call themselves and each other.  The nodes named here are the ones the  *)
(* script contains.                                                        *)
(***************************************************************************)
EXTENDS Scopes, TLC

CONSTANTS r, name, main, f, g, e1, e2

MCNodeNames == [n \in Nodes |-> name]

\* The nodes of f start with f, the ones of g with g, of the top level with m.
MCNodeProc ==
  [n \in Nodes |->
     CASE n \in {"fVar", "fAssign", "fCompound", "fLoop"} -> f
       [] n \in {"gVar", "gAssign", "gCompound", "gLoop"} -> g
       [] n \in {"mVar", "mAssign", "mCompound", "mLoop"} -> main]

MCNodeKind ==
  [n \in Nodes |->
     CASE n \in {"fVar", "gVar", "mVar"}                -> "Var"
       [] n \in {"fAssign", "gAssign", "mAssign"}       -> "Assign"
       [] n \in {"fCompound", "gCompound", "mCompound"} -> "Compound"
       [] n \in {"fLoop", "gLoop", "mLoop"}             -> "Loop"]

\* f has a parameter, g works on the variable of the top level.
MCParams == [p \in Procs |-> IF p = f THEN {name} ELSE {}]

\* The larger operand: what a compound assignment yields depends on both
\* operands, and not every value can be reached from every left operand.
MCCombine == [lr \in Values \X Values |-> IF lr[1] > lr[2] THEN lr[1] ELSE lr[2]]

\* Appending: the result is never the left operand, short of the largest value.
MCAppend ==
  [lr \in Values \X Values |-> IF lr[1] + lr[2] >= 1 THEN 2 ELSE 1]

Activations == Permutations(Env \ {Root})
================================================================================
