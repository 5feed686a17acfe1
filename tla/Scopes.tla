--------------------------------- MODULE Scopes ---------------------------------
(***************************************************************************)
(* Variables, scopes and calls as evaluator.go implements them.            *)
(*                                                                         *)
(* An Environment maps names to pointers to values; a call runs in a new   *)
(* Environment whose parent is the root.  A node of the syntax tree that   *)
(* names a variable remembers the pointer it found, together with the      *)
(* Environment it searched, and skips the search as long as it is executed *)
(* in that Environment again.  The tree is shared by all activations of a  *)
(* procedure, so a recursive call moves the cache of a node that an outer  *)
(* activation may still be executing.                                      *)
(*                                                                         *)
(* Whether the caches are invisible depends on what the script does.       *)
(* Features names the script habits that matter; a model with Features =   *)
(* {} has every script that avoids them all:                               *)
(*   late_shadow        declares a local name after using the top-level    *)
(*                      variable of that name in the same activation       *)
(*   late_const         declares a name Const after assigning to it in the *)
(*                      same activation                                    *)
(*   const_overwrite    uses the name of a constant as loop variable,      *)
(*                      Catch variable, Public or Dim array                *)
(*   recursive_compound reaches x op= rhs again, in another activation,    *)
(*                      from its own right-hand side                       *)
(*   rhs_changes_left   changes x in the right-hand side of x op= rhs when *)
(*                      that is the only statement of a loop               *)
(***************************************************************************)
EXTENDS Naturals, Sequences

CONSTANTS
  Env, Root, NoEnv,        \* Environments; NoEnv is the nil pointer
  Names, Procs, Main, Params,
  Nodes, NoNode,           \* syntax tree nodes that cache a variable
  NodeName, NodeProc, NodeKind,
  Values, Zero, Combine,   \* Combine abstracts calculateBinaryOp
  Undeclared, ConstError, Ok,
  Features

AllFeatures == {"late_shadow", "late_const", "const_overwrite",
                "recursive_compound", "rhs_changes_left"}

Kinds == {"Var", "Assign", "Compound", "Loop"}

ASSUME ConstantsAssumption ==
  /\ Root \in Env /\ NoEnv \notin Env
  /\ Main \in Procs
  /\ Params \in [Procs -> SUBSET Names]
  /\ NoNode \notin Nodes
  /\ NodeName \in [Nodes -> Names]
  /\ NodeProc \in [Nodes -> Procs]
  /\ NodeKind \in [Nodes -> Kinds]
  /\ Zero \in Values
  /\ Combine \in [Values \X Values -> Values]
  /\ Undeclared \notin Values /\ Undeclared \notin Names
  /\ ConstError \notin Values /\ Ok \notin Values
  /\ Features \subseteq AllFeatures

VARIABLES
  parent,  \* parent[e]: the enclosing Environment of a call's Environment
  ptr,     \* ptr[e][x]: the pointer vars[x] of e, 0 when x is not in the map
  heap,    \* heap[p]: the Value a pointer p refers to
  consts,  \* consts[e]: the names marked constant in e
  cache,   \* cache[n]: cachedLookupEnv, cachedPtr and cachedConst of node n
  stack,   \* the active calls, the running one last
  out      \* the outcome of the last step

vars == <<parent, ptr, heap, consts, cache, stack, out>>

(***************************************************************************)
(* mode says what an activation is doing:                                  *)
(*   bind      receiving its parameters                                    *)
(*   idle      executing statements                                        *)
(*   stmt      evaluating the right-hand side of the compound node; left   *)
(*             is the local variable current                               *)
(*   cond      evaluating the condition of a loop over the node; ptr is    *)
(*             the loop's local pointer                                    *)
(*   rhs       evaluating the right-hand side in that loop; left is not    *)
(*             kept by the code, it is the value the left operand had when *)
(*             the right-hand side was started                             *)
(***************************************************************************)
Modes == {"bind", "idle", "stmt", "cond", "rhs"}

Frame(e, p) == [env |-> e, proc |-> p,
                mode |-> "idle", node |-> NoNode, ptr |-> 0, left |-> Zero]

Depth == Len(stack)
Top   == stack[Depth]
E     == Top.env

SetTop(fr) == stack' = [stack EXCEPT ![Depth] = fr]

Settled(fr) == Frame(fr.env, fr.proc)

NoCache == [env |-> NoEnv, ptr |-> 0, const |-> FALSE]

Init ==
  /\ parent = [e \in Env |-> NoEnv]
  /\ ptr    = [e \in Env |-> [x \in Names |-> 0]]
  /\ heap   = <<>>
  /\ consts = [e \in Env |-> {}]
  /\ cache  = [n \in Nodes |-> NoCache]
  /\ stack  = <<Frame(Root, Main)>>
  /\ out    = Ok

--------------------------------------------------------------------------------
(* The operations of Environment.                                           *)

Declared(e, x) == ptr[e][x] # 0

\* Get, GetRefStrict, Update and IsConst all walk the parent chain.  It has at
\* most two links, because a call's parent is the root.
DefEnv(e, x) ==
  IF Declared(e, x) \/ parent[e] = NoEnv THEN e ELSE parent[e]

Found(e, x) == Declared(DefEnv(e, x), x)

\* What GetRefStrictEnv and the check of defEnv.consts yield, as cached.
Resolved(e, x) ==
  [env |-> e, ptr |-> ptr[DefEnv(e, x)][x], const |-> x \in consts[DefEnv(e, x)]]

\* The loop that compound-assigns through a pointer it resolved before reads
\* the left operand after the right one.
BeingCombined(p) ==
  \E i \in 1 .. Depth - 1 : stack[i].mode = "rhs" /\ stack[i].ptr = p

Write(p, v) ==
  /\ "rhs_changes_left" \in Features \/ ~BeingCombined(p)
  /\ heap' = [heap EXCEPT ![p] = v]

\* A bug of the kind the comments warn of: a declaration that installs a new
\* pointer under a name the map already has.
PutInternal_Reallocates(e, x, v) ==
  /\ heap' = Append(heap, v)
  /\ ptr'  = [ptr EXCEPT ![e][x] = Len(heap) + 1]

\* An existing variable is written through its pointer.
PutInternal(e, x, v) ==
  \/ /\ Declared(e, x)
     /\ Write(ptr[e][x], v)
     /\ UNCHANGED ptr
  \/ /\ ~Declared(e, x)
     /\ heap' = Append(heap, v)
     /\ ptr'  = [ptr EXCEPT ![e][x] = Len(heap) + 1]

Define(e, x, v) == PutInternal(e, x, v)

\* A bug of the kind scoping rules exclude: PUBLIC that stays in the caller.
SetGlobal_StopsEarly(x, v) == PutInternal(E, x, v)

SetGlobal(x, v) == PutInternal(Root, x, v)

MarkConst(e, x) == consts' = [consts EXCEPT ![e] = @ \cup {x}]

(* The script habits.                                                       *)

Cached(e, x, kinds) ==
  \E n \in Nodes : /\ cache[n].env = e
                   /\ NodeName[n] = x
                   /\ NodeKind[n] \in kinds

DeclaredInTime(e, x) ==
  "late_shadow" \in Features \/ Declared(e, x) \/ ~Cached(e, x, Kinds)

MarkedInTime(e, x) ==
  "late_const" \in Features \/ ~Cached(e, x, Kinds \ {"Var"})

MayOverwrite(e, x) ==
  "const_overwrite" \in Features \/ x \notin consts[e]

MayCompound(n) ==
  "recursive_compound" \in Features
    \/ ~ \E i \in 1 .. Depth - 1 : stack[i].mode = "stmt" /\ stack[i].node = n

--------------------------------------------------------------------------------
(* Nodes that cache.                                                        *)

Executes(n, kind) == NodeKind[n] = kind /\ NodeProc[n] = Top.proc

\* n.cachedLookupEnv == env && n.cachedPtr != nil
Hit(n) == cache[n].env = E /\ cache[n].ptr # 0

Current(n) == IF Hit(n) THEN cache[n] ELSE Resolved(E, NodeName[n])

\* The node's cache after an execution that found the variable.
Remember(n) == cache' = [cache EXCEPT ![n] = Current(n)]

\* VarNode: the value of a variable in an expression.
Read(n) ==
  /\ Executes(n, "Var")
  /\ \/ /\ Current(n).ptr = 0
        /\ out' = Undeclared
        /\ UNCHANGED cache
     \/ /\ Current(n).ptr # 0
        /\ out' = heap[Current(n).ptr]
        /\ Remember(n)
  /\ UNCHANGED <<parent, ptr, heap, consts, stack>>

\* The outcomes assignments share: the name is unknown, or it is a constant.
Rejected(n) ==
  /\ \/ /\ Current(n).ptr = 0
        /\ out' = Undeclared
        /\ UNCHANGED cache
     \/ /\ Current(n).ptr # 0
        /\ Current(n).const
        /\ out' = ConstError
        /\ Remember(n)
  /\ UNCHANGED <<parent, ptr, heap, consts, stack>>

Accepted(n) == Current(n).ptr # 0 /\ ~Current(n).const

\* AssignNode without declaration: x = v.  The right-hand side is evaluated
\* before the cache is looked at.
Assign(n, v) ==
  /\ Top.mode = "idle"
  /\ Executes(n, "Assign")
  /\ \/ Rejected(n)
     \/ /\ Accepted(n)
        /\ Remember(n)
        /\ Write(Current(n).ptr, v)
        /\ out' = Ok
        /\ UNCHANGED <<parent, ptr, consts, stack>>

\* CompoundAssignNode: the variable is resolved and read ...
BeginCompound(n) ==
  /\ Top.mode = "idle"
  /\ Executes(n, "Compound")
  /\ MayCompound(n)
  /\ \/ Rejected(n)
     \/ /\ Accepted(n)
        /\ Remember(n)
        /\ SetTop([Top EXCEPT !.mode = "stmt", !.node = n, !.left = heap[Current(n).ptr]])
        /\ out' = Ok
        /\ UNCHANGED <<parent, ptr, heap, consts>>

Settle == SetTop(Settled(Top))

\* ... and written through the node's cache as it is after the right-hand side.
FinishCompound(v) ==
  /\ Top.mode = "stmt"
  /\ Write(cache[Top.node].ptr, Combine[<<Top.left, v>>])
  /\ Settle
  /\ out' = Ok
  /\ UNCHANGED <<parent, ptr, consts, cache>>

\* A bug of the kind the two branches invite: a cache hit that does not set ptr.
EnterLoop_HitForgetsPointer(n) ==
  /\ Top.mode = "idle"
  /\ Executes(n, "Loop")
  /\ \/ Rejected(n)
     \/ /\ Accepted(n)
        /\ Remember(n)
        /\ SetTop([Top EXCEPT !.mode = "cond", !.node = n,
                             !.ptr = IF Hit(n) THEN 0 ELSE Current(n).ptr])
        /\ out' = Ok
        /\ UNCHANGED <<parent, ptr, heap, consts>>

\* WhileNode and ForNode whose body is a single compound assignment resolve its
\* variable once, before the loop.
EnterLoop(n) ==
  /\ Top.mode = "idle"
  /\ Executes(n, "Loop")
  /\ \/ Rejected(n)
     \/ /\ Accepted(n)
        /\ Remember(n)
        /\ SetTop([Top EXCEPT !.mode = "cond", !.node = n, !.ptr = Current(n).ptr])
        /\ out' = Ok
        /\ UNCHANGED <<parent, ptr, heap, consts>>

\* The condition holds: the right-hand side is evaluated next.
ContinueLoop ==
  /\ Top.mode = "cond"
  /\ SetTop([Top EXCEPT !.mode = "rhs", !.left = heap[Top.ptr]])
  /\ out' = Ok
  /\ UNCHANGED <<parent, ptr, heap, consts, cache>>

\* result := calculateBinaryOp(op, *ptr, rhs); *ptr = result
CombineInLoop(v) ==
  /\ Top.mode = "rhs"
  /\ Write(Top.ptr, Combine[<<heap[Top.ptr], v>>])
  /\ SetTop([Top EXCEPT !.mode = "cond", !.left = Zero])
  /\ out' = Ok
  /\ UNCHANGED <<parent, ptr, consts, cache>>

\* The loop ends, or an error in an operand ends the statement; the variable
\* keeps its value.
Abandon ==
  /\ Top.mode \in {"stmt", "cond", "rhs"}
  /\ Settle
  /\ out' = Ok
  /\ UNCHANGED <<parent, ptr, heap, consts, cache>>

--------------------------------------------------------------------------------
(* Declarations.                                                            *)

\* The declaration of a name that is constant in the same Environment fails.
RejectDeclaration(x) ==
  /\ Top.mode = "idle"
  /\ x \in consts[E]
  /\ out' = ConstError
  /\ UNCHANGED <<parent, ptr, heap, consts, cache, stack>>

\* Dim x = v
Dim(x, v) ==
  /\ Top.mode = "idle"
  /\ x \notin consts[E]
  /\ DeclaredInTime(E, x)
  /\ Define(E, x, v)
  /\ out' = Ok
  /\ UNCHANGED <<parent, consts, cache, stack>>

\* Const x = v: DefineConst and MarkConst.
Const(x, v) ==
  /\ Top.mode = "idle"
  /\ x \notin consts[E]
  /\ DeclaredInTime(E, x)
  /\ MarkedInTime(E, x)
  /\ Define(E, x, v)
  /\ MarkConst(E, x)
  /\ out' = Ok
  /\ UNCHANGED <<parent, cache, stack>>

\* Public x = v writes through to the root.
Public(x, v) ==
  /\ Top.mode = "idle"
  /\ MayOverwrite(Root, x)
  /\ SetGlobal(x, v)
  /\ out' = Ok
  /\ UNCHANGED <<parent, consts, cache, stack>>

\* Dim x(n): Define without the check the declaration with a value makes.
DimArray(x) ==
  /\ Top.mode = "idle"
  /\ MayOverwrite(E, x)
  /\ DeclaredInTime(E, x)
  /\ Define(E, x, Zero)
  /\ out' = Ok
  /\ UNCHANGED <<parent, consts, cache, stack>>

\* For x = ..., For Each x: GetRef finds or creates the variable in the current
\* Environment before the loop, every iteration writes it through that pointer.
LoopVariable(x, v) ==
  /\ Top.mode = "idle" \/ (Top.mode = "cond" /\ Declared(E, x))
  /\ MayOverwrite(E, x)
  /\ DeclaredInTime(E, x)
  /\ PutInternal(E, x, v)
  /\ out' = Ok
  /\ UNCHANGED <<parent, consts, cache, stack>>

\* Catch x
CatchVariable(x, v) ==
  /\ Top.mode = "idle"
  /\ MayOverwrite(E, x)
  /\ DeclaredInTime(E, x)
  /\ PutInternal(E, x, v)
  /\ out' = Ok
  /\ UNCHANGED <<parent, consts, cache, stack>>

--------------------------------------------------------------------------------
(* Calls.                                                                   *)

Fresh(e) == e # Root /\ parent[e] = NoEnv

\* evalFunctionCall for a Function or Sub of the script: the new Environment
\* hangs off the root, wherever the call comes from.
Call(p, e) ==
  /\ p # Main /\ Fresh(e)
  /\ parent' = [parent EXCEPT ![e] = Root]
  /\ stack' = Append(stack, [Frame(e, p) EXCEPT
                 !.mode = IF Params[p] = {} THEN "idle" ELSE "bind"])
  /\ out' = Ok
  /\ UNCHANGED <<ptr, heap, consts, cache>>

\* A parameter gets its argument, or its default, which may read variables
\* that other parameters have been bound to (Read in mode bind).
BindParam(x, v) ==
  /\ Top.mode = "bind"
  /\ x \in Params[Top.proc] /\ ~Declared(E, x)
  /\ DeclaredInTime(E, x)
  /\ PutInternal(E, x, v)
  /\ SetTop([Top EXCEPT !.mode =
        IF \A y \in Params[Top.proc] \ {x} : Declared(E, y) THEN "idle" ELSE "bind"])
  /\ out' = Ok
  /\ UNCHANGED <<parent, consts, cache>>

\* Return v, f = v in Function f, or the end of the body: fnReturn is a field
\* of the call's own Environment and becomes the value of the call.
Leave(v) ==
  /\ Depth > 1
  /\ Top.mode = "idle"
  /\ stack' = SubSeq(stack, 1, Depth - 1)
  /\ out' = v
  /\ UNCHANGED <<parent, ptr, heap, consts, cache>>

\* An error nobody catches in the callee becomes the value of the call, and the
\* caller's statement ends without a write.
LeaveWithError ==
  /\ Depth > 1
  /\ stack' = [SubSeq(stack, 1, Depth - 1) EXCEPT
        ![Depth - 1] = IF @.mode = "bind" THEN @ ELSE Settled(@)]
  /\ out' = Ok
  /\ UNCHANGED <<parent, ptr, heap, consts, cache>>

Next ==
  \/ \E n \in Nodes : Read(n) \/ BeginCompound(n) \/ EnterLoop(n)
  \/ \E n \in Nodes, v \in Values : Assign(n, v)
  \/ \E v \in Values : FinishCompound(v) \/ CombineInLoop(v) \/ Leave(v)
  \/ ContinueLoop
  \/ Abandon
  \/ \E x \in Names : RejectDeclaration(x) \/ DimArray(x)
  \/ \E x \in Names, v \in Values :
        \/ Dim(x, v)
        \/ Const(x, v)
        \/ Public(x, v)
        \/ LoopVariable(x, v)
        \/ CatchVariable(x, v)
        \/ BindParam(x, v)
  \/ \E p \in Procs, e \in Env : Call(p, e)
  \/ LeaveWithError

Spec == Init /\ [][Next]_vars

--------------------------------------------------------------------------------
(* Correctness.                                                             *)

FrameType == [env : Env, proc : Procs, mode : Modes,
              node : Nodes \cup {NoNode}, ptr : Nat, left : Values]

CacheType == [env : Env \cup {NoEnv}, ptr : Nat, const : BOOLEAN]

\* An activation has what it needs to go on after evaluating an operand.
Resumable(fr) ==
  /\ fr.ptr <= Len(heap)
  /\ fr.mode \in {"stmt", "cond", "rhs"} => fr.node \in Nodes
  /\ fr.mode \in {"cond", "rhs"} => fr.ptr # 0

\* Every pointer points into the heap, and what an activation has to remember
\* while it evaluates an operand is there.
TypeOK ==
  /\ parent \in [Env -> Env \cup {NoEnv}]
  /\ heap \in Seq(Values)
  /\ ptr \in [Env -> [Names -> Nat]]
  /\ consts \in [Env -> SUBSET Names]
  /\ cache \in [Nodes -> CacheType]
  /\ stack \in Seq(FrameType) /\ stack # <<>>
  /\ out \in Values \cup {Undeclared, ConstError, Ok}
  /\ \A e \in Env, x \in Names : ptr[e][x] <= Len(heap)
  /\ \A n \in Nodes : cache[n].ptr <= Len(heap)
  /\ \A i \in 1 .. Depth : Resumable(stack[i])

Live == {stack[i].env : i \in 1 .. Depth}

\* As long as the activation a node was cached in can continue, the cache
\* agrees with a fresh search of the scope chain: same pointer and, at a node
\* that writes, same Const status.  This is the claim in the comment of the
\* VarNode case ("Das ist sicher, solange Define/PutInternal/SetGlobal den
\* Pointer einer bestehenden Variable nie ersetzen").
CacheCoherent ==
  \A n \in Nodes :
    cache[n].env \in Live =>
      LET fresh == Resolved(cache[n].env, NodeName[n])
      IN  /\ cache[n].ptr # 0
          /\ cache[n].ptr = fresh.ptr
          /\ NodeKind[n] # "Var" => cache[n].const = fresh.const

Value(e, x) == IF Declared(e, x) THEN heap[ptr[e][x]] ELSE Undeclared

\* What a scope, an activation and the calls stand for without pointers and nodes.
scopeBar == [e \in Env |-> [x \in Names |-> Value(e, x)]]

FrameBar(fr) ==
  [env |-> fr.env, proc |-> fr.proc,
   pend |-> IF fr.mode \in {"stmt", "rhs"}
            THEN [name |-> NodeName[fr.node], left |-> fr.left]
            ELSE [name |-> Undeclared, left |-> Zero]]

stackBar == [i \in 1 .. Depth |-> FrameBar(stack[i])]

\* The interpreter with its caches does what the language promises.
Lexical == INSTANCE LexicalScope WITH scope <- scopeBar, stack <- stackBar

RefinesLexicalScope == Lexical!Spec
================================================================================
