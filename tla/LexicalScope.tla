------------------------------ MODULE LexicalScope ------------------------------
(***************************************************************************)
(* What the language promises about names, without any of the caching the  *)
(* interpreter does.  Readme.md (sections Variablen, Konstanten,           *)
(* Sichtbarkeit in Function und Sub) describes exactly two scopes: the     *)
(* scope of the running procedure and the script's top level.  A name      *)
(* denotes the local variable if there is one and the top-level variable   *)
(* otherwise, and it is looked up anew every time it is used.              *)
(*                                                                         *)
(* Scopes.tla, the interpreter with its per-node pointer caches, is shown  *)
(* to implement this module.                                               *)
(***************************************************************************)
EXTENDS Naturals, Sequences

CONSTANTS
  Env,         \* identities of scopes, one per procedure activation
  Root,        \* the scope of the script's top level
  Names,       \* variable names
  Procs,       \* procedures, the script's top level included
  Main,        \* the script's top level
  Values,      \* what a variable can hold
  Zero,        \* NumVal(0)
  Combine,     \* Combine[l, r]: the value of "l op r" of a compound assignment
  Undeclared,  \* the content of a name that is not declared in a scope
  ConstError,  \* outcome of a statement that tried to change a constant
  Ok           \* outcome of a statement that has no value

VARIABLES
  scope,   \* scope[e][x]: the value of x in scope e, or Undeclared
  consts,  \* consts[e]: the names declared by Const in e
  stack,   \* the active procedures, the running one last
  out      \* the outcome of the last step

vars == <<scope, consts, stack, out>>

\* A compound assignment whose right-hand side is being evaluated: the name on
\* the left and the value it had when the statement started.
Idle == [name |-> Undeclared, left |-> Zero]

Frame(e, p) == [env |-> e, proc |-> p, pend |-> Idle]

Depth == Len(stack)
Top   == stack[Depth]

\* The scope in which the name x of a procedure running in e is found.
Home(e, x) == IF scope[e][x] # Undeclared THEN e ELSE Root

Init ==
  /\ scope  = [e \in Env |-> [x \in Names |-> Undeclared]]
  /\ consts = [e \in Env |-> {}]
  /\ stack  = <<Frame(Root, Main)>>
  /\ out    = Ok

--------------------------------------------------------------------------------
\* Using a name yields the value of the variable it denotes now.
Read(x) ==
  /\ out' = scope[Home(Top.env, x)][x]
  /\ UNCHANGED <<scope, consts, stack>>

\* A statement that is rejected changes nothing.
Reject(r) ==
  /\ Top.pend = Idle
  /\ out' = r
  /\ UNCHANGED <<scope, consts, stack>>

RejectUndeclared(x) ==
  scope[Home(Top.env, x)][x] = Undeclared /\ Reject(Undeclared)

RejectConst(x) ==
  x \in consts[Home(Top.env, x)] /\ Reject(ConstError)

\* Assigning to a name changes the variable it denotes now, never a constant.
Assign(x, v) ==
  /\ Top.pend = Idle
  /\ scope[Home(Top.env, x)][x] # Undeclared
  /\ x \notin consts[Home(Top.env, x)]
  /\ scope' = [scope EXCEPT ![Home(Top.env, x)][x] = v]
  /\ out' = Ok
  /\ UNCHANGED <<consts, stack>>

\* x op= rhs means x = x op rhs: the left operand is read first ...
BeginCompound(x) ==
  /\ Top.pend = Idle
  /\ scope[Home(Top.env, x)][x] # Undeclared
  /\ x \notin consts[Home(Top.env, x)]
  /\ stack' = [stack EXCEPT
        ![Depth].pend = [name |-> x, left |-> scope[Home(Top.env, x)][x]]]
  /\ out' = Ok
  /\ UNCHANGED <<scope, consts>>

\* ... and once the right operand has the value v, the name on the left is
\* assigned, in the procedure the statement belongs to.
FinishCompound(v) ==
  /\ Top.pend # Idle
  /\ LET x == Top.pend.name
     IN  /\ x \notin consts[Home(Top.env, x)]
         /\ scope' = [scope EXCEPT
                ![Home(Top.env, x)][x] = Combine[<<Top.pend.left, v>>]]
  /\ stack' = [stack EXCEPT ![Depth].pend = Idle]
  /\ out' = Ok
  /\ UNCHANGED consts

\* An error in the right operand leaves the variable unchanged.
AbandonCompound ==
  /\ stack' = [stack EXCEPT ![Depth].pend = Idle]
  /\ out' = Ok
  /\ UNCHANGED <<scope, consts>>

\* Dim, Public, Const, a loop variable or a Catch variable gives a name of the
\* running procedure's scope, or of the top level, a value.
Declare(e, x, v, isConst) ==
  /\ Top.pend = Idle
  /\ e \in {Top.env, Root}
  /\ x \notin consts[e]
  /\ scope' = [scope EXCEPT ![e][x] = v]
  /\ consts' = [consts EXCEPT ![e] = IF isConst THEN @ \cup {x} ELSE @]
  /\ out' = Ok
  /\ UNCHANGED stack

\* A call runs p in an empty scope of its own; its parameters are declared there
\* first.  Nothing of the caller's scope is visible in it.
Call(p, e) ==
  /\ \A i \in 1 .. Depth : stack[i].env # e
  /\ scope' = [scope EXCEPT ![e] = [x \in Names |-> Undeclared]]
  /\ consts' = [consts EXCEPT ![e] = {}]
  /\ stack' = Append(stack, Frame(e, p))
  /\ out' = Ok

\* The call returns a value to the caller's expression, or an error, and then
\* the caller's compound assignment is abandoned.
Leave(r) ==
  /\ Depth > 1
  /\ stack' = SubSeq(stack, 1, Depth - 1)
  /\ out' = r
  /\ UNCHANGED <<scope, consts>>

LeaveWithError ==
  /\ Depth > 1
  /\ stack' = [SubSeq(stack, 1, Depth - 1) EXCEPT ![Depth - 1].pend = Idle]
  /\ out' = Ok
  /\ UNCHANGED <<scope, consts>>

Next ==
  \/ \E x \in Names :
        Read(x) \/ RejectUndeclared(x) \/ RejectConst(x) \/ BeginCompound(x)
  \/ \E x \in Names, v \in Values : Assign(x, v)
  \/ \E v \in Values : FinishCompound(v) \/ Leave(v)
  \/ \E e \in Env, x \in Names, v \in Values, b \in BOOLEAN : Declare(e, x, v, b)
  \/ \E p \in Procs, e \in Env : Call(p, e)
  \/ AbandonCompound
  \/ LeaveWithError

Spec == Init /\ [][Next]_vars
================================================================================
