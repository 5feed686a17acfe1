------------------------------ MODULE ControlFlow ------------------------------
(***************************************************************************)
(* Statements and signals as evaluator.go implements them.                 *)
(*                                                                         *)
(* evalStatements executes a list until a statement returns a signal other *)
(* than SignalNone, and returns that signal to the construct the list      *)
(* belongs to: a loop, If, Select, Try, the body of a Function or Sub, or  *)
(* the script.  Each construct looks at the signal of its body only, and   *)
(* either acts on it or returns it to the construct around it.             *)
(*                                                                         *)
(* What a statement does is left open: any statement the parser accepts    *)
(* may come next.  Features names the scripts for which propagating signal *)
(* by signal differs from what StructuredControl promises:                 *)
(*   exit_outer_loop   names a loop in Exit that is not the innermost one  *)
(*   empty_catch       has a Catch block without a statement               *)
(*   not_of_error      applies Not to a call that fails, or compares a     *)
(*                     Case with one                                       *)
(***************************************************************************)
EXTENDS Naturals, Sequences

CONSTANTS MaxDepth,   \* bound on the nesting of constructs and calls
          Features

AllFeatures == {"exit_outer_loop", "empty_catch", "not_of_error"}

ASSUME ControlAssumption ==
  /\ MaxDepth \in Nat \ {0}
  /\ Features \subseteq AllFeatures

VARIABLES
  frames,  \* the Go calls of the evaluator that execute a list of statements
  sig,     \* what the list at the top has just returned, or Running
  out      \* "running", or how runParsedInternal ended

vars == <<frames, sig, out>>

Loops    == {"For", "While", "Do"}
Contexts == {"use", "IsError", "Not"}

(***************************************************************************)
(* A signal.  The kind of loop an Exit names is not part of the signal in  *)
(* the code: of remembers it for the specification and no action reads it. *)
(***************************************************************************)
Sig(s)      == [s |-> s, of |-> "none"]
Running     == Sig("running")
None        == Sig("None")
Error       == Sig("Error")
ExitLoop(l) == [s |-> "ExitLoop", of |-> l]
Signals     == {Sig(s) : s \in {"None", "ExitSub", "ExitFunction", "Return", "Error", "ContinueLoop"}}
                 \cup {ExitLoop(l) : l \in Loops \cup {"none"}}

(***************************************************************************)
(* kind   script, call (of a Function or Sub), loop, block (If, Select,    *)
(*        several statements on a line) or try                             *)
(* part   body, catch, finally; head while a loop decides about its next   *)
(*        iteration                                                        *)
(* ctx    use: an error the call returns fails the calling statement;      *)
(*        IsError, Not: the expression around the call goes on             *)
(* catch  none, empty (no statement) or body                               *)
(* pend   rv, sig of TryNode while FinallyBody is executed                 *)
(***************************************************************************)
Frame(k) == [kind |-> k, part |-> "body", loop |-> "none", ctx |-> "none",
             catch |-> "none", finally |-> FALSE, pend |-> None]

LoopFrame(l)   == [Frame("loop") EXCEPT !.loop = l, !.part = "head"]
CallFrame(c)   == [Frame("call") EXCEPT !.ctx = c]
TryFrame(c, f) == [Frame("try") EXCEPT !.catch = c, !.finally = f]

Depth == Len(frames)
Top   == frames[Depth]
Below == SubSeq(frames, 1, Depth - 1)

Init ==
  /\ frames = <<Frame("script")>>
  /\ sig = Running
  /\ out = "running"

Executing  == out = "running" /\ sig = Running
Statements == Executing /\ Top.part # "head"      \* a statement may come next
Returned   == out = "running" /\ sig # Running

\* The loops of the running activation whose body is being executed: the
\* parser's loopStack.
EnclosingLoops ==
  {i \in 1 .. Depth : /\ frames[i].kind = "loop" /\ frames[i].part = "body"
                      /\ \A j \in i + 1 .. Depth : frames[j].kind # "call"}

InnermostIs(l) ==
  \E i \in EnclosingLoops : frames[i].loop = l /\ \A j \in EnclosingLoops : j <= i

--------------------------------------------------------------------------------
(* Statements.                                                              *)

Return(s) ==
  /\ sig' = s
  /\ UNCHANGED <<frames, out>>

\* An operand, a condition or a call of a builtin fails.
Fail == Executing /\ Return(Error)

\* Exit For / While / Do: the parser asks for a loop around it, not for one of
\* that kind.  Exit alone is accepted anywhere: in a loop it is the Exit of that
\* loop, elsewhere (l = "none") the signal goes up to the call or the script.
ExitStmt(l) ==
  /\ Statements
  /\ CASE l = "none" -> EnclosingLoops = {}
       [] "exit_outer_loop" \in Features -> \E i \in EnclosingLoops : frames[i].loop = l
       [] OTHER -> InnermostIs(l)
  /\ Return(ExitLoop(l))

\* Continue: the parser asks for a loop of that kind.
ContinueStmt == Statements /\ EnclosingLoops # {} /\ Return(Sig("ContinueLoop"))

\* Exit Sub, Exit Function and Return are accepted anywhere.
LeaveProcedure(s) ==
  /\ Statements
  /\ s \in {"ExitSub", "ExitFunction", "Return"}
  /\ Return(Sig(s))

EndOfList == Statements /\ Return(None)

Enter(f) ==
  /\ Depth < MaxDepth
  /\ frames' = Append(frames, f)
  /\ UNCHANGED <<sig, out>>

EnterLoop(l) == Statements /\ Enter(LoopFrame(l))

EnterBlock == Statements /\ Enter(Frame("block"))

\* Catch, Finally or both.
EnterTry(c, f) ==
  /\ Statements
  /\ c # "none" \/ f
  /\ c = "empty" => "empty_catch" \in Features
  /\ Enter(TryFrame(c, f))

\* A statement or a condition calls a Function or a Sub.
CallProcedure(c) ==
  /\ Executing
  /\ c = "Not" => "not_of_error" \in Features
  /\ Enter(CallFrame(c))

--------------------------------------------------------------------------------
(* Constructs.                                                              *)

\* The frame at the top returns s to the construct around it, which goes on
\* with its next statement if s is SignalNone.
Pop(s) ==
  /\ frames' = Below
  /\ sig' = IF s = None THEN Running ELSE s
  /\ UNCHANGED out

Become(f) ==
  /\ frames' = [frames EXCEPT ![Depth] = f]
  /\ sig' = Running
  /\ UNCHANGED out

\* The condition holds, or there is a further element.
Iterate ==
  /\ Executing
  /\ Top.kind = "loop" /\ Top.part = "head"
  /\ Become([Top EXCEPT !.part = "body"])

EndLoop ==
  /\ Executing
  /\ Top.kind = "loop" /\ Top.part = "head"
  /\ Pop(None)

\* A bug of the kind the switch invites: errors do not reach the default branch.
LeaveLoopBody_IgnoresErrors ==
  /\ Returned
  /\ Top.kind = "loop"
  /\ IF sig.s \in {"None", "ContinueLoop", "Error"}
     THEN Become([Top EXCEPT !.part = "head"])
     ELSE Pop(IF sig.s = "ExitLoop" THEN None ELSE sig)

\* A bug of the same kind: Continue is taken for a signal of the outer loop.
LeaveLoopBody_PassesContinueOn ==
  /\ Returned
  /\ Top.kind = "loop"
  /\ IF sig.s = "None"
     THEN Become([Top EXCEPT !.part = "head"])
     ELSE Pop(IF sig.s = "ExitLoop" THEN None ELSE sig)

\* WhileNode, DoLoopNode, ForNode, ForEachNode: the switch over the signal of
\* the body.
LeaveLoopBody ==
  /\ Returned
  /\ Top.kind = "loop"
  /\ IF sig.s \in {"None", "ContinueLoop"} /\ Top.part = "body"
     THEN Become([Top EXCEPT !.part = "head"])
     ELSE Pop(IF sig.s = "ExitLoop" THEN None ELSE sig)

\* IfNode, SelectNode, MultiStmtNode.
LeaveBlock ==
  /\ Returned
  /\ Top.kind = "block"
  /\ Pop(sig)

\* Catch: an error of TryBody, if CatchBody is not nil.
Caught == Top.part = "body" /\ sig.s = "Error" /\ Top.catch = "body"

\* A bug of the kind early returns invite: Return leaves at once.
LeaveTryBody_ReturnSkipsFinally ==
  /\ Returned
  /\ Top.kind = "try" /\ Top.part # "finally"
  /\ IF Caught
     THEN Become([Top EXCEPT !.part = "catch"])
     ELSE IF Top.finally /\ sig.s # "Return"
          THEN Become([Top EXCEPT !.part = "finally", !.pend = sig])
          ELSE Pop(sig)

\* TryNode: TryBody or CatchBody has returned.
LeaveTryBody ==
  /\ Returned
  /\ Top.kind = "try" /\ Top.part # "finally"
  /\ IF Caught
     THEN Become([Top EXCEPT !.part = "catch"])
     ELSE IF Top.finally
          THEN Become([Top EXCEPT !.part = "finally", !.pend = sig])
          ELSE Pop(sig)

\* TryNode: the signal of FinallyBody replaces the one before it.
LeaveFinally ==
  /\ Returned
  /\ Top.kind = "try" /\ Top.part = "finally"
  /\ Pop(IF sig = None THEN Top.pend ELSE sig)

\* evalFunctionCall: SignalError becomes an error value, every other signal the
\* end of the call.  The expression that called passes the error on, except
\* IsError, ErrorText, Not and the comparison with a Case.
ReturnFromCall ==
  /\ Returned
  /\ Top.kind = "call"
  /\ Pop(IF sig.s = "Error" /\ Top.ctx = "use" THEN sig ELSE None)

\* runParsedInternal: the signal of the script's statements.
EndScript ==
  /\ Returned
  /\ Top.kind = "script"
  /\ frames' = <<>>
  /\ sig' = Running
  /\ out' = CASE sig.s = "Error" -> "runtime error"
              [] sig.s \in {"ExitSub", "ExitFunction", "ExitLoop", "None"} -> "ok"
              [] OTHER -> "unknown signal"

\* A Go panic is recovered in runParsedInternal only.
Panic ==
  /\ Executing
  /\ frames' = <<>>
  /\ out' = "internal error"
  /\ UNCHANGED sig

Next ==
  \/ Fail \/ ContinueStmt \/ EndOfList
  \/ \E l \in Loops \cup {"none"} : ExitStmt(l)
  \/ \E l \in Loops : EnterLoop(l)
  \/ \E s \in {"ExitSub", "ExitFunction", "Return"} : LeaveProcedure(s)
  \/ EnterBlock
  \/ \E c \in {"none", "empty", "body"}, f \in BOOLEAN : EnterTry(c, f)
  \/ \E c \in Contexts : CallProcedure(c)
  \/ Iterate \/ EndLoop
  \/ LeaveLoopBody \/ LeaveBlock \/ LeaveTryBody \/ LeaveFinally
  \/ ReturnFromCall \/ EndScript \/ Panic

Spec == Init /\ [][Next]_vars

--------------------------------------------------------------------------------
(* Correctness.                                                             *)

FrameType ==
  [kind : {"script", "call", "loop", "block", "try"},
   part : {"head", "body", "catch", "finally"},
   loop : Loops \cup {"none"}, ctx : Contexts \cup {"none"},
   catch : {"none", "empty", "body"}, finally : BOOLEAN, pend : Signals]

\* A script runs exactly as long as there is a frame, what is pending belongs to
\* a Finally, and a Catch or Finally to a Try.
TypeOK ==
  /\ frames \in Seq(FrameType)
  /\ sig \in Signals \cup {Running}
  /\ out \in {"running", "ok", "runtime error", "unknown signal", "internal error"}
  /\ out = "running" <=> frames # <<>>
  /\ \A i \in 1 .. Depth : /\ frames[i].kind = "script" <=> i = 1
                           /\ frames[i].pend # None => frames[i].part = "finally"
                           /\ frames[i].part \in {"catch", "finally"} => frames[i].kind = "try"

\* A Try whose Finally is still to come.
AwaitsFinally(f) == f.kind = "try" /\ f.finally /\ f.part # "finally"

FinallyKept ==
  \A i \in 1 .. Depth :
     AwaitsFinally(frames[i]) /\ out' # "internal error"
       => i <= Depth' /\ frames'[i].kind = "try"

\* No Try is left, by whatever signal, before its Finally has been executed
\* (Readme.md: "Finally läuft in jedem Fall").
FinallyBeforeLeaving == [][FinallyKept]_vars

ErrorKept ==
  /\ (sig = Error /\ sig' # Error) =>
        \/ Top.kind = "try" /\ (Caught \/ (Top.finally /\ frames'[Depth].pend = Error))
        \/ Top.kind = "call" /\ Top.ctx = "IsError"
        \/ out' = "runtime error"
  /\ (sig = None /\ Top.part = "finally" /\ Top.pend = Error) => sig' = Error

\* An error stops propagating only at a Catch, at a Finally, in IsError, or in
\* the report that ends the script (Readme.md: "bricht das Skript mit einer
\* Fehlermeldung ab"), and a Finally gives it back unless it fails itself.
ErrorsAreNotLost == [][ErrorKept]_vars

\* Handing signals from construct to construct amounts to unwinding at once: a
\* signal on its way up stands for the frames that are left when it is handled.
Unwinding == INSTANCE StructuredControl

Arriving  == sig \in {Running, None}
framesBar == IF Arriving THEN frames ELSE Unwinding!Unwound(frames, sig)
outBar    == IF Arriving THEN out ELSE Unwinding!Ends(frames, sig)

Structured == INSTANCE StructuredControl WITH frames <- framesBar, out <- outBar

RefinesStructuredControl == Structured!Spec
================================================================================
