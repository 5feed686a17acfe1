------------------------------ MODULE ScriptProofs ------------------------------
(***************************************************************************)
(* Proofs about what a script does: the statements it executes             *)
(* (ControlFlow), the values it compares (Values), the JSON document it    *)
(* keeps (JsonStore), its texts and versions (Text).                       *)
(*                                                                         *)
(* ControlFlow, for every depth of nesting and every script.  Each action  *)
(* is one of four steps on the frames - a list returns a signal, a frame   *)
(* is entered, left or goes on to another of its parts - so the invariant  *)
(* is proved once for each of the four.                                    *)
(*                                                                         *)
(* Values, for a Select of any number of cases: the two ways it and an     *)
(* assignment can be executed, by dispatch table or one by one, are one.   *)
(*                                                                         *)
(* JsonStore, for paths of any length, documents of any depth and any      *)
(* number of calls, failures and crashes.  What a path leads to is defined *)
(* by recursion on its length; what a change does there and elsewhere is   *)
(* proved by a least counterexample.  Two invariants: SaveInv says what is *)
(* in the files while json.Save writes, DocumentInv what the last call has *)
(* promised of the document.                                               *)
(*                                                                         *)
(* Text, for texts and versions of any length: what the functions find, or *)
(* compare, follows from the least place at which something is the case.   *)
(***************************************************************************)
EXTENDS ControlFlow, Values, JsonStore, Text, SequenceTheorems, WellFoundedInduction, TLAPS

--------------------------------------------------------------------------------
(* Statements *)

\* TypeOK, and what is known of the expression around a call: without the habit
\* not_of_error it does not ignore the error of the call.
CalledFrom(f) ==
  /\ f.kind = "call" => f.ctx \in Contexts
  /\ f.ctx = "Not" => "not_of_error" \in Features

IInv ==
  /\ TypeOK
  /\ \A i \in 1 .. Depth : CalledFrom(frames[i])

--------------------------------------------------------------------------------
(* The signals and frames that occur are of their types.                    *)

\* What a statement returns is a signal, and Running is none.
LEMMA SignalTypes ==
  /\ None \in Signals /\ Error \in Signals /\ Running \notin Signals
  /\ None # Running /\ Error # Running /\ Error # None
  /\ \A l \in Loops \cup {"none"} : ExitLoop(l) \in Signals
  /\ \A s \in {"None", "ExitSub", "ExitFunction", "Return", "Error", "ContinueLoop"} :
       Sig(s) \in Signals
  /\ \A s \in Signals : s.s # "running"
<1>1. \A s : Sig(s).s = s
  BY DEF Sig
<1>2. \A l : ExitLoop(l).s = "ExitLoop"
  BY DEF ExitLoop
<1>3. \A s \in {"None", "ExitSub", "ExitFunction", "Return", "Error", "ContinueLoop"} :
        Sig(s) \in Signals
  BY DEF Signals
<1>4. \A l \in Loops \cup {"none"} : ExitLoop(l) \in Signals
  BY DEF Signals
<1>5. ASSUME NEW s \in Signals PROVE s.s # "running"
  <2>1. CASE \E x \in {"None", "ExitSub", "ExitFunction", "Return", "Error", "ContinueLoop"} :
               s = Sig(x)
    BY <2>1, <1>1
  <2>2. CASE \E l \in Loops \cup {"none"} : s = ExitLoop(l)
    BY <2>2, <1>2
  <2>3. QED BY <2>1, <2>2 DEF Signals
<1>6. None.s = "None" /\ Error.s = "Error" /\ Running.s = "running"
  BY <1>1 DEF None, Error, Running
<1>7. None \in Signals /\ Error \in Signals
  BY <1>3 DEF None, Error
<1>8. QED BY <1>3, <1>4, <1>5, <1>6, <1>7

\* A new frame of any kind is of the type and in its first part.
Fresh(f) ==
  /\ f \in FrameType
  /\ f.kind # "script" /\ f.pend = None /\ f.part \in {"head", "body"}
  /\ f.kind = "call" => f.ctx \in Contexts

\* Every construct is entered in its first part, with nothing pending.
LEMMA FreshFrames ==
  /\ \A l \in Loops : Fresh(LoopFrame(l)) /\ LoopFrame(l).ctx = "none"
  /\ \A c \in {"none", "empty", "body"}, f \in BOOLEAN :
       Fresh(TryFrame(c, f)) /\ TryFrame(c, f).ctx = "none"
  /\ \A c \in Contexts : Fresh(CallFrame(c)) /\ CallFrame(c).ctx = c
  /\ Fresh(Frame("block")) /\ Frame("block").ctx = "none"
BY SignalTypes
   DEF Fresh, LoopFrame, TryFrame, CallFrame, Frame, FrameType, Loops, Contexts

--------------------------------------------------------------------------------
(* The four steps.                                                          *)

\* A statement returns its signal: evalStatements.
LEMMA ReturnStep ==
  ASSUME IInv, NEW s \in Signals, Return(s)
  PROVE  IInv'
BY DEF IInv, TypeOK, Return, Depth

\* A construct or a call is entered.
LEMMA EnterStep ==
  ASSUME IInv, out = "running", NEW f, Fresh(f), Enter(f),
         f.ctx = "Not" => "not_of_error" \in Features
  PROVE  IInv'
<1>1. /\ frames \in Seq(FrameType) /\ frames # <<>>
      /\ frames' = Append(frames, f) /\ f \in FrameType
  BY DEF IInv, TypeOK, Enter, Fresh
<1>2. /\ frames' \in Seq(FrameType) /\ Len(frames') = Len(frames) + 1
      /\ frames' # <<>> /\ Len(frames) > 0
      /\ \A i \in 1 .. Len(frames) : frames'[i] = frames[i]
      /\ frames'[Len(frames) + 1] = f
  BY <1>1
<1>3. ASSUME NEW i \in 1 .. Len(frames')
      PROVE  /\ frames'[i].kind = "script" <=> i = 1
             /\ frames'[i].pend # None => frames'[i].part = "finally"
             /\ frames'[i].part \in {"catch", "finally"} => frames'[i].kind = "try"
             /\ CalledFrom(frames'[i])
  <2>1. CASE i \in 1 .. Len(frames)
    BY <2>1, <1>2 DEF IInv, TypeOK, Depth
  <2>2. CASE i = Len(frames) + 1
    BY <2>2, <1>2 DEF Fresh, CalledFrom
  <2>3. QED BY <2>1, <2>2, <1>2, <1>3
<1>4. QED BY <1>2, <1>3 DEF IInv, TypeOK, Enter, Depth

\* The frames below the top of a nesting deeper than the script.
LEMMA BelowFrames ==
  ASSUME NEW t \in Seq(FrameType), Len(t) > 1
  PROVE  /\ SubSeq(t, 1, Len(t) - 1) \in Seq(FrameType)
         /\ Len(SubSeq(t, 1, Len(t) - 1)) = Len(t) - 1
         /\ SubSeq(t, 1, Len(t) - 1) # <<>>
         /\ \A i \in 1 .. Len(t) - 1 : SubSeq(t, 1, Len(t) - 1)[i] = t[i]
<1>1. Len(t) \in Nat /\ \A i \in 1 .. Len(t) - 1 : t[i] \in FrameType
  OBVIOUS
<1> DEFINE u == SubSeq(t, 1, Len(t) - 1)
<1>2. /\ u \in Seq(FrameType)
      /\ Len(u) = IF 1 <= Len(t) - 1 THEN (Len(t) - 1) - 1 + 1 ELSE 0
      /\ \A i \in 1 .. (Len(t) - 1) - 1 + 1 : u[i] = t[1 + i - 1]
  BY <1>1, SubSeqProperties
<1>3. \A i \in 1 .. Len(t) - 1 : u[i] = t[i]
  BY <1>1, <1>2
<1>4. Len(u) = Len(t) - 1
  BY <1>1, <1>2
<1>5. u # <<>>
  <2> HIDE DEF u
  <2>1. Len(u) # 0
    BY <1>1, <1>4
  <2>2. Len(<<>>) = 0
    BY EmptySeq
  <2>3. QED BY <2>1, <2>2, Zenon
<1>6. QED BY <1>2, <1>3, <1>4, <1>5

\* A construct returns to the one around it.
LEMMA PopStep ==
  ASSUME IInv, out = "running", Top.kind # "script", NEW s \in Signals, Pop(s)
  PROVE  IInv'
<1>1. /\ frames \in Seq(FrameType) /\ frames # <<>>
      /\ frames' = SubSeq(frames, 1, Len(frames) - 1)
  BY DEF IInv, TypeOK, Pop, Below, Depth
<1>2. Len(frames) > 1
  BY <1>1 DEF IInv, TypeOK, Top, Depth
<1>3. /\ frames' \in Seq(FrameType) /\ Len(frames') = Len(frames) - 1
      /\ frames' # <<>>
      /\ \A i \in 1 .. Len(frames) - 1 : frames'[i] = frames[i]
  BY <1>1, <1>2, BelowFrames
<1>4. sig' \in Signals \cup {Running}
  BY DEF Pop
<1>5. QED BY <1>1, <1>3, <1>4 DEF IInv, TypeOK, Pop, Depth

\* A construct goes on to another of its parts.
LEMMA BecomeStep ==
  ASSUME IInv, out = "running", NEW f \in FrameType, Become(f),
         f.kind = Top.kind, f.ctx = Top.ctx,
         f.pend # None => f.part = "finally",
         f.part \in {"catch", "finally"} => f.kind = "try"
  PROVE  IInv'
<1>1. /\ frames \in Seq(FrameType) /\ frames # <<>>
      /\ frames' = [frames EXCEPT ![Len(frames)] = f]
  BY DEF IInv, TypeOK, Become, Depth
<1>2. /\ frames' \in Seq(FrameType) /\ Len(frames') = Len(frames) /\ Len(frames) > 0
      /\ frames' # <<>>
      /\ \A i \in 1 .. Len(frames) : i # Len(frames) => frames'[i] = frames[i]
      /\ frames'[Len(frames)] = f
  BY <1>1
<1>3. ASSUME NEW i \in 1 .. Len(frames')
      PROVE  /\ frames'[i].kind = "script" <=> i = 1
             /\ frames'[i].pend # None => frames'[i].part = "finally"
             /\ frames'[i].part \in {"catch", "finally"} => frames'[i].kind = "try"
             /\ CalledFrom(frames'[i])
  <2>1. CASE i # Len(frames)
    BY <2>1, <1>2 DEF IInv, TypeOK, Depth
  <2>2. CASE i = Len(frames)
    BY <2>2, <1>2 DEF IInv, TypeOK, Depth, Top, CalledFrom
  <2>3. QED BY <2>1, <2>2
<1>4. QED BY <1>2, <1>3 DEF IInv, TypeOK, Become, Depth

--------------------------------------------------------------------------------
\* The script starts with its own frame only.
LEMMA InitInv == Init => IInv
<1> SUFFICES ASSUME Init PROVE IInv
  OBVIOUS
<1>1. Frame("script") \in FrameType
  BY SignalTypes DEF Frame, FrameType
<1>2. /\ frames \in Seq(FrameType) /\ Len(frames) = 1 /\ frames[1] = Frame("script")
      /\ frames # <<>>
  BY <1>1 DEF Init
<1>3. QED BY <1>2 DEF Init, IInv, TypeOK, Depth, Frame, CalledFrom

\* What is known of the frame at the top of a running script.
LEMMA TopFrame ==
  ASSUME IInv, out = "running"
  PROVE  /\ Top \in FrameType /\ Depth \in Nat /\ Depth > 0
         /\ Top = frames[Depth]
         /\ Top.kind = "script" <=> Depth = 1
         /\ Top.pend # None => Top.part = "finally"
         /\ Top.part \in {"catch", "finally"} => Top.kind = "try"
         /\ CalledFrom(Top)
<1>1. frames \in Seq(FrameType) /\ frames # <<>>
  BY DEF IInv, TypeOK
<1>2. Len(frames) \in Nat /\ Len(frames) > 0 /\ frames[Len(frames)] \in FrameType
  BY <1>1
<1>3. Len(frames) \in 1 .. Len(frames)
  BY <1>2
<1>4. LET f == frames[Len(frames)]
      IN  /\ f.kind = "script" <=> Len(frames) = 1
          /\ f.pend # None => f.part = "finally"
          /\ f.part \in {"catch", "finally"} => f.kind = "try"
          /\ CalledFrom(f)
  BY <1>3 DEF IInv, TypeOK, Depth
<1>5. QED BY <1>2, <1>4 DEF Top, Depth

\* There is no index of the empty sequence.
LEMMA NoIndex == \A i \in 1 .. 0 : FALSE
OBVIOUS

\* The script ends, with an outcome.
LEMMA NoFrames ==
  ASSUME frames' = <<>>, sig' \in Signals \cup {Running},
         out' \in {"ok", "runtime error", "unknown signal", "internal error"}
  PROVE  IInv'
<1>1. <<>> \in Seq(FrameType) /\ Len(<<>>) = 0
  BY EmptySeq
<1>2. Len(frames') = 0
  BY <1>1, Zenon
<1>3. /\ frames' \in Seq(FrameType)
      /\ out' \in {"running", "ok", "runtime error", "unknown signal", "internal error"}
      /\ out' # "running"
  BY <1>1
<1>4. \A i \in 1 .. Len(frames') : FALSE
  BY <1>2, NoIndex, Zenon
<1>5. TypeOK'
  BY <1>3, <1>4 DEF TypeOK, Depth
<1>6. QED BY <1>4, <1>5 DEF IInv, Depth

\* The invariant is inductive: every action is one of the four steps.
LEMMA StepInv == IInv /\ [Next]_vars => IInv'
<1> SUFFICES ASSUME IInv, [Next]_vars PROVE IInv'
  OBVIOUS
<1> USE SignalTypes
<1>1. CASE Fail
  BY <1>1, ReturnStep DEF Fail
<1>2. CASE ContinueStmt
  BY <1>2, ReturnStep DEF ContinueStmt
<1>3. CASE EndOfList
  BY <1>3, ReturnStep DEF EndOfList
<1>4. ASSUME NEW l \in Loops \cup {"none"}, ExitStmt(l) PROVE IInv'
  BY <1>4, ReturnStep DEF ExitStmt
<1>5. ASSUME NEW s \in {"ExitSub", "ExitFunction", "Return"}, LeaveProcedure(s) PROVE IInv'
  BY <1>5, ReturnStep DEF LeaveProcedure
<1>6. ASSUME NEW l \in Loops, EnterLoop(l) PROVE IInv'
  BY <1>6, EnterStep, FreshFrames DEF EnterLoop, Statements, Executing
<1>7. CASE EnterBlock
  BY <1>7, EnterStep, FreshFrames DEF EnterBlock, Statements, Executing
<1>8. ASSUME NEW c \in {"none", "empty", "body"}, NEW f \in BOOLEAN, EnterTry(c, f) PROVE IInv'
  BY <1>8, EnterStep, FreshFrames DEF EnterTry, Statements, Executing
<1>9. ASSUME NEW c \in Contexts, CallProcedure(c) PROVE IInv'
  BY <1>9, EnterStep, FreshFrames DEF CallProcedure, Executing
<1>10. CASE Iterate
  <2>1. out = "running" /\ Top.kind = "loop" /\ Top.part = "head"
    BY <1>10 DEF Iterate, Executing
  <2>2. DEFINE f == [Top EXCEPT !.part = "body"]
  <2>3. f \in FrameType /\ f.kind = Top.kind /\ f.ctx = Top.ctx /\ f.pend = None /\ f.part = "body"
    BY <2>1, TopFrame DEF FrameType
  <2>4. QED BY <1>10, <2>1, <2>3, BecomeStep DEF Iterate
<1>11. CASE EndLoop
  BY <1>11, PopStep DEF EndLoop, Executing
<1>12. CASE LeaveLoopBody
  <2>1. out = "running" /\ Top.kind = "loop" /\ sig \in Signals
    BY <1>12 DEF LeaveLoopBody, Returned, IInv, TypeOK
  <2>2. CASE sig.s \in {"None", "ContinueLoop"} /\ Top.part = "body"
    <3> DEFINE f == [Top EXCEPT !.part = "head"]
    <3>1. f \in FrameType /\ f.kind = Top.kind /\ f.ctx = Top.ctx /\ f.pend = None /\ f.part = "head"
      BY <2>1, <2>2, TopFrame DEF FrameType
    <3>2. QED BY <1>12, <2>1, <2>2, <3>1, BecomeStep DEF LeaveLoopBody
  <2>3. CASE ~(sig.s \in {"None", "ContinueLoop"} /\ Top.part = "body")
    BY <1>12, <2>1, <2>3, PopStep DEF LeaveLoopBody
  <2>4. QED BY <2>2, <2>3
<1>13. CASE LeaveBlock
  BY <1>13, PopStep DEF LeaveBlock, Returned, IInv, TypeOK
<1>14. CASE LeaveTryBody
  <2>1. /\ out = "running" /\ Top.kind = "try" /\ Top.part # "finally" /\ sig \in Signals
    BY <1>14 DEF LeaveTryBody, Returned, IInv, TypeOK
  <2>2. CASE Caught
    <3> DEFINE f == [Top EXCEPT !.part = "catch"]
    <3>1. f \in FrameType /\ f.kind = "try" /\ f.ctx = Top.ctx /\ f.pend = None
      BY <2>1, TopFrame DEF FrameType
    <3>2. QED BY <1>14, <2>1, <2>2, <3>1, BecomeStep DEF LeaveTryBody
  <2>3. CASE ~Caught /\ Top.finally
    <3> DEFINE f == [Top EXCEPT !.part = "finally", !.pend = sig]
    <3>1. f \in FrameType /\ f.kind = "try" /\ f.ctx = Top.ctx /\ f.part = "finally"
      BY <2>1, TopFrame DEF FrameType
    <3>2. QED BY <1>14, <2>1, <2>3, <3>1, BecomeStep DEF LeaveTryBody
  <2>4. CASE ~Caught /\ ~Top.finally
    BY <1>14, <2>1, <2>4, PopStep DEF LeaveTryBody
  <2>5. QED BY <2>2, <2>3, <2>4
<1>15. CASE LeaveFinally
  <2>1. out = "running" /\ Top.kind = "try" /\ sig \in Signals /\ Top.pend \in Signals
    BY <1>15, TopFrame DEF LeaveFinally, Returned, IInv, TypeOK, FrameType
  <2>2. QED BY <1>15, <2>1, PopStep DEF LeaveFinally
<1>16. CASE ReturnFromCall
  BY <1>16, PopStep DEF ReturnFromCall, Returned, IInv, TypeOK
<1>17. CASE EndScript
  <2>1. out' \in {"runtime error", "ok", "unknown signal"}
    BY <1>17 DEF EndScript
  <2>2. QED BY <1>17, <2>1, NoFrames DEF EndScript
<1>18. CASE Panic
  BY <1>18, NoFrames DEF Panic, IInv, TypeOK
<1>19. CASE UNCHANGED vars
  BY <1>19 DEF vars, IInv, TypeOK, Depth
<1>20. QED
  BY <1>1, <1>2, <1>3, <1>4, <1>5, <1>6, <1>7, <1>8, <1>9, <1>10, <1>11, <1>12,
     <1>13, <1>14, <1>15, <1>16, <1>17, <1>18, <1>19 DEF Next

\* What follows from it for every behaviour.
LEMMA Invariance == Spec => []IInv
<1>1. QED BY InitInv, StepInv, PTL DEF Spec

\* The frames of the interpreter are well formed in every script: TypeOK.
THEOREM TypeCorrect == Spec => []TypeOK
<1>1. IInv => TypeOK
  BY DEF IInv
<1>2. QED BY <1>1, Invariance, PTL

--------------------------------------------------------------------------------
(* No Try is left before its Finally.                                       *)

\* Whatever the frame at the top does, the frames below it stay.
LEMMA PopKeeps ==
  ASSUME IInv, out = "running", Top.kind # "script", NEW s, Pop(s),
         Top.kind # "try" \/ ~Top.finally \/ Top.part = "finally"
  PROVE  FinallyKept
<1>1. /\ frames \in Seq(FrameType) /\ Len(frames) \in Nat /\ Len(frames) > 1
      /\ frames' = SubSeq(frames, 1, Len(frames) - 1)
  BY TopFrame DEF IInv, TypeOK, Pop, Below, Depth
<1>2. Len(frames') = Len(frames) - 1 /\ \A i \in 1 .. Len(frames) - 1 : frames'[i] = frames[i]
  BY <1>1, BelowFrames
<1>3. ASSUME NEW i \in 1 .. Len(frames), i # Len(frames)
      PROVE  i \in 1 .. Len(frames) - 1
  BY <1>1, <1>3
<1>4. ~AwaitsFinally(frames[Len(frames)])
  BY DEF AwaitsFinally, Top, Depth
<1>5. ASSUME NEW i \in 1 .. Len(frames), AwaitsFinally(frames[i])
      PROVE  i <= Len(frames') /\ frames'[i].kind = "try"
  BY <1>1, <1>2, <1>3, <1>4, <1>5 DEF AwaitsFinally
<1>6. QED BY <1>5 DEF FinallyKept, Depth

\* Entering a construct leaves none.
LEMMA EnterKeeps ==
  ASSUME IInv, out = "running", NEW f, Fresh(f), Enter(f)
  PROVE  FinallyKept
<1>1. frames \in Seq(FrameType) /\ frames' = Append(frames, f) /\ f \in FrameType
  BY DEF IInv, TypeOK, Enter, Fresh
<1>2. /\ Len(frames') = Len(frames) + 1 /\ Len(frames) \in Nat
      /\ \A i \in 1 .. Len(frames) : frames'[i] = frames[i]
  BY <1>1
<1>3. ASSUME NEW i \in 1 .. Len(frames), AwaitsFinally(frames[i])
      PROVE  i <= Len(frames') /\ frames'[i].kind = "try"
  BY <1>2, <1>3 DEF AwaitsFinally
<1>4. QED BY <1>3 DEF FinallyKept, Depth

\* Neither does going on to another part.
LEMMA BecomeKeeps ==
  ASSUME IInv, NEW f \in FrameType, Become(f), out = "running", f.kind = Top.kind
  PROVE  FinallyKept
<1>1. frames \in Seq(FrameType) /\ frames # <<>> /\ frames' = [frames EXCEPT ![Len(frames)] = f]
  BY DEF IInv, TypeOK, Become, Depth
<1>2. /\ Len(frames') = Len(frames) /\ Len(frames) \in Nat
      /\ \A i \in 1 .. Len(frames) : frames'[i].kind = frames[i].kind
  BY <1>1 DEF Depth, Top
<1>3. ASSUME NEW i \in 1 .. Len(frames), AwaitsFinally(frames[i])
      PROVE  i <= Len(frames') /\ frames'[i].kind = "try"
  BY <1>2, <1>3 DEF AwaitsFinally
<1>4. QED BY <1>3 DEF FinallyKept, Depth

\* Nor a statement.
LEMMA ReturnKeeps ==
  ASSUME IInv, NEW s, Return(s)
  PROVE  FinallyKept
<1>1. frames \in Seq(FrameType)
  BY DEF IInv, TypeOK
<1>2. Len(frames) \in Nat
  BY <1>1
<1>3. frames' = frames
  BY DEF Return
<1>4. ASSUME NEW i \in 1 .. Len(frames), AwaitsFinally(frames[i])
      PROVE  i <= Len(frames') /\ frames'[i].kind = "try"
  BY <1>2, <1>3, <1>4 DEF AwaitsFinally
<1>5. QED BY <1>4 DEF FinallyKept, Depth

\* No action leaves a Try that awaits its Finally.
LEMMA StepKeepsFinally == IInv /\ Next => FinallyKept
<1> SUFFICES ASSUME IInv, Next PROVE FinallyKept
  OBVIOUS
<1>1. CASE Fail
  BY <1>1, ReturnKeeps DEF Fail
<1>2. CASE ContinueStmt
  BY <1>2, ReturnKeeps DEF ContinueStmt
<1>3. CASE EndOfList
  BY <1>3, ReturnKeeps DEF EndOfList
<1>4. ASSUME NEW l \in Loops \cup {"none"}, ExitStmt(l) PROVE FinallyKept
  BY <1>4, ReturnKeeps DEF ExitStmt
<1>5. ASSUME NEW s \in {"ExitSub", "ExitFunction", "Return"}, LeaveProcedure(s) PROVE FinallyKept
  BY <1>5, ReturnKeeps DEF LeaveProcedure
<1>6. ASSUME NEW l \in Loops, EnterLoop(l) PROVE FinallyKept
  BY <1>6, EnterKeeps, FreshFrames DEF EnterLoop, Statements, Executing
<1>7. CASE EnterBlock
  BY <1>7, EnterKeeps, FreshFrames DEF EnterBlock, Statements, Executing
<1>8. ASSUME NEW c \in {"none", "empty", "body"}, NEW f \in BOOLEAN, EnterTry(c, f)
      PROVE  FinallyKept
  BY <1>8, EnterKeeps, FreshFrames DEF EnterTry, Statements, Executing
<1>9. ASSUME NEW c \in Contexts, CallProcedure(c) PROVE FinallyKept
  BY <1>9, EnterKeeps, FreshFrames DEF CallProcedure, Executing
<1>10. CASE Iterate
  <2>1. out = "running" /\ Become([Top EXCEPT !.part = "body"])
    BY <1>10 DEF Iterate, Executing
  <2>2. [Top EXCEPT !.part = "body"] \in FrameType /\ [Top EXCEPT !.part = "body"].kind = Top.kind
    BY <2>1, TopFrame DEF FrameType
  <2>3. QED BY <2>1, <2>2, BecomeKeeps
<1>11. CASE EndLoop
  BY <1>11, PopKeeps DEF EndLoop, Executing
<1>12. CASE LeaveLoopBody
  <2>1. out = "running" /\ Top.kind = "loop"
    BY <1>12 DEF LeaveLoopBody, Returned
  <2>2. [Top EXCEPT !.part = "head"] \in FrameType /\ [Top EXCEPT !.part = "head"].kind = Top.kind
    BY <2>1, TopFrame DEF FrameType
  <2>3. QED BY <1>12, <2>1, <2>2, BecomeKeeps, PopKeeps DEF LeaveLoopBody
<1>13. CASE LeaveBlock
  BY <1>13, PopKeeps DEF LeaveBlock, Returned
<1>14. CASE LeaveTryBody
  <2>1. out = "running" /\ Top.kind = "try" /\ sig \in Signals
    BY <1>14 DEF LeaveTryBody, Returned, IInv, TypeOK
  <2>2. CASE Caught
    <3>1. [Top EXCEPT !.part = "catch"] \in FrameType /\ [Top EXCEPT !.part = "catch"].kind = Top.kind
      BY <2>1, TopFrame DEF FrameType
    <3>2. QED BY <1>14, <2>1, <2>2, <3>1, BecomeKeeps DEF LeaveTryBody
  <2>3. CASE ~Caught /\ Top.finally
    <3> DEFINE f == [Top EXCEPT !.part = "finally", !.pend = sig]
    <3>1. f \in FrameType /\ f.kind = Top.kind
      BY <2>1, TopFrame DEF FrameType
    <3>2. QED BY <1>14, <2>1, <2>3, <3>1, BecomeKeeps DEF LeaveTryBody
  <2>4. CASE ~Caught /\ ~Top.finally
    BY <1>14, <2>1, <2>4, PopKeeps DEF LeaveTryBody
  <2>5. QED BY <2>2, <2>3, <2>4
<1>15. CASE LeaveFinally
  BY <1>15, PopKeeps DEF LeaveFinally, Returned
<1>16. CASE ReturnFromCall
  BY <1>16, PopKeeps DEF ReturnFromCall, Returned
<1>17. CASE EndScript
  <2>1. Depth = 1 /\ frames[1].kind = "script"
    BY <1>17, TopFrame DEF EndScript, Returned
  <2>2. \A i \in 1 .. Depth : ~AwaitsFinally(frames[i])
    BY <2>1 DEF AwaitsFinally
  <2>3. QED BY <2>2 DEF FinallyKept
<1>18. CASE Panic
  BY <1>18 DEF Panic, FinallyKept
<1>19. QED
  BY <1>1, <1>2, <1>3, <1>4, <1>5, <1>6, <1>7, <1>8, <1>9, <1>10, <1>11, <1>12,
     <1>13, <1>14, <1>15, <1>16, <1>17, <1>18 DEF Next

\* However deep a Try is nested and by whatever signal it is left, its Finally
\* is executed first: FinallyBeforeLeaving.
THEOREM FinallyAlways == Spec => FinallyBeforeLeaving
<1>1. IInv /\ [Next]_vars => [FinallyKept]_vars
  BY StepKeepsFinally
<1>2. QED BY <1>1, Invariance, PTL DEF Spec, FinallyBeforeLeaving

--------------------------------------------------------------------------------
(* Errors end at a Catch, a Finally, in IsError or in the report.           *)

\* SignalError and SignalNone are different signals.
LEMMA ErrorsDiffer == Error.s = "Error" /\ None.s = "None" /\ Error # None
BY DEF Error, None, Sig

\* No action consumes an error but the ones ErrorKept names.
LEMMA StepKeepsErrors ==
  ASSUME IInv, Next, "not_of_error" \notin Features PROVE ErrorKept
<1> USE ErrorsDiffer
<1>1. CASE sig \notin {Error, None}
  BY <1>1 DEF ErrorKept
<1>2. CASE sig \in {Error, None}
  <2>1. sig # Running
    BY <1>2, SignalTypes
  <2>2. /\ Returned
        /\ \/ LeaveLoopBody \/ LeaveBlock \/ LeaveTryBody \/ LeaveFinally
           \/ ReturnFromCall \/ EndScript
    BY <2>1 DEF Next, Fail, ContinueStmt, EndOfList, ExitStmt, EnterLoop, LeaveProcedure,
                EnterBlock, EnterTry, CallProcedure, Iterate, EndLoop, Panic, Statements,
                Executing, LeaveLoopBody, LeaveBlock, LeaveTryBody, LeaveFinally,
                ReturnFromCall, EndScript
  <2>3. /\ Top \in FrameType /\ CalledFrom(Top)
        /\ Top.part \in {"catch", "finally"} => Top.kind = "try"
    BY <2>2, TopFrame DEF Returned
  <2>4. CASE LeaveLoopBody
    BY <2>3, <2>4, <1>2 DEF LeaveLoopBody, Pop, ErrorKept
  <2>5. CASE LeaveBlock
    BY <2>3, <2>5, <1>2 DEF LeaveBlock, Pop, ErrorKept
  <2>6. CASE LeaveTryBody
    <3>1. Top.kind = "try" /\ Top.part # "finally"
      BY <2>6 DEF LeaveTryBody
    <3>2. CASE Caught
      BY <3>1, <3>2 DEF ErrorKept
    <3>3. CASE ~Caught /\ Top.finally
      <4>1. /\ frames \in Seq(FrameType) /\ Len(frames) \in 1 .. Len(frames)
            /\ frames' = [frames EXCEPT ![Len(frames)] = [Top EXCEPT !.part = "finally", !.pend = sig]]
        BY <2>2, <2>6, <3>3, TopFrame DEF LeaveTryBody, Become, Depth, Returned, IInv, TypeOK
      <4>2. frames'[Len(frames)] = [Top EXCEPT !.part = "finally", !.pend = sig]
        BY <4>1
      <4>3. frames'[Depth].pend = sig
        BY <4>2, <2>3 DEF Depth, FrameType
      <4>4. QED BY <3>1, <3>3, <4>3 DEF ErrorKept
    <3>4. CASE ~Caught /\ ~Top.finally
      BY <2>6, <3>1, <3>4, <1>2 DEF LeaveTryBody, Pop, ErrorKept
    <3>5. QED BY <3>2, <3>3, <3>4
  <2>7. CASE LeaveFinally
    BY <2>7, <1>2 DEF LeaveFinally, Pop, ErrorKept
  <2>8. CASE ReturnFromCall
    <3>1. Top.kind = "call" /\ Top.ctx \in {"use", "IsError"}
      BY <2>3, <2>8 DEF ReturnFromCall, CalledFrom, Contexts
    <3>2. QED BY <2>3, <2>8, <3>1, <1>2 DEF ReturnFromCall, Pop, ErrorKept
  <2>9. CASE EndScript
    BY <2>3, <2>9, <1>2 DEF EndScript, ErrorKept
  <2>10. QED BY <2>2, <2>4, <2>5, <2>6, <2>7, <2>8, <2>9
<1>3. QED BY <1>1, <1>2

\* In scripts without Not applied to a failing call, no construct loses an error
\* on its way up: ErrorsAreNotLost.
THEOREM ErrorsPropagate ==
  ASSUME "not_of_error" \notin Features PROVE Spec => ErrorsAreNotLost
<1>1. IInv /\ [Next]_vars => [ErrorKept]_vars
  BY StepKeepsErrors
<1>2. QED BY <1>1, Invariance, PTL DEF Spec, ErrorsAreNotLost
--------------------------------------------------------------------------------
(* Propagating signals implements unwinding: RefinesStructuredControl.       *)

\* Of the frames up to d, the i-th is the first loop that an Exit meets on its
\* way up without leaving the procedure.
LoopMet(fs, i, d) ==
  /\ fs[i].kind = "loop"
  /\ \A j \in i + 1 .. d : fs[j].kind \notin {"loop", "call"}

\* Exit is meant for the loop it meets: in the code the first loop takes it.
ExitMeant(fs, s, d) ==
  s.s = "ExitLoop" => \A i \in 1 .. d : LoopMet(fs, i, d) => s = ExitLoop(fs[i].loop)

\* No loop sees a signal before its first iteration, and Exit meets its loop first.
OnItsWay ==
  /\ out # "running" => sig = Running
  /\ sig \notin {Running, Error} => Top.part # "head"
  /\ ExitMeant(frames, sig, Depth)

\* Only a call is entered from the head of a loop, and what a Finally keeps meets
\* the loop it is meant for as well.
Nested ==
  \A i \in 1 .. Depth :
    /\ frames[i].catch # "empty"
    /\ frames[i].part = "head" =>
         /\ frames[i].kind = "loop"
         /\ i # Depth => frames[i + 1].kind = "call"
    /\ ExitMeant(frames, frames[i].pend, i - 1)

\* What keeps each construct from seeing a signal that it would treat in another
\* way than the one it is meant for.
RInv == IInv /\ OnItsWay /\ Nested

\* Of the indices of a sequence that a set holds there is a last one.
LEMMA LastIndex ==
  ASSUME NEW n \in Nat, NEW S \in SUBSET (1 .. n), S # {}
  PROVE  \E i \in S : \A j \in S : j <= i
<1> DEFINE R == OpToRel(<, Nat)
           T == {n - i : i \in S}
<1>1. IsWellFoundedOn(R, Nat)
  BY NatLessThanWellFounded
<1>2. T \subseteq Nat /\ T # {}
  <2>1. \A i \in S : n - i \in Nat
    OBVIOUS
  <2>2. QED BY <2>1
<1>3. PICK x \in T : \A y \in T : ~(<<y, x>> \in R)
  <2> HIDE DEF R, T
  <2>1. QED BY <1>1, <1>2, WFMin
<1>4. \A y \in T : ~(y < x)
  BY <1>2, <1>3 DEF OpToRel
<1>5. PICK i \in S : x = n - i
  BY <1>3
<1>6. ASSUME NEW j \in S PROVE j <= i
  <2>1. n - j \in T /\ n \in Nat /\ i \in Nat /\ j \in Nat
    OBVIOUS
  <2>2. ~(n - j < n - i)
    BY <2>1, <1>4, <1>5
  <2>3. QED BY <2>1, <2>2
<1>7. QED BY <1>6

\* The construct a completion is meant for is the last one it concerns.
LEMMA TargetIs ==
  ASSUME NEW fs, NEW c, NEW i \in 1 .. Len(fs), Len(fs) \in Nat,
         Unwinding!Concerns(c, fs[i]),
         \A j \in i + 1 .. Len(fs) : ~Unwinding!Concerns(c, fs[j])
  PROVE  Unwinding!Target(fs, c) = i
<1> DEFINE Meant(k) == /\ Unwinding!Concerns(c, fs[k])
                       /\ \A j \in k + 1 .. Len(fs) : ~Unwinding!Concerns(c, fs[j])
<1>1. Meant(i)
  OBVIOUS
<1>2. ASSUME NEW k \in 1 .. Len(fs), Meant(k) PROVE k = i
  <2>1. ~(i < k)
    BY <1>2
  <2>2. ~(k < i)
    BY <1>2
  <2>3. QED BY <2>1, <2>2
<1>3. Unwinding!Target(fs, c) = CHOOSE k \in 1 .. Len(fs) : Meant(k)
  BY DEF Unwinding!Target
<1> HIDE DEF Meant
<1>4. QED BY <1>1, <1>2, <1>3

\* The script is concerned by every completion, so one of the frames is.
LEMMA TargetExists ==
  ASSUME NEW fs \in Seq(FrameType), fs # <<>>, fs[1].kind = "script", NEW c
  PROVE  /\ Unwinding!Target(fs, c) \in 1 .. Len(fs)
         /\ Unwinding!Concerns(c, fs[Unwinding!Target(fs, c)])
         /\ \A j \in Unwinding!Target(fs, c) + 1 .. Len(fs) : ~Unwinding!Concerns(c, fs[j])
<1>1. Unwinding!Concerns(c, fs[1])
  BY DEF Unwinding!Concerns
<1>2. Len(fs) \in Nat /\ 1 \in 1 .. Len(fs)
  OBVIOUS
<1> DEFINE S == {i \in 1 .. Len(fs) : Unwinding!Concerns(c, fs[i])}
<1>3. S \in SUBSET (1 .. Len(fs)) /\ S # {}
  BY <1>1, <1>2
<1>4. PICK i \in S : \A j \in S : j <= i
  <2> HIDE DEF S
  <2>1. QED BY <1>2, <1>3, LastIndex
<1>5. i \in 1 .. Len(fs) /\ Unwinding!Concerns(c, fs[i])
  BY <1>4
<1>6. ASSUME NEW j \in i + 1 .. Len(fs), Unwinding!Concerns(c, fs[j]) PROVE FALSE
  <2>1. j \in 1 .. Len(fs) /\ j > i
    BY <1>2, <1>5
  <2>2. QED BY <2>1, <1>2, <1>4, <1>5, <1>6
<1>7. Unwinding!Target(fs, c) = i
  BY <1>2, <1>5, <1>6, TargetIs
<1>8. QED BY <1>5, <1>6, <1>7

\* A completion that concerns the construct at the top leaves the others alone.
LEMMA UnwindTop ==
  ASSUME NEW fs \in Seq(FrameType), fs # <<>>, NEW c,
         Unwinding!Concerns(c, fs[Len(fs)])
  PROVE  Unwinding!Unwound(fs, c) =
           SubSeq(fs, 1, Len(fs) - 1) \o Unwinding!Reaction(c, fs[Len(fs)])
<1>1. Len(fs) \in Nat /\ Len(fs) \in 1 .. Len(fs)
  OBVIOUS
<1>2. Unwinding!Target(fs, c) = Len(fs)
  BY <1>1, TargetIs
<1>3. QED BY <1>2 DEF Unwinding!Unwound

\* A completion that does not concern it takes it away.
LEMMA UnwindBelow ==
  ASSUME NEW fs \in Seq(FrameType), Len(fs) > 1, fs[1].kind = "script", NEW c,
         ~Unwinding!Concerns(c, fs[Len(fs)])
  PROVE  Unwinding!Unwound(fs, c) = Unwinding!Unwound(SubSeq(fs, 1, Len(fs) - 1), c)
<1> DEFINE below == SubSeq(fs, 1, Len(fs) - 1)
           t == Unwinding!Target(fs, c)
<1>1. Len(fs) \in Nat /\ fs # <<>>
  OBVIOUS
<1>2. /\ t \in 1 .. Len(fs)
      /\ Unwinding!Concerns(c, fs[t])
      /\ \A j \in t + 1 .. Len(fs) : ~Unwinding!Concerns(c, fs[j])
  BY <1>1, TargetExists
<1>3. /\ Len(below) = Len(fs) - 1
      /\ \A i \in 1 .. Len(fs) - 1 : below[i] = fs[i]
  BY BelowFrames
<1> HIDE DEF below, t
<1>4. t \in 1 .. Len(below)
  <2>1. t # Len(fs)
    BY <1>2
  <2>2. QED BY <1>1, <1>2, <1>3, <2>1
<1>5. /\ Unwinding!Concerns(c, below[t])
      /\ \A j \in t + 1 .. Len(below) : ~Unwinding!Concerns(c, below[j])
  BY <1>1, <1>2, <1>3, <1>4
<1>6. Unwinding!Target(below, c) = t
  BY <1>1, <1>3, <1>4, <1>5, TargetIs
<1>7. SubSeq(below, 1, t - 1) = SubSeq(fs, 1, t - 1)
  <2>1. /\ t - 1 \in Int /\ 1 \in Int
        /\ \A i \in 1 .. t - 1 : fs[i] \in FrameType /\ below[i] = fs[i]
    BY <1>1, <1>3, <1>4
  <2>2. /\ SubSeq(fs, 1, t - 1) \in Seq(FrameType)
        /\ Len(SubSeq(fs, 1, t - 1)) = IF 1 <= t - 1 THEN (t - 1) - 1 + 1 ELSE 0
        /\ \A i \in 1 .. (t - 1) - 1 + 1 : SubSeq(fs, 1, t - 1)[i] = fs[1 + i - 1]
    BY <2>1, SubSeqProperties
  <2>3. /\ SubSeq(below, 1, t - 1) \in Seq(FrameType)
        /\ Len(SubSeq(below, 1, t - 1)) = IF 1 <= t - 1 THEN (t - 1) - 1 + 1 ELSE 0
        /\ \A i \in 1 .. (t - 1) - 1 + 1 : SubSeq(below, 1, t - 1)[i] = below[1 + i - 1]
    BY <2>1, SubSeqProperties
  <2>4. \A i \in 1 .. Len(SubSeq(fs, 1, t - 1)) :
          SubSeq(fs, 1, t - 1)[i] = SubSeq(below, 1, t - 1)[i]
    BY <1>4, <2>1, <2>2, <2>3
  <2>5. QED BY <2>2, <2>3, <2>4, SeqEqual
<1>8. below[t] = fs[t]
  BY <1>1, <1>3, <1>4
<1>9. Unwinding!Unwound(fs, c) = SubSeq(fs, 1, t - 1) \o Unwinding!Reaction(c, fs[t])
  BY DEF Unwinding!Unwound, t
<1>10. QED BY <1>6, <1>7, <1>8, <1>9 DEF Unwinding!Unwound, below

--------------------------------------------------------------------------------
(* What a signal on its way up stands for.                                   *)

\* A signal of the interpreter is a completion of StructuredControl.
LEMMA Completions ==
  /\ None = Structured!Normal
  /\ \A s \in Signals : s # None => s \in Structured!Abrupt
<1>1. None = Structured!Normal
  BY DEF None, Sig, Structured!Normal, Structured!Cpl
<1>2. \A s \in Signals : s # None => s \in Structured!Abrupt
  BY DEF Signals, None, Sig, ExitLoop, Loops, Structured!Abrupt, Structured!Cpl,
         Structured!ExitLoop, Structured!Loops
<1>3. QED BY <1>1, <1>2

\* The two instances of StructuredControl unwind alike.
LEMMA SameUnwinding ==
  \A fs, c : /\ Structured!Unwound(fs, c) = Unwinding!Unwound(fs, c)
            /\ Structured!Ends(fs, c) = Unwinding!Ends(fs, c)
<1>1. ASSUME NEW fs, NEW c PROVE Structured!Unwound(fs, c) = Unwinding!Unwound(fs, c)
  BY DEF Unwinding!Unwound, Structured!Unwound, Unwinding!Target, Structured!Target,
     Unwinding!Concerns, Structured!Concerns, Unwinding!Reaction, Structured!Reaction,
     Unwinding!ExitLoop, Structured!ExitLoop
<1>2. ASSUME NEW fs, NEW c PROVE Structured!Ends(fs, c) = Unwinding!Ends(fs, c)
  BY <1>1 DEF Unwinding!Ends, Structured!Ends, Unwinding!Outcome, Structured!Outcome
<1>3. QED BY <1>1, <1>2

\* In terms of the frames below the top: append, replace and leave.
LEMMA FrameSeqs ==
  ASSUME NEW t \in Seq(FrameType), t # <<>>, NEW f \in FrameType
  PROVE  /\ SubSeq(t, 1, Len(t) - 1) \in Seq(FrameType)
         /\ [t EXCEPT ![Len(t)] = f] = Append(SubSeq(t, 1, Len(t) - 1), f)
         /\ SubSeq(t, 1, Len(t) - 1) \o <<f>> = Append(SubSeq(t, 1, Len(t) - 1), f)
         /\ SubSeq(t, 1, Len(t) - 1) \o <<>> = SubSeq(t, 1, Len(t) - 1)
         /\ [t EXCEPT ![Len(t)] = f] # <<>>
<1> DEFINE u == SubSeq(t, 1, Len(t) - 1)
<1>1. Len(t) \in Nat /\ Len(t) > 0 /\ \A i \in 1 .. Len(t) : t[i] \in FrameType
  OBVIOUS
<1>2. /\ u \in Seq(FrameType)
      /\ Len(u) = IF 1 <= Len(t) - 1 THEN (Len(t) - 1) - 1 + 1 ELSE 0
      /\ \A i \in 1 .. (Len(t) - 1) - 1 + 1 : u[i] = t[1 + i - 1]
  BY <1>1, SubSeqProperties
<1>3. /\ Len(u) = Len(t) - 1
      /\ \A i \in 1 .. Len(t) - 1 : u[i] = t[i]
  <2>1. \A i \in 1 .. Len(t) - 1 : u[i] = t[i]
    BY <1>1, <1>2
  <2>2. Len(u) = Len(t) - 1
    <3>1. \A n \in Nat : n > 0 => (IF 1 <= n - 1 THEN (n - 1) - 1 + 1 ELSE 0) = n - 1
      OBVIOUS
    <3> HIDE DEF u
    <3>2. Len(u) = IF 1 <= Len(t) - 1 THEN (Len(t) - 1) - 1 + 1 ELSE 0
      BY <1>2, Zenon
    <3>3. QED BY <1>1, <3>1, <3>2, Zenon
  <2>3. QED BY <2>1, <2>2
<1> HIDE DEF u
<1>4. /\ Append(u, f) \in Seq(FrameType) /\ Append(u, f) # <<>>
      /\ Len(Append(u, f)) = Len(t)
      /\ \A i \in 1 .. Len(t) - 1 : Append(u, f)[i] = t[i]
      /\ Append(u, f)[Len(t)] = f
  BY <1>1, <1>2, <1>3, AppendProperties
<1>5. /\ [t EXCEPT ![Len(t)] = f] \in Seq(FrameType)
      /\ Len([t EXCEPT ![Len(t)] = f]) = Len(t)
      /\ \A i \in 1 .. Len(t) : [t EXCEPT ![Len(t)] = f][i] = IF i = Len(t) THEN f ELSE t[i]
  BY <1>1, ExceptSeq
<1>6. \A i \in 1 .. Len(t) : [t EXCEPT ![Len(t)] = f][i] = Append(u, f)[i]
  BY <1>1, <1>4, <1>5
<1>7. [t EXCEPT ![Len(t)] = f] = Append(u, f)
  BY <1>4, <1>5, <1>6, SeqEqual
<1>8. Append(u, f) = u \o <<f>> /\ u \o <<>> = u
  BY <1>2, AppendIsConcat, ConcatEmptySeq
<1>9. QED BY <1>2, <1>4, <1>7, <1>8 DEF u

\* Nothing is on its way: the two specifications are in the same state.
LEMMA BarArriving ==
  sig \in {Running, None} => framesBar = frames /\ outBar = out
BY DEF framesBar, outBar, Arriving

\* A signal is on its way.
LEMMA BarReturning ==
  sig \notin {Running, None} =>
    framesBar = Unwinding!Unwound(frames, sig) /\ outBar = Unwinding!Ends(frames, sig)
BY DEF framesBar, outBar, Arriving

\* The same, after a step.
LEMMA BarNext ==
  /\ sig' \in {Running, None} => framesBar' = frames' /\ outBar' = out'
  /\ sig' \notin {Running, None} =>
       framesBar' = Unwinding!Unwound(frames', sig') /\ outBar' = Unwinding!Ends(frames', sig')
BY DEF framesBar, outBar, Arriving

\* The interpreter is executing statements, or a signal is on its way.
Stutters == framesBar' = framesBar /\ outBar' = outBar

\* A construct that the signal does not concern returns it: nothing happens.
LEMMA PassOn ==
  ASSUME IInv, out = "running", sig \in Signals \ {None}, Top.kind # "script",
         ~Unwinding!Concerns(sig, Top), Pop(sig)
  PROVE  Stutters
<1>1. /\ frames \in Seq(FrameType) /\ Len(frames) > 1 /\ frames[1].kind = "script"
      /\ Top = frames[Len(frames)]
  BY TopFrame DEF IInv, TypeOK, Depth
<1>2. frames' = SubSeq(frames, 1, Len(frames) - 1) /\ sig' = sig
  BY DEF Pop, Below, Depth
<1>3. Unwinding!Unwound(frames, sig) = Unwinding!Unwound(frames', sig)
  BY <1>1, <1>2, UnwindBelow
<1>4. Unwinding!Ends(frames, sig) = Unwinding!Ends(frames', sig)
  BY <1>3 DEF Unwinding!Ends
<1>5. sig \notin {Running, None}
  BY SignalTypes
<1>6. QED BY <1>2, <1>3, <1>4, <1>5, BarReturning, BarNext DEF Stutters

\* The construct the signal is meant for goes on to another of its parts.
LEMMA ReactBecome ==
  ASSUME IInv, out = "running", sig \in Signals \ {None},
         Unwinding!Concerns(sig, Top), NEW f \in FrameType,
         Unwinding!Reaction(sig, Top) = <<f>>, Become(f)
  PROVE  Stutters
<1>1. frames \in Seq(FrameType) /\ frames # <<>> /\ Top = frames[Len(frames)]
  BY DEF IInv, TypeOK, Top, Depth
<1>2. frames' = [frames EXCEPT ![Len(frames)] = f] /\ sig' = Running /\ out' = "running"
  BY DEF Become, Depth
<1>3. Unwinding!Unwound(frames, sig) = SubSeq(frames, 1, Len(frames) - 1) \o <<f>>
  BY <1>1, UnwindTop
<1>4. Unwinding!Unwound(frames, sig) = frames' /\ frames' # <<>>
  BY <1>1, <1>2, <1>3, FrameSeqs
<1>5. Unwinding!Ends(frames, sig) = "running"
  BY <1>4 DEF Unwinding!Ends
<1>6. sig \notin {Running, None}
  BY SignalTypes
<1>7. QED BY <1>2, <1>4, <1>5, <1>6, BarReturning, BarNext DEF Stutters

\* The construct the signal is meant for is left, and the one around it goes on.
LEMMA ReactPop ==
  ASSUME IInv, out = "running", sig \in Signals \ {None}, Top.kind # "script",
         Unwinding!Concerns(sig, Top), Unwinding!Reaction(sig, Top) = <<>>, Pop(None)
  PROVE  Stutters
<1>1. /\ frames \in Seq(FrameType) /\ frames # <<>> /\ Top = frames[Len(frames)]
      /\ Len(frames) > 1 /\ Top \in FrameType
  BY TopFrame DEF IInv, TypeOK, Depth
<1>2. frames' = SubSeq(frames, 1, Len(frames) - 1) /\ sig' = Running /\ out' = "running"
  BY DEF Pop, Below, Depth
<1>3. Unwinding!Unwound(frames, sig) = SubSeq(frames, 1, Len(frames) - 1) \o <<>>
  BY <1>1, UnwindTop
<1>4. Unwinding!Unwound(frames, sig) = frames'
  BY <1>1, <1>2, <1>3, FrameSeqs
<1>5. Unwinding!Ends(frames, sig) = "running"
  BY <1>1, <1>2, <1>4, BelowFrames DEF Unwinding!Ends
<1>6. sig \notin {Running, None}
  BY SignalTypes
<1>7. QED BY <1>2, <1>4, <1>5, <1>6, BarReturning, BarNext DEF Stutters

\* A statement completes: the constructs up to the one it is meant for end at once.
LEMMA ReturnCompletes ==
  ASSUME out = "running", sig = Running, NEW s \in Signals, Return(s)
  PROVE  IF s = None THEN Stutters ELSE Structured!Complete(s)
<1>1. frames' = frames /\ out' = out /\ sig' = s
  BY DEF Return
<1>2. framesBar = frames /\ outBar = "running"
  BY BarArriving
<1>3. CASE s = None
  BY <1>1, <1>2, <1>3, BarNext DEF Stutters
<1>4. CASE s # None
  <2>1. /\ framesBar' = Unwinding!Unwound(frames, s)
        /\ outBar' = Unwinding!Ends(frames, s)
    BY <1>1, <1>4, SignalTypes, BarNext
  <2>2. /\ framesBar' = Structured!Unwound(framesBar, s)
        /\ outBar' = Structured!Ends(framesBar, s)
    BY <2>1, <1>2, SameUnwinding
  <2>3. QED BY <1>2, <1>4, <2>2 DEF Structured!Complete
<1>5. QED BY <1>3, <1>4

--------------------------------------------------------------------------------
(* RInv is inductive.                                                        *)

\* Only an Exit asks anything of the loops.
LEMMA NoExit ==
  ASSUME NEW fs, NEW s, s.s # "ExitLoop", NEW d
  PROVE  ExitMeant(fs, s, d)
BY DEF ExitMeant

\* The names of the signals.
LEMMA SignalNames ==
  /\ None.s = "None" /\ Error.s = "Error" /\ Running.s = "running"
  /\ \A s : Sig(s).s = s
  /\ \A l : ExitLoop(l).s = "ExitLoop"
  /\ \A s \in Signals : s.s = "None" <=> s = None
  /\ \A s \in Signals : s.s = "Error" <=> s = Error
<1>1. \A s : Sig(s).s = s
  BY DEF Sig
<1>2. \A l : ExitLoop(l).s = "ExitLoop"
  BY DEF ExitLoop
<1>3. ASSUME NEW s \in Signals PROVE (s.s = "None" => s = None) /\ (s.s = "Error" => s = Error)
  BY <1>3, <1>1, <1>2 DEF Signals, None, Error
<1>4. QED BY <1>1, <1>2, <1>3 DEF None, Error, Running

\* Where the frames below d stay, so does what an Exit meets there.
LEMMA SameLoops ==
  ASSUME NEW d \in Nat, NEW fs, NEW gs,
         \A i \in 1 .. d : gs[i].kind = fs[i].kind /\ gs[i].loop = fs[i].loop,
         NEW s, ExitMeant(fs, s, d)
  PROVE  ExitMeant(gs, s, d)
<1>1. \A i \in 1 .. d : LoopMet(gs, i, d) => LoopMet(fs, i, d)
  BY DEF LoopMet
<1>2. QED BY <1>1 DEF ExitMeant

\* A statement returns a signal.
LEMMA ReturnNested ==
  ASSUME RInv, Statements, NEW s \in Signals, Return(s), ExitMeant(frames, s, Depth)
  PROVE  RInv'
<1>1. frames' = frames /\ sig' = s /\ out' = out /\ out = "running" /\ Top.part # "head"
  BY DEF Return, Statements, Executing
<1>2. IInv'
  BY ReturnStep DEF RInv
<1>3. ExitMeant(frames', sig', Len(frames'))
  BY <1>1 DEF ExitMeant, LoopMet, Depth
<1>4. OnItsWay'
  BY <1>1, <1>3 DEF OnItsWay, Top, Depth
<1>5. Nested'
  BY <1>1 DEF RInv, Nested, ExitMeant, LoopMet, Depth
<1>6. QED BY <1>2, <1>4, <1>5 DEF RInv

\* A construct or a call is entered.
LEMMA EnterNested ==
  ASSUME RInv, Executing, NEW f, Fresh(f), Enter(f), IInv', f.catch # "empty",
         f.part = "head" => f.kind = "loop",
         Top.part = "head" => f.kind = "call"
  PROVE  RInv'
<1>1. /\ frames \in Seq(FrameType) /\ frames # <<>> /\ sig = Running /\ out = "running"
      /\ frames' = Append(frames, f) /\ f \in FrameType /\ sig' = sig /\ out' = out
  BY DEF RInv, IInv, TypeOK, Enter, Fresh, Executing
<1>2. /\ Len(frames') = Len(frames) + 1 /\ Len(frames) \in Nat
      /\ \A i \in 1 .. Len(frames) : frames'[i] = frames[i]
      /\ frames'[Len(frames) + 1] = f
  BY <1>1
<1>3. OnItsWay'
  BY <1>1, NoExit, SignalNames DEF OnItsWay
<1>4. ASSUME NEW i \in 1 .. Len(frames')
      PROVE  /\ frames'[i].catch # "empty"
             /\ frames'[i].part = "head" =>
                  /\ frames'[i].kind = "loop"
                  /\ i # Len(frames') => frames'[i + 1].kind = "call"
             /\ ExitMeant(frames', frames'[i].pend, i - 1)
  <2>1. CASE i = Len(frames) + 1
    BY <2>1, <1>2, NoExit, SignalNames DEF Fresh
  <2>2. CASE i \in 1 .. Len(frames)
    <3>1. /\ frames'[i] = frames[i] /\ i - 1 \in Nat
          /\ \A j \in 1 .. i - 1 : frames'[j].kind = frames[j].kind /\ frames'[j].loop = frames[j].loop
      BY <2>2, <1>2
    <3>2. ExitMeant(frames, frames[i].pend, i - 1)
      BY <2>2 DEF RInv, Nested, Depth
    <3>3. ExitMeant(frames', frames'[i].pend, i - 1)
      BY <3>1, <3>2, SameLoops
    <3>4. CASE i = Len(frames)
      BY <2>2, <3>1, <3>3, <3>4, <1>2 DEF RInv, Nested, Depth, Top
    <3>5. CASE i # Len(frames)
      <4>1. i + 1 \in 1 .. Len(frames)
        BY <2>2, <3>5, <1>2
      <4>2. QED BY <2>2, <3>1, <3>3, <3>5, <4>1, <1>2 DEF RInv, Nested, Depth
    <3>6. QED BY <3>4, <3>5
  <2>3. QED BY <2>1, <2>2, <1>2
<1>5. Nested'
  BY <1>4 DEF Nested, Depth
<1>6. QED BY <1>3, <1>5 DEF RInv

\* A construct returns: the loops around it are the ones the signal met before.
LEMMA PopNested ==
  ASSUME RInv, out = "running", Top.kind # "script", NEW s \in Signals, Pop(s), IInv',
         s \notin {None, Error} => Top.kind # "call",
         s.s = "ExitLoop" => Top.kind # "loop" /\ (s = sig \/ s = Top.pend)
  PROVE  RInv'
<1>1. /\ frames \in Seq(FrameType) /\ Len(frames) \in Nat /\ Len(frames) > 1
      /\ frames' = SubSeq(frames, 1, Len(frames) - 1) /\ out' = out
      /\ sig' = IF s = None THEN Running ELSE s
  BY TopFrame DEF RInv, IInv, TypeOK, Pop, Below, Depth
<1>2. Len(frames') = Len(frames) - 1 /\ \A i \in 1 .. Len(frames) - 1 : frames'[i] = frames[i]
  BY <1>1, BelowFrames
<1>3. sig' \notin {Running, Error} => Top'.part # "head"
  <2>1. SUFFICES ASSUME s \notin {None, Error} PROVE Top'.part # "head"
    BY <1>1
  <2>2. /\ Len(frames) - 1 \in 1 .. Len(frames) /\ Len(frames) - 1 # Len(frames)
        /\ (Len(frames) - 1) + 1 = Len(frames)
        /\ Len(frames) - 1 \in 1 .. Len(frames) - 1
    BY <1>1
  <2>3. frames[Len(frames) - 1].part = "head" => frames[Len(frames)].kind = "call"
    BY <2>2 DEF RInv, Nested, Depth
  <2>4. Top' = frames[Len(frames) - 1]
    BY <1>2, <2>2 DEF Top, Depth
  <2>5. QED BY <2>1, <2>3, <2>4 DEF Top, Depth
<1>4. ExitMeant(frames', sig', Len(frames'))
  <2>1. CASE sig'.s # "ExitLoop"
    BY <2>1 DEF ExitMeant
  <2>2. CASE sig'.s = "ExitLoop"
    <3>1. /\ s.s = "ExitLoop" /\ sig' = s /\ Top.kind # "loop" /\ (s = sig \/ s = Top.pend)
          /\ Top.kind # "call"
      BY <2>2, <1>1, SignalNames
    <3>2. ASSUME NEW i \in 1 .. Len(frames'), LoopMet(frames', i, Len(frames'))
          PROVE  s = ExitLoop(frames[i].loop)
      <4>1. i \in 1 .. Len(frames) - 1 /\ i \in 1 .. Len(frames) /\ Len(frames') = Len(frames) - 1
        BY <1>1, <1>2
      <4>2. LoopMet(frames, i, Len(frames) - 1)
        <5>1. \A j \in i + 1 .. Len(frames) - 1 : frames'[j] = frames[j]
          BY <1>1, <1>2, <4>1
        <5>2. QED BY <3>2, <4>1, <5>1, <1>2 DEF LoopMet
      <4>3. LoopMet(frames, i, Len(frames))
        <5>1. \A j \in i + 1 .. Len(frames) : j \in i + 1 .. Len(frames) - 1 \/ j = Len(frames)
          BY <1>1, <4>1
        <5>2. frames[Len(frames)].kind \notin {"loop", "call"}
          BY <3>1 DEF Top, Depth
        <5>3. QED BY <4>2, <5>1, <5>2 DEF LoopMet
      <4>4. CASE s = sig
        BY <3>1, <4>1, <4>3, <4>4 DEF RInv, OnItsWay, ExitMeant, Depth
      <4>5. CASE s = Top.pend
        <5>1. Len(frames) \in 1 .. Len(frames)
          BY <1>1
        <5>2. ExitMeant(frames, Top.pend, Len(frames) - 1)
          BY <5>1 DEF RInv, Nested, Top, Depth
        <5>3. QED BY <3>1, <4>1, <4>2, <4>5, <5>2 DEF ExitMeant
      <4>6. QED BY <3>1, <4>4, <4>5
    <3>3. \A i \in 1 .. Len(frames') : frames'[i] = frames[i]
      BY <1>2
    <3>4. QED BY <3>1, <3>2, <3>3 DEF ExitMeant, Depth
  <2>3. QED BY <2>1, <2>2
<1>5. ASSUME NEW i \in 1 .. Len(frames')
      PROVE  /\ frames'[i].catch # "empty"
             /\ frames'[i].part = "head" =>
                  /\ frames'[i].kind = "loop"
                  /\ i # Len(frames') => frames'[i + 1].kind = "call"
             /\ ExitMeant(frames', frames'[i].pend, i - 1)
  <2>1. /\ i \in 1 .. Len(frames) /\ i # Len(frames) /\ frames'[i] = frames[i] /\ i - 1 \in Nat
        /\ \A j \in 1 .. i - 1 : frames'[j].kind = frames[j].kind /\ frames'[j].loop = frames[j].loop
    BY <1>1, <1>2
  <2>2. ExitMeant(frames, frames[i].pend, i - 1)
    BY <2>1 DEF RInv, Nested, Depth
  <2>3. ExitMeant(frames', frames'[i].pend, i - 1)
    BY <2>1, <2>2, SameLoops
  <2>4. i # Len(frames') => i + 1 \in 1 .. Len(frames) - 1
    BY <1>1, <1>2, <2>1
  <2>5. QED BY <2>1, <2>3, <2>4, <1>2 DEF RInv, Nested, Depth
<1>6. Nested'
  BY <1>5 DEF Nested, Depth
<1>7. OnItsWay'
  BY <1>1, <1>3, <1>4 DEF OnItsWay, Depth
<1>8. QED BY <1>6, <1>7 DEF RInv

\* A construct goes on to another of its parts, and a Finally keeps the signal.
LEMMA BecomeNested ==
  ASSUME RInv, out = "running", NEW f \in FrameType, Become(f), IInv',
         f.kind = Top.kind, f.loop = Top.loop, f.catch = Top.catch,
         f.part = "head" => f.kind = "loop",
         f.pend.s = "ExitLoop" => f.pend = sig /\ Top.kind = "try"
  PROVE  RInv'
<1>1. /\ frames \in Seq(FrameType) /\ frames # <<>> /\ Len(frames) \in Nat /\ Len(frames) > 0
      /\ frames' = [frames EXCEPT ![Len(frames)] = f] /\ sig' = Running /\ out' = out
  BY TopFrame DEF RInv, IInv, TypeOK, Become, Depth
<1>2. /\ Len(frames') = Len(frames)
      /\ \A i \in 1 .. Len(frames) : i # Len(frames) => frames'[i] = frames[i]
      /\ frames'[Len(frames)] = f /\ Top = frames[Len(frames)]
  BY <1>1 DEF Top, Depth
<1>3. OnItsWay'
  BY <1>1, NoExit, SignalNames DEF OnItsWay
<1>4. \A i \in 1 .. Len(frames) : frames'[i].kind = frames[i].kind /\ frames'[i].loop = frames[i].loop
  BY <1>1, <1>2
<1>5. ASSUME NEW i \in 1 .. Len(frames')
      PROVE  /\ frames'[i].catch # "empty"
             /\ frames'[i].part = "head" =>
                  /\ frames'[i].kind = "loop"
                  /\ i # Len(frames') => frames'[i + 1].kind = "call"
             /\ ExitMeant(frames', frames'[i].pend, i - 1)
  <2>1. /\ i \in 1 .. Len(frames) /\ i - 1 \in Nat
        /\ \A j \in 1 .. i - 1 : frames'[j].kind = frames[j].kind /\ frames'[j].loop = frames[j].loop
    <3>1. i \in 1 .. Len(frames) /\ i - 1 \in Nat
      <4>1. i \in 1 .. Len(frames)
        BY <1>2, Zenon
      <4>2. QED BY <4>1
    <3>2. \A j \in 1 .. i - 1 : j \in 1 .. Len(frames)
      BY <1>1, <3>1
    <3>3. QED BY <3>1, <3>2, <1>4
  <2>2. CASE i # Len(frames)
    <3>1. ExitMeant(frames, frames[i].pend, i - 1)
      BY <2>1 DEF RInv, Nested, Depth
    <3>2. ExitMeant(frames', frames'[i].pend, i - 1)
      BY <2>1, <2>2, <3>1, <1>2, SameLoops
    <3>3. i + 1 \in 1 .. Len(frames)
      BY <1>1, <2>1, <2>2
    <3>4. QED BY <2>1, <2>2, <3>2, <3>3, <1>2, <1>4 DEF RInv, Nested, Depth
  <2>3. CASE i = Len(frames)
    <3>1. ExitMeant(frames, f.pend, i - 1)
      <4>1. SUFFICES ASSUME f.pend.s = "ExitLoop", NEW k \in 1 .. i - 1, LoopMet(frames, k, i - 1)
                     PROVE  f.pend = ExitLoop(frames[k].loop)
        BY DEF ExitMeant
      <4>2. LoopMet(frames, k, Len(frames)) /\ k \in 1 .. Len(frames)
        <5>1. \A j \in k + 1 .. Len(frames) : j \in k + 1 .. i - 1 \/ j = Len(frames)
          BY <1>1, <2>3, <4>1
        <5>2. frames[Len(frames)].kind \notin {"loop", "call"}
          BY <1>2, <4>1
        <5>3. k \in 1 .. Len(frames)
          BY <1>1, <2>3, <4>1
        <5>4. QED BY <4>1, <5>1, <5>2, <5>3 DEF LoopMet
      <4>3. QED BY <4>1, <4>2 DEF RInv, OnItsWay, ExitMeant, Depth
    <3>2. ExitMeant(frames', f.pend, i - 1)
      BY <2>1, <3>1, SameLoops
    <3>3. f.catch # "empty"
      BY <2>1, <2>3, <1>2 DEF RInv, Nested, Depth
    <3>4. QED BY <2>3, <3>2, <3>3, <1>2
  <2>4. QED BY <2>2, <2>3
<1>6. Nested'
  BY <1>5 DEF Nested, Depth
<1>7. QED BY <1>3, <1>6 DEF RInv

\* The script starts in a state of RInv.
LEMMA InitNested == Init => RInv
<1> SUFFICES ASSUME Init PROVE RInv
  OBVIOUS
<1>1. IInv
  BY InitInv
<1>2. /\ frames = <<Frame("script")>> /\ Len(frames) = 1 /\ frames[1] = Frame("script")
      /\ sig = Running /\ out = "running"
  BY DEF Init
<1>3. Frame("script").part = "body" /\ Frame("script").catch = "none" /\ Frame("script").pend = None
  BY DEF Frame
<1>4. OnItsWay
  BY <1>2, NoExit, SignalNames DEF OnItsWay
<1>5. Nested
  BY <1>2, <1>3, NoExit, SignalNames DEF Nested, Depth
<1>6. QED BY <1>1, <1>4, <1>5 DEF RInv

\* The loop an Exit names in a script that names the innermost one only.
LEMMA ExitNamesItsLoop ==
  ASSUME RInv, "exit_outer_loop" \notin Features, NEW l \in Loops \cup {"none"}, ExitStmt(l)
  PROVE  ExitMeant(frames, ExitLoop(l), Depth)
<1>1. /\ Top.part # "head" /\ out = "running"
      /\ IF l = "none" THEN EnclosingLoops = {} ELSE InnermostIs(l)
  BY DEF ExitStmt, Statements, Executing
<1>2. Depth \in Nat /\ Depth > 0 /\ Top = frames[Depth]
  BY <1>1, TopFrame DEF RInv
<1>3. SUFFICES ASSUME NEW i \in 1 .. Depth, LoopMet(frames, i, Depth)
               PROVE  frames[i].loop = l
  BY DEF ExitMeant
<1>4. frames[i].part # "head"
  <2>1. CASE i = Depth
    BY <1>1, <1>2, <2>1
  <2>2. CASE i # Depth
    <3>1. i + 1 \in i + 1 .. Depth
      BY <1>2, <2>2
    <3>2. frames[i + 1].kind # "call"
      BY <1>3, <3>1 DEF LoopMet
    <3>3. QED BY <2>2, <3>2 DEF RInv, Nested
  <2>3. QED BY <2>1, <2>2
<1>5. i \in EnclosingLoops
  <2>1. /\ frames[i] \in FrameType
        /\ frames[i].part \in {"catch", "finally"} => frames[i].kind = "try"
    <3>1. frames \in Seq(FrameType) /\ i \in 1 .. Len(frames)
      BY DEF RInv, IInv, TypeOK, Depth
    <3>2. frames[i] \in FrameType
      BY <3>1, ElementOfSeq
    <3>3. QED BY <3>2 DEF RInv, IInv, TypeOK
  <2>2. frames[i].kind = "loop" /\ \A j \in i + 1 .. Depth : frames[j].kind # "call"
    BY <1>3 DEF LoopMet
  <2>3. frames[i].part = "body"
    BY <1>4, <2>1, <2>2 DEF FrameType
  <2>4. QED BY <2>2, <2>3 DEF EnclosingLoops
<1>6. \A j \in EnclosingLoops : j <= i
  <2>1. SUFFICES ASSUME NEW j \in EnclosingLoops, ~(j <= i) PROVE FALSE
    OBVIOUS
  <2>2. j \in i + 1 .. Depth /\ frames[j].kind = "loop"
    BY <1>2, <2>1 DEF EnclosingLoops
  <2>3. QED BY <1>3, <2>2 DEF LoopMet
<1>7. PICK k \in EnclosingLoops : frames[k].loop = l /\ \A j \in EnclosingLoops : j <= k
  BY <1>1, <1>5 DEF InnermostIs
<1>8. k = i
  BY <1>5, <1>6, <1>7, <1>2 DEF EnclosingLoops
<1>9. QED BY <1>7, <1>8

\* What each fresh frame looks like.
LEMMA FreshParts ==
  /\ \A l : LoopFrame(l).kind = "loop" /\ LoopFrame(l).catch = "none"
  /\ \A c, f : /\ TryFrame(c, f).kind = "try" /\ TryFrame(c, f).part = "body"
               /\ TryFrame(c, f).catch = c
  /\ \A c : CallFrame(c).kind = "call" /\ CallFrame(c).catch = "none" /\ CallFrame(c).part = "body"
  /\ Frame("block").kind = "block" /\ Frame("block").catch = "none" /\ Frame("block").part = "body"
BY DEF LoopFrame, TryFrame, CallFrame, Frame

\* In a script with none of the habits, every action keeps RInv.
LEMMA StepNested ==
  ASSUME Features = {}, RInv, [Next]_vars PROVE RInv'
<1> USE SignalTypes, SignalNames
<1>0. IInv /\ IInv'
  BY StepInv DEF RInv
<1>1. CASE Fail
  <2>1. /\ frames' = frames /\ sig' = Error /\ out' = out /\ out = "running"
    BY <1>1 DEF Fail, Return, Executing
  <2>2. OnItsWay'
    BY <2>1, NoExit DEF OnItsWay
  <2>3. Nested'
    BY <2>1 DEF RInv, Nested, Depth
  <2>4. QED BY <1>0, <2>2, <2>3 DEF RInv
<1>2. CASE ContinueStmt
  BY <1>2, ReturnNested, NoExit DEF ContinueStmt
<1>3. CASE EndOfList
  BY <1>3, ReturnNested, NoExit DEF EndOfList
<1>4. ASSUME NEW l \in Loops \cup {"none"}, ExitStmt(l) PROVE RInv'
  BY <1>4, ReturnNested, ExitNamesItsLoop DEF ExitStmt
<1>5. ASSUME NEW s \in {"ExitSub", "ExitFunction", "Return"}, LeaveProcedure(s) PROVE RInv'
  BY <1>5, ReturnNested, NoExit DEF LeaveProcedure
<1>6. ASSUME NEW l \in Loops, EnterLoop(l) PROVE RInv'
  BY <1>0, <1>6, EnterNested, FreshFrames, FreshParts DEF EnterLoop, Statements
<1>7. CASE EnterBlock
  BY <1>0, <1>7, EnterNested, FreshFrames, FreshParts DEF EnterBlock, Statements
<1>8. ASSUME NEW c \in {"none", "empty", "body"}, NEW f \in BOOLEAN, EnterTry(c, f) PROVE RInv'
  BY <1>0, <1>8, EnterNested, FreshFrames, FreshParts DEF EnterTry, Statements
<1>9. ASSUME NEW c \in Contexts, CallProcedure(c) PROVE RInv'
  BY <1>0, <1>9, EnterNested, FreshFrames, FreshParts DEF CallProcedure
<1>10. CASE Iterate
  <2>1. out = "running" /\ Top.kind = "loop" /\ Top.part = "head"
    BY <1>10 DEF Iterate, Executing
  <2> DEFINE f == [Top EXCEPT !.part = "body"]
  <2>2. /\ f \in FrameType /\ f.kind = Top.kind /\ f.loop = Top.loop /\ f.catch = Top.catch
        /\ f.part = "body" /\ f.pend = None
    BY <1>0, <2>1, TopFrame DEF FrameType
  <2>3. QED BY <1>0, <1>10, <2>1, <2>2, BecomeNested DEF Iterate
<1>11. CASE EndLoop
  BY <1>0, <1>11, PopNested DEF EndLoop, Executing
<1>12. CASE LeaveLoopBody
  <2>1. out = "running" /\ Top.kind = "loop" /\ sig \in Signals
    BY <1>0, <1>12 DEF LeaveLoopBody, Returned, IInv, TypeOK
  <2>2. CASE sig.s \in {"None", "ContinueLoop"} /\ Top.part = "body"
    <3> DEFINE f == [Top EXCEPT !.part = "head"]
    <3>1. /\ f \in FrameType /\ f.kind = Top.kind /\ f.loop = Top.loop /\ f.catch = Top.catch
          /\ f.part = "head" /\ f.pend = None
      BY <1>0, <2>1, <2>2, TopFrame DEF FrameType
    <3>2. QED BY <1>0, <1>12, <2>1, <2>2, <3>1, BecomeNested DEF LeaveLoopBody
  <2>3. CASE ~(sig.s \in {"None", "ContinueLoop"} /\ Top.part = "body")
    BY <1>0, <1>12, <2>1, <2>3, PopNested DEF LeaveLoopBody
  <2>4. QED BY <2>2, <2>3
<1>13. CASE LeaveBlock
  BY <1>0, <1>13, PopNested DEF LeaveBlock, Returned, IInv, TypeOK
<1>14. CASE LeaveTryBody
  <2>1. out = "running" /\ Top.kind = "try" /\ Top.part # "finally" /\ sig \in Signals
    BY <1>0, <1>14 DEF LeaveTryBody, Returned, IInv, TypeOK
  <2>2. CASE Caught
    <3> DEFINE f == [Top EXCEPT !.part = "catch"]
    <3>1. /\ f \in FrameType /\ f.kind = Top.kind /\ f.loop = Top.loop /\ f.catch = Top.catch
          /\ f.part = "catch" /\ f.pend = None
      BY <1>0, <2>1, TopFrame DEF FrameType
    <3>2. QED BY <1>0, <1>14, <2>1, <2>2, <3>1, BecomeNested DEF LeaveTryBody
  <2>3. CASE ~Caught /\ Top.finally
    <3> DEFINE f == [Top EXCEPT !.part = "finally", !.pend = sig]
    <3>1. /\ f \in FrameType /\ f.kind = Top.kind /\ f.loop = Top.loop /\ f.catch = Top.catch
          /\ f.part = "finally" /\ f.pend = sig
      BY <1>0, <2>1, TopFrame DEF FrameType
    <3>2. QED BY <1>0, <1>14, <2>1, <2>3, <3>1, BecomeNested DEF LeaveTryBody
  <2>4. CASE ~Caught /\ ~Top.finally
    BY <1>0, <1>14, <2>1, <2>4, PopNested DEF LeaveTryBody
  <2>5. QED BY <2>2, <2>3, <2>4
<1>15. CASE LeaveFinally
  <2>1. out = "running" /\ Top.kind = "try" /\ sig \in Signals /\ Top.pend \in Signals
    BY <1>0, <1>15, TopFrame DEF LeaveFinally, Returned, IInv, TypeOK, FrameType
  <2>2. QED BY <1>0, <1>15, <2>1, PopNested DEF LeaveFinally
<1>16. CASE ReturnFromCall
  <2>1. sig.s = "Error" => sig = Error
    BY <1>0, <1>16 DEF ReturnFromCall, Returned, IInv, TypeOK
  <2>2. QED BY <1>0, <1>16, <2>1, PopNested DEF ReturnFromCall, Returned
<1>17. ASSUME frames' = <<>>, sig' = Running PROVE RInv'
  <2>1. Len(frames') = 0
    BY <1>17, EmptySeq, Zenon
  <2>2. OnItsWay'
    BY <1>17, NoExit DEF OnItsWay
  <2>3. Nested'
    BY <2>1 DEF Nested, Depth
  <2>4. QED BY <1>0, <2>2, <2>3 DEF RInv
<1>18. CASE EndScript
  BY <1>17, <1>18 DEF EndScript
<1>19. CASE Panic
  BY <1>17, <1>19 DEF Panic, Executing
<1>20. CASE UNCHANGED vars
  BY <1>0, <1>20 DEF vars, RInv, OnItsWay, Nested, Top, Depth
<1>21. QED
  BY <1>1, <1>2, <1>3, <1>4, <1>5, <1>6, <1>7, <1>8, <1>9, <1>10, <1>11, <1>12,
     <1>13, <1>14, <1>15, <1>16, <1>18, <1>19, <1>20 DEF Next

--------------------------------------------------------------------------------
\* Each action is a step of StructuredControl, or one it does not notice.
Implements == Structured!Next \/ Stutters

\* A statement that completes.
LEMMA ReturnImplements ==
  ASSUME Executing, NEW s \in Signals, Return(s)
  PROVE  Implements
<1>1. IF s = None THEN Stutters ELSE Structured!Complete(s)
  BY ReturnCompletes DEF Executing
<1>2. s # None => s \in Structured!Abrupt
  BY Completions
<1>3. QED BY <1>1, <1>2 DEF Implements, Structured!Next

\* The frame that is entered.
LEMMA EnterImplements ==
  ASSUME Executing, NEW f, Enter(f)
  PROVE  Structured!Enter(f)
<1>1. framesBar = frames /\ outBar = out /\ framesBar' = frames' /\ outBar' = out'
  BY BarArriving, BarNext DEF Executing, Enter
<1>2. QED BY <1>1 DEF Executing, Enter, Depth, Structured!Enter, Structured!Depth

\* The frames of the two specifications are the same.
LEMMA SameFrames ==
  /\ \A l : LoopFrame(l) = Structured!LoopFrame(l)
  /\ \A c, f : TryFrame(c, f) = Structured!TryFrame(c, f)
  /\ \A c : CallFrame(c) = Structured!CallFrame(c)
  /\ Frame("block") = Structured!Frame("block")
BY DEF LoopFrame, TryFrame, CallFrame, Frame, None, Sig, Structured!LoopFrame,
   Structured!TryFrame, Structured!CallFrame, Structured!Frame, Structured!Normal,
   Structured!Cpl

\* What is known while a statement, or the end of a list, is looked at.
LEMMA BarTop ==
  ASSUME RInv, out = "running", sig \in {Running, None}
  PROVE  /\ framesBar = frames /\ outBar = out
         /\ Structured!Top = Top /\ Structured!Depth = Depth
         /\ frames \in Seq(FrameType) /\ frames # <<>> /\ Top \in FrameType
<1>1. framesBar = frames /\ outBar = out
  BY BarArriving
<1>2. Structured!Top = Top /\ Structured!Depth = Depth
  BY <1>1 DEF Structured!Top, Structured!Depth, Top, Depth
<1>3. QED BY <1>1, <1>2, TopFrame DEF RInv, IInv, TypeOK

\* A list has ended, and its construct goes on to another part.
LEMMA EndPartBecome ==
  ASSUME RInv, out = "running", sig = None, NEW f \in FrameType, Become(f),
         \/ Top.kind = "loop" /\ Top.part = "body" /\ f = [Top EXCEPT !.part = "head"]
         \/ /\ Top.kind = "try" /\ Top.part # "finally" /\ Top.finally
            /\ f = [Top EXCEPT !.part = "finally", !.pend = None]
  PROVE  Structured!EndPart
<1>1. /\ framesBar = frames /\ outBar = "running"
      /\ Structured!Top = Top /\ Structured!Depth = Depth
      /\ frames \in Seq(FrameType) /\ frames # <<>>
  BY BarTop
<1>2. frames' = Append(SubSeq(frames, 1, Len(frames) - 1), f)
  BY <1>1, FrameSeqs DEF Become, Depth
<1>3. framesBar' = frames' /\ outBar' = out' /\ out' = out
  BY BarNext DEF Become
<1>4. framesBar' = Append(SubSeq(framesBar, 1, Structured!Depth - 1), f) /\ outBar' = outBar
  BY <1>1, <1>2, <1>3 DEF Depth
<1>5. CASE /\ Top.kind = "loop" /\ Top.part = "body" /\ f = [Top EXCEPT !.part = "head"]
  BY <1>1, <1>4, <1>5 DEF Structured!EndPart
<1>6. CASE /\ Top.kind = "try" /\ Top.part # "finally" /\ Top.finally
           /\ f = [Top EXCEPT !.part = "finally", !.pend = None]
  BY <1>1, <1>4, <1>6, Completions DEF Structured!EndPart
<1>7. QED BY <1>5, <1>6

\* A list has ended, and so has its construct.
LEMMA EndPartPop ==
  ASSUME RInv, out = "running", sig = None, Pop(None),
         \/ Top.kind \in {"block", "call"}
         \/ Top.kind = "try" /\ Top.part # "finally" /\ ~Top.finally
         \/ Top.kind = "try" /\ Top.part = "finally" /\ Top.pend = None
  PROVE  Structured!EndPart
<1>1. /\ framesBar = frames /\ outBar = "running"
      /\ Structured!Top = Top /\ Structured!Depth = Depth
  BY BarTop
<1>2. framesBar' = frames' /\ outBar' = out' /\ out' = out
  BY BarNext DEF Pop
<1>3. framesBar' = SubSeq(framesBar, 1, Structured!Depth - 1) /\ outBar' = outBar
  BY <1>1, <1>2 DEF Pop, Below
<1>4. QED BY <1>1, <1>3, Completions DEF Structured!EndPart

\* A Finally has ended, and gives back the signal it has kept.
LEMMA EndFinally ==
  ASSUME RInv, out = "running", sig = None, Pop(Top.pend),
         Top.kind = "try", Top.part = "finally", Top.pend # None
  PROVE  Structured!EndPart
<1>1. /\ framesBar = frames /\ outBar = "running"
      /\ Structured!Top = Top /\ Structured!Depth = Depth /\ Top \in FrameType
  BY BarTop
<1>2. frames' = SubSeq(frames, 1, Depth - 1) /\ sig' = Top.pend
  BY DEF Pop, Below
<1>3. sig' \notin {Running, None}
  BY <1>1, <1>2, SignalTypes DEF FrameType
<1>4. /\ framesBar' = Structured!Unwound(SubSeq(framesBar, 1, Structured!Depth - 1), Top.pend)
      /\ outBar' = Structured!Ends(SubSeq(framesBar, 1, Structured!Depth - 1), Top.pend)
  BY <1>1, <1>2, <1>3, BarNext, SameUnwinding
<1>5. QED BY <1>1, <1>4, Completions DEF Structured!EndPart

\* A signal reaches a loop: its own Exit, Continue, or one it returns.
LEMMA LoopImplements ==
  ASSUME RInv, LeaveLoopBody PROVE Implements
<1>1. /\ out = "running" /\ Top.kind = "loop" /\ sig \in Signals /\ sig # Running
      /\ Top \in FrameType /\ frames # <<>> /\ Depth \in Nat /\ Depth > 0 /\ Top = frames[Depth]
      /\ Top.part \in {"catch", "finally"} => Top.kind = "try"
  BY TopFrame DEF LeaveLoopBody, Returned, RInv, IInv, TypeOK
<1>2. sig \notin {Running, Error} => Top.part = "body"
  BY <1>1 DEF RInv, OnItsWay, FrameType
<1> DEFINE f == [Top EXCEPT !.part = "head"]
<1>3. f \in FrameType
  BY <1>1 DEF FrameType
<1>4. CASE sig = None
  <2>1. Become(f) /\ Top.part = "body"
    BY <1>1, <1>2, <1>4, SignalTypes, SignalNames DEF LeaveLoopBody
  <2>2. QED BY <1>1, <1>3, <1>4, <2>1, EndPartBecome DEF Implements, Structured!Next
<1>5. CASE sig.s = "ContinueLoop"
  <2>1. Become(f) /\ sig # None
    BY <1>1, <1>2, <1>5, SignalTypes, SignalNames DEF LeaveLoopBody
  <2>2. Unwinding!Concerns(sig, Top) /\ Unwinding!Reaction(sig, Top) = <<f>>
    BY <1>1, <1>5 DEF Unwinding!Concerns, Unwinding!Reaction
  <2>3. QED BY <1>1, <1>3, <2>1, <2>2, ReactBecome DEF RInv, Implements
<1>6. CASE sig.s = "ExitLoop"
  <2>1. Pop(None) /\ sig # None
    BY <1>1, <1>6, SignalNames DEF LeaveLoopBody
  <2>2. Depth \in 1 .. Depth /\ LoopMet(frames, Depth, Depth)
    BY <1>1 DEF LoopMet
  <2>3. sig = ExitLoop(Top.loop)
    BY <1>1, <1>6, <2>2 DEF RInv, OnItsWay, ExitMeant
  <2>4. Unwinding!Concerns(sig, Top) /\ Unwinding!Reaction(sig, Top) = <<>>
    BY <1>1, <1>6, <2>3 DEF Unwinding!Concerns, Unwinding!Reaction, Unwinding!ExitLoop, ExitLoop
  <2>5. QED BY <1>1, <2>1, <2>4, ReactPop DEF RInv, Implements
<1>7. CASE sig # None /\ sig.s # "ContinueLoop" /\ sig.s # "ExitLoop"
  <2>1. Pop(sig)
    BY <1>1, <1>7, SignalNames DEF LeaveLoopBody
  <2>2. ~Unwinding!Concerns(sig, Top)
    BY <1>1, <1>7 DEF Unwinding!Concerns, Unwinding!ExitLoop
  <2>3. QED BY <1>1, <1>7, <2>1, <2>2, PassOn DEF RInv, Implements
<1>8. QED BY <1>4, <1>5, <1>6, <1>7

\* A signal reaches If, Select or a line of statements, which return it.
LEMMA BlockImplements ==
  ASSUME RInv, LeaveBlock PROVE Implements
<1>1. /\ out = "running" /\ Top.kind = "block" /\ sig \in Signals /\ sig # Running /\ Pop(sig)
  BY DEF LeaveBlock, Returned, RInv, IInv, TypeOK
<1>2. CASE sig = None
  BY <1>1, <1>2, EndPartPop DEF Implements, Structured!Next
<1>3. CASE sig # None
  <2>1. ~Unwinding!Concerns(sig, Top)
    BY <1>1 DEF Unwinding!Concerns
  <2>2. QED BY <1>1, <1>3, <2>1, PassOn DEF RInv, Implements
<1>4. QED BY <1>2, <1>3

\* A signal reaches a Try: Catch takes an error, Finally keeps any signal.
LEMMA TryImplements ==
  ASSUME RInv, LeaveTryBody PROVE Implements
<1>1. /\ out = "running" /\ Top.kind = "try" /\ sig \in Signals /\ sig # Running
      /\ Top.part # "finally" /\ Top \in FrameType /\ Top.catch # "empty"
      /\ Top.part # "head"
  <2>1. Depth \in 1 .. Depth /\ Top = frames[Depth] /\ Top \in FrameType
    BY TopFrame DEF LeaveTryBody, Returned, RInv
  <2>2. /\ out = "running" /\ Top.kind = "try" /\ sig \in Signals /\ sig # Running
        /\ Top.part # "finally"
    BY DEF LeaveTryBody, Returned, RInv, IInv, TypeOK
  <2>3. Top.catch # "empty" /\ (Top.part = "head" => Top.kind = "loop")
    BY <2>1 DEF RInv, Nested
  <2>4. QED BY <2>1, <2>2, <2>3
<1>2. CASE Caught
  <2> DEFINE f == [Top EXCEPT !.part = "catch"]
  <2>1. Become(f) /\ f \in FrameType /\ sig # None
    BY <1>1, <1>2, SignalNames DEF LeaveTryBody, Caught, FrameType
  <2>2. Unwinding!Concerns(sig, Top) /\ Unwinding!Reaction(sig, Top) = <<f>>
    BY <1>1, <1>2 DEF Caught, Unwinding!Concerns, Unwinding!Reaction
  <2>3. QED BY <1>1, <2>1, <2>2, ReactBecome DEF RInv, Implements
<1>3. CASE ~Caught /\ Top.finally
  <2> DEFINE f == [Top EXCEPT !.part = "finally", !.pend = sig]
  <2>1. Become(f) /\ f \in FrameType
    BY <1>1, <1>3 DEF LeaveTryBody, FrameType
  <2>2. CASE sig = None
    BY <1>1, <1>3, <2>1, <2>2, EndPartBecome DEF Implements, Structured!Next
  <2>3. CASE sig # None
    <3>1. Unwinding!Concerns(sig, Top)
      BY <1>1, <1>3 DEF Unwinding!Concerns
    <3>2. Top.part = "catch" \/ sig.s # "Error" \/ Top.catch = "none"
      BY <1>1, <1>3 DEF Caught, FrameType
    <3>3. Unwinding!Reaction(sig, Top) = <<f>>
      BY <1>1, <3>2 DEF Unwinding!Reaction
    <3>4. QED BY <1>1, <2>1, <2>3, <3>1, <3>3, ReactBecome DEF RInv, Implements
  <2>4. QED BY <2>2, <2>3
<1>4. CASE ~Caught /\ ~Top.finally
  <2>1. Pop(sig)
    BY <1>4 DEF LeaveTryBody
  <2>2. CASE sig = None
    BY <1>1, <1>4, <2>1, <2>2, EndPartPop DEF Implements, Structured!Next
  <2>3. CASE sig # None
    <3>1. ~Unwinding!Concerns(sig, Top)
      BY <1>1, <1>4 DEF Caught, Unwinding!Concerns, FrameType
    <3>2. QED BY <1>1, <2>1, <2>3, <3>1, PassOn DEF RInv, Implements
  <2>4. QED BY <2>2, <2>3
<1>5. QED BY <1>2, <1>3, <1>4

\* A Finally has been executed: its own signal, or the one it has kept.
LEMMA FinallyImplements ==
  ASSUME RInv, LeaveFinally PROVE Implements
<1>1. /\ out = "running" /\ Top.kind = "try" /\ Top.part = "finally"
      /\ sig \in Signals /\ sig # Running
  BY DEF LeaveFinally, Returned, RInv, IInv, TypeOK
<1>2. CASE sig = None /\ Top.pend = None
  <2>1. Pop(None)
    BY <1>2 DEF LeaveFinally
  <2>2. QED BY <1>1, <1>2, <2>1, EndPartPop DEF Implements, Structured!Next
<1>3. CASE sig = None /\ Top.pend # None
  <2>1. Pop(Top.pend)
    BY <1>3 DEF LeaveFinally
  <2>2. QED BY <1>1, <1>3, <2>1, EndFinally DEF Implements, Structured!Next
<1>4. CASE sig # None
  <2>1. Pop(sig)
    BY <1>4 DEF LeaveFinally
  <2>2. ~Unwinding!Concerns(sig, Top)
    BY <1>1 DEF Unwinding!Concerns
  <2>3. QED BY <1>1, <1>4, <2>1, <2>2, PassOn DEF RInv, Implements
<1>5. QED BY <1>2, <1>3, <1>4

\* A call ends: an error goes on to the statement that called, unless IsError asks.
LEMMA CallImplements ==
  ASSUME RInv, "not_of_error" \notin Features, ReturnFromCall PROVE Implements
<1>1. /\ out = "running" /\ Top.kind = "call" /\ sig \in Signals /\ sig # Running
      /\ Top.ctx \in {"use", "IsError"}
  BY TopFrame DEF ReturnFromCall, Returned, RInv, IInv, TypeOK, CalledFrom, Contexts
<1>2. CASE sig = None
  <2>1. Pop(None)
    BY <1>2, SignalNames DEF ReturnFromCall
  <2>2. QED BY <1>1, <1>2, <2>1, EndPartPop DEF Implements, Structured!Next
<1>3. CASE sig # None /\ ~(sig.s = "Error" /\ Top.ctx = "use")
  <2>1. Pop(None)
    BY <1>3 DEF ReturnFromCall
  <2>2. Unwinding!Concerns(sig, Top) /\ Unwinding!Reaction(sig, Top) = <<>>
    BY <1>1, <1>3 DEF Unwinding!Concerns, Unwinding!Reaction
  <2>3. QED BY <1>1, <1>3, <2>1, <2>2, ReactPop DEF RInv, Implements
<1>4. CASE sig.s = "Error" /\ Top.ctx = "use"
  <2>1. Pop(sig) /\ sig # None
    BY <1>4, SignalNames DEF ReturnFromCall
  <2>2. ~Unwinding!Concerns(sig, Top)
    BY <1>1, <1>4 DEF Unwinding!Concerns
  <2>3. QED BY <1>1, <2>1, <2>2, PassOn DEF RInv, Implements
<1>5. QED BY <1>2, <1>3, <1>4

\* The script ends, and reports the signal.
LEMMA ScriptImplements ==
  ASSUME RInv, EndScript PROVE Implements
<1>1. /\ out = "running" /\ Top.kind = "script" /\ sig \in Signals /\ sig # Running
      /\ Depth = 1 /\ Top = frames[Depth] /\ frames \in Seq(FrameType) /\ frames # <<>>
  BY TopFrame DEF EndScript, Returned, RInv, IInv, TypeOK
<1>2. framesBar' = <<>> /\ outBar' = out' /\ frames' = <<>>
  BY BarNext DEF EndScript
<1>3. CASE sig = None
  <2>1. framesBar = frames /\ outBar = "running" /\ Structured!Top = Top
    BY <1>1, <1>3, BarTop
  <2>2. out' = "ok"
    BY <1>3, SignalNames DEF EndScript
  <2>3. Structured!EndPart
    BY <1>1, <1>2, <2>1, <2>2 DEF Structured!EndPart
  <2>4. QED BY <2>3 DEF Implements, Structured!Next
<1>4. CASE sig # None
  <2>1. Unwinding!Concerns(sig, Top) /\ Unwinding!Reaction(sig, Top) = <<>>
    BY <1>1 DEF Unwinding!Concerns, Unwinding!Reaction
  <2>2. Unwinding!Unwound(frames, sig) = SubSeq(frames, 1, Len(frames) - 1) \o <<>>
    BY <1>1, <2>1, UnwindTop DEF Depth
  <2>3. SubSeq(frames, 1, Len(frames) - 1) = <<>>
    BY <1>1, SubSeqEmpty DEF Depth
  <2>4. Unwinding!Unwound(frames, sig) = <<>>
    BY <2>2, <2>3, ConcatEmptySeq, EmptySeq
  <2>5. Unwinding!Ends(frames, sig) = Unwinding!Outcome(sig)
    BY <2>4 DEF Unwinding!Ends
  <2>6. sig.s \in {"None", "ExitSub", "ExitFunction", "Return", "Error", "ContinueLoop", "ExitLoop"}
    BY <1>1, SignalNames DEF Signals
  <2>7. out' = Unwinding!Outcome(sig)
    BY <2>6 DEF EndScript, Unwinding!Outcome
  <2>8. QED BY <1>1, <1>2, <1>4, <2>4, <2>5, <2>7, BarReturning DEF Implements, Stutters
<1>5. QED BY <1>3, <1>4

\* Every step of the interpreter implements a step of the specification.
LEMMA StepImplements ==
  ASSUME Features = {}, RInv, [Next]_vars
  PROVE  [Structured!Next]_Structured!vars
<1>1. SUFFICES Implements
  BY DEF Implements, Stutters, Structured!vars
<1> USE SignalTypes
<1>2. CASE Fail
  BY <1>2, ReturnImplements DEF Fail
<1>3. CASE ContinueStmt
  BY <1>3, ReturnImplements DEF ContinueStmt, Statements
<1>4. CASE EndOfList
  BY <1>4, ReturnImplements DEF EndOfList, Statements
<1>5. ASSUME NEW l \in Loops \cup {"none"}, ExitStmt(l) PROVE Implements
  BY <1>5, ReturnImplements DEF ExitStmt, Statements
<1>6. ASSUME NEW s \in {"ExitSub", "ExitFunction", "Return"}, LeaveProcedure(s) PROVE Implements
  BY <1>6, ReturnImplements DEF LeaveProcedure, Statements
<1>7. ASSUME NEW l \in Loops, EnterLoop(l) PROVE Implements
  BY <1>7, EnterImplements, SameFrames
     DEF EnterLoop, Statements, Implements, Structured!Next, Structured!Loops, Loops
<1>8. CASE EnterBlock
  BY <1>8, EnterImplements, SameFrames DEF EnterBlock, Statements, Implements, Structured!Next
<1>9. ASSUME NEW c \in {"none", "empty", "body"}, NEW f \in BOOLEAN, EnterTry(c, f)
      PROVE  Implements
  BY <1>9, EnterImplements, SameFrames DEF EnterTry, Statements, Implements, Structured!Next
<1>10. ASSUME NEW c \in Contexts, CallProcedure(c) PROVE Implements
  BY <1>10, EnterImplements, SameFrames
     DEF CallProcedure, Implements, Structured!Next, Structured!Contexts, Contexts
<1>11. CASE Iterate
  <2>1. out = "running" /\ sig = Running /\ Top.kind = "loop" /\ Top.part = "head"
    BY <1>11 DEF Iterate, Executing
  <2>2. /\ framesBar = frames /\ outBar = "running" /\ Structured!Top = Top
        /\ Structured!Depth = Depth /\ frames \in Seq(FrameType) /\ frames # <<>>
    BY <2>1, BarTop
  <2>3. framesBar' = frames' /\ outBar' = out' /\ out' = out
    BY <1>11, BarNext DEF Iterate, Become
  <2>4. frames' = [frames EXCEPT ![Depth].part = "body"]
    BY <1>11 DEF Iterate, Become, Top
  <2>5. Structured!Iterate
    BY <2>1, <2>2, <2>3, <2>4 DEF Structured!Iterate
  <2>6. QED BY <2>5 DEF Implements, Structured!Next
<1>12. CASE EndLoop
  <2>1. /\ out = "running" /\ sig = Running /\ Top.kind = "loop" /\ Top.part = "head"
        /\ Pop(None)
    BY <1>12 DEF EndLoop, Executing
  <2>2. framesBar = frames /\ outBar = "running" /\ Structured!Top = Top /\ Structured!Depth = Depth
    BY <2>1, BarTop
  <2>3. framesBar' = SubSeq(framesBar, 1, Structured!Depth - 1) /\ outBar' = outBar
    BY <2>1, <2>2, BarNext DEF Pop, Below
  <2>4. Structured!EndLoop
    BY <2>1, <2>2, <2>3 DEF Structured!EndLoop
  <2>5. QED BY <2>4 DEF Implements, Structured!Next
<1>13. CASE LeaveLoopBody
  BY <1>13, LoopImplements
<1>14. CASE LeaveBlock
  BY <1>14, BlockImplements
<1>15. CASE LeaveTryBody
  BY <1>15, TryImplements
<1>16. CASE LeaveFinally
  BY <1>16, FinallyImplements
<1>17. CASE ReturnFromCall
  BY <1>17, CallImplements
<1>18. CASE EndScript
  BY <1>18, ScriptImplements
<1>19. CASE Panic
  <2>1. framesBar' = <<>> /\ outBar' = "internal error" /\ outBar = "running"
    BY <1>19, BarNext, BarArriving DEF Panic, Executing
  <2>2. QED BY <2>1 DEF Structured!Panic, Implements, Structured!Next
<1>20. CASE UNCHANGED vars
  BY <1>20 DEF vars, Implements, Stutters, framesBar, outBar, Arriving
<1>21. QED
  BY <1>2, <1>3, <1>4, <1>5, <1>6, <1>7, <1>8, <1>9, <1>10, <1>11, <1>12, <1>13,
     <1>14, <1>15, <1>16, <1>17, <1>18, <1>19, <1>20 DEF Next

\* Constructs that hand signals to one another do, in every script with none of
\* the habits and at every depth, what unwinding at once does: each statement,
\* each end of a part and each loop head is a step of StructuredControl.
THEOREM Implementation ==
  ASSUME Features = {} PROVE Spec => RefinesStructuredControl
<1>1. Init => Structured!Init
  <2>1. Init => framesBar = <<Frame("script")>> /\ outBar = "running"
    BY BarArriving DEF Init
  <2>2. Frame("script") = Structured!Frame("script")
    BY Completions DEF Frame, Structured!Frame
  <2>3. QED BY <2>1, <2>2 DEF Structured!Init
<1>2. RInv /\ [Next]_vars => RInv'
  BY StepNested
<1>3. RInv /\ [Next]_vars => [Structured!Next]_Structured!vars
  BY StepImplements
<1>4. QED
  BY <1>1, <1>2, <1>3, InitNested, PTL DEF Spec, RefinesStructuredControl, Structured!Spec

--------------------------------------------------------------------------------
(* Values *)

\* Of numbers there is a least one.
LEMMA MinIs ==
  ASSUME NEW S \in SUBSET Nat, S # {}
  PROVE  Min(S) \in S /\ \A x \in S : Min(S) <= x
<1> DEFINE R == OpToRel(<, Nat)
<1>1. IsWellFoundedOn(R, Nat)
  BY NatLessThanWellFounded
<1>2. PICK x \in S : \A y \in S : ~(<<y, x>> \in R)
  <2> HIDE DEF R
  <2>1. QED BY <1>1, WFMin
<1>3. \A y \in S : ~(y < x)
  BY <1>2 DEF OpToRel
<1>4. \A y \in S : x <= y
  BY <1>3
<1>5. QED BY <1>4 DEF Min


\* A value of a script is one of these.
LEMMA ValueKinds ==
  ASSUME NEW v \in AllValues
  PROVE  \/ v = Num(0) \/ v = Num(2) \/ v = Num(3)
         \/ \E t \in Texts : v = Str(t)
         \/ v \in Bools \/ v = Null
<1>1. QED BY DEF AllValues, Literals

\* valuesAreEqual of two numbers compares them.
LEMMA EqualNumbers ==
  ASSUME NEW n \in {0, 2, 3}, NEW m \in {0, 2, 3}
  PROVE  valuesAreEqual(Num(n), Num(m)) <=> Num(m) = Num(n)
<1>1. QED BY DEF valuesAreEqual, Num

\* valuesAreEqual of two texts ignores their case.
LEMMA EqualTexts ==
  ASSUME NEW s \in Texts, NEW t \in Texts
  PROVE  valuesAreEqual(Str(s), Str(t)) <=> ToLower(t) = ToLower(s)
<1>1. QED BY DEF valuesAreEqual, Str

\* valuesAreEqual of a number and a text reads the text as a number.
LEMMA EqualMixed ==
  ASSUME NEW n \in {0, 2, 3}, NEW t \in Texts
  PROVE  /\ valuesAreEqual(Num(n), Str(t)) <=> toNumVal(Str(t)) = n
         /\ valuesAreEqual(Str(t), Num(n)) <=> toNumVal(Str(t)) = n
<1>1. QED BY DEF valuesAreEqual, Str, Num, toNumVal

\* A text that is written like a number is read as that number, by either parser of numbers.
LEMMA TextReadings ==
  ASSUME NEW n \in {0, 2, 3}, NEW t \in Texts
  PROVE  /\ toNumVal(Str(t)) = n /\ formatNum(n) = t => ToLower(t) = ToLower(formatNum(n)) /\ tryParseFloat(t) = n
         /\ ToLower(t) = ToLower(formatNum(n)) => toNumVal(Str(t)) = n /\ formatNum(n) = t
         /\ tryParseFloat(t) = n => toNumVal(Str(t)) = n
<1>1. formatNum(n) = IF n = 0 THEN "0" ELSE IF n = 2 THEN "1" ELSE "point"
  BY DEF formatNum
<1>2. toNumVal(Str(t)) = IF Reading(t) # NoNumber THEN Reading(t) ELSE 0
  <2>1. Str(t).kind = "str" /\ Str(t).str = t
    BY DEF Str
  <2>2. QED BY <2>1, Zenon DEF toNumVal
<1>3. Reading(t) = IF t = "0" THEN 0 ELSE IF t \in {"1", "01"} THEN 2
                   ELSE IF t \in {"point", "comma"} THEN 3 ELSE IF t = "inf" THEN 1000 ELSE 2000
  BY SMT DEF Reading, Infinity, NoNumber, Texts
<1>4. tryParseFloat(t) = IF t = "comma" THEN 2000 ELSE Reading(t)
  BY DEF tryParseFloat, NoNumber, Comma
<1>5. ToLower(t) = IF t = "A" THEN "a" ELSE t
  BY DEF ToLower
<1>6. ToLower(formatNum(n)) = formatNum(n)
  BY <1>1 DEF ToLower
<1>7. QED BY <1>1, <1>2, <1>3, <1>4, <1>5, <1>6 DEF NoNumber, Texts

\* Texts that differ in case only and can be read as numbers are the same text.
LEMMA SameReading ==
  ASSUME NEW s \in Texts, NEW t \in Texts, ToLower(s) = ToLower(t), NEW n \in {0, 2, 3}, tryParseFloat(s) = n
  PROVE  t = s
<1>1. QED BY DEF Texts, Reading, ToLower, tryParseFloat, Comma, NoNumber, Infinity

\* The two tables have what the search would find.
InTables(v, c) ==
  \/ v.kind = "num" /\ c = Num(v.num)
  \/ v.kind = "num" /\ c.kind = "str" /\ ToLower(c.str) = ToLower(AsText(v))
  \/ v.kind = "str" /\ c.kind = "str" /\ ToLower(c.str) = ToLower(v.str)
  \/ v.kind = "str" /\ c = Num(tryParseFloat(v.str))

\* Outside the odd pairs the dispatch tables have a case exactly when the comparison finds it.
LEMMA TablesAgree ==
  ASSUME NEW v \in AllValues, v \notin Bools, NEW c \in Literals, ~ Odd(v, c)
  PROVE  valuesAreEqual(v, c) <=> InTables(v, c)
<1>k. /\ \A n : Num(n).kind = "num" /\ Num(n).num = n /\ AsText(Num(n)) = formatNum(n)
      /\ \A t : Str(t).kind = "str" /\ Str(t).str = t /\ AsText(Str(t)) = t
  BY DEF Num, Str, AsText
<1>n. \A m, n : Num(n) = Num(m) <=> n = m
  BY DEF Num
<1>1. CASE \E n \in {0, 2, 3} : v = Num(n)
  <2>1. PICK n \in {0, 2, 3} : v = Num(n)
    BY <1>1
  <2>2. CASE \E m \in {0, 2, 3} : c = Num(m)
    <3>1. PICK m \in {0, 2, 3} : c = Num(m)
      BY <2>2
    <3>2. QED BY <1>k, <2>1, <3>1, EqualNumbers DEF InTables
  <2>3. CASE \E t \in Texts : c = Str(t)
    <3>1. PICK t \in Texts : c = Str(t)
      BY <2>3
    <3>2. valuesAreEqual(v, c) => formatNum(n) = t
      BY <1>k, <2>1, <3>1 DEF Odd
    <3>3. valuesAreEqual(v, c) <=> toNumVal(Str(t)) = n
      BY <2>1, <3>1, EqualMixed
    <3>4. InTables(v, c) <=> ToLower(t) = ToLower(formatNum(n))
      BY <1>k, <2>1, <3>1 DEF InTables
    <3>5. QED BY <3>2, <3>3, <3>4, TextReadings
  <2>4. QED BY <2>2, <2>3 DEF Literals
<1>2. CASE \E s \in Texts : v = Str(s)
  <2>1. PICK s \in Texts : v = Str(s)
    BY <1>2
  <2>2. CASE \E m \in {0, 2, 3} : c = Num(m)
    <3>1. PICK m \in {0, 2, 3} : c = Num(m)
      BY <2>2
    <3>2. valuesAreEqual(v, c) => formatNum(m) = s
      BY <1>k, <2>1, <3>1 DEF Odd
    <3>3. valuesAreEqual(v, c) <=> toNumVal(Str(s)) = m
      BY <2>1, <3>1, EqualMixed
    <3>4. InTables(v, c) <=> tryParseFloat(s) = m
      BY <1>k, <1>n, <2>1, <3>1 DEF InTables
    <3>5. QED BY <3>2, <3>3, <3>4, TextReadings
  <2>3. CASE \E t \in Texts : c = Str(t)
    <3>1. PICK t \in Texts : c = Str(t)
      BY <2>3
    <3>2. InTables(v, c) <=> ToLower(t) = ToLower(s)
      BY <1>k, <2>1, <3>1 DEF InTables
    <3>3. QED BY <2>1, <3>1, <3>2, EqualTexts
  <2>4. QED BY <2>2, <2>3 DEF Literals
<1>3. CASE v = Null
  <2>1. c.kind \in {"num", "str"} /\ v.kind = "null"
    BY <1>3, <1>k DEF Literals, Null
  <2>2. QED BY <2>1 DEF InTables, valuesAreEqual
<1>4. QED BY <1>1, <1>2, <1>3 DEF AllValues, Literals

\* A value that both tables have makes cases of both kinds that are equal.
LEMMA InBothTables ==
  ASSUME NEW v \in AllValues, NEW c \in Literals, NEW d \in Literals, d.kind = "str",
         \/ v.kind = "num" /\ c = Num(v.num) /\ ToLower(d.str) = ToLower(AsText(v))
         \/ v.kind = "str" /\ c = Num(tryParseFloat(v.str)) /\ ToLower(d.str) = ToLower(v.str)
  PROVE  {c.kind, d.kind} = {"num", "str"} /\ valuesAreEqual(c, d)
<1>k. /\ \A n : Num(n).kind = "num" /\ Num(n).num = n /\ AsText(Num(n)) = formatNum(n)
      /\ \A t : Str(t).kind = "str" /\ Str(t).str = t /\ AsText(Str(t)) = t
  BY DEF Num, Str, AsText
<1>n. \A m, n : Num(n) = Num(m) <=> n = m
  BY DEF Num
<1>1. PICK t \in Texts : d = Str(t)
  BY <1>k DEF Literals
<1>2. PICK n \in {0, 2, 3} : c = Num(n)
  BY <1>k DEF Literals, Num, Str
<1>3. CASE v.kind = "num"
  <2>1. v.num = n /\ v = Num(n)
    BY <1>2, <1>3, <1>k, <1>n DEF AllValues, Literals, Bools, Bool, Null
  <2>2. ToLower(t) = ToLower(formatNum(n))
    BY <2>1, <1>1, <1>3, <1>k
  <2>3. toNumVal(Str(t)) = n
    BY <2>2, TextReadings
  <2>4. QED BY <2>3, <1>1, <1>2, <1>k, EqualMixed
<1>4. CASE v.kind = "str"
  <2>1. PICK s \in Texts : v = Str(s)
    BY <1>4, <1>k DEF AllValues, Literals, Bools, Bool, Null
  <2>2. tryParseFloat(s) = n /\ ToLower(t) = ToLower(s)
    BY <2>1, <1>1, <1>2, <1>4, <1>k, <1>n
  <2>3. t = s
    BY <2>2, SameReading
  <2>4. toNumVal(Str(t)) = n
    BY <2>2, <2>3, TextReadings
  <2>5. QED BY <2>4, <1>1, <1>2, <1>k, EqualMixed
<1>5. QED BY <1>3, <1>4

\* A list of cases that are literals, among them none that either search alone calls the
\* value's and no number with a text that reads as it: the tables have the first case that
\* the search finds.
LEMMA DispatchIsScan ==
  ASSUME NEW v \in AllValues, v \notin Bools, NEW q \in Seq(Conditions), dispatchOK(q),
         "odd_numerals" \notin ValueFeatures, "mixed_cases" \notin ValueFeatures, Ordinary(v, q)
  PROVE  Dispatch(v, q) = Scan(v, q)
<1> DEFINE I == DOMAIN q
           Hits == {i \in I : Matches(v, q[i])}
           OfNumber(n) == {i \in I : q[i].value = Num(n)}
           Word(t) == {i \in I : q[i].value.kind = "str" /\ ToLower(q[i].value.str) = ToLower(t)}
           FirstOf(S) == IF S = {} THEN 0 ELSE Min(S)
<1>1. I \subseteq Nat \ {0}
  BY LenProperties
<1>2. \A S \in SUBSET I : S # {} => FirstOf(S) # 0
  <2>1. TAKE S \in SUBSET I
  <2>2. HAVE S # {}
  <2>3. Min(S) \in S
    BY <1>1, <2>2, MinIs
  <2>4. QED BY <1>1, <2>2, <2>3
<1>3. /\ \A n : dispatchNumCache(q, n) = FirstOf(OfNumber(n))
      /\ \A t : dispatchStrCache(q, t) = FirstOf(Word(t))
      /\ Scan(v, q) = FirstOf(Hits)
  BY DEF dispatchNumCache, dispatchStrCache, Scan
<1>4. ASSUME NEW i \in I
      PROVE  q[i].value \in Literals /\ ~ Odd(v, q[i].value) /\ (Matches(v, q[i]) <=> InTables(v, q[i].value))
  <2>1. q[i].is = "literal" /\ q[i].value \in Literals
    BY DEF dispatchOK
  <2>2. ~ Odd(v, q[i].value)
    BY DEF Ordinary
  <2>3. Matches(v, q[i]) <=> valuesAreEqual(v, q[i].value)
    BY <2>1 DEF Matches
  <2>4. QED BY <2>1, <2>2, <2>3, TablesAgree
<1>5. ASSUME NEW i \in I, NEW j \in I, q[j].value.kind = "str",
             \/ v.kind = "num" /\ q[i].value = Num(v.num) /\ ToLower(q[j].value.str) = ToLower(AsText(v))
             \/ v.kind = "str" /\ q[i].value = Num(tryParseFloat(v.str)) /\ ToLower(q[j].value.str) = ToLower(v.str)
      PROVE  FALSE
  <2>1. {q[i].value.kind, q[j].value.kind} = {"num", "str"} /\ valuesAreEqual(q[i].value, q[j].value)
    BY <1>4, <1>5, InBothTables
  <2>2. QED BY <2>1 DEF Ordinary
<1>6. CASE v.kind = "num"
  <2>1. Hits = OfNumber(v.num) \cup Word(AsText(v))
    BY <1>4, <1>6 DEF InTables
  <2>2. OfNumber(v.num) = {} \/ Word(AsText(v)) = {}
    BY <1>5, <1>6
  <2>3. Dispatch(v, q) = IF FirstOf(OfNumber(v.num)) # 0 THEN FirstOf(OfNumber(v.num)) ELSE FirstOf(Word(AsText(v)))
    <3> HIDE DEF FirstOf, OfNumber, Word
    <3>1. QED BY <1>3, <1>6 DEF Dispatch
  <2>4. CASE OfNumber(v.num) = {}
    BY <1>3, <2>1, <2>3, <2>4
  <2>5. CASE OfNumber(v.num) # {}
    <3>1. FirstOf(OfNumber(v.num)) # 0
      BY <1>2, <2>5
    <3>2. Hits = OfNumber(v.num)
      BY <2>1, <2>2, <2>5
    <3> HIDE DEF FirstOf, OfNumber, Word, Hits
    <3>3. QED BY <1>3, <2>3, <3>1, <3>2
  <2>6. QED BY <2>4, <2>5
<1>7. CASE v.kind = "str"
  <2> DEFINE n == tryParseFloat(v.str)
  <2>1. Hits = OfNumber(n) \cup Word(v.str)
    BY <1>4, <1>7 DEF InTables
  <2>2. OfNumber(n) = {} \/ Word(v.str) = {}
    BY <1>5, <1>7
  <2>3. Dispatch(v, q) = IF FirstOf(Word(v.str)) # 0 THEN FirstOf(Word(v.str)) ELSE FirstOf(OfNumber(n))
    <3> HIDE DEF FirstOf, OfNumber, Word
    <3>1. QED BY <1>3, <1>7 DEF Dispatch
  <2>4. CASE Word(v.str) = {}
    BY <1>3, <2>1, <2>3, <2>4
  <2>5. CASE Word(v.str) # {}
    <3>1. FirstOf(Word(v.str)) # 0
      BY <1>2, <2>5
    <3>2. Hits = Word(v.str)
      BY <2>1, <2>2, <2>5
    <3> HIDE DEF FirstOf, OfNumber, Word, Hits, n
    <3>3. QED BY <1>3, <2>3, <3>1, <3>2
  <2>6. QED BY <2>4, <2>5
<1>8. CASE v.kind \notin {"num", "str"}
  <2>1. Hits = {}
    BY <1>4, <1>8 DEF InTables
  <2>2. Dispatch(v, q) = 0
    BY <1>8 DEF Dispatch
  <2>3. QED BY <1>3, <2>1, <2>2
<1>9. QED BY <1>6, <1>7, <1>8

\* Whatever is read by tryNumber or, if it is not "inf", by requireNumber, is the same.
LEMMA NumbersAgree ==
  ASSUME NEW v \in AllValues, v # Str("inf")
  PROVE  requireNumber(v) = tryNumber(v)
<1>1. CASE v.kind = "num"
  BY <1>1 DEF requireNumber, tryNumber
<1>2. CASE v.kind = "str"
  <2>1. PICK t \in Texts : v = Str(t)
    BY <1>2 DEF AllValues, Literals, Bools, Bool, Null, Num, Str
  <2>2. v.str = t /\ t # "inf"
    BY <2>1 DEF Str
  <2>3. Reading(t) # Infinity
    <3>1. t \in {"empty", "a", "A", "0", "1", "01", "point", "comma"}
      BY <2>2 DEF Texts
    <3>2. QED BY <3>1 DEF Reading, Infinity, NoNumber
  <2>4. QED BY <1>2, <2>2, <2>3 DEF requireNumber, tryNumber
<1>3. CASE v.kind \notin {"num", "str"}
  BY <1>3 DEF requireNumber, tryNumber
<1>4. QED BY <1>1, <1>2, <1>3

\* On operands the plain operator accepts, the compound assignment computes the same.
LEMMA PlainIsCompound ==
  ASSUME NEW l, NEW r, requireNumber(l) = tryNumber(l), requireNumber(r) = tryNumber(r),
         NEW op \in {"+", "-", "*", "/"}
  PROVE  calculateBinaryOp(op, l, r) = BinOp(op, l, r)
<1>1. \A n : Num(n).kind = "num" /\ Num(n).num = n
  BY DEF Num
<1>2. \A n : tryNumber(Num(n)) = n
  BY <1>1, Zenon DEF tryNumber
<1>3. CASE op = "+"
  BY <1>3 DEF calculateBinaryOp, BinOp
<1>4. CASE op # "+"
  <2>1. CASE tryNumber(l) = NoNumber \/ tryNumber(r) = NoNumber
    BY <1>4, <2>1 DEF calculateBinaryOp, BinOp
  <2>2. CASE tryNumber(l) # NoNumber /\ tryNumber(r) # NoNumber
    <3>1. BinOp(op, l, r) = calculateBinaryOp(op, Num(tryNumber(l)), Num(tryNumber(r)))
      BY <1>4, <2>2 DEF BinOp
    <3>2. QED BY <1>1, <1>2, <1>4, <2>2, <3>1 DEF calculateBinaryOp
  <2>3. QED BY <2>1, <2>2
<1>5. QED BY <1>3, <1>4

\* The variables and the cases of a Select hold values of the model.
ValueInv == left \in AllValues /\ right \in AllValues /\ cases \in Seq(Conditions)

\* However many cases a Select has and whatever is compared with them: the case that is
\* executed is the first that matches, from the tables of the first execution as from the
\* search; and x op= y is x = x op y (evaluator.go:1386, :889).
THEOREM EitherWay ==
  ASSUME ValueFeatures = {}
  PROVE  ValueSpec => []SameEitherWay
<1>1. ValuesInit => ValueInv
  BY DEF ValuesInit, ValueInv
<1>2. ValueInv /\ [AddCase]_valueVars => ValueInv'
  BY DEF ValueInv, AddCase, valueVars
<1>3. ASSUME ValueInv PROVE SameEitherWay
  <2>1. SelectIsFirstMatch
    <3>1. CASE dispatchOK(cases) /\ left \notin Bools
      BY <1>3, <3>1, DispatchIsScan DEF ValueInv, SelectIsFirstMatch, Select
    <3>2. CASE ~ (dispatchOK(cases) /\ left \notin Bools)
      BY <3>2 DEF SelectIsFirstMatch, Select
    <3>3. QED BY <3>1, <3>2
  <2>2. CompoundIsPlain
    <3>1. SUFFICES ASSUME Str("inf") \notin {left, right}, NEW op \in {"+", "-", "*", "/"}
                   PROVE  calculateBinaryOp(op, left, right) = BinOp(op, left, right)
      BY DEF CompoundIsPlain, CompoundAssign, Folded
    <3>2. requireNumber(left) = tryNumber(left) /\ requireNumber(right) = tryNumber(right)
      BY <1>3, <3>1, NumbersAgree DEF ValueInv
    <3>3. QED BY <3>2, PlainIsCompound
  <2>3. QED BY <2>1, <2>2 DEF SameEitherWay
<1>4. QED BY <1>1, <1>2, <1>3, PTL DEF ValueSpec

--------------------------------------------------------------------------------
(* The JSON document: what a path leads to *)

\* A set of numbers that is not empty has a least one.
LEMMA LeastOf ==
  ASSUME NEW S \in SUBSET Nat, S # {}
  PROVE  \E x \in S : \A y \in S : x <= y
  BY MinIs

\* The nodes on the way along a path, at each of its places.
IsWalk(f, n, path) ==
  f = [i \in 0 .. Len(path) |-> IF i = 0 THEN {n} ELSE UNION {Child(c, path[i]) : c \in f[i - 1]}]

\* The walk getNested makes.
Walk(n, path) == CHOOSE f : IsWalk(f, n, path)

\* A walk exists: the recursion of NodeAt is well founded.
LEMMA WalkExists ==
  ASSUME NEW n, NEW path \in Seq(Keys)
  PROVE  \E f : IsWalk(f, n, path)
<1> DEFINE L == Len(path)
           Part(k, f) == f = [i \in 0 .. k |-> IF i = 0 THEN {n} ELSE UNION {Child(c, path[i]) : c \in f[i - 1]}]
           Bad == {k \in 0 .. L : ~ \E f : Part(k, f)}
<1>1. L \in Nat
  BY LenProperties
<1>2. ASSUME Bad # {} PROVE FALSE
  <2>0. Bad \in SUBSET Nat
    <3> HIDE DEF Part
    <3>1. QED BY <1>1
  <2>1. PICK k \in Bad : \A j \in Bad : k <= j
    <3> HIDE DEF Bad
    <3>1. QED BY <1>2, <2>0, LeastOf
  <2>2. CASE k = 0
    <3>1. Part(0, [i \in 0 .. 0 |-> {n}])
      OBVIOUS
    <3>2. QED BY <2>1, <2>2, <3>1
  <2>3. CASE k # 0
    <3>0. k \in 0 .. L /\ k \in Nat
      <4> HIDE DEF Part
      <4>1. QED BY <2>0, <2>1
    <3>1. k - 1 \in 0 .. L /\ k - 1 \notin Bad
      <4> HIDE DEF Bad
      <4>1. QED BY <1>1, <2>1, <2>3, <3>0
    <3>2. PICK g : Part(k - 1, g)
      BY <3>1
    <3> DEFINE f == [i \in 0 .. k |-> IF i < k THEN g[i] ELSE UNION {Child(c, path[k]) : c \in g[k - 1]}]
    <3>3. k \in Nat \ {0}
      BY <1>1, <2>1, <2>3
    <3>4. ASSUME NEW i \in 0 .. k
          PROVE  f[i] = IF i = 0 THEN {n} ELSE UNION {Child(c, path[i]) : c \in f[i - 1]}
      <4>1. CASE i < k
        <5>1. f[i] = g[i] /\ i \in 0 .. k - 1
          BY <3>3, <4>1
        <5>2. i # 0 => f[i - 1] = g[i - 1]
          BY <3>3, <4>1
        <5>3. g[i] = IF i = 0 THEN {n} ELSE UNION {Child(c, path[i]) : c \in g[i - 1]}
          BY <3>2, <5>1
        <5> HIDE DEF f
        <5>4. QED BY <5>1, <5>2, <5>3
      <4>2. CASE i = k
        <5>1. f[i] = UNION {Child(c, path[k]) : c \in g[k - 1]} /\ f[i - 1] = g[k - 1] /\ i # 0
          BY <3>3, <4>2
        <5> HIDE DEF f
        <5>2. QED BY <4>2, <5>1
      <4>3. QED BY <3>3, <4>1, <4>2
    <3>5. Part(k, f)
      <4> DEFINE e == [i \in 0 .. k |-> IF i = 0 THEN {n} ELSE UNION {Child(c, path[i]) : c \in f[i - 1]}]
      <4>1. \A i \in 0 .. k : e[i] = f[i]
        BY <3>4
      <4>2. f = [i \in 0 .. k |-> f[i]] /\ e = [i \in 0 .. k |-> e[i]]
        OBVIOUS
      <4>3. f = e
        <5> HIDE DEF e, f
        <5>1. QED BY <4>1, <4>2
      <4>4. QED BY <4>3
    <3>6. QED BY <2>1, <3>5
  <2>4. QED BY <2>2, <2>3
<1>3. \E f : Part(L, f)
  <2>1. L \notin Bad /\ L \in 0 .. L
    <3> HIDE DEF Part
    <3>1. QED BY <1>1, <1>2
  <2>2. QED BY <2>1
<1>4. QED BY <1>3 DEF IsWalk

\* What getNested finds, one key of the path after the other.
LEMMA WalkIs ==
  ASSUME NEW n, NEW path \in Seq(Keys)
  PROVE  /\ IsWalk(Walk(n, path), n, path)
         /\ NodeAt(n, path) = Walk(n, path)[Len(path)]
         /\ Walk(n, path)[0] = {n}
         /\ \A i \in 1 .. Len(path) : Walk(n, path)[i] = UNION {Child(c, path[i]) : c \in Walk(n, path)[i - 1]}
<1>1. IsWalk(Walk(n, path), n, path)
  BY WalkExists, Zenon DEF Walk
<1>2. NodeAt(n, path) = Walk(n, path)[Len(path)]
  BY Zenon DEF NodeAt, Walk, IsWalk
<1>3. Len(path) \in Nat
  BY LenProperties
<1> DEFINE w == Walk(n, path)
<1>4. w = [i \in 0 .. Len(path) |-> IF i = 0 THEN {n} ELSE UNION {Child(c, path[i]) : c \in w[i - 1]}]
  BY <1>1 DEF IsWalk
<1>5. ASSUME NEW i \in 0 .. Len(path)
      PROVE w[i] = IF i = 0 THEN {n} ELSE UNION {Child(c, path[i]) : c \in w[i - 1]}
  <2> HIDE DEF w
  <2>1. QED BY <1>4
<1>6. w[0] = {n} /\ \A i \in 1 .. Len(path) : w[i] = UNION {Child(c, path[i]) : c \in w[i - 1]}
  <2> HIDE DEF w
  <2>0. 0 \in 0 .. Len(path)
    BY <1>3
  <2>1. w[0] = {n}
    BY <2>0, <1>5
  <2>2. ASSUME NEW i \in 1 .. Len(path) PROVE w[i] = UNION {Child(c, path[i]) : c \in w[i - 1]}
    BY <1>3, <1>5, i # 0, i \in 0 .. Len(path)
  <2>3. QED BY <2>1, <2>2
<1>7. QED BY <1>1, <1>2, <1>6


\* What is in a document is found step by step: what is at the end of a path is what is there
\* in one of the nodes after the first part of it.
LEMMA Onwards ==
  ASSUME NEW n, NEW p \in Seq(Keys), NEW s \in Seq(Keys)
  PROVE  NodeAt(n, p \o s) = UNION {NodeAt(c, s) : c \in NodeAt(n, p)}
<1> DEFINE L == Len(p)
           t == p \o s
           w == Walk(n, t)
           u == Walk(n, p)
           v(c) == Walk(c, s)
<1>1. /\ L \in Nat /\ Len(s) \in Nat /\ t \in Seq(Keys) /\ Len(t) = L + Len(s)
      /\ \A i \in 1 .. L : t[i] = p[i]
      /\ \A i \in 1 .. Len(s) : t[L + i] = s[i]
  BY LenProperties, ConcatProperties
<1>2. /\ NodeAt(n, t) = w[L + Len(s)] /\ w[0] = {n}
      /\ \A i \in 1 .. L + Len(s) : w[i] = UNION {Child(c, t[i]) : c \in w[i - 1]}
  <2> HIDE DEF t, L
  <2>0. t \in Seq(Keys)
    BY <1>1
  <2>1. /\ NodeAt(n, t) = Walk(n, t)[Len(t)] /\ Walk(n, t)[0] = {n}
        /\ \A i \in 1 .. Len(t) : Walk(n, t)[i] = UNION {Child(c, t[i]) : c \in Walk(n, t)[i - 1]}
    <3>1. \A q \in Seq(Keys) :
        /\ NodeAt(n, q) = Walk(n, q)[Len(q)] /\ Walk(n, q)[0] = {n}
        /\ \A i \in 1 .. Len(q) : Walk(n, q)[i] = UNION {Child(c, q[i]) : c \in Walk(n, q)[i - 1]}
      BY WalkIs
    <3>2. QED BY <3>1, <2>0, Zenon
  <2>2. QED BY <1>1, <2>1
<1>3. /\ NodeAt(n, p) = u[L] /\ u[0] = {n}
      /\ \A i \in 1 .. L : u[i] = UNION {Child(c, p[i]) : c \in u[i - 1]}
  BY WalkIs
<1>4. \A c : /\ NodeAt(c, s) = v(c)[Len(s)] /\ v(c)[0] = {c}
            /\ \A i \in 1 .. Len(s) : v(c)[i] = UNION {Child(e, s[i]) : e \in v(c)[i - 1]}
  BY WalkIs
<1> HIDE DEF t, w, u, v, L
<1>5. \A i \in 0 .. L : w[i] = u[i]
  <2> DEFINE Bad == {i \in 0 .. L : w[i] # u[i]}
  <2>1. SUFFICES ASSUME Bad # {} PROVE FALSE
    OBVIOUS
  <2>2. PICK i \in Bad : \A j \in Bad : i <= j
    <3>1. Bad \in SUBSET Nat
      BY <1>1
    <3> HIDE DEF Bad
    <3>2. QED BY <2>1, <3>1, LeastOf
  <2>3. i # 0
    BY <1>2, <1>3, <2>2
  <2>4. i - 1 \in 0 .. L /\ i \in 1 .. L /\ i - 1 \notin Bad
    BY <1>1, <2>2, <2>3
  <2>5. w[i - 1] = u[i - 1] /\ t[i] = p[i] /\ i \in 1 .. L + Len(s)
    BY <1>1, <2>4
  <2>6. w[i] = UNION {Child(c, t[i]) : c \in w[i - 1]} /\ u[i] = UNION {Child(c, p[i]) : c \in u[i - 1]}
    BY <1>2, <1>3, <2>4, <2>5
  <2>7. QED BY <2>2, <2>5, <2>6
<1>6. \A i \in 0 .. Len(s) : w[L + i] = UNION {v(c)[i] : c \in u[L]}
  <2> DEFINE Bad == {i \in 0 .. Len(s) : w[L + i] # UNION {v(c)[i] : c \in u[L]}}
  <2>1. SUFFICES ASSUME Bad # {} PROVE FALSE
    OBVIOUS
  <2>2. PICK i \in Bad : \A j \in Bad : i <= j
    <3>1. Bad \in SUBSET Nat
      BY <1>1
    <3> HIDE DEF Bad
    <3>2. QED BY <2>1, <3>1, LeastOf
  <2>3. i # 0
    <3>1. L \in 0 .. L /\ L + 0 = L
      BY <1>1
    <3>2. w[L + 0] = u[L]
      BY <1>5, <3>1
    <3>3. UNION {v(c)[0] : c \in u[L]} = u[L]
      BY <1>4
    <3>4. QED BY <2>2, <3>2, <3>3
  <2>4. i - 1 \in 0 .. Len(s) /\ i \in 1 .. Len(s) /\ i - 1 \notin Bad
    BY <1>1, <2>2, <2>3
  <2>5. w[L + (i - 1)] = UNION {v(c)[i - 1] : c \in u[L]}
    BY <2>4
  <2>6. L + i \in 1 .. L + Len(s) /\ (L + i) - 1 = L + (i - 1) /\ t[L + i] = s[i]
    BY <1>1, <2>4
  <2>a. w[L + i] = UNION {Child(e, t[L + i]) : e \in w[(L + i) - 1]}
    BY <1>2, <2>6
  <2>7. w[L + i] = UNION {Child(e, s[i]) : e \in UNION {v(c)[i - 1] : c \in u[L]}}
    BY <2>a, <2>5, <2>6
  <2>8. \A c : v(c)[i] = UNION {Child(e, s[i]) : e \in v(c)[i - 1]}
    BY <1>4, <2>4
  <2>9. w[L + i] = UNION {v(c)[i] : c \in u[L]}
    BY <2>7, <2>8
  <2>10. QED BY <2>2, <2>9
<1>7. w[L + Len(s)] = UNION {v(c)[Len(s)] : c \in u[L]}
  BY <1>1, <1>6
<1>8. QED BY <1>2, <1>3, <1>4, <1>7 DEF t

\* The document itself is at the empty path, its children at the paths of one key.
LEMMA NearRoot ==
  ASSUME NEW n
  PROVE  /\ NodeAt(n, <<>>) = {n}
         /\ \A x \in Keys : NodeAt(n, <<x>>) = Child(n, x)
<1>1. NodeAt(n, <<>>) = {n}
  <2>1. <<>> \in Seq(Keys) /\ Len(<<>>) = 0
    OBVIOUS
  <2>2. QED BY <2>1, WalkIs
<1>2. ASSUME NEW x \in Keys PROVE NodeAt(n, <<x>>) = Child(n, x)
  <2> DEFINE p == <<x>>
  <2>1. p \in Seq(Keys) /\ Len(p) = 1 /\ p[1] = x /\ 1 \in 1 .. 1 /\ 1 - 1 = 0
    OBVIOUS
  <2> HIDE DEF p
  <2>a. p \in Seq(Keys)
    BY <2>1
  <2>2. /\ NodeAt(n, p) = Walk(n, p)[Len(p)] /\ Walk(n, p)[0] = {n}
        /\ \A i \in 1 .. Len(p) : Walk(n, p)[i] = UNION {Child(c, p[i]) : c \in Walk(n, p)[i - 1]}
    <3>1. \A q \in Seq(Keys) :
        /\ NodeAt(n, q) = Walk(n, q)[Len(q)] /\ Walk(n, q)[0] = {n}
        /\ \A i \in 1 .. Len(q) : Walk(n, q)[i] = UNION {Child(c, q[i]) : c \in Walk(n, q)[i - 1]}
      BY WalkIs
    <3>2. QED BY <3>1, <2>a, Zenon
  <2>3. Walk(n, p)[1] = UNION {Child(c, p[1]) : c \in Walk(n, p)[0]}
    BY <2>1, <2>2
  <2>4. NodeAt(n, p) = Child(n, x)
    BY <2>1, <2>2, <2>3
  <2>5. QED BY <2>4 DEF p
<1>3. QED BY <1>1, <1>2

\* getNested of a path is getNested of its tail below the first key.
LEMMA FromHead ==
  ASSUME NEW n, NEW path \in Seq(Keys), path # <<>>
  PROVE  NodeAt(n, path) = UNION {NodeAt(c, Tail(path)) : c \in Child(n, path[1])}
<1> DEFINE h == <<path[1]>>
           t == Tail(path)
<1>1. path[1] \in Keys /\ h \in Seq(Keys) /\ t \in Seq(Keys) /\ path = h \o t
  BY HeadTailProperties
<1>2. NodeAt(n, h) = Child(n, path[1])
  BY <1>1, NearRoot
<1> HIDE DEF h, t
<1>a. h \in Seq(Keys) /\ t \in Seq(Keys)
  BY <1>1
<1>b. \A q, r \in Seq(Keys) : NodeAt(n, q \o r) = UNION {NodeAt(c, r) : c \in NodeAt(n, q)}
  BY Onwards
<1>3. NodeAt(n, h \o t) = UNION {NodeAt(c, t) : c \in NodeAt(n, h)}
  BY <1>a, <1>b, Zenon
<1>4. QED BY <1>1, <1>2, <1>3 DEF t

\* getNested of a path with one more key looks that key up in what it finds without it.
LEMMA ToLast ==
  ASSUME NEW n, NEW path \in Seq(Keys), NEW x \in Keys
  PROVE  NodeAt(n, Append(path, x)) = UNION {Child(c, x) : c \in NodeAt(n, path)}
<1> DEFINE t == <<x>>
<1>1. Append(path, x) = path \o t /\ t \in Seq(Keys)
  OBVIOUS
<1>2. \A c : NodeAt(c, t) = Child(c, x)
  BY NearRoot
<1> HIDE DEF t
<1>3. NodeAt(n, path \o t) = UNION {NodeAt(c, t) : c \in NodeAt(n, path)}
  BY <1>1, Onwards
<1>4. QED BY <1>1, <1>2, <1>3

--------------------------------------------------------------------------------
(* Replacing a node *)

\* The same for the nodes setNested passes, where it makes what is missing.
IsWay(f, n, path) ==
  f = [i \in 0 .. Len(path) |-> IF i = 0 THEN {n} ELSE UNION {NodeFor(c, path[i]) : c \in f[i - 1]}]

\* A way exists: the recursion of Way is well founded.
LEMMA WayExists ==
  ASSUME NEW n, NEW path \in Seq(Keys)
  PROVE  \E f : IsWay(f, n, path)
<1> DEFINE L == Len(path)
           Part(k, f) == f = [i \in 0 .. k |-> IF i = 0 THEN {n} ELSE UNION {NodeFor(c, path[i]) : c \in f[i - 1]}]
           Bad == {k \in 0 .. L : ~ \E f : Part(k, f)}
<1>1. L \in Nat
  BY LenProperties
<1>2. ASSUME Bad # {} PROVE FALSE
  <2>0. Bad \in SUBSET Nat
    <3> HIDE DEF Part
    <3>1. QED BY <1>1
  <2>1. PICK k \in Bad : \A j \in Bad : k <= j
    <3> HIDE DEF Bad
    <3>1. QED BY <1>2, <2>0, LeastOf
  <2>2. CASE k = 0
    <3>1. Part(0, [i \in 0 .. 0 |-> {n}])
      OBVIOUS
    <3>2. QED BY <2>1, <2>2, <3>1
  <2>3. CASE k # 0
    <3>0. k \in 0 .. L /\ k \in Nat
      <4> HIDE DEF Part
      <4>1. QED BY <2>0, <2>1
    <3>1. k - 1 \in 0 .. L /\ k - 1 \notin Bad
      <4> HIDE DEF Bad
      <4>1. QED BY <1>1, <2>1, <2>3, <3>0
    <3>2. PICK g : Part(k - 1, g)
      BY <3>1
    <3> DEFINE f == [i \in 0 .. k |-> IF i < k THEN g[i] ELSE UNION {NodeFor(c, path[k]) : c \in g[k - 1]}]
    <3>3. k \in Nat \ {0}
      BY <1>1, <2>1, <2>3
    <3>4. ASSUME NEW i \in 0 .. k
          PROVE  f[i] = IF i = 0 THEN {n} ELSE UNION {NodeFor(c, path[i]) : c \in f[i - 1]}
      <4>1. CASE i < k
        <5>1. f[i] = g[i] /\ i \in 0 .. k - 1
          BY <3>3, <4>1
        <5>2. i # 0 => f[i - 1] = g[i - 1]
          BY <3>3, <4>1
        <5>3. g[i] = IF i = 0 THEN {n} ELSE UNION {NodeFor(c, path[i]) : c \in g[i - 1]}
          BY <3>2, <5>1
        <5> HIDE DEF f
        <5>4. QED BY <5>1, <5>2, <5>3
      <4>2. CASE i = k
        <5>1. f[i] = UNION {NodeFor(c, path[k]) : c \in g[k - 1]} /\ f[i - 1] = g[k - 1] /\ i # 0
          BY <3>3, <4>2
        <5> HIDE DEF f
        <5>2. QED BY <4>2, <5>1
      <4>3. QED BY <3>3, <4>1, <4>2
    <3>5. Part(k, f)
      <4> DEFINE e == [i \in 0 .. k |-> IF i = 0 THEN {n} ELSE UNION {NodeFor(c, path[i]) : c \in f[i - 1]}]
      <4>1. \A i \in 0 .. k : e[i] = f[i]
        BY <3>4
      <4>2. f = [i \in 0 .. k |-> f[i]] /\ e = [i \in 0 .. k |-> e[i]]
        OBVIOUS
      <4>3. f = e
        <5> HIDE DEF e, f
        <5>1. QED BY <4>1, <4>2
      <4>4. QED BY <4>3
    <3>6. QED BY <2>1, <3>5
  <2>4. QED BY <2>2, <2>3
<1>3. \E f : Part(L, f)
  <2>1. L \notin Bad /\ L \in 0 .. L
    <3> HIDE DEF Part
    <3>1. QED BY <1>1, <1>2
  <2>2. QED BY <2>1
<1>4. QED BY <1>3 DEF IsWay

\* Way is the function its recursion describes.
LEMMA WayIsChosen ==
  ASSUME NEW n, NEW path
  PROVE  Way(n, path) = CHOOSE f : IsWay(f, n, path)
BY Zenon DEF Way, IsWay

\* The nodes setNested comes by, one key of the path after the other.
LEMMA WayIs ==
  ASSUME NEW n, NEW path \in Seq(Keys)
  PROVE  /\ IsWay(Way(n, path), n, path)
         /\ Way(n, path)[0] = {n}
         /\ \A i \in 1 .. Len(path) : Way(n, path)[i] = UNION {NodeFor(c, path[i]) : c \in Way(n, path)[i - 1]}
<1>1. IsWay(Way(n, path), n, path)
  BY WayIsChosen, WayExists, Zenon
<1>3. Len(path) \in Nat
  BY LenProperties
<1> DEFINE w == Way(n, path)
<1>4. w = [i \in 0 .. Len(path) |-> IF i = 0 THEN {n} ELSE UNION {NodeFor(c, path[i]) : c \in w[i - 1]}]
  BY <1>1 DEF IsWay
<1>5. ASSUME NEW i \in 0 .. Len(path)
      PROVE w[i] = IF i = 0 THEN {n} ELSE UNION {NodeFor(c, path[i]) : c \in w[i - 1]}
  <2> HIDE DEF w
  <2>1. QED BY <1>4
<1>6. w[0] = {n} /\ \A i \in 1 .. Len(path) : w[i] = UNION {NodeFor(c, path[i]) : c \in w[i - 1]}
  <2> HIDE DEF w
  <2>0. 0 \in 0 .. Len(path)
    BY <1>3
  <2>1. w[0] = {n}
    BY <2>0, <1>5
  <2>2. ASSUME NEW i \in 1 .. Len(path) PROVE w[i] = UNION {NodeFor(c, path[i]) : c \in w[i - 1]}
    BY <1>3, <1>5, i # 0, i \in 0 .. Len(path)
  <2>3. QED BY <2>1, <2>2
<1>7. QED BY <1>1, <1>6



\* The nodes that come in their places.
IsRenewed(g, w, path, v) ==
  g = [i \in 0 .. Len(path) |->
         IF i = Len(path) THEN {v : c \in w[i]} ELSE {With(c, path[i + 1], d) : c \in w[i], d \in g[i + 1]}]

\* What becomes of the nodes on the way when v is put at its end.
Renewed(n, path, v) == CHOOSE g : IsRenewed(g, Way(n, path), path, v)

\* The nodes on the way have successors, from the last one back to the root.
LEMMA RenewedExists ==
  ASSUME NEW w, NEW path \in Seq(Keys), NEW v
  PROVE  \E g : IsRenewed(g, w, path, v)
<1> DEFINE L == Len(path)
           Level(g, i) == IF i = L THEN {v : c \in w[i]} ELSE {With(c, path[i + 1], d) : c \in w[i], d \in g[i + 1]}
           Part(k, g) == g = [i \in L - k .. L |-> Level(g, i)]
           Bad == {k \in 0 .. L : ~ \E g : Part(k, g)}
<1> HIDE DEF Level
<1>1. L \in Nat
  BY LenProperties
<1>2. ASSUME Bad # {} PROVE FALSE
  <2>0. Bad \in SUBSET Nat
    <3> HIDE DEF Part
    <3>1. QED BY <1>1
  <2>1. PICK k \in Bad : \A j \in Bad : k <= j
    <3> HIDE DEF Bad
    <3>1. QED BY <1>2, <2>0, LeastOf
  <2>2. k \in 0 .. L /\ k \in Nat
    <3> HIDE DEF Part
    <3>1. QED BY <2>0, <2>1
  <2>3. CASE k = 0
    <3> DEFINE g == [i \in L .. L |-> {v : c \in w[i]}]
    <3>1. \A i \in L .. L : Level(g, i) = g[i]
      BY <1>1 DEF Level
    <3>2. g = [i \in L .. L |-> Level(g, i)]
      <4>1. g = [i \in L .. L |-> g[i]]
        OBVIOUS
      <4> HIDE DEF g
      <4>2. QED BY <3>1, <4>1
    <3>3. Part(0, g)
      <4> HIDE DEF g
      <4>1. QED BY <1>1, <3>2
    <3>4. QED BY <2>1, <2>3, <3>3
  <2>4. CASE k # 0
    <3>1. k - 1 \in 0 .. L /\ k - 1 \notin Bad
      <4> HIDE DEF Bad
      <4>1. QED BY <1>1, <2>1, <2>2, <2>4
    <3>2. PICK g : Part(k - 1, g)
      BY <3>1
    <3> DEFINE m == L - k
               f == [i \in m .. L |-> IF i = m THEN {With(c, path[m + 1], d) : c \in w[m], d \in g[m + 1]} ELSE g[i]]
    <3>3. m \in Nat /\ m < L /\ L - (k - 1) = m + 1
      BY <1>1, <2>2, <2>4
    <3> HIDE DEF m
    <3>4. \A i \in m + 1 .. L : g[i] = Level(g, i)
      <4>1. g = [i \in m + 1 .. L |-> Level(g, i)]
        BY <3>2, <3>3
      <4>2. QED BY <4>1
    <3>5. ASSUME NEW i \in m .. L PROVE f[i] = Level(f, i)
      <4>1. CASE i = m
        <5>1. f[m + 1] = g[m + 1] /\ i # L
          BY <1>1, <3>3, <4>1
        <5>2. f[i] = {With(c, path[m + 1], d) : c \in w[m], d \in g[m + 1]}
          BY <4>1
        <5> HIDE DEF f
        <5>3. QED BY <4>1, <5>1, <5>2 DEF Level
      <4>2. CASE i # m
        <5>1. f[i] = g[i] /\ i \in m + 1 .. L
          BY <1>1, <3>3, <4>2
        <5>2. i # L => f[i + 1] = g[i + 1]
          BY <1>1, <3>3, <4>2
        <5>3. g[i] = Level(g, i)
          BY <3>4, <5>1
        <5> HIDE DEF f
        <5>4. CASE i = L
          <6>1. Level(f, i) = {v : c \in w[i]} /\ Level(g, i) = {v : c \in w[i]}
            BY <5>4 DEF Level
          <6>2. QED BY <5>1, <5>3, <6>1
        <5>5. CASE i # L
          <6>1. Level(f, i) = {With(c, path[i + 1], d) : c \in w[i], d \in f[i + 1]}
            BY <5>5 DEF Level
          <6>2. Level(g, i) = {With(c, path[i + 1], d) : c \in w[i], d \in g[i + 1]}
            BY <5>5 DEF Level
          <6>3. QED BY <5>1, <5>2, <5>3, <5>5, <6>1, <6>2
        <5>6. QED BY <5>4, <5>5
      <4> HIDE DEF f
      <4>3. QED BY <4>1, <4>2
    <3>6. f = [i \in m .. L |-> Level(f, i)]
      <4>1. f = [i \in m .. L |-> f[i]]
        OBVIOUS
      <4> HIDE DEF f
      <4>2. QED BY <3>5, <4>1
    <3>7. Part(k, f)
      <4> HIDE DEF f
      <4>1. QED BY <3>6 DEF m
    <3>8. \E h : Part(k, h)
      <4> HIDE DEF f, Part
      <4>1. QED BY <3>7
    <3>9. ~ \E h : Part(k, h)
      <4> HIDE DEF Part, f
      <4>1. QED BY <2>1
    <3> HIDE DEF Part, f
    <3>10. QED BY <3>8, <3>9
  <2>5. QED BY <2>3, <2>4
<1>3. PICK g : Part(L, g)
  <2>1. L \notin Bad /\ L \in 0 .. L
    <3> HIDE DEF Part
    <3>1. QED BY <1>1, <1>2
  <2>2. QED BY <2>1
<1>4. L - L = 0
  BY <1>1
<1>5. g = [i \in 0 .. L |-> Level(g, i)]
  BY <1>3, <1>4
<1>6. IsRenewed(g, w, path, v)
  BY <1>5 DEF IsRenewed, Level
<1>7. QED BY <1>6

\* The document of setNested is what becomes of the root.
LEMMA ReplacedIs ==
  ASSUME NEW n, NEW path, NEW v
  PROVE  Replaced(n, path, v) = Renewed(n, path, v)[0]
<1>1. QED BY SMT DEF Replaced, Renewed, IsRenewed

\* The nodes with each of the children under a key.
EachBecomes(nodes, v) == {v : c \in nodes}
Joined(nodes, x, children) == {With(c, x, d) : c \in nodes, d \in children}
\* What comes in the place of the nodes that are i keys down.
InPlace(g, w, path, v, i) ==
  IF i = Len(path) THEN EachBecomes(w[i], v) ELSE Joined(w[i], path[i + 1], g[i + 1])

\* What comes in the place of each.
LEMMA RenewedAt ==
  ASSUME NEW g, NEW w, NEW path, NEW v, IsRenewed(g, w, path, v), NEW i \in 0 .. Len(path)
  PROVE  g[i] = InPlace(g, w, path, v, i)
<1>1. g = [k \in 0 .. Len(path) |-> InPlace(g, w, path, v, k)]
  BY SMT DEF IsRenewed, InPlace, EachBecomes, Joined
<1>2. QED BY <1>1

\* What becomes of the nodes on the way: the value at the end of it, before that the old node
\* with a new child.
LEMMA RenewedIs ==
  ASSUME NEW n, NEW path \in Seq(Keys), NEW v
  PROVE  /\ Replaced(n, path, v) = Renewed(n, path, v)[0]
         /\ Renewed(n, path, v)[Len(path)] = EachBecomes(Way(n, path)[Len(path)], v)
         /\ \A i \in 0 .. Len(path) - 1 :
              Renewed(n, path, v)[i] = Joined(Way(n, path)[i], path[i + 1], Renewed(n, path, v)[i + 1])
<1> DEFINE w == Way(n, path)
           g == Renewed(n, path, v)
           L == Len(path)
<1>1. IsRenewed(g, w, path, v)
  BY RenewedExists, Zenon DEF Renewed
<1>2. Replaced(n, path, v) = g[0]
  BY ReplacedIs
<1>3. L \in Nat
  BY LenProperties
<1>4. ASSUME NEW i \in 0 .. L PROVE g[i] = InPlace(g, w, path, v, i)
  <2> HIDE DEF g, w
  <2>1. QED BY <1>1, RenewedAt
<1> HIDE DEF g, w
<1>5. L \in 0 .. L /\ \A i \in 0 .. L - 1 : i \in 0 .. L /\ i # L
  BY <1>3
<1>6. g[L] = EachBecomes(w[L], v)
  BY <1>4, <1>5 DEF InPlace
<1>7. ASSUME NEW i \in 0 .. L - 1
      PROVE  g[i] = Joined(w[i], path[i + 1], g[i + 1])
  <2>1. i \in 0 .. L /\ i # Len(path)
    BY <1>5
  <2>2. g[i] = InPlace(g, w, path, v, i)
    BY <1>4, <2>1
  <2>3. QED BY <2>1, <2>2 DEF InPlace
<1>8. QED BY <1>2, <1>6, <1>7 DEF g, w

\* A map or a list has at most one child under a key, and setNested goes on with one node:
\* the child, or a new map where a map has none.
LEMMA OneChild ==
  ASSUME NEW n, NEW x \in Keys
  PROVE  /\ Child(n, x) = {} \/ \E c : Child(n, x) = {c}
         /\ NodeFor(n, x) = {} \/ \E c : NodeFor(n, x) = {c}
         /\ \/ NodeFor(n, x) = Child(n, x)
            \/ NodeFor(n, x) = {Empty} /\ Child(n, x) = {}
<1>1. Child(n, x) = {} \/ \E c : Child(n, x) = {c}
  <2>1. CASE n.k = "map"
    <3>1. Child(n, x) = {n.f[y] : y \in {x} \cap DOMAIN n.f}
      BY <2>1 DEF Child
    <3>2. QED BY <3>1
  <2>2. CASE n.k = "list"
    <3>1. Child(n, x) = {n.q[i] : i \in {Index(x) + 1} \cap DOMAIN n.q}
      BY <2>2 DEF Child
    <3> HIDE DEF Index
    <3>2. QED BY <3>1
  <2>3. CASE n.k # "map" /\ n.k # "list"
    BY <2>3 DEF Child
  <2>4. QED BY <2>1, <2>2, <2>3
<1>2. \/ NodeFor(n, x) = Child(n, x)
      \/ NodeFor(n, x) = {Empty} /\ Child(n, x) = {}
  <2>1. CASE n.k = "map" /\ x \notin DOMAIN n.f
    <3>1. Child(n, x) = {n.f[y] : y \in {x} \cap DOMAIN n.f}
      BY <2>1 DEF Child
    <3>2. NodeFor(n, x) = {Empty}
      BY <2>1 DEF NodeFor
    <3>3. QED BY <2>1, <3>1, <3>2
  <2>2. CASE ~ (n.k = "map" /\ x \notin DOMAIN n.f)
    BY <2>2, Zenon DEF NodeFor
  <2>3. QED BY <2>1, <2>2
<1>3. QED BY <1>1, <1>2

\* A map or a list with another child has that child and, under the other keys, its own.
LEMMA WithIs ==
  ASSUME NEW n, NEW x \in Keys, NEW d, NodeFor(n, x) # {}
  PROVE  /\ Child(With(n, x, d), x) = {d}
         /\ \A y \in Keys \ {x} : Child(With(n, x, d), y) = Child(n, y)
         /\ With(n, x, d).k = n.k /\ n.k \in {"map", "list"}
<1>1. CASE n.k = "map"
  <2> DEFINE f == [y \in DOMAIN n.f \cup {x} |-> IF y = x THEN d ELSE n.f[y]]
             m == Map(f)
  <2>1. With(n, x, d) = m
    BY <1>1, Zenon DEF With
  <2>2. DOMAIN f = DOMAIN n.f \cup {x} /\ f[x] = d /\ \A y \in DOMAIN n.f : y # x => f[y] = n.f[y]
    OBVIOUS
  <2> HIDE DEF f
  <2>3. m.k = "map" /\ m.f = f
    BY DEF Map
  <2>4. \A y : /\ Child(m, y) = {f[z] : z \in {y} \cap DOMAIN f}
               /\ Child(n, y) = {n.f[z] : z \in {y} \cap DOMAIN n.f}
    <3> HIDE DEF m
    <3>1. QED BY <1>1, <2>3 DEF Child
  <2>5. Child(m, x) = {d}
    BY <2>2, <2>4
  <2>6. \A y \in Keys \ {x} : Child(m, y) = Child(n, y)
    BY <2>2, <2>4
  <2> HIDE DEF m
  <2>7. QED BY <1>1, <2>1, <2>3, <2>5, <2>6
<1>2. CASE n.k # "map"
  <2>1. NodeFor(n, x) = Child(n, x)
    BY <1>2, Zenon DEF NodeFor
  <2>2. n.k = "list"
    BY <1>2, <2>1 DEF Child
  <2>3. \A y : Child(n, y) = {n.q[i] : i \in {Index(y) + 1} \cap DOMAIN n.q}
    BY <2>2 DEF Child
  <2> DEFINE h == Index(x) + 1
             q == [n.q EXCEPT ![h] = d]
             m == List(q)
  <2>4. h \in DOMAIN n.q
    <3> HIDE DEF h
    <3>1. {n.q[i] : i \in {h} \cap DOMAIN n.q} # {}
      BY <2>1, <2>3 DEF h
    <3>2. QED BY <3>1
  <2>5. \A y \in Keys \ {x} : Index(y) + 1 # h
    BY DEF Index, Keys
  <2> HIDE DEF h
  <2>6. DOMAIN q = DOMAIN n.q /\ q[h] = d /\ \A i \in DOMAIN n.q : i # h => q[i] = n.q[i]
    BY <2>4
  <2>7. With(n, x, d) = m
    BY <1>2, Zenon DEF With, h
  <2> HIDE DEF q
  <2>8. m.k = "list" /\ m.q = q
    BY DEF List
  <2> HIDE DEF m
  <2>9. \A y : Child(m, y) = {q[i] : i \in {Index(y) + 1} \cap DOMAIN q}
    BY <2>8 DEF Child
  <2>10. Child(m, x) = {d}
    <3>1. Child(m, x) = {q[i] : i \in {h} \cap DOMAIN q}
      BY <2>9 DEF h
    <3>2. QED BY <2>4, <2>6, <3>1
  <2>11. ASSUME NEW y \in Keys \ {x} PROVE Child(m, y) = Child(n, y)
    <3> DEFINE j == Index(y) + 1
    <3>1. j # h
      BY <2>5
    <3>2. Child(m, y) = {q[i] : i \in {j} \cap DOMAIN q} /\ Child(n, y) = {n.q[i] : i \in {j} \cap DOMAIN n.q}
      BY <2>3, <2>9
    <3> HIDE DEF j
    <3>3. QED BY <2>6, <3>1, <3>2
  <2>12. QED BY <2>2, <2>7, <2>8, <2>10, <2>11
<1>3. QED BY <1>1, <1>2

\* With an empty path the value is the document.
LEMMA ReplacedRoot ==
  ASSUME NEW n, NEW v
  PROVE  Replaced(n, <<>>, v) = {v}
<1>1. <<>> \in Seq(Keys) /\ Len(<<>>) = 0
  OBVIOUS
<1>2. Renewed(n, <<>>, v)[Len(<<>>)] = EachBecomes(Way(n, <<>>)[Len(<<>>)], v)
  <2>1. \A q \in Seq(Keys) : Renewed(n, q, v)[Len(q)] = EachBecomes(Way(n, q)[Len(q)], v)
    BY RenewedIs
  <2>2. QED BY <1>1, <2>1
<1>3. Way(n, <<>>)[0] = {n}
  BY <1>1, WayIs
<1>4. Replaced(n, <<>>, v) = Renewed(n, <<>>, v)[0]
  BY ReplacedIs
<1>5. QED BY <1>1, <1>2, <1>3, <1>4 DEF EachBecomes

\* With another path it is the document with another child: the one the node on the way becomes.
LEMMA ReplacedHead ==
  ASSUME NEW n, NEW path \in Seq(Keys), path # <<>>, NEW v
  PROVE  \A r \in Replaced(n, path, v) :
           \E c \in NodeFor(n, path[1]) : \E d \in Replaced(c, Tail(path), v) : r = With(n, path[1], d)
<1> DEFINE L == Len(path)
           t == Tail(path)
           w == Way(n, path)
           g == Renewed(n, path, v)
<1>1. /\ L \in Nat \ {0} /\ path[1] \in Keys
      /\ t \in Seq(Keys) /\ Len(t) = L - 1
      /\ \A i \in 1 .. L - 1 : t[i] = path[i + 1]
  BY HeadTailProperties, LenProperties
<1>2. /\ w[0] = {n}
      /\ \A i \in 1 .. L : w[i] = UNION {NodeFor(c, path[i]) : c \in w[i - 1]}
  BY WayIs
<1>3. /\ Replaced(n, path, v) = g[0]
      /\ g[L] = EachBecomes(w[L], v)
      /\ \A i \in 0 .. L - 1 : g[i] = Joined(w[i], path[i + 1], g[i + 1])
  BY RenewedIs
<1> HIDE DEF L, t, w, g
<1>4. w[1] = NodeFor(n, path[1])
  <2>1. 1 \in 1 .. L /\ 1 - 1 = 0
    BY <1>1
  <2>2. w[1] = UNION {NodeFor(c, path[1]) : c \in w[0]}
    BY <1>2, <2>1
  <2>3. QED BY <1>2, <2>2
<1>5. Replaced(n, path, v) = {With(n, path[1], d) : d \in g[1]}
  <2>1. 0 \in 0 .. L - 1 /\ 0 + 1 = 1
    BY <1>1
  <2>2. g[0] = Joined(w[0], path[1], g[1])
    BY <1>3, <2>1
  <2>3. Joined({n}, path[1], g[1]) = {With(n, path[1], d) : d \in g[1]}
    BY DEF Joined
  <2>4. QED BY <1>2, <1>3, <2>2, <2>3
<1>6. g[1] = UNION {Replaced(c, t, v) : c \in NodeFor(n, path[1])}
  <2>1. CASE NodeFor(n, path[1]) = {}
    <3>1. g[1] = {}
      <4>1. CASE L = 1
        BY <1>3, <1>4, <2>1, <4>1 DEF EachBecomes
      <4>2. CASE L # 1
        <5>1. 1 \in 0 .. L - 1
          BY <1>1, <4>2
        <5>2. QED BY <1>3, <1>4, <2>1, <5>1 DEF Joined
      <4>3. QED BY <4>1, <4>2
    <3>2. QED BY <2>1, <3>1
  <2>2. CASE NodeFor(n, path[1]) # {}
    <3>1. PICK c : NodeFor(n, path[1]) = {c}
      BY <1>1, <2>2, OneChild
    <3> DEFINE u == Way(c, t)
               h == Renewed(c, t, v)
    <3>2. /\ u[0] = {c}
          /\ \A i \in 1 .. L - 1 : u[i] = UNION {NodeFor(e, t[i]) : e \in u[i - 1]}
      <4>1. \A q \in Seq(Keys) : /\ Way(c, q)[0] = {c}
                                 /\ \A i \in 1 .. Len(q) : Way(c, q)[i] = UNION {NodeFor(e, q[i]) : e \in Way(c, q)[i - 1]}
        BY WayIs
      <4>2. t \in Seq(Keys) /\ Len(t) = L - 1
        BY <1>1
      <4>3. /\ Way(c, t)[0] = {c}
            /\ \A i \in 1 .. Len(t) : Way(c, t)[i] = UNION {NodeFor(e, t[i]) : e \in Way(c, t)[i - 1]}
        BY <4>1, <4>2, Zenon
      <4>4. QED BY <4>2, <4>3
    <3>3. /\ Replaced(c, t, v) = h[0]
          /\ h[L - 1] = EachBecomes(u[L - 1], v)
          /\ \A i \in 0 .. L - 2 : h[i] = Joined(u[i], t[i + 1], h[i + 1])
      <4>1. \A q \in Seq(Keys) :
              /\ Replaced(c, q, v) = Renewed(c, q, v)[0]
              /\ Renewed(c, q, v)[Len(q)] = EachBecomes(Way(c, q)[Len(q)], v)
              /\ \A i \in 0 .. Len(q) - 1 :
                   Renewed(c, q, v)[i] = Joined(Way(c, q)[i], q[i + 1], Renewed(c, q, v)[i + 1])
        BY RenewedIs
      <4>2. t \in Seq(Keys) /\ Len(t) = L - 1 /\ Len(t) - 1 = L - 2
        BY <1>1
      <4>3. /\ Replaced(c, t, v) = Renewed(c, t, v)[0]
            /\ Renewed(c, t, v)[Len(t)] = EachBecomes(Way(c, t)[Len(t)], v)
            /\ \A i \in 0 .. Len(t) - 1 :
                 Renewed(c, t, v)[i] = Joined(Way(c, t)[i], t[i + 1], Renewed(c, t, v)[i + 1])
        BY <4>1, <4>2
      <4>4. QED BY <4>2, <4>3
    <3> HIDE DEF u, h
    <3>4. \A i \in 0 .. L - 1 : w[i + 1] = u[i]
      <4> DEFINE Bad == {i \in 0 .. L - 1 : w[i + 1] # u[i]}
      <4>1. SUFFICES ASSUME Bad # {} PROVE FALSE
        OBVIOUS
      <4>2. PICK i \in Bad : \A j \in Bad : i <= j
        <5>1. Bad \in SUBSET Nat
          BY <1>1
        <5> HIDE DEF Bad
        <5>2. QED BY <4>1, <5>1, LeastOf
      <4>3. i # 0
        <5>1. w[0 + 1] = u[0] /\ w[i + 1] # u[i]
          BY <1>4, <3>1, <3>2, <4>2
        <5>2. QED BY <5>1
      <4>4. i - 1 \in 0 .. L - 1 /\ i \in 1 .. L - 1 /\ i + 1 \in 1 .. L /\ i - 1 \notin Bad
        BY <1>1, <4>2, <4>3
      <4>5. (i - 1) + 1 = i /\ (i + 1) - 1 = i
        BY <4>4
      <4>6. w[i] = u[i - 1]
        <5>1. w[(i - 1) + 1] = u[i - 1]
          BY <4>4
        <5>2. QED BY <4>5, <5>1
      <4>7. w[i + 1] = UNION {NodeFor(e, path[i + 1]) : e \in w[i]}
        <5>1. w[i + 1] = UNION {NodeFor(e, path[i + 1]) : e \in w[(i + 1) - 1]}
          BY <1>2, <4>4
        <5>2. QED BY <4>5, <5>1
      <4>8. u[i] = UNION {NodeFor(e, path[i + 1]) : e \in u[i - 1]}
        BY <1>1, <3>2, <4>4
      <4>9. QED BY <4>2, <4>6, <4>7, <4>8
    <3>5. \A k \in 0 .. L - 1 : g[L - k] = h[L - 1 - k]
      <4> DEFINE Bad == {k \in 0 .. L - 1 : g[L - k] # h[L - 1 - k]}
      <4>1. SUFFICES ASSUME Bad # {} PROVE FALSE
        OBVIOUS
      <4>2. PICK k \in Bad : \A j \in Bad : k <= j
        <5>1. Bad \in SUBSET Nat
          BY <1>1
        <5> HIDE DEF Bad
        <5>2. QED BY <4>1, <5>1, LeastOf
      <4>3. k # 0
        <5>1. g[L] = h[L - 1]
          <6>1. L - 1 \in 0 .. L - 1 /\ (L - 1) + 1 = L
            BY <1>1
          <6>2. w[L] = u[L - 1]
            BY <3>4, <6>1
          <6>3. QED BY <1>3, <3>3, <6>2
        <5>2. L - 0 = L /\ L - 1 - 0 = L - 1
          BY <1>1
        <5>3. QED BY <4>2, <5>1, <5>2
      <4> DEFINE m == L - 1 - k
      <4>4. /\ m \in 0 .. L - 2 /\ m \in 0 .. L - 1 /\ m + 1 \in 0 .. L - 1 /\ m + 1 \in 1 .. L - 1
            /\ L - k = m + 1 /\ L - (k - 1) = (m + 1) + 1 /\ L - 1 - (k - 1) = m + 1
            /\ k - 1 \in 0 .. L - 1 /\ k - 1 \notin Bad
        <5>1. k \in 1 .. L - 1 /\ \A j \in Bad : k <= j
          BY <4>2, <4>3
        <5> HIDE DEF Bad
        <5>2. /\ m \in 0 .. L - 2 /\ m \in 0 .. L - 1 /\ m + 1 \in 0 .. L - 1 /\ m + 1 \in 1 .. L - 1
              /\ L - k = m + 1 /\ L - (k - 1) = (m + 1) + 1 /\ L - 1 - (k - 1) = m + 1
              /\ k - 1 \in 0 .. L - 1 /\ ~ (k <= k - 1)
          BY <1>1, <5>1
        <5>3. k - 1 \notin Bad
          BY <5>1, <5>2
        <5>4. QED BY <5>2, <5>3
      <4>5. g[(m + 1) + 1] = h[m + 1]
        <5>1. g[L - (k - 1)] = h[L - 1 - (k - 1)]
          BY <4>4
        <5> HIDE DEF m
        <5>2. QED BY <4>4, <5>1
      <4>6. g[L - k] # h[L - 1 - k]
        BY <4>2
      <4>m. L - 1 - k = m
        OBVIOUS
      <4> HIDE DEF m
      <4>7. g[m + 1] = Joined(w[m + 1], path[(m + 1) + 1], g[(m + 1) + 1])
        BY <1>3, <4>4
      <4>8. h[m] = Joined(u[m], path[(m + 1) + 1], h[m + 1])
        <5>1. h[m] = Joined(u[m], t[m + 1], h[m + 1])
          BY <3>3, <4>4
        <5>2. t[m + 1] = path[(m + 1) + 1]
          BY <1>1, <4>4
        <5>3. QED BY <5>1, <5>2
      <4>9. w[m + 1] = u[m]
        BY <3>4, <4>4
      <4>10. g[m + 1] = h[m]
        BY <4>5, <4>7, <4>8, <4>9
      <4>11. QED BY <4>4, <4>6, <4>10, <4>m
    <3>6. g[1] = h[0]
      <4>1. L - 1 \in 0 .. L - 1 /\ L - (L - 1) = 1 /\ L - 1 - (L - 1) = 0
        BY <1>1
      <4>2. g[L - (L - 1)] = h[L - 1 - (L - 1)]
        BY <3>5, <4>1
      <4>3. QED BY <4>1, <4>2
    <3>7. QED BY <3>1, <3>3, <3>6
  <2>3. QED BY <2>1, <2>2
<1>7. ASSUME NEW r \in Replaced(n, path, v)
      PROVE  \E c \in NodeFor(n, path[1]) : \E d \in Replaced(c, t, v) : r = With(n, path[1], d)
  <2>1. PICK d \in g[1] : r = With(n, path[1], d)
    BY <1>5
  <2>2. PICK c \in NodeFor(n, path[1]) : d \in Replaced(c, t, v)
    BY <1>6
  <2>3. QED BY <2>1, <2>2
<1>8. QED BY <1>7 DEF t

\* A map or a list with a new child under a key: the others stay, and so does what it is.
Renews(m, n, x, d) ==
  /\ Child(m, x) = {d}
  /\ \A y \in Keys \ {x} : Child(m, y) = Child(n, y)
  /\ m.k = n.k /\ n.k \in {"map", "list"}

\* So setNested leaves the other children of a node alone.
LEMMA WithRenews ==
  ASSUME NEW n, NEW x \in Keys, NEW d, NodeFor(n, x) # {}
  PROVE  Renews(With(n, x, d), n, x, d)
<1> DEFINE m == With(n, x, d)
<1>1. /\ Child(m, x) = {d}
      /\ \A y \in Keys \ {x} : Child(m, y) = Child(n, y)
      /\ m.k = n.k /\ n.k \in {"map", "list"}
  BY WithIs
<1> HIDE DEF m
<1>2. Renews(m, n, x, d)
  BY <1>1 DEF Renews
<1>3. QED BY <1>2 DEF m

\* One step of setNested: the child under the first key becomes what setNested makes of it,
\* and the others stay.
Stepped(r, n, path, v, c, d) ==
  /\ NodeFor(n, path[1]) = {c}
  /\ d \in Replaced(c, Tail(path), v)
  /\ r = With(n, path[1], d)
  /\ Child(r, path[1]) = {d}
  /\ \A y \in Keys \ {path[1]} : Child(r, y) = Child(n, y)
  /\ r.k = n.k /\ n.k \in {"map", "list"}

\* setNested takes such a step with every path but the empty one.
LEMMA ReplacedStep ==
  ASSUME NEW n, NEW path \in Seq(Keys), path # <<>>, NEW v
  PROVE  \A r \in Replaced(n, path, v) : \E c, d : Stepped(r, n, path, v, c, d)
<1> SUFFICES ASSUME NEW r \in Replaced(n, path, v)
             PROVE  \E c, d : Stepped(r, n, path, v, c, d)
  OBVIOUS
<1> DEFINE x == path[1]
           t == Tail(path)
<1>1. x \in Keys
  BY HeadTailProperties
<1>2. \A e \in Replaced(n, path, v) :
        \E c \in NodeFor(n, path[1]) : \E d \in Replaced(c, Tail(path), v) : e = With(n, path[1], d)
  BY ReplacedHead
<1>3. PICK c \in NodeFor(n, x) : \E d \in Replaced(c, t, v) : r = With(n, x, d)
  <2> HIDE DEF x, t
  <2>1. \A e \in Replaced(n, path, v) : \E c \in NodeFor(n, x) : \E d \in Replaced(c, t, v) : e = With(n, x, d)
    BY <1>2 DEF x, t
  <2>2. QED BY <2>1, Zenon
<1>4. PICK d \in Replaced(c, t, v) : r = With(n, x, d)
  BY <1>3
<1> HIDE DEF x, t
<1>5. NodeFor(n, x) = {c}
  <2>1. NodeFor(n, x) = {} \/ \E e : NodeFor(n, x) = {e}
    BY <1>1, OneChild
  <2>2. QED BY <1>4, <2>1
<1>6. Renews(With(n, x, d), n, x, d)
  <2>1. NodeFor(n, x) # {}
    BY <1>5
  <2>2. \A y \in Keys : NodeFor(n, y) # {} => Renews(With(n, y, d), n, y, d)
    BY WithRenews
  <2>3. QED BY <1>1, <2>1, <2>2
<1>7. Renews(r, n, x, d)
  BY <1>4, <1>6
<1>8. QED BY <1>4, <1>5, <1>7 DEF x, t, Stepped, Renews

\* What setNested leaves has the value at its path.
LEMMA ReplacedThere ==
  \A path \in Seq(Keys) : \A n, v : \A r \in Replaced(n, path, v) : NodeAt(r, path) = {v}
<1> DEFINE There(path) == \A n, v : \A r \in Replaced(n, path, v) : NodeAt(r, path) = {v}
           Bad == {k \in Nat : \E path \in Seq(Keys) : Len(path) = k /\ ~ There(path)}
<1>1. SUFFICES ASSUME NEW path0 \in Seq(Keys), ~ There(path0) PROVE FALSE
  OBVIOUS
<1>2. Len(path0) \in Bad
  <2> HIDE DEF There
  <2>1. QED BY <1>1, LenProperties
<1>3. PICK k \in Bad : \A j \in Bad : k <= j
  <2>1. Bad \in SUBSET Nat
    OBVIOUS
  <2> HIDE DEF Bad
  <2>2. QED BY <1>2, <2>1, LeastOf
<1>4. PICK path \in Seq(Keys) : Len(path) = k /\ ~ There(path)
  <2> HIDE DEF There
  <2>1. QED BY <1>3
<1>5. PICK n, v : \E r \in Replaced(n, path, v) : NodeAt(r, path) # {v}
  BY <1>4
<1>6. PICK r \in Replaced(n, path, v) : NodeAt(r, path) # {v}
  BY <1>5
<1>7. CASE path = <<>>
  <2>1. r = v
    BY <1>7, <1>6, ReplacedRoot
  <2>2. QED BY <2>1, <1>6, <1>7, NearRoot
<1>8. CASE path # <<>>
  <2> DEFINE x == path[1]
             t == Tail(path)
  <2>1. x \in Keys /\ t \in Seq(Keys) /\ Len(t) = k - 1 /\ k - 1 \in Nat /\ k \in Nat
    BY <1>4, <1>8, HeadTailProperties, LenProperties
  <2>2. There(t)
    <3> HIDE DEF There, t
    <3>1. k - 1 \notin Bad
      <4> HIDE DEF Bad
      <4>1. QED BY <1>3, <2>1
    <3>2. QED BY <2>1, <3>1
  <2>3. PICK c, d : d \in Replaced(c, t, v) /\ Child(r, x) = {d}
    <3>1. \A e \in Replaced(n, path, v) : \E c, d : Stepped(e, n, path, v, c, d)
      <4> HIDE DEF Bad, There
      <4>1. QED BY <1>8, ReplacedStep
    <3>2. QED BY <1>6, <3>1 DEF Stepped
  <2>4. NodeAt(r, path) = UNION {NodeAt(e, t) : e \in Child(r, x)}
    BY <1>8, FromHead
  <2> HIDE DEF x, t
  <2>5. NodeAt(d, t) = {v}
    BY <2>2, <2>3
  <2>6. QED BY <1>6, <2>3, <2>4, <2>5
<1>9. QED BY <1>7, <1>8

\* Two paths part at some key.
Parted(p, q) == \E i \in 1 .. Len(p) : i <= Len(q) /\ p[i] # q[i]

\* There is nothing in a new map.
LEMMA NothingInEmpty ==
  ASSUME NEW path \in Seq(Keys), path # <<>>
  PROVE  NodeAt(Empty, path) = {}
<1>1. Child(Empty, path[1]) = {}
  <2>1. Empty.k = "map" /\ Empty.f = <<>>
    BY DEF Empty, Map
  <2>2. DOMAIN Empty.f = {}
    BY <2>1
  <2>3. Child(Empty, path[1]) = {Empty.f[y] : y \in {path[1]} \cap DOMAIN Empty.f}
    BY <2>1, Zenon DEF Child
  <2> HIDE DEF Empty
  <2>4. QED BY <2>2, <2>3
<1>2. QED BY <1>1, FromHead

\* setNested leaves alone what is at a path that parts from its own.
LEMMA ReplacedElsewhere ==
  \A path \in Seq(Keys) : \A n, v : \A r \in Replaced(n, path, v) :
    \A q \in Seq(Keys) : Parted(path, q) => NodeAt(r, q) = NodeAt(n, q)
<1> DEFINE Same(path) == \A n, v : \A r \in Replaced(n, path, v) :
                           \A q \in Seq(Keys) : Parted(path, q) => NodeAt(r, q) = NodeAt(n, q)
           Bad == {k \in Nat : \E path \in Seq(Keys) : Len(path) = k /\ ~ Same(path)}
<1>1. SUFFICES ASSUME NEW path0 \in Seq(Keys), ~ Same(path0) PROVE FALSE
  OBVIOUS
<1>2. Len(path0) \in Bad
  <2> HIDE DEF Same
  <2>1. QED BY <1>1, LenProperties
<1>3. PICK k \in Bad : \A j \in Bad : k <= j
  <2>1. Bad \in SUBSET Nat
    OBVIOUS
  <2> HIDE DEF Bad
  <2>2. QED BY <1>2, <2>1, LeastOf
<1>4. PICK path \in Seq(Keys) : Len(path) = k /\ ~ Same(path)
  <2> HIDE DEF Same
  <2>1. QED BY <1>3
<1>5. PICK n, v : \E r \in Replaced(n, path, v) : \E q \in Seq(Keys) : Parted(path, q) /\ NodeAt(r, q) # NodeAt(n, q)
  BY <1>4
<1>6. PICK r \in Replaced(n, path, v), q \in Seq(Keys) : Parted(path, q) /\ NodeAt(r, q) # NodeAt(n, q)
  BY <1>5
<1>7. PICK i \in 1 .. Len(path) : i <= Len(q) /\ path[i] # q[i]
  BY <1>6 DEF Parted
<1>8. path # <<>> /\ q # <<>>
  BY <1>7, LenProperties
<1> DEFINE x == path[1]
           t == Tail(path)
           y == q[1]
           s == Tail(q)
<1>9. /\ x \in Keys /\ t \in Seq(Keys) /\ Len(t) = k - 1 /\ k - 1 \in Nat /\ k \in Nat
      /\ \A j \in 1 .. Len(t) : t[j] = path[j + 1]
  BY <1>4, <1>8, HeadTailProperties, LenProperties
<1>10. /\ y \in Keys /\ s \in Seq(Keys) /\ Len(s) = Len(q) - 1 /\ Len(q) \in Nat
       /\ \A j \in 1 .. Len(s) : s[j] = q[j + 1]
  BY <1>8, HeadTailProperties, LenProperties
<1>11. Same(t)
  <2> HIDE DEF Same, t
  <2>1. k - 1 \notin Bad
    <3> HIDE DEF Bad
    <3>1. QED BY <1>3, <1>9
  <2>2. QED BY <1>9, <2>1
<1>12. PICK c, d : /\ NodeFor(n, x) = {c} /\ d \in Replaced(c, t, v)
                   /\ Child(r, x) = {d} /\ \A z \in Keys \ {x} : Child(r, z) = Child(n, z)
  <2>1. \A e \in Replaced(n, path, v) : \E c, d : Stepped(e, n, path, v, c, d)
    <3> HIDE DEF Bad, Same
    <3>1. QED BY <1>8, ReplacedStep
  <2>2. QED BY <1>6, <2>1 DEF Stepped
<1>13. \A m : NodeAt(m, q) = UNION {NodeAt(e, s) : e \in Child(m, y)}
  BY <1>8, FromHead
<1>14. x = path[1] /\ y = q[1]
  OBVIOUS
<1> HIDE DEF x, t, y, s
<1>17. CASE x # y
  <2>1. Child(r, y) = Child(n, y)
    BY <1>10, <1>12, <1>17
  <2>2. QED BY <1>6, <1>13, <2>1
<1>18. CASE x = y
  <2>1. i - 1 \in 1 .. Len(t) /\ i - 1 <= Len(s) /\ t[i - 1] # s[i - 1]
    <3>1. i # 1
      BY <1>7, <1>14, <1>18
    <3>2. i - 1 \in 1 .. Len(t) /\ i - 1 \in 1 .. Len(s) /\ (i - 1) + 1 = i
      BY <1>4, <1>7, <1>9, <1>10, <3>1
    <3>3. t[i - 1] = path[(i - 1) + 1] /\ s[i - 1] = q[(i - 1) + 1]
      BY <1>9, <1>10, <3>2
    <3>4. QED BY <1>7, <3>2, <3>3
  <2>2. Parted(t, s)
    BY <2>1 DEF Parted
  <2>3. NodeAt(d, s) = NodeAt(c, s)
    BY <1>10, <1>11, <1>12, <2>2
  <2>4. NodeAt(r, q) = NodeAt(c, s)
    <3>1. NodeAt(r, q) = UNION {NodeAt(e, s) : e \in Child(r, y)} /\ Child(r, y) = {d}
      BY <1>13, <1>12, <1>18
    <3>2. QED BY <2>3, <3>1
  <2>5. CASE NodeFor(n, x) = Child(n, x)
    <3>1. Child(n, x) = {c}
      BY <1>12, <2>5
    <3>2. NodeAt(n, q) = UNION {NodeAt(e, s) : e \in Child(n, y)} /\ Child(n, y) = {c}
      BY <1>13, <1>18, <3>1
    <3>3. QED BY <1>6, <2>4, <3>2
  <2>6. CASE NodeFor(n, x) = {Empty} /\ Child(n, x) = {}
    <3>1. s # <<>>
      BY <1>10, <2>1
    <3>2. NodeAt(Empty, s) = {}
      BY <1>10, <3>1, NothingInEmpty
    <3>3. c = Empty
      BY <1>12, <2>6
    <3>4. NodeAt(n, q) = {}
      BY <1>13, <1>18, <2>6
    <3>5. QED BY <1>6, <2>4, <3>2, <3>3, <3>4
  <2>7. QED BY <1>9, <2>5, <2>6, OneChild
<1>19. QED BY <1>17, <1>18

\* Two paths of which none is the beginning of the other part.
LEMMA ApartIsParted ==
  ASSUME NEW p \in Seq(Keys), NEW q \in Seq(Keys), ~ IsPrefix(p, q), ~ IsPrefix(q, p)
  PROVE  Parted(p, q)
<1>0. /\ Len(p) \in Nat /\ \A i \in 1 .. Len(p) : p[i] \in Keys
      /\ Len(q) \in Nat /\ \A i \in 1 .. Len(q) : q[i] \in Keys
  BY LenProperties, ElementOfSeq
<1>1. ASSUME NEW s \in Seq(Keys), NEW t \in Seq(Keys), Len(s) <= Len(t),
             \A i \in 1 .. Len(s) : s[i] = t[i]
      PROVE  IsPrefix(s, t)
  <2> DEFINE L == Len(s)
             u == SubSeq(s, 1, L)
             w == SubSeq(t, 1, L)
  <2>1. L \in Nat /\ Len(t) \in Nat
    BY LenProperties
  <2>2. u \in Seq(Keys) /\ Len(u) = L /\ \A i \in 1 .. L : u[i] = s[i]
    <3>1. \A i \in 1 .. L : i \in 1 .. Len(s)
      OBVIOUS
    <3>2. QED BY <2>1, <3>1, SubSeqProperties, ElementOfSeq
  <2>3. w \in Seq(Keys) /\ Len(w) = L /\ \A i \in 1 .. L : w[i] = t[i]
    <3>1. \A i \in 1 .. L : i \in 1 .. Len(t)
      BY <1>1, <2>1
    <3>2. QED BY <1>1, <2>1, <3>1, SubSeqProperties, ElementOfSeq
  <2> HIDE DEF u, w
  <2>4. u = w
    BY <1>1, <2>2, <2>3, SeqEqual
  <2>5. QED BY <1>1, <2>4 DEF IsPrefix, u, w
<1>2. CASE Len(p) <= Len(q)
  <2>1. ~ \A i \in 1 .. Len(p) : p[i] = q[i]
    BY <1>1, <1>2
  <2>2. QED BY <1>0, <1>2, <2>1 DEF Parted
<1>3. CASE Len(q) <= Len(p)
  <2>1. ~ \A i \in 1 .. Len(q) : q[i] = p[i]
    BY <1>1, <1>3
  <2>2. QED BY <1>0, <1>3, <2>1 DEF Parted
<1>4. QED BY <1>0, <1>2, <1>3

\* There is at most one node at a path.
LEMMA OneNode ==
  \A path \in Seq(Keys) : \A n : NodeAt(n, path) = {} \/ \E c : NodeAt(n, path) = {c}
<1> DEFINE One(path) == \A n : NodeAt(n, path) = {} \/ \E c : NodeAt(n, path) = {c}
           Bad == {k \in Nat : \E path \in Seq(Keys) : Len(path) = k /\ ~ One(path)}
<1>1. SUFFICES ASSUME NEW path0 \in Seq(Keys), ~ One(path0) PROVE FALSE
  OBVIOUS
<1>2. Len(path0) \in Bad
  <2> HIDE DEF One
  <2>1. QED BY <1>1, LenProperties
<1>3. PICK k \in Bad : \A j \in Bad : k <= j
  <2>1. Bad \in SUBSET Nat
    OBVIOUS
  <2> HIDE DEF Bad
  <2>2. QED BY <1>2, <2>1, LeastOf
<1>4. PICK path \in Seq(Keys) : Len(path) = k /\ ~ One(path)
  <2> HIDE DEF One
  <2>1. QED BY <1>3
<1>5. path # <<>>
  BY <1>4, NearRoot
<1> DEFINE x == path[1]
           t == Tail(path)
<1>6. x \in Keys /\ t \in Seq(Keys) /\ Len(t) = k - 1 /\ k - 1 \in Nat /\ k \in Nat
  BY <1>4, <1>5, HeadTailProperties, LenProperties
<1>7. One(t)
  <2> HIDE DEF One, t
  <2>1. k - 1 \notin Bad
    <3> HIDE DEF Bad
    <3>1. QED BY <1>3, <1>6
  <2>2. QED BY <1>6, <2>1
<1>8. PICK n : NodeAt(n, path) # {} /\ ~ \E c : NodeAt(n, path) = {c}
  BY <1>4
<1>9. NodeAt(n, path) = UNION {NodeAt(c, t) : c \in Child(n, x)}
  BY <1>5, FromHead
<1> HIDE DEF x, t
<1>10. PICK c : Child(n, x) = {c}
  <2>1. Child(n, x) = {} \/ \E c : Child(n, x) = {c}
    BY <1>6, OneChild
  <2>2. Child(n, x) # {}
    BY <1>8, <1>9
  <2>3. QED BY <2>1, <2>2
<1>11. NodeAt(n, path) = NodeAt(c, t)
  BY <1>9, <1>10
<1>12. QED BY <1>7, <1>8, <1>11

--------------------------------------------------------------------------------
(* Lists are sequences *)

\* The elements of a list are a sequence, whatever they are.
IsASequence(q) == \E S : q \in Seq(S)

\* Every list in a document is a sequence.
Sound(n) == \A path \in Seq(Keys) : \A c \in NodeAt(n, path) : c.k = "list" => IsASequence(c.q)

\* A document is sound when it and its children are.
LEMMA SoundIff ==
  ASSUME NEW n
  PROVE  Sound(n) <=> /\ n.k = "list" => IsASequence(n.q)
                      /\ \A x \in Keys : \A c \in Child(n, x) : Sound(c)
<1>1. ASSUME Sound(n)
      PROVE  n.k = "list" => IsASequence(n.q)
  <2>1. <<>> \in Seq(Keys) /\ n \in NodeAt(n, <<>>)
    BY NearRoot
  <2>2. QED BY <1>1, <2>1 DEF Sound
<1>2. ASSUME Sound(n), NEW x \in Keys, NEW c \in Child(n, x)
      PROVE  Sound(c)
  <2>1. SUFFICES ASSUME NEW s \in Seq(Keys), NEW e \in NodeAt(c, s)
                 PROVE  e.k = "list" => IsASequence(e.q)
    BY DEF Sound
  <2> DEFINE h == <<x>>
  <2>2. h \in Seq(Keys) /\ h \o s \in Seq(Keys) /\ NodeAt(n, h) = Child(n, x)
    <3>1. NodeAt(n, h) = Child(n, x)
      BY NearRoot
    <3>2. h \in Seq(Keys)
      OBVIOUS
    <3> HIDE DEF h
    <3>3. h \o s \in Seq(Keys)
      BY <3>2, ConcatProperties
    <3>4. QED BY <3>1, <3>2, <3>3
  <2> HIDE DEF h
  <2>3. NodeAt(n, h \o s) = UNION {NodeAt(m, s) : m \in NodeAt(n, h)}
    <3>1. \A p, q \in Seq(Keys) : NodeAt(n, p \o q) = UNION {NodeAt(m, q) : m \in NodeAt(n, p)}
      BY Onwards
    <3>2. QED BY <2>2, <3>1, Zenon
  <2>4. e \in NodeAt(n, h \o s)
    BY <2>2, <2>3
  <2>5. QED BY <1>2, <2>2, <2>4 DEF Sound
<1>3. ASSUME n.k = "list" => IsASequence(n.q), \A x \in Keys : \A c \in Child(n, x) : Sound(c)
      PROVE  Sound(n)
  <2>1. SUFFICES ASSUME NEW path \in Seq(Keys), NEW e \in NodeAt(n, path)
                 PROVE  e.k = "list" => IsASequence(e.q)
    BY DEF Sound
  <2>2. CASE path = <<>>
    BY <1>3, <2>2, NearRoot
  <2>3. CASE path # <<>>
    <3>1. path[1] \in Keys /\ Tail(path) \in Seq(Keys)
      BY <2>3, HeadTailProperties
    <3>2. PICK c \in Child(n, path[1]) : e \in NodeAt(c, Tail(path))
      BY <2>3, FromHead
    <3>3. Sound(c)
      BY <1>3, <3>1
    <3>4. QED BY <3>1, <3>2, <3>3 DEF Sound
  <2>4. QED BY <2>2, <2>3
<1>4. QED BY <1>1, <1>2, <1>3

\* A leaf is sound, a new map is.
LEMMA SoundLeaf ==
  ASSUME NEW n, n.k # "map", n.k # "list"
  PROVE  Sound(n)
<1>1. \A x \in Keys : Child(n, x) = {}
  BY DEF Child
<1>2. QED BY <1>1, SoundIff

\* The document a script begins with is sound.
LEMMA SoundEmpty == Sound(Empty)
<1>1. ASSUME NEW x \in Keys PROVE Child(Empty, x) = {}
  <2>1. <<x>> \in Seq(Keys) /\ <<x>> # <<>>
    OBVIOUS
  <2>2. NodeAt(Empty, <<x>>) = {}
    BY <2>1, NothingInEmpty
  <2>3. QED BY <2>2, NearRoot
<1>2. Empty.k = "map"
  BY DEF Empty, Map
<1>3. QED BY <1>1, <1>2, SoundIff

\* A list with another element is a sequence.
LEMMA SoundWith ==
  ASSUME NEW n, NEW x, NEW d, n.k = "list", IsASequence(n.q)
  PROVE  IsASequence(With(n, x, d).q)
<1> DEFINE q == [n.q EXCEPT ![Index(x) + 1] = d]
<1>1. With(n, x, d).q = q
  <2>1. With(n, x, d) = List(q)
    BY Zenon, n.k # "map" DEF With
  <2> HIDE DEF q
  <2>2. QED BY <2>1 DEF List
<1>2. PICK S : n.q \in Seq(S)
  BY DEF IsASequence
<1>3. q \in Seq(S \cup {d})
  <2> DEFINE i == Index(x) + 1
  <2>1. Len(n.q) \in Nat /\ DOMAIN n.q = 1 .. Len(n.q) /\ \A j \in 1 .. Len(n.q) : n.q[j] \in S
    BY <1>2, LenProperties, ElementOfSeq
  <2> HIDE DEF i
  <2>2. [n.q EXCEPT ![i] = d] \in [1 .. Len(n.q) -> S \cup {d}]
    BY <2>1
  <2>3. QED BY <2>1, <2>2 DEF i
<1> HIDE DEF q
<1>4. QED BY <1>1, <1>3 DEF IsASequence

\* setNested leaves a sound document when it was sound and the value is.
LEMMA ReplacedSound ==
  \A path \in Seq(Keys) : \A n, v : Sound(n) /\ Sound(v) => \A r \in Replaced(n, path, v) : Sound(r)
<1> DEFINE Law(path) == \A n, v : Sound(n) /\ Sound(v) => \A r \in Replaced(n, path, v) : Sound(r)
           Bad == {k \in Nat : \E path \in Seq(Keys) : Len(path) = k /\ ~ Law(path)}
<1>1. SUFFICES ASSUME NEW path0 \in Seq(Keys), ~ Law(path0) PROVE FALSE
  OBVIOUS
<1>2. Len(path0) \in Bad
  <2> HIDE DEF Law
  <2>1. QED BY <1>1, LenProperties
<1>3. PICK k \in Bad : \A j \in Bad : k <= j
  <2>1. Bad \in SUBSET Nat
    OBVIOUS
  <2> HIDE DEF Bad
  <2>2. QED BY <1>2, <2>1, LeastOf
<1>4. PICK path \in Seq(Keys) : Len(path) = k /\ ~ Law(path)
  <2> HIDE DEF Law
  <2>1. QED BY <1>3
<1>5. PICK n, v : Sound(n) /\ Sound(v) /\ \E r \in Replaced(n, path, v) : ~ Sound(r)
  BY <1>4
<1>6. PICK r \in Replaced(n, path, v) : ~ Sound(r)
  BY <1>5
<1>7. path # <<>>
  BY <1>5, <1>6, ReplacedRoot
<1> DEFINE x == path[1]
           t == Tail(path)
<1>8. x \in Keys /\ t \in Seq(Keys) /\ Len(t) = k - 1 /\ k - 1 \in Nat /\ k \in Nat
  BY <1>4, <1>7, HeadTailProperties, LenProperties
<1>9. Law(t)
  <2> HIDE DEF Law, t
  <2>1. k - 1 \notin Bad
    <3> HIDE DEF Bad
    <3>1. QED BY <1>3, <1>8
  <2>2. QED BY <1>8, <2>1
<1>10. PICK c, d : Stepped(r, n, path, v, c, d)
  <2>1. \A e \in Replaced(n, path, v) : \E c, d : Stepped(e, n, path, v, c, d)
    <3> HIDE DEF Bad, Law
    <3>1. QED BY <1>7, ReplacedStep
  <2>2. QED BY <1>6, <2>1
<1>11. /\ NodeFor(n, x) = {c} /\ d \in Replaced(c, t, v) /\ r = With(n, x, d)
       /\ Child(r, x) = {d} /\ r.k = n.k
       /\ \A y \in Keys \ {x} : Child(r, y) = Child(n, y)
  BY <1>10 DEF Stepped
<1> HIDE DEF x, t
<1>12. Sound(c)
  <2>1. \/ NodeFor(n, x) = Child(n, x)
        \/ NodeFor(n, x) = {Empty} /\ Child(n, x) = {}
    BY <1>8, OneChild
  <2>2. \A e \in Child(n, x) : Sound(e)
    BY <1>5, <1>8, SoundIff
  <2>3. QED BY <1>11, <2>1, <2>2, SoundEmpty
<1>13. Sound(d)
  BY <1>5, <1>9, <1>11, <1>12
<1>14. r.k = "list" => IsASequence(r.q)
  BY <1>5, <1>11, SoundIff, SoundWith
<1>15. ASSUME NEW y \in Keys, NEW e \in Child(r, y) PROVE Sound(e)
  <2>1. CASE y = x
    BY <1>11, <1>13, <1>15, <2>1
  <2>2. CASE y # x
    <3>1. e \in Child(n, y)
      BY <1>11, <1>15, <2>2
    <3>2. QED BY <1>5, <3>1, SoundIff
  <2>3. QED BY <2>1, <2>2
<1>16. Sound(r)
  BY <1>14, <1>15, SoundIff
<1>17. QED BY <1>6, <1>16

--------------------------------------------------------------------------------
(* The calls *)

\* The last key of a path and what is before it.
LEMMA FrontLast ==
  /\ \A p \in Seq(Keys) : p # <<>> => /\ Front(p) \in Seq(Keys) /\ Last(p) \in Keys
                                      /\ p = Append(Front(p), Last(p))
  /\ \A S : \A s \in Seq(S), x \in S : Front(Append(s, x)) = s /\ Last(Append(s, x)) = x
<1>1. ASSUME NEW p \in Seq(Keys), p # <<>>
      PROVE  /\ Front(p) \in Seq(Keys) /\ Last(p) \in Keys
             /\ p = Append(Front(p), Last(p))
  <2>1. PICK s \in Seq(Keys), x \in Keys : p = Append(s, x)
    BY <1>1, SequenceEmptyOrAppend
  <2>2. Len(p) = Len(s) + 1 /\ p[Len(s) + 1] = x /\ Len(s) \in Nat /\ SubSeq(p, 1, Len(s)) = s
    BY <2>1, AppendProperties, LenProperties
  <2>3. Len(p) - 1 = Len(s)
    BY <2>2
  <2>4. QED BY <2>1, <2>2, <2>3 DEF Front, Last
<1>2. ASSUME NEW S, NEW s \in Seq(S), NEW x \in S
      PROVE  Front(Append(s, x)) = s /\ Last(Append(s, x)) = x
  <2> DEFINE p == Append(s, x)
  <2>1. Len(p) = Len(s) + 1 /\ p[Len(s) + 1] = x /\ Len(s) \in Nat /\ SubSeq(p, 1, Len(s)) = s
    BY AppendProperties, LenProperties
  <2> HIDE DEF p
  <2>2. Len(p) - 1 = Len(s)
    BY <2>1
  <2>3. Front(p) = s /\ Last(p) = x
    BY <2>1, <2>2 DEF Front, Last
  <2>4. QED BY <2>3 DEF p
<1>3. QED BY <1>1, <1>2

\* A path that parts from s with one more key parts from s already, or goes on from s with another key.
LEMMA PartedLater ==
  ASSUME NEW s \in Seq(Keys), NEW x \in Keys, NEW q \in Seq(Keys),
         Parted(Append(s, x), q), ~ Parted(s, q)
  PROVE  \E u \in Seq(Keys) : u # <<>> /\ u[1] # x /\ q = s \o u /\ u[1] = q[Len(s) + 1]
<1> DEFINE L == Len(s)
           a == Append(s, x)
<1>1. /\ L \in Nat /\ Len(q) \in Nat /\ Len(a) = L + 1 /\ a[L + 1] = x
      /\ \A i \in 1 .. L : a[i] = s[i]
  BY AppendProperties, LenProperties
<1>2. PICK i \in 1 .. L + 1 : i <= Len(q) /\ a[i] # q[i]
  <2> HIDE DEF a, L
  <2>1. \E i \in 1 .. Len(a) : i <= Len(q) /\ a[i] # q[i]
    BY DEF Parted, a
  <2>2. QED BY <1>1, <2>1
<1>3. \A j \in 1 .. L : j <= Len(q) => s[j] = q[j]
  BY DEF Parted
<1> HIDE DEF a
<1>4. i = L + 1
  BY <1>1, <1>2, <1>3
<1>5. L < Len(q) /\ q[L + 1] # x
  BY <1>1, <1>2, <1>4
<1> DEFINE u == SubSeq(q, L + 1, Len(q))
           h == SubSeq(q, 1, L)
<1>6. u \in Seq(Keys) /\ Len(u) = Len(q) - L /\ \A j \in 1 .. Len(q) - L : u[j] = q[L + j]
  <2>1. L + 1 \in 1 .. Len(q) + 1 /\ Len(q) \in L .. Len(q)
    BY <1>1, <1>5
  <2>2. \A j \in L + 1 .. Len(q) : q[j] \in Keys
    BY <1>1, ElementOfSeq
  <2>3. QED BY <1>1, <1>5, <2>1, <2>2, SubSeqProperties
<1> HIDE DEF u, L
<1>7. u # <<>> /\ u[1] # x /\ u[1] = q[L + 1]
  <2>1. 1 \in 1 .. Len(q) - L
    BY <1>1, <1>5
  <2>2. u[1] = q[L + 1]
    BY <1>6, <2>1
  <2>3. Len(u) # 0
    BY <1>1, <1>5, <1>6
  <2>4. QED BY <1>5, <2>2, <2>3
<1>8. q = s \o u
  <2>1. s \o u \in Seq(Keys) /\ Len(s \o u) = L + (Len(q) - L)
    BY <1>6, ConcatProperties DEF L
  <2>2. /\ \A j \in 1 .. L : (s \o u)[j] = s[j]
        /\ \A j \in 1 .. Len(q) - L : (s \o u)[L + j] = u[j]
    BY <1>6, ConcatProperties DEF L
  <2> DEFINE w == s \o u
  <2> HIDE DEF w
  <2>3. ASSUME NEW j \in 1 .. Len(q) PROVE w[j] = q[j]
    <3>1. CASE j <= L
      <4>1. j \in 1 .. L
        BY <1>1, <3>1
      <4>2. w[j] = s[j]
        BY <2>2, <4>1 DEF w
      <4>3. s[j] = q[j]
        BY <1>1, <1>3, <4>1
      <4>4. QED BY <4>2, <4>3
    <3>2. CASE ~ (j <= L)
      <4>1. j - L \in 1 .. Len(q) - L /\ L + (j - L) = j
        BY <1>1, <3>2
      <4>2. w[L + (j - L)] = u[j - L] /\ u[j - L] = q[L + (j - L)]
        BY <1>6, <2>2, <4>1 DEF w
      <4>3. QED BY <4>1, <4>2
    <3>3. QED BY <3>1, <3>2
  <2>4. w \in Seq(Keys) /\ Len(w) = Len(q)
    BY <1>1, <2>1 DEF w
  <2>5. w = q
    BY <2>3, <2>4, SeqEqual
  <2>6. QED BY <2>5 DEF w
<1>9. QED BY <1>6, <1>7, <1>8 DEF L

\* What is at the paths that part from all of P is the same in r and n.
Kept(r, n, P) == \A q \in Seq(Keys) : (\A p \in P : Parted(p, q)) => NodeAt(r, q) = NodeAt(n, q)

\* Two nodes differ at most under the keys in X, and the paths that go on with these keys.
SameBut(m, c, X) == \A y \in Keys \ X : Child(m, y) = Child(c, y)
\* The path s with one more key.
Under(s, X) == {Append(s, x) : x \in X}

\* When the node at a path is replaced by one that differs from it under some keys only,
\* what is not under these keys stays.
LEMMA ChangedUnder ==
  ASSUME NEW n, NEW s \in Seq(Keys), NEW c, NodeAt(n, s) = {c}, NEW m, NEW r \in Replaced(n, s, m),
         NEW X \in SUBSET Keys, X # {}, SameBut(m, c, X)
  PROVE  Kept(r, n, Under(s, X))
<1> SUFFICES ASSUME NEW q \in Seq(Keys), \A x \in X : Parted(Append(s, x), q)
             PROVE  NodeAt(r, q) = NodeAt(n, q)
  BY DEF Kept, Under
<1>1. CASE Parted(s, q)
  BY <1>1, ReplacedElsewhere
<1>2. CASE ~ Parted(s, q)
  <2>1. PICK z \in X : Parted(Append(s, z), q)
    OBVIOUS
  <2>2. PICK u \in Seq(Keys) : u # <<>> /\ q = s \o u /\ u[1] = q[Len(s) + 1]
    BY <1>2, <2>1, PartedLater
  <2>3. ASSUME NEW x \in X PROVE u[1] # x
    <3>0. Parted(Append(s, x), q) /\ x \in Keys
      OBVIOUS
    <3>1. \E w \in Seq(Keys) : w # <<>> /\ w[1] # x /\ q = s \o w /\ w[1] = q[Len(s) + 1]
      BY <1>2, <3>0, PartedLater
    <3>2. QED BY <2>2, <3>1
  <2>4. u[1] \in Keys \ X
    BY <2>2, <2>3, HeadTailProperties
  <2>5. NodeAt(m, u) = NodeAt(c, u)
    <3>1. \A e : NodeAt(e, u) = UNION {NodeAt(b, Tail(u)) : b \in Child(e, u[1])}
      BY <2>2, FromHead
    <3>2. Child(m, u[1]) = Child(c, u[1])
      BY <2>4 DEF SameBut
    <3>3. NodeAt(m, u) = UNION {NodeAt(b, Tail(u)) : b \in Child(m, u[1])}
      BY <3>1
    <3>4. NodeAt(c, u) = UNION {NodeAt(b, Tail(u)) : b \in Child(c, u[1])}
      BY <3>1
    <3>5. QED BY <3>2, <3>3, <3>4
  <2>6. NodeAt(r, s) = {m}
    BY ReplacedThere
  <2>7. NodeAt(r, s \o u) = UNION {NodeAt(e, u) : e \in {m}}
    BY <2>6, Onwards
  <2>8. NodeAt(n, s \o u) = UNION {NodeAt(e, u) : e \in {c}}
    BY Onwards
  <2>9. QED BY <2>2, <2>5, <2>7, <2>8
<1>3. QED BY <1>1, <1>2

\* setNested leaves a document of the same kind.
LEMMA ReplacedKind ==
  ASSUME NEW n, NEW path \in Seq(Keys), path # <<>>, NEW v, NEW r \in Replaced(n, path, v)
  PROVE  r.k = n.k
<1>1. PICK c, d : Stepped(r, n, path, v, c, d)
  <2>1. \A e \in Replaced(n, path, v) : \E c, d : Stepped(e, n, path, v, c, d)
    BY ReplacedStep
  <2>2. QED BY <2>1
<1>2. QED BY <1>1 DEF Stepped

\* json.Set: the value is at its path, the rest of the document stays, and the document
\* stays a map and sound.
LEMMA PutLaw ==
  ASSUME NEW n, NEW p \in Seq(Keys), NEW v, NEW r \in Put(n, p, v)
  PROVE  /\ r.k = n.k
         /\ Sound(n) /\ Sound(v) => Sound(r)
         /\ p # <<>> => NodeAt(r, p) = {v} /\ Kept(r, n, {p})
<1>1. CASE p = <<>>
  BY <1>1 DEF Put
<1>2. CASE p # <<>>
  <2>1. r \in Replaced(n, p, v)
    BY <1>2 DEF Put
  <2>2. r.k = n.k
    BY <1>2, <2>1, ReplacedKind
  <2>3. Sound(n) /\ Sound(v) => Sound(r)
    BY <2>1, ReplacedSound
  <2>4. NodeAt(r, p) = {v}
    BY <2>1, ReplacedThere
  <2>5. Kept(r, n, {p})
    BY <2>1, ReplacedElsewhere DEF Kept
  <2>6. QED BY <2>2, <2>3, <2>4, <2>5
<1>3. QED BY <1>1, <1>2

\* A child is a child of a map or of a list.
LEMMA ParentKind ==
  ASSUME NEW n, NEW x, Child(n, x) # {}
  PROVE  n.k \in {"map", "list"}
BY DEF Child

\* A map without a key has nothing there, and under the others what it had.
LEMMA LackingIs ==
  ASSUME NEW n, NEW x, n.k = "map"
  PROVE  /\ Child(Lacking(n, x), x) = {}
         /\ \A y \in Keys \ {x} : Child(Lacking(n, x), y) = Child(n, y)
<1> DEFINE f == [y \in DOMAIN n.f \ {x} |-> n.f[y]]
           m == Map(f)
<1>1. Lacking(n, x) = m
  BY Zenon DEF Lacking
<1>2. DOMAIN f = DOMAIN n.f \ {x} /\ \A y \in DOMAIN n.f \ {x} : f[y] = n.f[y]
  OBVIOUS
<1> HIDE DEF f
<1>3. m.k = "map" /\ m.f = f
  BY DEF Map
<1> HIDE DEF m
<1>4. \A y : /\ Child(m, y) = {f[z] : z \in {y} \cap DOMAIN f}
             /\ Child(n, y) = {n.f[z] : z \in {y} \cap DOMAIN n.f}
  BY <1>3 DEF Child
<1>5. Child(m, x) = {}
  BY <1>2, <1>4
<1>6. \A y \in Keys \ {x} : Child(m, y) = Child(n, y)
  BY <1>2, <1>4
<1>7. QED BY <1>1, <1>5, <1>6

\* What is in a sound document is sound.
LEMMA SoundBelow ==
  ASSUME NEW n, Sound(n), NEW s \in Seq(Keys), NEW c \in NodeAt(n, s)
  PROVE  Sound(c)
<1>1. SUFFICES ASSUME NEW u \in Seq(Keys), NEW e \in NodeAt(c, u) PROVE e.k = "list" => IsASequence(e.q)
  BY DEF Sound
<1>2. NodeAt(n, s \o u) = UNION {NodeAt(b, u) : b \in NodeAt(n, s)}
  BY Onwards
<1>3. s \o u \in Seq(Keys)
  BY ConcatProperties
<1>4. e \in NodeAt(n, s \o u)
  BY <1>2
<1>5. QED BY <1>3, <1>4 DEF Sound

\* A map or a list without a child is of the same kind.
LEMMA LackingKind ==
  ASSUME NEW n, NEW x, n.k \in {"map", "list"}
  PROVE  Lacking(n, x).k = n.k
<1>1. CASE n.k = "map"
  BY <1>1 DEF Lacking, Map
<1>2. CASE n.k = "list"
  BY <1>2 DEF Lacking, List
<1>3. QED BY <1>1, <1>2

\* json.Delete of an entry: nothing is at its path, the rest of the document stays, and the
\* document stays a map and sound.
LEMMA DroppedLaw ==
  ASSUME NEW n, NEW p \in Seq(Keys), NEW r \in Dropped(n, p)
  PROVE  /\ r.k = n.k
         /\ (\A c \in NodeAt(n, Front(p)) : c.k # "list") =>
              /\ Sound(n) => Sound(r)
              /\ p # <<>> => NodeAt(r, p) = {} /\ Kept(r, n, {p})
<1>1. CASE p = <<>>
  <2>1. r = n
    BY <1>1 DEF Dropped
  <2>2. QED BY <1>1, <2>1
<1>2. CASE p # <<>> /\ NodeAt(n, p) = {}
  <2>1. r = n
    BY <1>2 DEF Dropped
  <2>2. Kept(r, n, {p})
    BY <2>1 DEF Kept
  <2>3. QED BY <1>2, <2>1, <2>2
<1>3. CASE p # <<>> /\ NodeAt(n, p) # {}
  <2> DEFINE s == Front(p)
             x == Last(p)
  <2>1. s \in Seq(Keys) /\ x \in Keys /\ p = Append(s, x)
    BY <1>3, FrontLast
  <2>2. PICK c \in NodeAt(n, s) : r \in Replaced(n, s, Lacking(c, x))
    BY <1>3, Zenon DEF Dropped
  <2> HIDE DEF s, x
  <2>3. NodeAt(n, s) = {c}
    <3>1. NodeAt(n, s) = {} \/ \E e : NodeAt(n, s) = {e}
      BY <2>1, OneNode
    <3>2. QED BY <2>2, <3>1
  <2>4. NodeAt(n, p) = Child(c, x)
    <3>1. NodeAt(n, Append(s, x)) = UNION {Child(e, x) : e \in NodeAt(n, s)}
      <4>1. \A q \in Seq(Keys), y \in Keys : NodeAt(n, Append(q, y)) = UNION {Child(e, y) : e \in NodeAt(n, q)}
        BY ToLast
      <4>2. QED BY <2>1, <4>1
    <3>2. QED BY <2>1, <2>3, <3>1
  <2>5. c.k \in {"map", "list"} /\ Lacking(c, x).k = c.k
    BY <1>3, <2>4, ParentKind, LackingKind
  <2>6. r.k = n.k
    <3>1. CASE s = <<>>
      <4>1. c = n
        BY <2>3, <3>1, NearRoot
      <4>2. r = Lacking(c, x)
        BY <2>2, <3>1, ReplacedRoot
      <4>3. QED BY <2>5, <4>1, <4>2
    <3>2. CASE s # <<>>
      BY <2>1, <2>2, <3>2, ReplacedKind
    <3>3. QED BY <3>1, <3>2
  <2>7. ASSUME \A e \in NodeAt(n, s) : e.k # "list"
        PROVE  /\ Sound(n) => Sound(r)
               /\ NodeAt(r, p) = {} /\ Kept(r, n, {p})
    <3>1. c.k = "map"
      BY <2>2, <2>5, <2>7
    <3> DEFINE m == Lacking(c, x)
    <3>2. Child(m, x) = {} /\ \A y \in Keys \ {x} : Child(m, y) = Child(c, y)
      BY <3>1, LackingIs
    <3>3. m.k = "map"
      BY <2>5, <3>1
    <3>4. r \in Replaced(n, s, m)
      BY <2>2
    <3> HIDE DEF m
    <3>5. NodeAt(r, s) = {m}
      BY <2>1, <3>4, ReplacedThere
    <3>6. NodeAt(r, p) = {}
      <4>1. NodeAt(r, Append(s, x)) = UNION {Child(e, x) : e \in NodeAt(r, s)}
        <5>1. \A q \in Seq(Keys), y \in Keys : NodeAt(r, Append(q, y)) = UNION {Child(e, y) : e \in NodeAt(r, q)}
          BY ToLast
        <5>2. QED BY <2>1, <5>1
      <4>2. QED BY <2>1, <3>2, <3>5, <4>1
    <3>7. Kept(r, n, {p})
      <4> DEFINE X == {x}
      <4>1. X \in SUBSET Keys /\ X # {} /\ SameBut(m, c, X)
        BY <2>1, <3>2 DEF SameBut
      <4>2. Under(s, X) = {p}
        BY <2>1 DEF Under
      <4> HIDE DEF X
      <4>3. Kept(r, n, Under(s, X))
        BY <2>1, <2>3, <3>4, <4>1, ChangedUnder
      <4>4. QED BY <4>2, <4>3
    <3>8. ASSUME Sound(n) PROVE Sound(r)
      <4>1. Sound(c)
        BY <2>1, <2>2, <3>8, SoundBelow
      <4>2. ASSUME NEW y \in Keys, NEW e \in Child(m, y) PROVE Sound(e)
        <5>1. y # x
          BY <3>2, <4>2
        <5>2. e \in Child(c, y)
          BY <3>2, <4>2, <5>1
        <5>3. QED BY <4>1, <5>2, SoundIff
      <4>3. Sound(m)
        BY <3>3, <4>2, SoundIff
      <4>4. QED BY <2>1, <3>4, <3>8, <4>3, ReplacedSound
    <3>9. QED BY <3>6, <3>7, <3>8
  <2>8. QED BY <2>6, <2>7 DEF s
<1>4. QED BY <1>1, <1>2, <1>3

\* A sequence with one more element.
LEMMA LongerList ==
  ASSUME NEW q, IsASequence(q), NEW v
  PROVE  /\ IsASequence(Append(q, v))
         /\ Last(Append(q, v)) = v /\ Front(Append(q, v)) = q
         /\ \A i \in DOMAIN Append(q, v) : Append(q, v)[i] = v \/ (i \in DOMAIN q /\ Append(q, v)[i] = q[i])
<1>1. PICK S : q \in Seq(S)
  BY DEF IsASequence
<1> DEFINE T == S \cup {v}
           a == Append(q, v)
<1>2. q \in Seq(T) /\ v \in T
  BY <1>1, SeqMonotonic
<1> HIDE DEF T
<1>3. a \in Seq(T) /\ Last(a) = v /\ Front(a) = q
  BY <1>2, FrontLast, AppendProperties
<1>4. /\ DOMAIN q = 1 .. Len(q) /\ Len(q) \in Nat /\ DOMAIN a = 1 .. Len(a) /\ Len(a) = Len(q) + 1
      /\ a[Len(q) + 1] = v /\ \A i \in 1 .. Len(q) : a[i] = q[i]
  BY <1>2, <1>3, AppendProperties, LenProperties
<1> HIDE DEF a
<1>5. \A i \in DOMAIN a : a[i] = v \/ (i \in DOMAIN q /\ a[i] = q[i])
  BY <1>4
<1>6. IsASequence(a)
  BY <1>3 DEF IsASequence
<1>7. QED BY <1>3, <1>5, <1>6 DEF a

\* What json.Append puts at a path, seen from the list that was there.
LEMMA ListedIs ==
  ASSUME NEW n, NEW p \in Seq(Keys), NEW v, NEW r \in Listed(n, p, v)
  PROVE  \E q : /\ r \in Put(n, p, List(Append(q, v)))
                /\ \/ q = <<>> /\ \A d \in NodeAt(n, p) : d.k # "list"
                   \/ \E c \in NodeAt(n, p) : c.k = "list" /\ q = c.q /\ NodeAt(n, p) = {c}
<1> DEFINE lists == {c \in NodeAt(n, p) : c.k = "list"}
           old == IF lists = {} THEN <<>> ELSE (CHOOSE c \in lists : TRUE).q
<1>1. r \in Put(n, p, List(Append(old, v)))
  BY Zenon DEF Listed
<1>2. CASE lists = {}
  <2>1. old = <<>>
    BY <1>2
  <2>2. \A d \in NodeAt(n, p) : d.k # "list"
    BY <1>2
  <2> HIDE DEF old, lists
  <2>3. QED BY <1>1, <2>1, <2>2
<1>3. CASE lists # {}
  <2> DEFINE c == CHOOSE c \in lists : TRUE
  <2>1. c \in lists
    BY <1>3
  <2>2. old = c.q
    BY <1>3
  <2>3. c \in NodeAt(n, p) /\ c.k = "list"
    <3> HIDE DEF c
    <3>1. QED BY <2>1
  <2> HIDE DEF c, old, lists
  <2>4. NodeAt(n, p) = {c}
    <3>1. NodeAt(n, p) = {} \/ \E e : NodeAt(n, p) = {e}
      BY OneNode
    <3>2. QED BY <2>3, <3>1
  <2>5. QED BY <1>1, <2>2, <2>3, <2>4
<1>4. QED BY <1>2, <1>3

\* json.Append: the list at the path has one more element, the rest of the document stays, and
\* the document stays a map and sound.
Grown(r, n, p, v) ==
  /\ r.k = n.k
  /\ Sound(n) =>
       /\ Sound(v) => Sound(r)
       /\ p # <<>> =>
            /\ \E c \in NodeAt(r, p) : /\ c.k = "list" /\ Last(c.q) = v
                                       /\ \A d \in NodeAt(n, p) : d.k = "list" => d.q = Front(c.q)
            /\ Kept(r, n, {p})

\* json.Append does so.
LEMMA ListedLaw ==
  ASSUME NEW n, NEW p \in Seq(Keys), NEW v
  PROVE  \A r \in Listed(n, p, v) : Grown(r, n, p, v)
<1> SUFFICES ASSUME NEW r \in Listed(n, p, v) PROVE Grown(r, n, p, v)
  OBVIOUS
<1>1. PICK q : /\ r \in Put(n, p, List(Append(q, v)))
               /\ \/ q = <<>> /\ \A d \in NodeAt(n, p) : d.k # "list"
                  \/ \E c \in NodeAt(n, p) : c.k = "list" /\ q = c.q /\ NodeAt(n, p) = {c}
  BY ListedIs
<1> DEFINE a == Append(q, v)
           l == List(a)
<1>2. l.k = "list" /\ l.q = a
  BY DEF List
<1>3. r \in Put(n, p, l)
  BY <1>1
<1> HIDE DEF a, l
<1>4. /\ r.k = n.k
      /\ Sound(n) /\ Sound(l) => Sound(r)
      /\ p # <<>> => NodeAt(r, p) = {l} /\ Kept(r, n, {p})
  BY <1>3, PutLaw
<1>5. ASSUME Sound(n)
      PROVE  /\ Sound(v) => Sound(r)
             /\ p # <<>> =>
                   /\ \E c \in NodeAt(r, p) : /\ c.k = "list" /\ Last(c.q) = v
                                              /\ \A d \in NodeAt(n, p) : d.k = "list" => d.q = Front(c.q)
                   /\ Kept(r, n, {p})
  <2>1. IsASequence(q)
    <3>1. CASE q = <<>>
      <4>1. q \in Seq({})
        BY <3>1
      <4>2. QED BY <4>1 DEF IsASequence
    <3>2. CASE \E c \in NodeAt(n, p) : c.k = "list" /\ q = c.q
      BY <1>5, <3>2 DEF Sound
    <3>3. QED BY <1>1, <3>1, <3>2
  <2>2. /\ IsASequence(a) /\ Last(a) = v /\ Front(a) = q
        /\ \A i \in DOMAIN a : a[i] = v \/ (i \in DOMAIN q /\ a[i] = q[i])
    BY <2>1, LongerList DEF a
  <2>3. ASSUME Sound(v) PROVE Sound(l)
    <3>1. ASSUME NEW x \in Keys, NEW e \in Child(l, x) PROVE Sound(e)
      <4> DEFINE h == Index(x) + 1
      <4>1. Child(l, x) = {l.q[i] : i \in {h} \cap DOMAIN l.q}
        BY <1>2 DEF Child
      <4> HIDE DEF h
      <4>2. h \in DOMAIN a /\ e = a[h]
        BY <1>2, <3>1, <4>1
      <4>3. CASE e = v
        BY <2>3, <4>3
      <4>4. CASE h \in DOMAIN q /\ e = q[h]
        <5>1. q # <<>>
          BY <4>4
        <5>2. PICK c \in NodeAt(n, p) : c.k = "list" /\ q = c.q
          BY <1>1, <5>1
        <5>3. Child(c, x) = {c.q[i] : i \in {h} \cap DOMAIN c.q}
          BY <5>2 DEF Child, h
        <5>4. e \in Child(c, x)
          BY <4>4, <5>2, <5>3
        <5>5. Sound(c)
          BY <1>5, SoundBelow
        <5>6. QED BY <5>4, <5>5, SoundIff
      <4>5. QED BY <2>2, <4>2, <4>3, <4>4
    <3>2. QED BY <1>2, <2>2, <3>1, SoundIff
  <2>4. \A d \in NodeAt(n, p) : d.k = "list" => d.q = q
    BY <1>1
  <2>5. QED BY <1>2, <1>4, <1>5, <2>2, <2>3, <2>4
<1>6. QED BY <1>4, <1>5 DEF Grown

\* json.RenameKey of a key that is there to one that is not: the value is under the new key,
\* nothing under the old one, the rest of the document stays, and the document stays a map and sound.
KeyMoved(r, n, s, old, new) ==
  /\ r.k = n.k
  /\ Sound(n) => Sound(r)
  /\ NodeAt(r, Append(s, new)) = NodeAt(n, Append(s, old))
  /\ NodeAt(r, Append(s, old)) = {}
  /\ Kept(r, n, {Append(s, old), Append(s, new)})

\* json.RenameKey does so.
LEMMA RenamedLaw ==
  ASSUME NEW n, NEW s \in Seq(Keys), NEW old \in Keys, NEW new \in Keys, old # new,
         old \in KeysAt(n, s), new \notin KeysAt(n, s)
  PROVE  \A r \in Renamed(n, s, old, new) : KeyMoved(r, n, s, old, new)
<1> SUFFICES ASSUME NEW r \in Renamed(n, s, old, new) PROVE KeyMoved(r, n, s, old, new)
  OBVIOUS
<1> DEFINE Moved(f) == [x \in (DOMAIN f \ {old}) \cup {new} |-> f[IF x = new THEN old ELSE x]]
<1>1. PICK c \in NodeAt(n, s) : r \in Replaced(n, s, Map(Moved(c.f)))
  BY Zenon DEF Renamed
<1>2. NodeAt(n, s) = {c}
  <2>1. NodeAt(n, s) = {} \/ \E e : NodeAt(n, s) = {e}
    BY OneNode
  <2>2. QED BY <1>1, <2>1
<1>3. c.k = "map" /\ old \in DOMAIN c.f /\ new \notin DOMAIN c.f
  <2>1. KeysAt(n, s) = IF c.k = "map" THEN DOMAIN c.f ELSE {}
    BY <1>2 DEF KeysAt
  <2>2. QED BY <2>1
<1> DEFINE f == c.f
           g == Moved(f)
           m == Map(g)
<1>4. r \in Replaced(n, s, m)
  BY <1>1
<1>5. /\ DOMAIN g = (DOMAIN f \ {old}) \cup {new}
      /\ g[new] = f[old] /\ \A x \in DOMAIN f \ {old} : x # new => g[x] = f[x]
  OBVIOUS
<1> HIDE DEF g
<1>6. m.k = "map" /\ m.f = g
  BY DEF Map
<1> HIDE DEF m
<1>7. \A y : /\ Child(m, y) = {g[z] : z \in {y} \cap DOMAIN g}
             /\ Child(c, y) = {f[z] : z \in {y} \cap DOMAIN f}
  BY <1>3, <1>6 DEF Child
<1> HIDE DEF f
<1>8. /\ Child(m, new) = Child(c, old) /\ Child(m, old) = {}
      /\ \A y \in Keys \ {old, new} : Child(m, y) = Child(c, y)
  <2>1. old \in DOMAIN f /\ new \notin DOMAIN f
    BY <1>3 DEF f
  <2>2. Child(m, new) = {g[new]} /\ Child(c, old) = {f[old]}
    BY <1>5, <1>7, <2>1
  <2>3. Child(m, old) = {}
    BY <1>5, <1>7
  <2>4. ASSUME NEW y \in Keys \ {old, new} PROVE Child(m, y) = Child(c, y)
    <3>1. {y} \cap DOMAIN g = {y} \cap DOMAIN f /\ \A z \in {y} \cap DOMAIN f : g[z] = f[z]
      BY <1>5
    <3>2. Child(m, y) = {g[z] : z \in {y} \cap DOMAIN g} /\ Child(c, y) = {f[z] : z \in {y} \cap DOMAIN f}
      BY <1>7
    <3>3. QED BY <3>1, <3>2
  <2>5. QED BY <1>5, <2>2, <2>3, <2>4
<1>9. NodeAt(r, s) = {m}
  BY <1>4, ReplacedThere
<1>11. /\ NodeAt(r, Append(s, new)) = Child(m, new)
       /\ NodeAt(r, Append(s, old)) = Child(m, old)
       /\ NodeAt(n, Append(s, old)) = Child(c, old)
  <2>1. /\ NodeAt(r, Append(s, new)) = UNION {Child(b, new) : b \in NodeAt(r, s)}
        /\ NodeAt(r, Append(s, old)) = UNION {Child(b, old) : b \in NodeAt(r, s)}
        /\ NodeAt(n, Append(s, old)) = UNION {Child(b, old) : b \in NodeAt(n, s)}
    <3>1. NodeAt(r, Append(s, new)) = UNION {Child(b, new) : b \in NodeAt(r, s)}
      BY ToLast
    <3>2. NodeAt(r, Append(s, old)) = UNION {Child(b, old) : b \in NodeAt(r, s)}
      BY ToLast
    <3>3. NodeAt(n, Append(s, old)) = UNION {Child(b, old) : b \in NodeAt(n, s)}
      BY ToLast
    <3>4. QED BY <3>1, <3>2, <3>3
  <2>2. QED BY <1>2, <1>9, <2>1
<1>12. Kept(r, n, {Append(s, old), Append(s, new)})
  <2> DEFINE X == {old, new}
  <2>1. X \in SUBSET Keys /\ X # {} /\ SameBut(m, c, X)
    BY <1>8 DEF SameBut
  <2>2. Under(s, X) = {Append(s, old), Append(s, new)}
    BY DEF Under
  <2> HIDE DEF X
  <2>3. Kept(r, n, Under(s, X))
    BY <1>2, <1>4, <2>1, ChangedUnder
  <2>4. QED BY <2>2, <2>3
<1>13. r.k = n.k
  <2>1. CASE s = <<>>
    <3>1. c = n
      BY <1>2, <2>1, NearRoot
    <3>2. r = m
      BY <1>4, <2>1, ReplacedRoot
    <3>3. QED BY <1>3, <1>6, <3>1, <3>2
  <2>2. CASE s # <<>>
    BY <1>4, <2>2, ReplacedKind
  <2>3. QED BY <2>1, <2>2
<1>14. ASSUME Sound(n) PROVE Sound(r)
  <2>1. Sound(c)
    BY <1>1, <1>14, SoundBelow
  <2>2. ASSUME NEW y \in Keys, NEW e \in Child(m, y) PROVE Sound(e)
    <3>1. e \in Child(c, y) \/ e \in Child(c, old)
      BY <1>8, <2>2
    <3>2. QED BY <2>1, <3>1, SoundIff
  <2>3. Sound(m)
    BY <1>6, <2>2, SoundIff
  <2>4. QED BY <1>4, <1>14, <2>3, ReplacedSound
<1>15. QED BY <1>8, <1>11, <1>12, <1>13, <1>14 DEF KeyMoved

\* The paths a script uses are sequences of keys.
LEMMA PathsAreSequences ==
  ASSUME NEW depth
  PROVE  PathsTo(depth) \subseteq Seq(Keys)
<1>1. SUFFICES ASSUME NEW p \in PathsTo(depth) PROVE p \in Seq(Keys)
  OBVIOUS
<1>2. PICK n \in 0 .. depth : p \in [1 .. n -> Keys]
  BY DEF PathsTo
<1>3. CASE n \in Nat
  BY <1>2, <1>3, SeqDef
<1>4. QED BY <1>2, <1>3

\* What a script passes to json.Set is sound.
LEMMA GivenSound == \A v \in Given : Sound(v)
<1>1. ASSUME NEW v \in Leaves PROVE Sound(v)
  <2>1. v.k # "map" /\ v.k # "list"
    BY DEF Leaves, Text, Number, JsonNull
  <2>2. QED BY <2>1, SoundLeaf
<1>2. Sound(List(<<>>))
  <2> DEFINE l == List(<<>>)
  <2>1. l.k = "list" /\ l.q = <<>>
    BY DEF List
  <2> HIDE DEF l
  <2>2. IsASequence(l.q)
    <3>1. <<>> \in Seq({})
      OBVIOUS
    <3>2. QED BY <2>1, <3>1 DEF IsASequence
  <2>3. DOMAIN l.q = {}
    BY <2>1
  <2>4. \A x \in Keys : Child(l, x) = {}
    BY <2>1, <2>3 DEF Child
  <2>5. Sound(l)
    BY <2>2, <2>4, SoundIff
  <2>6. QED BY <2>5 DEF l
<1>3. Sound(Map([a |-> Text("x")]))
  <2> DEFINE m == Map([a |-> Text("x")])
  <2>1. m.k = "map" /\ DOMAIN m.f = {"a"} /\ m.f["a"] = Text("x")
    BY DEF Map
  <2>2. Sound(Text("x"))
    <3>1. Text("x").k # "map" /\ Text("x").k # "list"
      BY DEF Text
    <3>2. QED BY <3>1, SoundLeaf
  <2> HIDE DEF m
  <2>3. \A x \in Keys : \A e \in Child(m, x) : e = Text("x")
    BY <2>1 DEF Child
  <2>4. Sound(m)
    BY <2>1, <2>2, <2>3, SoundIff
  <2>5. QED BY <2>4 DEF m
<1>4. QED BY <1>1, <1>2, <1>3 DEF Given

\* The documents a script starts from are sound maps.
LEMMA DocumentsSound == \A d \in Documents : d.k = "map" /\ Sound(d)
<1>1. Empty.k = "map" /\ Sound(Empty)
  BY SoundEmpty DEF Empty, Map
<1>2. Map([a |-> Text("x")]).k = "map" /\ Sound(Map([a |-> Text("x")]))
  BY GivenSound DEF Given, Map
<1>3. ASSUME NEW v \in Leaves
      PROVE  LET first  == Map([a |-> Text("x")])
                 second == Map([x \in Keys |-> IF x = "a" THEN v ELSE Text("XY")])
                 d      == Map([a |-> List(<<first, second>>)])
             IN  d.k = "map" /\ Sound(d)
  <2> DEFINE first  == Map([a |-> Text("x")])
             second == Map([x \in Keys |-> IF x = "a" THEN v ELSE Text("XY")])
             l == List(<<first, second>>)
             d == Map([a |-> l])
  <2>1. Sound(first)
    BY <1>2
  <2> HIDE DEF first, second
  <2>2. l.k = "list" /\ l.q = <<first, second>>
    BY DEF List
  <2>3. d.k = "map" /\ DOMAIN d.f = {"a"} /\ d.f["a"] = l
    BY DEF Map
  <2> HIDE DEF l, d
  <2>4. IsASequence(l.q)
    <3>1. <<first, second>> \in Seq({first, second})
      OBVIOUS
    <3>2. QED BY <2>2, <3>1 DEF IsASequence
  <2>5. ASSUME NEW x \in Keys, NEW e \in Child(l, x) PROVE Sound(e)
    <3> DEFINE h == Index(x) + 1
    <3>1. h \in {-1, 0, 1}
      BY DEF Index, Keys
    <3>2. Child(l, x) = {l.q[i] : i \in {h} \cap DOMAIN l.q}
      BY <2>2 DEF Child
    <3> HIDE DEF h
    <3>3. DOMAIN l.q = 1 .. 2 /\ l.q[1] = first
      BY <2>2
    <3>4. h \in 1 .. 2 /\ e = l.q[h]
      BY <2>5, <3>2, <3>3
    <3>5. QED BY <2>1, <3>1, <3>3, <3>4
  <2>6. Sound(l)
    BY <2>4, <2>5, SoundIff
  <2>7. \A x \in Keys : \A e \in Child(d, x) : e = l
    BY <2>3 DEF Child
  <2>8. Sound(d)
    BY <2>3, <2>6, <2>7, SoundIff
  <2>9. QED BY <2>3, <2>8 DEF first, second, l, d
<1>4. QED BY <1>1, <1>2, <1>3 DEF Documents

--------------------------------------------------------------------------------
(* json.Save *)

\* The documents are maps or nothing, and while json.Save is at work the document it writes is
\* the one of the script.
SaveInv ==
  /\ store.k \in {"map", "nil"}
  /\ saving \in {"no", "temp", "rename"}
  /\ DOMAIN disk = Files
  /\ \A f \in Files : DOMAIN disk[f] = {"doc", "tmp"} /\ disk[f].doc.k \in {"map", "nil", "missing"}
  /\ {"op", "path", "value", "result", "before"} \subseteq DOMAIN done
  /\ saving # "no" => /\ bound \in Files
                      /\ done.op = "save" /\ done.path = <<>> /\ done.value = store /\ done.result = "running"
  /\ saving = "rename" => disk[bound].tmp = store
  /\ done.op = "save" /\ done.result = "ok" => disk[bound] = [doc |-> done.value, tmp |-> Missing]

\* SaveInv holds before the script runs.
LEMMA SaveInvInit == JsonInit => SaveInv
<1> SUFFICES ASSUME JsonInit PROVE SaveInv
  OBVIOUS
<1>1. PICK d \in [Files -> {Missing} \cup Documents] : disk = [f \in Files |-> [doc |-> d[f], tmp |-> Missing]]
  BY DEF JsonInit
<1>2. \A e \in {Missing} \cup Documents : e.k \in {"map", "missing"}
  BY DocumentsSound DEF Missing
<1>3. /\ DOMAIN disk = Files
      /\ \A f \in Files : DOMAIN disk[f] = {"doc", "tmp"} /\ disk[f].doc = d[f]
  BY <1>1
<1>4. \A f \in Files : disk[f].doc \in {Missing} \cup Documents
  BY <1>1, <1>3
<1>5. store.k \in {"map", "nil"}
  <2>1. Empty.k = "map"
    BY DEF Empty, Map
  <2>2. ASSUME NEW f \in Files, disk[f].doc # Missing, store = disk[f].doc PROVE store.k = "map"
    BY <1>4, <2>2, DocumentsSound
  <2>3. QED BY <2>1, <2>2 DEF JsonInit
<1>6. done = NoCall /\ saving = "no"
  BY DEF JsonInit
<1>7. /\ {"op", "path", "value", "result", "before"} \subseteq DOMAIN done
      /\ done.op = "none"
  BY <1>6 DEF NoCall
<1>8. QED BY <1>2, <1>3, <1>4, <1>5, <1>6, <1>7 DEF SaveInv

\* A call that is none of json.Save and leaves the disk alone.
LEMMA SaveInvCall ==
  ASSUME SaveInv, NEW op, NEW path, NEW value, NEW key, NEW result, Call(op, path, value, key, result),
         op # "save", store'.k \in {"map", "nil"}, UNCHANGED <<disk, saving>>
  PROVE  SaveInv'
<1>1. /\ saving = "no" /\ saving' = "no" /\ disk' = disk
      /\ {"op", "path", "value", "result", "before"} \subseteq DOMAIN done' /\ done'.op = op
  BY DEF Call
<1>2. QED BY <1>1 DEF SaveInv

\* What Changes makes of a call: a panic, an error or one of the results.
LEMMA ChangesIs ==
  ASSUME NEW op, NEW path, NEW value, NEW key, NEW results, Changes(op, path, value, key, results)
  PROVE  \/ Call(op, path, value, key, "panic") /\ store' = store /\ store = Nil
         \/ Call(op, path, value, key, "error") /\ store' = store
         \/ Call(op, path, value, key, "ok") /\ store' \in results
BY Zenon DEF Changes

\* A call that changes a document leaves one of the same kind.
LEMMA SameKind ==
  ASSUME NEW path \in Seq(Keys), NEW key \in Keys, NEW v, NEW op,
         \/ Changes(op, path, v, key, Put(store, path, v))
         \/ Changes(op, path, v, key, Listed(store, path, v))
         \/ Changes(op, path, v, key, Dropped(store, path))
         \/ SetKey(path, key, v)
         \/ \E new \in Keys : RenameKey(path, key, new)
  PROVE  store'.k = store.k
<1>0. Append(path, key) \in Seq(Keys)
  BY AppendProperties
<1>1. CASE Changes(op, path, v, key, Put(store, path, v))
  <2>1. store' = store \/ store' \in Put(store, path, v)
    BY <1>1, ChangesIs
  <2>2. QED BY <2>1, PutLaw
<1>2. CASE Changes(op, path, v, key, Listed(store, path, v))
  <2>1. store' = store \/ store' \in Listed(store, path, v)
    BY <1>2, ChangesIs
  <2>2. store' = store \/ Grown(store', store, path, v)
    BY <2>1, ListedLaw
  <2>3. QED BY <2>2 DEF Grown
<1>3. CASE Changes(op, path, v, key, Dropped(store, path))
  <2>1. store' = store \/ store' \in Dropped(store, path)
    BY <1>3, ChangesIs
  <2>2. QED BY <2>1, DroppedLaw
<1>4. CASE SetKey(path, key, v)
  <2> DEFINE p == Append(path, key)
  <2>1. store' = store \/ store' \in Put(store, p, v)
    BY <1>4, Zenon DEF SetKey, Changes
  <2>2. p \in Seq(Keys)
    BY <1>0
  <2> HIDE DEF p
  <2>3. QED BY <2>1, <2>2, PutLaw
<1>5. ASSUME NEW new \in Keys, RenameKey(path, key, new) PROVE store'.k = store.k
  <2>1. \/ store' = store
        \/ key \in KeysAt(store, path) /\ new \notin KeysAt(store, path) /\ store' \in Renamed(store, path, key, new)
    BY <1>5, Zenon DEF RenameKey, Changes
  <2>2. key # new
    BY <1>5 DEF RenameKey
  <2>3. CASE store' \in Renamed(store, path, key, new) /\ key \in KeysAt(store, path) /\ new \notin KeysAt(store, path)
    <3>1. KeyMoved(store', store, path, key, new)
      BY <1>5, <2>2, <2>3, RenamedLaw
    <3>2. QED BY <3>1 DEF KeyMoved
  <2>4. QED BY <2>1, <2>3
<1>6. QED BY <1>1, <1>2, <1>3, <1>4, <1>5

\* Every call that changes the document leaves the files alone and a document of the same kind.
LEMMA SaveInvChanges ==
  ASSUME SaveInv, UNCHANGED <<disk, saving>>, store'.k = store.k,
         NEW op, NEW path, NEW value, NEW key, NEW results, op # "save", Changes(op, path, value, key, results)
  PROVE  SaveInv'
<1>1. store'.k \in {"map", "nil"}
  BY DEF SaveInv
<1>2. PICK result : Call(op, path, value, key, result)
  BY ChangesIs
<1>3. QED BY <1>1, <1>2, SaveInvCall

\* No function, no part of json.Save and no crash breaks SaveInv.
LEMMA SaveInvNext ==
  ASSUME SaveInv, JsonNext
  PROVE  SaveInv'
<1>1. ASSUME NEW path \in Paths, NEW v \in Given, Set(path, v), UNCHANGED <<bound, disk, saving>>
      PROVE  SaveInv'
  <2>1. path \in Seq(Keys)
    BY PathsAreSequences DEF Paths
  <2>2. Changes("set", path, v, "a", Put(store, path, v))
    BY <1>1 DEF Set
  <2>3. store'.k = store.k
    BY <2>1, <2>2, "a" \in Keys, SameKind DEF Keys
  <2>4. QED BY <1>1, <2>2, <2>3, SaveInvChanges
<1>2. ASSUME NEW path \in Paths, NEW v \in Given, AppendTo(path, v), UNCHANGED <<bound, disk, saving>>
      PROVE  SaveInv'
  <2>1. path \in Seq(Keys)
    BY PathsAreSequences DEF Paths
  <2>2. Changes("append", path, v, "a", Listed(store, path, v))
    BY <1>2 DEF AppendTo
  <2>3. store'.k = store.k
    BY <2>1, <2>2, "a" \in Keys, SameKind DEF Keys
  <2>4. QED BY <1>2, <2>2, <2>3, SaveInvChanges
<1>3. ASSUME NEW path \in Paths, Delete(path), UNCHANGED <<bound, disk, saving>>
      PROVE  SaveInv'
  <2>1. path \in Seq(Keys)
    BY PathsAreSequences DEF Paths
  <2>2. Changes("delete", path, JsonNull, "a", Dropped(store, path))
    BY <1>3 DEF Delete
  <2>3. store'.k = store.k
    BY <2>1, <2>2, "a" \in Keys, SameKind DEF Keys
  <2>4. QED BY <1>3, <2>2, <2>3, SaveInvChanges
<1>4. ASSUME NEW path \in PathsTo(MaxPath - 1), NEW key \in Keys, NEW v \in Given, SetKey(path, key, v),
             UNCHANGED <<bound, disk, saving>>
      PROVE  SaveInv'
  <2>1. path \in Seq(Keys)
    BY PathsAreSequences
  <2>2. Changes("setkey", Append(path, key), v, key,
                IF IsMap(store, path) THEN Put(store, Append(path, key), v) ELSE {})
    BY <1>4 DEF SetKey
  <2>3. store'.k = store.k
    BY <1>4, <2>1, SameKind
  <2>4. QED BY <1>4, <2>2, <2>3, SaveInvChanges
<1>5. ASSUME NEW path \in PathsTo(MaxPath - 1), NEW key \in Keys, NEW new \in Keys, RenameKey(path, key, new),
             UNCHANGED <<bound, disk, saving>>
      PROVE  SaveInv'
  <2>1. path \in Seq(Keys)
    BY PathsAreSequences
  <2>2. \E results : Changes("rename", Append(path, key), JsonNull, new, results)
    BY <1>5, Zenon DEF RenameKey
  <2>3. store'.k = store.k
    BY <1>5, <2>1, SameKind
  <2>4. QED BY <1>5, <2>2, <2>3, SaveInvChanges
<1>6. ASSUME ParseToEngine, UNCHANGED <<bound, disk, saving>>
      PROVE  SaveInv'
  <2>1. PICK d \in Documents \cup (IF "nil" \in JsonFeatures THEN {Nil} ELSE {}) :
          Call("parse", <<>>, d, "a", "ok") /\ store' = d
    BY <1>6, Zenon DEF ParseToEngine
  <2>2. d.k \in {"map", "nil"}
    <3>1. d \in Documents \/ d = Nil
      BY <2>1
    <3>2. QED BY <3>1, DocumentsSound DEF Nil
  <2>3. QED BY <1>6, <2>1, <2>2, SaveInvCall
<1>7. ASSUME NEW f \in Files, Load(f), UNCHANGED <<disk, saving>>
      PROVE  SaveInv'
  <2>1. CASE disk[f].doc.k = "map"
    <3>1. Call("load", <<>>, disk[f].doc, "a", "ok") /\ store' = disk[f].doc
      BY <1>7, <2>1 DEF Load
    <3>2. QED BY <1>7, <2>1, <3>1, SaveInvCall
  <2>2. CASE disk[f].doc.k # "map"
    <3>1. Call("load", <<>>, JsonNull, "a", "error") /\ store' = store
      BY <1>7, <2>2 DEF Load
    <3>2. store'.k \in {"map", "nil"}
      BY <3>1 DEF SaveInv
    <3>3. QED BY <1>7, <3>1, <3>2, SaveInvCall
  <2>3. QED BY <2>1, <2>2
<1>8. ASSUME NEW f \in Files, Save(f), UNCHANGED store
      PROVE  SaveInv'
  <2>1. /\ saving' = "temp" /\ bound' = f /\ store' = store
        /\ done' = [op |-> "save", path |-> <<>>, value |-> store, key |-> "a", result |-> "running", before |-> store]
        /\ disk' = [disk EXCEPT ![f] = [disk[f] EXCEPT !.tmp = Torn]]
    BY <1>8 DEF Save, Call
  <2>2. DOMAIN disk' = Files
    BY <2>1 DEF SaveInv
  <2>3. ASSUME NEW g \in Files
        PROVE  DOMAIN disk'[g] = {"doc", "tmp"} /\ disk'[g].doc.k \in {"map", "nil", "missing"}
    <3>1. DOMAIN disk[g] = {"doc", "tmp"} /\ disk[g].doc.k \in {"map", "nil", "missing"} /\ DOMAIN disk = Files
      BY DEF SaveInv
    <3>2. disk'[g] = IF g = f THEN [disk[f] EXCEPT !.tmp = Torn] ELSE disk[g]
      BY <2>1, <3>1
    <3>3. CASE g = f
      BY <3>1, <3>2, <3>3
    <3>4. CASE g # f
      BY <3>1, <3>2, <3>4
    <3>5. QED BY <3>3, <3>4
  <2>4. /\ {"op", "path", "value", "result", "before"} \subseteq DOMAIN done'
        /\ done'.op = "save" /\ done'.path = <<>> /\ done'.value = store' /\ done'.result = "running"
    BY <2>1
  <2>5. store'.k \in {"map", "nil"}
    BY <2>1 DEF SaveInv
  <2>6. QED BY <1>8, <2>1, <2>2, <2>3, <2>4, <2>5 DEF SaveInv
<1>9. ASSUME SaveWrites, UNCHANGED <<store, bound, calls>>
      PROVE  SaveInv'
  <2>1. /\ saving = "temp" /\ bound \in Files /\ done.op = "save" /\ done.path = <<>> /\ done.value = store
        /\ done.result = "running" /\ {"op", "path", "value", "result", "before"} \subseteq DOMAIN done
    BY <1>9 DEF SaveWrites, SaveInv
  <2>2. CASE saving' = "rename" /\ disk' = [disk EXCEPT ![bound].tmp = store] /\ UNCHANGED done
    <3>1. disk' = [disk EXCEPT ![bound] = [disk[bound] EXCEPT !.tmp = store]]
      BY <2>2
    <3>2. DOMAIN disk' = Files
      BY <3>1 DEF SaveInv
    <3>3. ASSUME NEW g \in Files
          PROVE  DOMAIN disk'[g] = {"doc", "tmp"} /\ disk'[g].doc.k \in {"map", "nil", "missing"}
      <4>1. DOMAIN disk[g] = {"doc", "tmp"} /\ disk[g].doc.k \in {"map", "nil", "missing"} /\ DOMAIN disk = Files
        BY DEF SaveInv
      <4>2. disk'[g] = IF g = bound THEN [disk[bound] EXCEPT !.tmp = store] ELSE disk[g]
        BY <3>1, <4>1
      <4>3. CASE g = bound
        BY <4>1, <4>2, <4>3
      <4>4. CASE g # bound
        BY <4>1, <4>2, <4>4
      <4>5. QED BY <4>3, <4>4
    <3>4. disk'[bound].tmp = store
      <4>1. disk'[bound] = [disk[bound] EXCEPT !.tmp = store] /\ DOMAIN disk[bound] = {"doc", "tmp"}
        BY <2>1, <3>1 DEF SaveInv
      <4>2. QED BY <4>1
    <3>5. QED BY <1>9, <2>1, <2>2, <3>2, <3>3, <3>4 DEF SaveInv
  <2>3. CASE Returns("error") /\ UNCHANGED disk
    <3>1. /\ saving' = "no" /\ disk' = disk /\ DOMAIN done' = DOMAIN done
          /\ done'.result = "error"
      BY <2>1, <2>3 DEF Returns
    <3>2. QED BY <1>9, <2>1, <3>1 DEF SaveInv
  <2>4. QED BY <1>9, <2>2, <2>3 DEF SaveWrites
<1>10. ASSUME SaveRenames, UNCHANGED <<store, bound, calls>>
       PROVE  SaveInv'
  <2>1. /\ saving = "rename" /\ bound \in Files /\ done.op = "save" /\ done.path = <<>> /\ done.value = store
        /\ disk[bound].tmp = store /\ store.k \in {"map", "nil"}
        /\ {"op", "path", "value", "result", "before"} \subseteq DOMAIN done
    BY <1>10 DEF SaveRenames, SaveInv
  <2>2. CASE Returns("ok") /\ disk' = [disk EXCEPT ![bound] = [doc |-> disk[bound].tmp, tmp |-> Missing]]
    <3>1. /\ saving' = "no" /\ DOMAIN done' = DOMAIN done /\ done'.value = done.value
      BY <2>1, <2>2 DEF Returns
    <3>2. DOMAIN disk' = Files
      BY <2>2 DEF SaveInv
    <3>3. ASSUME NEW g \in Files
          PROVE  DOMAIN disk'[g] = {"doc", "tmp"} /\ disk'[g].doc.k \in {"map", "nil", "missing"}
      <4>1. DOMAIN disk[g] = {"doc", "tmp"} /\ disk[g].doc.k \in {"map", "nil", "missing"} /\ DOMAIN disk = Files
        BY DEF SaveInv
      <4>2. disk'[g] = IF g = bound THEN [doc |-> store, tmp |-> Missing] ELSE disk[g]
        BY <2>1, <2>2, <4>1
      <4>3. QED BY <2>1, <4>1, <4>2
    <3>4. disk'[bound] = [doc |-> done'.value, tmp |-> Missing]
      BY <2>1, <2>2, <3>1 DEF SaveInv
    <3>5. QED BY <1>10, <2>1, <3>1, <3>2, <3>3, <3>4 DEF SaveInv
  <2>3. CASE Returns("error") /\ disk' = [disk EXCEPT ![bound].tmp = Missing]
    <3>1. /\ saving' = "no" /\ DOMAIN done' = DOMAIN done /\ done'.result = "error"
      BY <2>1, <2>3 DEF Returns
    <3>2. disk' = [disk EXCEPT ![bound] = [disk[bound] EXCEPT !.tmp = Missing]]
      BY <2>3
    <3>3. DOMAIN disk' = Files
      BY <3>2 DEF SaveInv
    <3>4. ASSUME NEW g \in Files
          PROVE  DOMAIN disk'[g] = {"doc", "tmp"} /\ disk'[g].doc.k \in {"map", "nil", "missing"}
      <4>1. DOMAIN disk[g] = {"doc", "tmp"} /\ disk[g].doc.k \in {"map", "nil", "missing"} /\ DOMAIN disk = Files
        BY DEF SaveInv
      <4>2. disk'[g] = IF g = bound THEN [disk[bound] EXCEPT !.tmp = Missing] ELSE disk[g]
        BY <3>2, <4>1
      <4>3. CASE g = bound
        BY <4>1, <4>2, <4>3
      <4>4. CASE g # bound
        BY <4>1, <4>2, <4>4
      <4>5. QED BY <4>3, <4>4
    <3>5. QED BY <1>10, <2>1, <3>1, <3>3, <3>4 DEF SaveInv
  <2>4. QED BY <1>10, <2>2, <2>3 DEF SaveRenames
<1>11. ASSUME Crash
       PROVE  SaveInv'
  <2>1. /\ store' = Empty /\ saving' = "no" /\ disk' = disk
        /\ done' = [NoCall EXCEPT !.op = "start"]
    BY <1>11 DEF Crash
  <2>2. Empty.k = "map"
    BY DEF Empty, Map
  <2>3. {"op", "path", "value", "result", "before"} \subseteq DOMAIN done' /\ done'.op = "start"
    BY <2>1 DEF NoCall
  <2>4. QED BY <2>1, <2>2, <2>3 DEF SaveInv
<1>12. QED BY <1>1, <1>2, <1>3, <1>4, <1>5, <1>6, <1>7, <1>8, <1>9, <1>10, <1>11 DEF JsonNext

\* "die Originaldatei ist nie halb überschrieben" (stdlib_json.go:114): however often a script changes,
\* loads and saves its document, whatever fails and whenever the process ends, a file holds a whole
\* document, and after a json.Save that reports success it holds the script's.
THEOREM DocumentIsNotLost == JsonSpec => []JsonIsNotLost
<1>1. JsonInit => SaveInv
  BY SaveInvInit
<1>2. SaveInv /\ [JsonNext]_jsonVars => SaveInv'
  <2>1. SaveInv /\ UNCHANGED jsonVars => SaveInv'
    BY DEF SaveInv, jsonVars
  <2>2. QED BY <2>1, SaveInvNext
<1>3. SaveInv => JsonIsNotLost
  <2>1. Torn.k = "torn"
    BY DEF Torn
  <2>2. QED BY <2>1 DEF SaveInv, JsonIsNotLost
<1>4. QED BY <1>1, <1>2, <1>3, PTL DEF JsonSpec

--------------------------------------------------------------------------------
(* What a call promises *)

\* The promise of a call d whose document is now s.
Promised(d, s) ==
  LET p    == d.path
      old  == d.before
      new  == IF p = <<>> THEN <<>> ELSE Append(Front(p), d.key)
      Untouched(paths) == \A q \in paths : NodeAt(s, q) = NodeAt(old, q)
  IN  /\ d.result # "panic"
      /\ (d.result = "error" /\ d.op # "save") => s = old
      /\ (d.result = "ok" /\ p # <<>>) =>
           /\ d.op \in {"set", "setkey"} => NodeAt(s, p) = {d.value} /\ Untouched(Apart(p))
           /\ d.op = "append" =>
                /\ \E c \in NodeAt(s, p) : c.k = "list" /\ Last(c.q) = d.value
                                        /\ \A e \in NodeAt(old, p) : e.k = "list" => e.q = Front(c.q)
                /\ Untouched(Apart(p))
           /\ d.op = "delete" => NodeAt(s, p) = {} /\ Untouched(Apart(p))
           /\ d.op = "rename" => /\ NodeAt(old, p) # {} => NodeAt(s, new) = NodeAt(old, p)
                                 /\ NodeAt(s, p) = {}
                                 /\ Untouched(Apart(p) \cap Apart(new))

\* ChangesMeanWhatTheySay speaks of the last call and the document, now and after a step.
LEMMA PromisedIs ==
  /\ ChangesMeanWhatTheySay <=> Promised(done, store)
  /\ ChangesMeanWhatTheySay' <=> Promised(done', store')
<1>1. ChangesMeanWhatTheySay <=> Promised(done, store)
  BY Zenon DEF ChangesMeanWhatTheySay, Promised
<1>2. ChangesMeanWhatTheySay' <=> Promised(done', store')
  BY Zenon DEF ChangesMeanWhatTheySay, Promised
<1>3. QED BY <1>1, <1>2

\* A record of a call.
Record(op, path, value, key, result, before) ==
  [op |-> op, path |-> path, value |-> value, key |-> key, result |-> result, before |-> before]

\* The paths a call leaves alone part from its path.
LEMMA ApartParts == \A t \in Seq(Keys) : \A q \in Apart(t) : q \in Seq(Keys) /\ Parted(t, q)
<1>1. SUFFICES ASSUME NEW t \in Seq(Keys), NEW q \in Apart(t) PROVE q \in Seq(Keys) /\ Parted(t, q)
  OBVIOUS
<1>2. q \in PathsTo(MaxPath + 1) /\ ~ IsPrefix(t, q) /\ ~ IsPrefix(q, t)
  BY DEF Apart
<1>3. q \in Seq(Keys)
  BY <1>2, PathsAreSequences
<1>4. QED BY <1>2, <1>3, ApartIsParted

\* What is the same at every path that parts from the path of a call, or from its two paths, is
\* the same at those it leaves alone.
SameAt(r, n, paths) == \A q \in paths : NodeAt(r, q) = NodeAt(n, q)

\* A change at one path leaves the paths apart from it as they were.
LEMMA KeptApart ==
  ASSUME NEW r, NEW n, NEW p \in Seq(Keys), Kept(r, n, {p})
  PROVE  SameAt(r, n, Apart(p))
BY ApartParts DEF Kept, SameAt

\* So does a change at two paths, such as json.RenameKey.
LEMMA KeptApartTwo ==
  ASSUME NEW r, NEW n, NEW p \in Seq(Keys), NEW o \in Seq(Keys), Kept(r, n, {p, o})
  PROVE  SameAt(r, n, Apart(p) \cap Apart(o))
BY ApartParts DEF Kept, SameAt

\* A call that reports an error and changes nothing keeps its promise; so does one without a path.
LEMMA PromisedError ==
  ASSUME NEW op, NEW path, NEW value, NEW key, NEW n
  PROVE  Promised(Record(op, path, value, key, "error", n), n)
BY DEF Promised, Record

\* A call without a path that succeeds has promised nothing of any path.
LEMMA PromisedPathless ==
  ASSUME NEW op, NEW value, NEW key, NEW n, NEW s
  PROVE  Promised(Record(op, <<>>, value, key, "ok", n), s)
BY DEF Promised, Record

\* json.Set and SetKey keep their promise.
LEMMA PromisedSet ==
  ASSUME NEW op \in {"set", "setkey"}, NEW p \in Seq(Keys), NEW v, NEW key, NEW n, NEW r \in Put(n, p, v)
  PROVE  Promised(Record(op, p, v, key, "ok", n), r)
<1> DEFINE d == Record(op, p, v, key, "ok", n)
<1>1. d.op = op /\ d.path = p /\ d.value = v /\ d.result = "ok" /\ d.before = n
  BY DEF Record
<1>2. p # <<>> => NodeAt(r, p) = {v} /\ SameAt(r, n, Apart(p))
  <2>1. p # <<>> => NodeAt(r, p) = {v} /\ Kept(r, n, {p})
    BY PutLaw
  <2>2. QED BY <2>1, KeptApart
<1> HIDE DEF d
<1>3. Promised(d, r)
  BY <1>1, <1>2 DEF Promised, SameAt
<1>4. QED BY <1>3 DEF d

\* json.Append keeps its promise.
LEMMA PromisedAppend ==
  ASSUME NEW p \in Seq(Keys), NEW v, NEW key, NEW n, Sound(n), NEW r \in Listed(n, p, v)
  PROVE  Promised(Record("append", p, v, key, "ok", n), r)
<1> DEFINE d == Record("append", p, v, key, "ok", n)
<1>1. d.op = "append" /\ d.path = p /\ d.value = v /\ d.result = "ok" /\ d.before = n
  BY DEF Record
<1>2. Grown(r, n, p, v)
  BY ListedLaw
<1>3. p # <<>> => SameAt(r, n, Apart(p))
  <2>1. p # <<>> => Kept(r, n, {p})
    BY <1>2, Zenon DEF Grown
  <2>2. QED BY <2>1, KeptApart
<1>4. p # <<>> => \E c \in NodeAt(r, p) : /\ c.k = "list" /\ Last(c.q) = v
                                           /\ \A e \in NodeAt(n, p) : e.k = "list" => e.q = Front(c.q)
  BY <1>2, Zenon DEF Grown
<1> HIDE DEF d
<1>5. Promised(d, r)
  BY <1>1, <1>3, <1>4 DEF Promised, SameAt
<1>6. QED BY <1>5 DEF d

\* json.Delete keeps its promise when it deletes no element of a list.
LEMMA PromisedDelete ==
  ASSUME NEW p \in Seq(Keys), NEW v, NEW key, NEW n, NEW r \in Dropped(n, p),
         p = <<>> \/ \A c \in NodeAt(n, Front(p)) : c.k # "list"
  PROVE  /\ Promised(Record("delete", p, v, key, "ok", n), r)
         /\ Sound(n) => Sound(r)
<1> DEFINE d == Record("delete", p, v, key, "ok", n)
<1>1. d.op = "delete" /\ d.path = p /\ d.result = "ok" /\ d.before = n
  BY DEF Record
<1>2. p # <<>> => NodeAt(r, p) = {} /\ SameAt(r, n, Apart(p))
  <2>1. p # <<>> => NodeAt(r, p) = {} /\ Kept(r, n, {p})
    BY DroppedLaw
  <2>2. QED BY <2>1, KeptApart
<1>3. Sound(n) => Sound(r)
  <2>1. CASE p = <<>>
    BY <2>1 DEF Dropped
  <2>2. CASE p # <<>>
    BY <2>2, DroppedLaw
  <2>3. QED BY <2>1, <2>2
<1> HIDE DEF d
<1>4. Promised(d, r)
  BY <1>1, <1>2 DEF Promised, SameAt
<1>5. QED BY <1>3, <1>4 DEF d

\* json.RenameKey keeps its promise, whether it moves a value or there is none to move.
LEMMA PromisedRename ==
  ASSUME NEW s \in Seq(Keys), NEW old \in Keys, NEW new \in Keys, old # new, NEW v, NEW n, NEW r,
         \/ IsMap(n, s) /\ old \notin KeysAt(n, s) /\ r = n
         \/ old \in KeysAt(n, s) /\ new \notin KeysAt(n, s) /\ r \in Renamed(n, s, old, new)
  PROVE  /\ Promised(Record("rename", Append(s, old), v, new, "ok", n), r)
         /\ Sound(n) => Sound(r)
<1> DEFINE p == Append(s, old)
           o == Append(s, new)
           d == Record("rename", p, v, new, "ok", n)
<1>1. p \in Seq(Keys) /\ o \in Seq(Keys) /\ Front(p) = s /\ p # <<>>
  BY AppendProperties, FrontLast
<1>2. d.op = "rename" /\ d.path = p /\ d.result = "ok" /\ d.before = n /\ d.key = new
  BY DEF Record
<1>3. Append(Front(p), d.key) = o
  BY <1>1, <1>2
<1> HIDE DEF p, o, d
<1>4. CASE IsMap(n, s) /\ old \notin KeysAt(n, s) /\ r = n
  <2>1. PICK c \in NodeAt(n, s) : c.k \in {"map", "nil"}
    BY <1>4 DEF IsMap
  <2>2. NodeAt(n, s) = {c}
    <3>1. NodeAt(n, s) = {} \/ \E e : NodeAt(n, s) = {e}
      BY OneNode
    <3>2. QED BY <2>1, <3>1
  <2>3. Child(c, old) = {}
    <3>1. CASE c.k = "map"
      <4>1. old \notin DOMAIN c.f
        BY <1>4, <2>1, <3>1 DEF KeysAt
      <4>2. Child(c, old) = {c.f[x] : x \in {old} \cap DOMAIN c.f}
        BY <3>1 DEF Child
      <4>3. QED BY <4>1, <4>2
    <3>2. CASE c.k = "nil"
      BY <3>2 DEF Child
    <3>3. QED BY <2>1, <3>1, <3>2
  <2>4. NodeAt(n, p) = {}
    <3>1. NodeAt(n, Append(s, old)) = UNION {Child(b, old) : b \in NodeAt(n, s)}
      BY ToLast
    <3>2. QED BY <2>2, <2>3, <3>1 DEF p
  <2>5. Promised(d, r)
    BY <1>2, <1>4, <2>4 DEF Promised
  <2>6. QED BY <1>4, <2>5 DEF d, p
<1>5. CASE old \in KeysAt(n, s) /\ new \notin KeysAt(n, s) /\ r \in Renamed(n, s, old, new)
  <2>1. KeyMoved(r, n, s, old, new)
    BY <1>5, RenamedLaw
  <2>2. /\ Sound(n) => Sound(r)
        /\ NodeAt(r, o) = NodeAt(n, p) /\ NodeAt(r, p) = {} /\ Kept(r, n, {p, o})
    BY <2>1 DEF KeyMoved, p, o
  <2>3. SameAt(r, n, Apart(p) \cap Apart(o))
    BY <1>1, <2>2, KeptApartTwo
  <2>4. Promised(d, r)
    BY <1>1, <1>2, <1>3, <2>2, <2>3 DEF Promised, SameAt
  <2>5. QED BY <2>2, <2>4 DEF d, p
<1>6. QED BY <1>4, <1>5

\* The document of the script is a sound map, those in the files are sound, and the last call
\* kept its promise.
DocumentInv ==
  /\ SaveInv
  /\ store.k = "map" /\ Sound(store)
  /\ \A f \in Files : disk[f].doc.k = "map" => Sound(disk[f].doc)
  /\ Promised(done, store)

\* DocumentInv holds before the script runs.
LEMMA DocumentInvInit == JsonInit => DocumentInv
<1> SUFFICES ASSUME JsonInit PROVE DocumentInv
  OBVIOUS
<1>1. PICK d \in [Files -> {Missing} \cup Documents] : disk = [f \in Files |-> [doc |-> d[f], tmp |-> Missing]]
  BY DEF JsonInit
<1>2. Missing.k = "missing"
  BY DEF Missing
<1>3. \A f \in Files : disk[f].doc = d[f] /\ d[f] \in {Missing} \cup Documents
  BY <1>1
<1>4. \A f \in Files : disk[f].doc # Missing => disk[f].doc.k = "map" /\ Sound(disk[f].doc)
  BY <1>3, DocumentsSound
<1>5. \A f \in Files : disk[f].doc.k = "map" => Sound(disk[f].doc)
  BY <1>2, <1>4
<1>6. store.k = "map" /\ Sound(store)
  <2>1. Empty.k = "map"
    BY DEF Empty, Map
  <2>2. store = Empty \/ \E f \in Files : disk[f].doc # Missing /\ store = disk[f].doc
    BY DEF JsonInit
  <2>3. QED BY <1>4, <2>1, <2>2, SoundEmpty
<1>7. Promised(done, store)
  <2>1. done = Record("none", <<>>, JsonNull, "a", "ok", Empty)
    BY DEF JsonInit, NoCall, Record
  <2>2. QED BY <2>1, PromisedPathless
<1>8. QED BY <1>5, <1>6, <1>7, SaveInvInit DEF DocumentInv

\* A call of Changes keeps the invariant when each of its results is sound and keeps its promise.
LEMMA DocumentInvChanges ==
  ASSUME DocumentInv, SaveInv', UNCHANGED disk, store'.k = store.k,
         NEW op, NEW path, NEW value, NEW key, NEW results, Changes(op, path, value, key, results),
         \A r \in results : Promised(Record(op, path, value, key, "ok", store), r) /\ Sound(r)
  PROVE  DocumentInv'
<1>1. store.k = "map" /\ store # Nil /\ Sound(store)
  <2>1. Nil.k = "nil"
    BY DEF Nil
  <2>2. QED BY <2>1 DEF DocumentInv
<1>2. \/ done' = Record(op, path, value, key, "error", store) /\ store' = store
      \/ done' = Record(op, path, value, key, "ok", store) /\ store' \in results
  <2>1. \/ Call(op, path, value, key, "error") /\ store' = store
        \/ Call(op, path, value, key, "ok") /\ store' \in results
    BY <1>1, ChangesIs
  <2>2. QED BY <2>1 DEF Call, Record
<1>3. CASE done' = Record(op, path, value, key, "error", store) /\ store' = store
  <2>1. Promised(Record(op, path, value, key, "error", store), store)
    BY PromisedError
  <2>2. QED BY <1>1, <1>3, <2>1 DEF DocumentInv
<1>4. CASE done' = Record(op, path, value, key, "ok", store) /\ store' \in results
  <2>1. Promised(done', store') /\ Sound(store')
    BY <1>4
  <2>2. QED BY <1>1, <2>1 DEF DocumentInv
<1>5. QED BY <1>2, <1>3, <1>4

\* No call, failure or crash breaks DocumentInv.
LEMMA DocumentInvNext ==
  ASSUME "element" \notin JsonFeatures, "nil" \notin JsonFeatures, DocumentInv, JsonNext
  PROVE  DocumentInv'
<1>0. SaveInv' /\ store.k = "map" /\ Sound(store)
  BY SaveInvNext DEF DocumentInv
<1>1. ASSUME NEW path \in Paths, NEW v \in Given, Set(path, v), UNCHANGED <<bound, disk, saving>>
      PROVE  DocumentInv'
  <2>1. path \in Seq(Keys)
    BY PathsAreSequences DEF Paths
  <2>2. Changes("set", path, v, "a", Put(store, path, v))
    BY <1>1 DEF Set
  <2>3. store'.k = store.k
    BY <2>1, <2>2, "a" \in Keys, SameKind DEF Keys
  <2>4. ASSUME NEW r \in Put(store, path, v)
        PROVE  Promised(Record("set", path, v, "a", "ok", store), r) /\ Sound(r)
    <3>1. Sound(v)
      BY GivenSound
    <3>2. Sound(r)
      BY <1>0, <2>1, <3>1, PutLaw
    <3>3. QED BY <2>1, <3>2, PromisedSet
  <2>5. QED BY <1>0, <1>1, <2>2, <2>3, <2>4, DocumentInvChanges
<1>2. ASSUME NEW path \in Paths, NEW v \in Given, AppendTo(path, v), UNCHANGED <<bound, disk, saving>>
      PROVE  DocumentInv'
  <2>1. path \in Seq(Keys)
    BY PathsAreSequences DEF Paths
  <2>2. Changes("append", path, v, "a", Listed(store, path, v))
    BY <1>2 DEF AppendTo
  <2>3. store'.k = store.k
    BY <2>1, <2>2, "a" \in Keys, SameKind DEF Keys
  <2>4. ASSUME NEW r \in Listed(store, path, v)
        PROVE  Promised(Record("append", path, v, "a", "ok", store), r) /\ Sound(r)
    <3>1. Sound(v)
      BY GivenSound
    <3>2. Grown(r, store, path, v)
      BY <2>1, ListedLaw
    <3>3. Sound(r)
      BY <1>0, <3>1, <3>2 DEF Grown
    <3>4. QED BY <1>0, <2>1, <3>3, PromisedAppend
  <2>5. QED BY <1>0, <1>2, <2>2, <2>3, <2>4, DocumentInvChanges
<1>3. ASSUME NEW path \in Paths, Delete(path), UNCHANGED <<bound, disk, saving>>
      PROVE  DocumentInv'
  <2>1. path \in Seq(Keys)
    BY PathsAreSequences DEF Paths
  <2>2. /\ Changes("delete", path, JsonNull, "a", Dropped(store, path))
        /\ path = <<>> \/ \A c \in NodeAt(store, Front(path)) : c.k # "list"
    BY <1>3 DEF Delete
  <2>3. store'.k = store.k
    BY <2>1, <2>2, "a" \in Keys, SameKind DEF Keys
  <2>4. ASSUME NEW r \in Dropped(store, path)
        PROVE  Promised(Record("delete", path, JsonNull, "a", "ok", store), r) /\ Sound(r)
    BY <1>0, <2>1, <2>2, PromisedDelete
  <2>5. QED BY <1>0, <1>3, <2>2, <2>3, <2>4, DocumentInvChanges
<1>4. ASSUME NEW path \in PathsTo(MaxPath - 1), NEW key \in Keys, NEW v \in Given, SetKey(path, key, v),
             UNCHANGED <<bound, disk, saving>>
      PROVE  DocumentInv'
  <2> DEFINE p == Append(path, key)
             R == IF IsMap(store, path) THEN Put(store, p, v) ELSE {}
  <2>1. path \in Seq(Keys) /\ p \in Seq(Keys)
    BY PathsAreSequences, AppendProperties
  <2>2. Changes("setkey", p, v, key, R)
    BY <1>4 DEF SetKey
  <2>3. store'.k = store.k
    BY <1>4, <2>1, SameKind
  <2> HIDE DEF p
  <2>4. ASSUME NEW r \in R
        PROVE  Promised(Record("setkey", p, v, key, "ok", store), r) /\ Sound(r)
    <3>1. Sound(v) /\ r \in Put(store, p, v)
      BY GivenSound
    <3>2. Sound(r)
      BY <1>0, <2>1, <3>1, PutLaw
    <3>3. QED BY <2>1, <3>1, <3>2, PromisedSet
  <2> HIDE DEF R
  <2>5. QED BY <1>0, <1>4, <2>2, <2>3, <2>4, DocumentInvChanges
<1>5. ASSUME NEW path \in PathsTo(MaxPath - 1), NEW key \in Keys, NEW new \in Keys, RenameKey(path, key, new),
             UNCHANGED <<bound, disk, saving>>
      PROVE  DocumentInv'
  <2> DEFINE p == Append(path, key)
             R == IF ~ IsMap(store, path) THEN {}
                  ELSE IF key \notin KeysAt(store, path) THEN {store}
                  ELSE IF new \in KeysAt(store, path) THEN {}
                  ELSE Renamed(store, path, key, new)
  <2>1. path \in Seq(Keys)
    BY PathsAreSequences
  <2>2. Changes("rename", p, JsonNull, new, R) /\ key # new
    BY <1>5 DEF RenameKey
  <2>3. store'.k = store.k
    BY <1>5, <2>1, SameKind
  <2>4. ASSUME NEW r \in R
        PROVE  Promised(Record("rename", p, JsonNull, new, "ok", store), r) /\ Sound(r)
    <3>1. \/ IsMap(store, path) /\ key \notin KeysAt(store, path) /\ r = store
          \/ key \in KeysAt(store, path) /\ new \notin KeysAt(store, path) /\ r \in Renamed(store, path, key, new)
      OBVIOUS
    <3>2. QED BY <1>0, <2>1, <2>2, <3>1, PromisedRename
  <2> HIDE DEF R, p
  <2>5. QED BY <1>0, <1>5, <2>2, <2>3, <2>4, DocumentInvChanges
<1>6. ASSUME ParseToEngine, UNCHANGED <<bound, disk, saving>>
      PROVE  DocumentInv'
  <2>1. PICK d \in Documents : Call("parse", <<>>, d, "a", "ok") /\ store' = d
    BY <1>6, Zenon DEF ParseToEngine
  <2>2. done' = Record("parse", <<>>, d, "a", "ok", store)
    BY <2>1 DEF Call, Record
  <2>3. Promised(done', store')
    BY <2>2, PromisedPathless
  <2>4. QED BY <1>0, <1>6, <2>1, <2>3, DocumentsSound DEF DocumentInv
<1>7. ASSUME NEW f \in Files, Load(f), UNCHANGED <<disk, saving>>
      PROVE  DocumentInv'
  <2>1. CASE disk[f].doc.k = "map"
    <3>1. done' = Record("load", <<>>, disk[f].doc, "a", "ok", store) /\ store' = disk[f].doc
      BY <1>7, <2>1 DEF Load, Call, Record
    <3>2. Promised(done', store')
      BY <3>1, PromisedPathless
    <3>3. QED BY <1>0, <1>7, <2>1, <3>1, <3>2 DEF DocumentInv
  <2>2. CASE disk[f].doc.k # "map"
    <3>1. done' = Record("load", <<>>, JsonNull, "a", "error", store) /\ store' = store
      BY <1>7, <2>2 DEF Load, Call, Record
    <3>2. Promised(done', store')
      BY <3>1, PromisedError
    <3>3. QED BY <1>0, <1>7, <3>1, <3>2 DEF DocumentInv
  <2>3. QED BY <2>1, <2>2
<1>8. ASSUME NEW f \in Files, Save(f), UNCHANGED store
      PROVE  DocumentInv'
  <2>1. /\ store' = store
        /\ done' = [op |-> "save", path |-> <<>>, value |-> store, key |-> "a", result |-> "running", before |-> store]
        /\ disk' = [disk EXCEPT ![f] = [disk[f] EXCEPT !.tmp = Torn]]
    BY <1>8 DEF Save, Call
  <2>2. ASSUME NEW g \in Files, disk'[g].doc.k = "map" PROVE Sound(disk'[g].doc)
    <3>1. DOMAIN disk[g] = {"doc", "tmp"} /\ DOMAIN disk = Files /\ (disk[g].doc.k = "map" => Sound(disk[g].doc))
      BY DEF DocumentInv, SaveInv
    <3>2. disk'[g] = IF g = f THEN [disk[f] EXCEPT !.tmp = Torn] ELSE disk[g]
      BY <2>1, <3>1
    <3>3. disk'[g].doc = disk[g].doc
      BY <3>1, <3>2
    <3>4. QED BY <2>2, <3>1, <3>3
  <2>3. Promised(done', store')
    BY <2>1 DEF Promised
  <2>4. QED BY <1>0, <2>1, <2>2, <2>3 DEF DocumentInv
<1>9. ASSUME SaveWrites, UNCHANGED <<store, bound, calls>>
      PROVE  DocumentInv'
  <2>1. /\ bound \in Files /\ done.op = "save" /\ done.path = <<>>
        /\ {"op", "path", "value", "result", "before"} \subseteq DOMAIN done
    BY <1>9 DEF SaveWrites, SaveInv, DocumentInv
  <2>2. CASE saving' = "rename" /\ disk' = [disk EXCEPT ![bound].tmp = store] /\ UNCHANGED done
    <3>1. disk' = [disk EXCEPT ![bound] = [disk[bound] EXCEPT !.tmp = store]]
      BY <2>2
    <3>2. ASSUME NEW g \in Files, disk'[g].doc.k = "map" PROVE Sound(disk'[g].doc)
      <4>1. DOMAIN disk[g] = {"doc", "tmp"} /\ DOMAIN disk = Files /\ (disk[g].doc.k = "map" => Sound(disk[g].doc))
        BY DEF DocumentInv, SaveInv
      <4>2. disk'[g] = IF g = bound THEN [disk[bound] EXCEPT !.tmp = store] ELSE disk[g]
        BY <3>1, <4>1
      <4>3. disk'[g].doc = disk[g].doc
        BY <4>1, <4>2
      <4>4. QED BY <3>2, <4>1, <4>3
    <3>3. QED BY <1>0, <1>9, <2>2, <3>2 DEF DocumentInv
  <2>3. CASE Returns("error") /\ UNCHANGED disk
    <3>1. done'.result = "error" /\ done'.op = "save"
      BY <2>1, <2>3 DEF Returns
    <3>2. Promised(done', store')
      BY <3>1 DEF Promised
    <3>3. QED BY <1>0, <1>9, <2>3, <3>2 DEF DocumentInv
  <2>4. QED BY <1>9, <2>2, <2>3 DEF SaveWrites
<1>10. ASSUME SaveRenames, UNCHANGED <<store, bound, calls>>
       PROVE  DocumentInv'
  <2>1. /\ bound \in Files /\ done.op = "save" /\ done.path = <<>> /\ disk[bound].tmp = store
        /\ {"op", "path", "value", "result", "before"} \subseteq DOMAIN done
    BY <1>10 DEF SaveRenames, SaveInv, DocumentInv
  <2>2. CASE Returns("ok") /\ disk' = [disk EXCEPT ![bound] = [doc |-> disk[bound].tmp, tmp |-> Missing]]
    <3>1. ASSUME NEW g \in Files, disk'[g].doc.k = "map" PROVE Sound(disk'[g].doc)
      <4>1. DOMAIN disk = Files /\ (disk[g].doc.k = "map" => Sound(disk[g].doc))
        BY DEF DocumentInv, SaveInv
      <4>2. disk'[g] = IF g = bound THEN [doc |-> store, tmp |-> Missing] ELSE disk[g]
        BY <2>1, <2>2, <4>1
      <4>3. disk'[g].doc = store \/ disk'[g].doc = disk[g].doc
        BY <4>2
      <4>4. QED BY <1>0, <3>1, <4>1, <4>3
    <3>2. done'.path = <<>> /\ done'.op = "save" /\ done'.result = "ok"
      BY <2>1, <2>2 DEF Returns
    <3>3. Promised(done', store')
      BY <3>2 DEF Promised
    <3>4. QED BY <1>0, <1>10, <3>1, <3>3 DEF DocumentInv
  <2>3. CASE Returns("error") /\ disk' = [disk EXCEPT ![bound].tmp = Missing]
    <3>1. disk' = [disk EXCEPT ![bound] = [disk[bound] EXCEPT !.tmp = Missing]]
      BY <2>3
    <3>2. ASSUME NEW g \in Files, disk'[g].doc.k = "map" PROVE Sound(disk'[g].doc)
      <4>1. DOMAIN disk[g] = {"doc", "tmp"} /\ DOMAIN disk = Files /\ (disk[g].doc.k = "map" => Sound(disk[g].doc))
        BY DEF DocumentInv, SaveInv
      <4>2. disk'[g] = IF g = bound THEN [disk[bound] EXCEPT !.tmp = Missing] ELSE disk[g]
        BY <3>1, <4>1
      <4>3. disk'[g].doc = disk[g].doc
        BY <4>1, <4>2
      <4>4. QED BY <3>2, <4>1, <4>3
    <3>3. done'.result = "error" /\ done'.op = "save"
      BY <2>1, <2>3 DEF Returns
    <3>4. Promised(done', store')
      BY <3>3 DEF Promised
    <3>5. QED BY <1>0, <1>10, <3>2, <3>4 DEF DocumentInv
  <2>4. QED BY <1>10, <2>2, <2>3 DEF SaveRenames
<1>11. ASSUME Crash
       PROVE  DocumentInv'
  <2>1. store' = Empty /\ disk' = disk /\ done' = [NoCall EXCEPT !.op = "start"]
    BY <1>11 DEF Crash
  <2>2. Empty.k = "map"
    BY DEF Empty, Map
  <2>3. done'.path = <<>> /\ done'.result = "ok"
    BY <2>1 DEF NoCall
  <2>4. Promised(done', store')
    BY <2>3 DEF Promised
  <2>5. QED BY <1>0, <2>1, <2>2, <2>4, SoundEmpty DEF DocumentInv
<1>12. QED BY <1>1, <1>2, <1>3, <1>4, <1>5, <1>6, <1>7, <1>8, <1>9, <1>10, <1>11 DEF JsonNext

\* However long the paths and however many the calls, json.Set, json.Append, json.Delete, SetKey and
\* json.RenameKey do what md/json.md says and leave the rest of the document alone; a call that
\* reports an error leaves everything alone, and none panics.  The two assumptions leave out the
\* deletion of an element of a list and the document that is null.
THEOREM ChangesKeepTheirPromise ==
  ASSUME "element" \notin JsonFeatures, "nil" \notin JsonFeatures
  PROVE  JsonSpec => []ChangesMeanWhatTheySay
<1>1. JsonInit => DocumentInv
  BY DocumentInvInit
<1>2. DocumentInv /\ [JsonNext]_jsonVars => DocumentInv'
  <2>1. DocumentInv /\ UNCHANGED jsonVars => DocumentInv'
    <3>1. SaveInv /\ UNCHANGED jsonVars => SaveInv'
      BY DEF SaveInv, jsonVars
    <3>2. QED BY <3>1 DEF DocumentInv, jsonVars
  <2>2. QED BY <2>1, DocumentInvNext
<1>3. DocumentInv => ChangesMeanWhatTheySay
  BY PromisedIs DEF DocumentInv
<1>4. QED BY <1>1, <1>2, <1>3, PTL DEF JsonSpec

--------------------------------------------------------------------------------
(* Texts: versions *)

\* A part of a version; those it does not have are 0.
PartOf(v, i) == IF i <= Len(v) THEN v[i] ELSE 0

\* Up to the part i two versions are the same.
SameUpTo(a, b, i) == \A k \in 1 .. i - 1 : PartOf(a, k) = PartOf(b, k)

\* Compare looks at the first parts that differ, if there are any.
LEMMA CompareIs ==
  ASSUME NEW a \in Seq(Int), NEW b \in Seq(Int)
  PROVE  \/ Compare(a, b) = 0 /\ \A i \in Nat \ {0} : PartOf(a, i) = PartOf(b, i)
         \/ /\ Compare(a, b) = 1
            /\ \E i \in Nat \ {0} : PartOf(a, i) > PartOf(b, i) /\ SameUpTo(a, b, i)
         \/ /\ Compare(a, b) = -1
            /\ \E i \in Nat \ {0} : PartOf(a, i) < PartOf(b, i) /\ SameUpTo(a, b, i)
<1> DEFINE n == Max({Len(a), Len(b)})
           differ == {i \in 1 .. n : PartOf(a, i) # PartOf(b, i)}
<1>1. Len(a) \in Nat /\ Len(b) \in Nat
  BY LenProperties
<1>2. n \in Nat /\ Len(a) <= n /\ Len(b) <= n
  <2>1. \E x \in {Len(a), Len(b)} : \A y \in {Len(a), Len(b)} : x >= y
    BY <1>1
  <2>2. QED BY <1>1, <2>1 DEF Max
<1> HIDE DEF n
<1>3. \A i \in Nat \ {0} : PartOf(a, i) \in Int /\ PartOf(b, i) \in Int
  BY <1>1, ElementOfSeq DEF PartOf
<1>4. \A i \in Nat \ {0} : i \notin differ => PartOf(a, i) = PartOf(b, i)
  BY <1>1, <1>2 DEF PartOf
<1>5. Compare(a, b) = IF differ = {} THEN 0
                      ELSE IF PartOf(a, Min(differ)) > PartOf(b, Min(differ)) THEN 1 ELSE -1
  BY DEF Compare, PartOf, n
<1>6. differ \in SUBSET Nat /\ \A i \in differ : i \in Nat \ {0} /\ PartOf(a, i) # PartOf(b, i)
  BY <1>2
<1> HIDE DEF differ
<1>7. CASE differ = {}
  BY <1>4, <1>5, <1>7
<1>8. CASE differ # {}
  <2> DEFINE m == Min(differ)
  <2>1. m \in differ /\ \A x \in differ : m <= x
    BY <1>6, <1>8, MinIs
  <2> HIDE DEF m
  <2>2. m \in Nat \ {0} /\ PartOf(a, m) \in Int /\ PartOf(b, m) \in Int /\ PartOf(a, m) # PartOf(b, m)
    BY <1>3, <1>6, <2>1
  <2>3. SameUpTo(a, b, m)
    BY <1>4, <2>1, <2>2 DEF SameUpTo
  <2>4. Compare(a, b) = IF PartOf(a, m) > PartOf(b, m) THEN 1 ELSE -1
    BY <1>5, <1>8 DEF m
  <2>5. QED BY <2>2, <2>3, <2>4
<1>9. QED BY <1>7, <1>8

\* Which of two versions Compare calls the greater is what their first difference says.
LEMMA CompareMeans ==
  ASSUME NEW a \in Seq(Int), NEW b \in Seq(Int)
  PROVE  /\ Compare(a, b) = 0 <=> \A i \in Nat \ {0} : PartOf(a, i) = PartOf(b, i)
         /\ Compare(a, b) = 1 <=>
              \E i \in Nat \ {0} : PartOf(a, i) > PartOf(b, i) /\ SameUpTo(a, b, i)
         /\ Compare(a, b) = -1 <=>
              \E i \in Nat \ {0} : PartOf(a, i) < PartOf(b, i) /\ SameUpTo(a, b, i)
         /\ Compare(a, b) \in {-1, 0, 1}
<1> DEFINE Same    == \A i \in Nat \ {0} : PartOf(a, i) = PartOf(b, i)
           Greater == \E i \in Nat \ {0} : PartOf(a, i) > PartOf(b, i) /\ SameUpTo(a, b, i)
           Less    == \E i \in Nat \ {0} : PartOf(a, i) < PartOf(b, i) /\ SameUpTo(a, b, i)
<1>1. \A i \in Nat \ {0} : PartOf(a, i) \in Int /\ PartOf(b, i) \in Int
  <2>1. Len(a) \in Nat /\ Len(b) \in Nat
    BY LenProperties
  <2>2. QED BY <2>1, ElementOfSeq DEF PartOf
<1>2. ~ (Same /\ Greater) /\ ~ (Same /\ Less)
  BY <1>1
<1>3. ~ (Greater /\ Less)
  <2> SUFFICES ASSUME NEW i \in Nat \ {0}, PartOf(a, i) > PartOf(b, i), SameUpTo(a, b, i),
                      NEW j \in Nat \ {0}, PartOf(a, j) < PartOf(b, j), SameUpTo(a, b, j)
               PROVE  FALSE
    OBVIOUS
  <2>1. ~ i < j
    BY <1>1 DEF SameUpTo
  <2>2. ~ j < i
    BY <1>1 DEF SameUpTo
  <2>3. QED BY <1>1, <2>1, <2>2
<1>4. \/ Compare(a, b) = 0 /\ Same
      \/ Compare(a, b) = 1 /\ Greater
      \/ Compare(a, b) = -1 /\ Less
  BY CompareIs
<1> HIDE DEF Same, Greater, Less
<1>5. /\ Compare(a, b) = 0 <=> Same
      /\ Compare(a, b) = 1 <=> Greater
      /\ Compare(a, b) = -1 <=> Less
      /\ Compare(a, b) \in {-1, 0, 1}
  BY <1>2, <1>3, <1>4
<1>6. QED BY <1>5 DEF Same, Greater, Less

\* Of versions of any length the function Compare of a script makes an order (Global.go:174):
\* it tells the two apart the same way from either side, what is at least as high as something
\* is at least as high as what that is not below, and a part more is higher unless it is 0.
THEOREM VersionsHaveAnOrder ==
  ASSUME NEW a \in Seq(Int), NEW b \in Seq(Int), NEW c \in Seq(Int)
  PROVE  /\ Compare(a, b) = - Compare(b, a)
         /\ Compare(a, b) >= 0 /\ Compare(b, c) >= 0 => Compare(a, c) >= 0
         /\ Compare(a, a \o <<0>>) = 0
         /\ Compare(a \o <<1>>, a) = 1
<1>1. \A v \in Seq(Int) : \A i \in Nat \ {0} : PartOf(v, i) \in Int
  <2>1. \A v \in Seq(Int) : Len(v) \in Nat /\ \A i \in 1 .. Len(v) : v[i] \in Int
    BY LenProperties, ElementOfSeq
  <2>2. QED BY <2>1 DEF PartOf
<1>2. Compare(a, b) = - Compare(b, a)
  <2>1. \A i : SameUpTo(a, b, i) <=> SameUpTo(b, a, i)
    BY DEF SameUpTo
  <2>2. Compare(a, b) = 0 <=> Compare(b, a) = 0
    BY CompareMeans
  <2>3. Compare(a, b) = 1 <=> Compare(b, a) = -1
    <3>1. \A i \in Nat \ {0} : PartOf(a, i) > PartOf(b, i) <=> PartOf(b, i) < PartOf(a, i)
      BY <1>1
    <3>2. QED BY <2>1, <3>1, CompareMeans
  <2>4. Compare(a, b) \in {-1, 0, 1} /\ Compare(b, a) \in {-1, 0, 1}
    BY CompareMeans
  <2>5. QED BY <2>2, <2>3, <2>4
<1>3. Compare(a, b) >= 0 /\ Compare(b, c) >= 0 => Compare(a, c) >= 0
  <2>0. /\ Compare(a, b) \in {-1, 0, 1} /\ Compare(b, c) \in {-1, 0, 1}
        /\ Compare(a, c) \in {-1, 0, 1}
    BY CompareMeans
  <2> SUFFICES ASSUME Compare(a, b) >= 0, Compare(b, c) >= 0, Compare(a, c) < 0
               PROVE  FALSE
    BY <2>0
  <2>1. Compare(a, c) = -1 /\ Compare(a, b) \in {0, 1} /\ Compare(b, c) \in {0, 1}
    BY <2>0
  <2>2. PICK i \in Nat \ {0} : PartOf(a, i) < PartOf(c, i) /\ SameUpTo(a, c, i)
    BY <2>1, CompareMeans
  <2>3. \/ \A j \in Nat \ {0} : PartOf(a, j) = PartOf(b, j)
        \/ \E j \in Nat \ {0} : PartOf(a, j) > PartOf(b, j) /\ SameUpTo(a, b, j)
    BY <2>1, CompareMeans
  <2>4. \/ \A k \in Nat \ {0} : PartOf(b, k) = PartOf(c, k)
        \/ \E k \in Nat \ {0} : PartOf(b, k) > PartOf(c, k) /\ SameUpTo(b, c, k)
    BY <2>1, CompareMeans
  <2>5. CASE \A j \in Nat \ {0} : PartOf(a, j) = PartOf(b, j)
    <3>1. CASE \A k \in Nat \ {0} : PartOf(b, k) = PartOf(c, k)
      BY <1>1, <2>2, <2>5, <3>1
    <3>2. ASSUME NEW k \in Nat \ {0}, PartOf(b, k) > PartOf(c, k), SameUpTo(b, c, k) PROVE FALSE
      <4>1. ~ k < i
        BY <1>1, <2>2, <2>5, <3>2 DEF SameUpTo
      <4>2. ~ i < k
        BY <1>1, <2>2, <2>5, <3>2 DEF SameUpTo
      <4>3. QED BY <1>1, <2>2, <2>5, <3>2, <4>1, <4>2
    <3>3. QED BY <2>4, <3>1, <3>2
  <2>6. ASSUME NEW j \in Nat \ {0}, PartOf(a, j) > PartOf(b, j), SameUpTo(a, b, j) PROVE FALSE
    <3>1. CASE \A k \in Nat \ {0} : PartOf(b, k) = PartOf(c, k)
      <4>1. ~ j < i
        BY <1>1, <2>2, <2>6, <3>1 DEF SameUpTo
      <4>2. ~ i < j
        BY <1>1, <2>2, <2>6, <3>1 DEF SameUpTo
      <4>3. QED BY <1>1, <2>2, <2>6, <3>1, <4>1, <4>2
    <3>2. ASSUME NEW k \in Nat \ {0}, PartOf(b, k) > PartOf(c, k), SameUpTo(b, c, k) PROVE FALSE
      <4>1. /\ PartOf(a, i) \in Int /\ PartOf(b, i) \in Int /\ PartOf(c, i) \in Int
            /\ PartOf(a, j) \in Int /\ PartOf(b, j) \in Int /\ PartOf(c, j) \in Int
            /\ PartOf(a, k) \in Int /\ PartOf(b, k) \in Int /\ PartOf(c, k) \in Int
        BY <1>1
      <4>2. j < i => PartOf(a, j) = PartOf(c, j)
        BY <2>2 DEF SameUpTo
      <4>3. k < i => PartOf(a, k) = PartOf(c, k)
        BY <2>2 DEF SameUpTo
      <4>4. (i < j => PartOf(a, i) = PartOf(b, i)) /\ (k < j => PartOf(a, k) = PartOf(b, k))
        BY <2>6 DEF SameUpTo
      <4>5. (i < k => PartOf(b, i) = PartOf(c, i)) /\ (j < k => PartOf(b, j) = PartOf(c, j))
        BY <3>2 DEF SameUpTo
      <4>6. QED BY <2>2, <2>6, <3>2, <4>1, <4>2, <4>3, <4>4, <4>5
    <3>3. QED BY <2>4, <3>1, <3>2
  <2>7. QED BY <2>3, <2>5, <2>6
<1>4. ASSUME NEW x \in Int
      PROVE  /\ a \o <<x>> \in Seq(Int)
             /\ \A i \in Nat \ {0} : PartOf(a \o <<x>>, i) = IF i = Len(a) + 1 THEN x ELSE PartOf(a, i)
  <2>1. <<x>> \in Seq(Int) /\ Len(<<x>>) = 1 /\ <<x>>[1] = x
    OBVIOUS
  <2>2. /\ a \o <<x>> \in Seq(Int) /\ Len(a \o <<x>>) = Len(a) + 1 /\ Len(a) \in Nat
        /\ \A i \in 1 .. Len(a) + 1 : (a \o <<x>>)[i] = IF i <= Len(a) THEN a[i] ELSE <<x>>[i - Len(a)]
    BY <2>1, ConcatProperties, LenProperties
  <2> DEFINE v == a \o <<x>>
  <2>3. ASSUME NEW i \in Nat \ {0} PROVE PartOf(v, i) = IF i = Len(a) + 1 THEN x ELSE PartOf(a, i)
    <3>1. CASE i <= Len(a)
      BY <2>2, <3>1 DEF PartOf
    <3>2. CASE i = Len(a) + 1
      BY <2>1, <2>2, <3>2 DEF PartOf
    <3>3. CASE i > Len(a) + 1
      BY <2>2, <3>3 DEF PartOf
    <3>4. i <= Len(a) \/ i = Len(a) + 1 \/ i > Len(a) + 1
      BY <2>2
    <3>5. QED BY <2>2, <3>1, <3>2, <3>3, <3>4
  <2>4. QED BY <2>2, <2>3
<1>5. Len(a) \in Nat /\ PartOf(a, Len(a) + 1) = 0
  BY LenProperties DEF PartOf
<1>6. Compare(a, a \o <<0>>) = 0
  <2>1. \A i \in Nat \ {0} : PartOf(a, i) = PartOf(a \o <<0>>, i)
    BY <1>4, <1>5
  <2>2. a \o <<0>> \in Seq(Int)
    BY <1>4
  <2>3. QED BY <2>1, <2>2, CompareMeans
<1>7. Compare(a \o <<1>>, a) = 1
  <2>1. Len(a) + 1 \in Nat \ {0}
    BY <1>5
  <2>2. PartOf(a \o <<1>>, Len(a) + 1) > PartOf(a, Len(a) + 1)
    BY <1>4, <1>5, <2>1
  <2>3. SameUpTo(a \o <<1>>, a, Len(a) + 1)
    BY <1>4, <1>5 DEF SameUpTo
  <2>4. a \o <<1>> \in Seq(Int)
    BY <1>4
  <2>5. QED BY <2>1, <2>2, <2>3, <2>4, CompareMeans
<1>8. QED BY <1>2, <1>3, <1>6, <1>7

--------------------------------------------------------------------------------
(* Texts: parts *)

\* The less of two numbers.
LEMMA MinOfTwo ==
  ASSUME NEW m \in Int, NEW n \in Int
  PROVE  Min({m, n}) = IF m <= n THEN m ELSE n
<1>1. \E x \in {m, n} : \A y \in {m, n} : x <= y
  OBVIOUS
<1>2. Min({m, n}) \in {m, n} /\ Min({m, n}) <= m /\ Min({m, n}) <= n
  BY <1>1 DEF Min
<1>3. QED BY <1>2

\* A part of a text has the characters from its place on.
LEMMA PartIs ==
  ASSUME NEW C, NEW s \in Seq(C), NEW m \in Nat \ {0}, NEW n \in 0 .. Len(s)
  PROVE  /\ SubSeq(s, m, n) \in Seq(C)
         /\ Len(SubSeq(s, m, n)) = IF m <= n THEN n - m + 1 ELSE 0
         /\ \A i \in 1 .. n - m + 1 : SubSeq(s, m, n)[i] = s[m + i - 1]
<1>1. Len(s) \in Nat /\ \A i \in 1 .. Len(s) : s[i] \in C
  BY LenProperties, ElementOfSeq
<1>2. \A i \in m .. n : s[i] \in C
  BY <1>1
<1>3. m \in Int /\ n \in Int
  BY <1>1
<1>4. QED BY <1>2, <1>3, SubSeqProperties

\* What stands before a place of a text and what stands behind it make up the text.
LEMMA PartsTogether ==
  ASSUME NEW C, NEW s \in Seq(C), NEW n \in 0 .. Len(s)
  PROVE  SubSeq(s, 1, n) \o SubSeq(s, n + 1, Len(s)) = s
<1> DEFINE a == SubSeq(s, 1, n)
           b == SubSeq(s, n + 1, Len(s))
<1>1. Len(s) \in Nat /\ n \in Nat /\ n <= Len(s) /\ n + 1 \in Nat \ {0} /\ Len(s) \in 0 .. Len(s)
  BY LenProperties
<1>2. a \in Seq(C) /\ Len(a) = n /\ \A i \in 1 .. n : a[i] = s[i]
  <2>1. /\ a \in Seq(C) /\ Len(a) = IF 1 <= n THEN n - 1 + 1 ELSE 0
        /\ \A i \in 1 .. n - 1 + 1 : a[i] = s[1 + i - 1]
    BY <1>1, PartIs
  <2>2. QED BY <1>1, <2>1
<1>3. b \in Seq(C) /\ Len(b) = Len(s) - n /\ \A i \in 1 .. Len(s) - n : b[i] = s[n + i]
  <2>1. /\ b \in Seq(C) /\ Len(b) = IF n + 1 <= Len(s) THEN Len(s) - (n + 1) + 1 ELSE 0
        /\ \A i \in 1 .. Len(s) - (n + 1) + 1 : b[i] = s[n + 1 + i - 1]
    BY <1>1, PartIs
  <2>2. QED BY <1>1, <2>1
<1> HIDE DEF a, b
<1>4. /\ a \o b \in Seq(C) /\ Len(a \o b) = Len(s)
      /\ \A i \in 1 .. Len(s) : (a \o b)[i] = IF i <= n THEN a[i] ELSE b[i - n]
  <2>1. /\ a \o b \in Seq(C) /\ Len(a \o b) = Len(a) + Len(b)
        /\ \A i \in 1 .. Len(a) + Len(b) : (a \o b)[i] = IF i <= Len(a) THEN a[i] ELSE b[i - Len(a)]
    BY <1>2, <1>3, ConcatProperties
  <2>2. Len(a) + Len(b) = Len(s)
    BY <1>1, <1>2, <1>3
  <2>3. QED BY <1>2, <2>1, <2>2
<1>5. \A i \in 1 .. Len(s) : (a \o b)[i] = s[i]
  <2> SUFFICES ASSUME NEW i \in 1 .. Len(s) PROVE (a \o b)[i] = s[i]
    OBVIOUS
  <2>1. CASE i <= n
    BY <1>1, <1>2, <1>4, <2>1
  <2>2. CASE i > n
    <3>1. i - n \in 1 .. Len(s) - n /\ n + (i - n) = i
      BY <1>1, <2>2
    <3>2. b[i - n] = s[i]
      BY <1>3, <3>1
    <3>3. ~ i <= n
      BY <1>1, <2>2
    <3>4. QED BY <1>4, <3>2, <3>3
  <2>3. i <= n \/ i > n
    BY <1>1
  <2>4. QED BY <2>1, <2>2, <2>3
<1>6. a \o b = s
  BY <1>4, <1>5, SeqEqual
<1>7. QED BY <1>6 DEF a, b

\* Mid takes characters from a position on, as many as it is asked for and there are.
LEMMA MidIs ==
  ASSUME NEW C, NEW s \in Seq(C), NEW k \in Nat \ {0}, NEW l \in Nat
  PROVE  Mid(s, k, l) = SubSeq(s, k, IF k - 1 + l <= Len(s) THEN k - 1 + l ELSE Len(s))
<1>1. Len(s) \in Nat /\ k - 1 + l \in Int
  BY LenProperties
<1>2. Mid(s, k, l) = SubSeq(s, k, Min({k - 1 + l, Len(s)}))
  <2>1. ~ k < 1 /\ (IF l < 0 THEN 0 ELSE l) = l
    OBVIOUS
  <2>2. QED BY <2>1, Zenon DEF Mid
<1>3. QED BY <1>1, <1>2, MinOfTwo

\* Of any text: what Left cuts off, Mid and Right give back; Substring, which counts from 0, and
\* Mid, which counts from 1, agree on the same part; and what InStr finds is where Mid finds it, and
\* nowhere before (Global.go:355, :436, :522, :655).
THEOREM PartsMakeUpTheText ==
  ASSUME NEW C, NEW s \in Seq(C)
  PROVE  /\ \A n \in Int : Left(s, n) \o Mid(s, (IF n < 0 THEN 0 ELSE n) + 1, Len(s)) = s
         /\ \A n \in 0 .. Len(s) : Left(s, Len(s) - n) \o Right(s, n) = s
         /\ \A n \in Nat, l \in Int : Substring(s, n, l) = Mid(s, n + 1, l)
         /\ \A n \in Nat \ {0} : CharAt(s, n) = Substring(s, n - 1, 1)
         /\ \A t \in Seq(C) \ {<<>>} :
              /\ InStr(s, t) # 0 => Mid(s, InStr(s, t), Len(t)) = t
              /\ \A j \in 1 .. (IF InStr(s, t) = 0 THEN Len(s) ELSE InStr(s, t) - 1) :
                   Mid(s, j, Len(t)) # t
<1>1. Len(s) \in Nat
  BY LenProperties
<1>2. ASSUME NEW n \in Int
      PROVE  Left(s, n) \o Mid(s, (IF n < 0 THEN 0 ELSE n) + 1, Len(s)) = s
  <2> DEFINE p == IF n < 0 THEN 0 ELSE n
             q == IF p <= Len(s) THEN p ELSE Len(s)
  <2>1. p \in Nat /\ q \in 0 .. Len(s)
    BY <1>1
  <2>2. Left(s, n) = SubSeq(s, 1, q)
    <3>1. Left(s, n) = SubSeq(s, 1, Min({p, Len(s)}))
      BY Zenon DEF Left
    <3> HIDE DEF p
    <3>2. Min({p, Len(s)}) = q
      BY <1>1, <2>1, MinOfTwo
    <3>3. QED BY <3>1, <3>2, Zenon
  <2> HIDE DEF p
  <2>3. Mid(s, p + 1, Len(s)) = SubSeq(s, p + 1, Len(s))
    <3>1. Mid(s, p + 1, Len(s))
            = SubSeq(s, p + 1, IF (p + 1) - 1 + Len(s) <= Len(s) THEN (p + 1) - 1 + Len(s) ELSE Len(s))
      <4>1. p + 1 \in Nat \ {0}
        BY <2>1
      <4>2. \A k \in Nat \ {0} : Mid(s, k, Len(s))
                = SubSeq(s, k, IF k - 1 + Len(s) <= Len(s) THEN k - 1 + Len(s) ELSE Len(s))
        BY <1>1, MidIs
      <4>3. QED BY <4>1, <4>2, Zenon
    <3>2. (IF (p + 1) - 1 + Len(s) <= Len(s) THEN (p + 1) - 1 + Len(s) ELSE Len(s)) = Len(s)
      BY <1>1, <2>1
    <3>3. QED BY <3>1, <3>2, Zenon
  <2>4. SubSeq(s, p + 1, Len(s)) = SubSeq(s, q + 1, Len(s))
    <3>1. CASE p <= Len(s)
      BY <3>1
    <3>2. CASE p > Len(s)
      <4>1. q = Len(s)
        BY <1>1, <2>1, <3>2
      <4> HIDE DEF q
      <4>2. /\ p + 1 \in Int /\ q + 1 \in Int /\ Len(s) \in Int
            /\ Len(s) < p + 1 /\ Len(s) < q + 1
        BY <1>1, <2>1, <3>2, <4>1
      <4>3. SubSeq(s, p + 1, Len(s)) = <<>> /\ SubSeq(s, q + 1, Len(s)) = <<>>
        BY <4>2, SubSeqEmpty
      <4>4. QED BY <4>3
    <3>3. p <= Len(s) \/ p > Len(s)
      BY <1>1, <2>1
    <3>4. QED BY <3>1, <3>2, <3>3
  <2>5. SubSeq(s, 1, q) \o SubSeq(s, q + 1, Len(s)) = s
    <3> HIDE DEF q
    <3>1. QED BY <2>1, PartsTogether
  <2>6. QED BY <2>2, <2>3, <2>4, <2>5 DEF p
<1>3. ASSUME NEW n \in 0 .. Len(s) PROVE Left(s, Len(s) - n) \o Right(s, n) = s
  <2> DEFINE m == Len(s) - n
  <2>1. m \in 0 .. Len(s) /\ Len(s) - n + 1 = m + 1
    BY <1>1
  <2>2. Left(s, m) = SubSeq(s, 1, m)
    BY <1>1, <2>1, MinOfTwo DEF Left
  <2>3. Right(s, n) = SubSeq(s, m + 1, Len(s))
    <3>1. (IF n < 0 THEN 0 ELSE n) = n
      BY <1>1
    <3>2. Right(s, n) = SubSeq(s, Len(s) - Min({n, Len(s)}) + 1, Len(s))
      BY <3>1, Zenon DEF Right
    <3>3. Min({n, Len(s)}) = n
      BY <1>1, MinOfTwo
    <3>4. QED BY <2>1, <3>2, <3>3
  <2> HIDE DEF m
  <2>4. SubSeq(s, 1, m) \o SubSeq(s, m + 1, Len(s)) = s
    BY <2>1, PartsTogether
  <2>5. QED BY <2>2, <2>3, <2>4 DEF m
<1>4. ASSUME NEW n \in Nat, NEW l \in Int PROVE Substring(s, n, l) = Mid(s, n + 1, l)
  <2>1. (IF n < 0 THEN 0 ELSE n) = n /\ ~ n + 1 < 1 /\ (n + 1) - 1 = n
    OBVIOUS
  <2> DEFINE m == IF l < 0 THEN 0 ELSE l
  <2>2. Substring(s, n, l) = SubSeq(s, n + 1, Min({n + m, Len(s)}))
    BY <2>1, Zenon DEF Substring
  <2>3. Mid(s, n + 1, l) = SubSeq(s, n + 1, Min({(n + 1) - 1 + m, Len(s)}))
    BY <2>1, Zenon DEF Mid
  <2> HIDE DEF m
  <2>4. QED BY <2>1, <2>2, <2>3, Zenon
<1>5. ASSUME NEW n \in Nat \ {0} PROVE CharAt(s, n) = Substring(s, n - 1, 1)
  <2> DEFINE e == IF n <= Len(s) THEN n ELSE Len(s)
  <2>1. Substring(s, n - 1, 1) = SubSeq(s, n, e)
    <3>1. Substring(s, n - 1, 1) = SubSeq(s, n - 1 + 1, Min({n - 1 + 1, Len(s)}))
      <4>1. (IF n - 1 < 0 THEN 0 ELSE n - 1) = n - 1 /\ (IF 1 < 0 THEN 0 ELSE 1) = 1
        OBVIOUS
      <4>2. QED BY <4>1, Zenon DEF Substring
    <3>2. n - 1 + 1 = n
      OBVIOUS
    <3>3. Min({n, Len(s)}) = e
      BY <1>1, MinOfTwo
    <3>4. QED BY <3>1, <3>2, <3>3, Zenon
  <2>2. CASE n <= Len(s)
    <3>1. n \in 1 .. Len(s) /\ n \in 0 .. Len(s) /\ e = n
      BY <1>1, <2>2
    <3>2. /\ SubSeq(s, n, n) \in Seq(C) /\ Len(SubSeq(s, n, n)) = IF n <= n THEN n - n + 1 ELSE 0
          /\ \A i \in 1 .. n - n + 1 : SubSeq(s, n, n)[i] = s[n + i - 1]
      BY <3>1, PartIs
    <3>3. Len(SubSeq(s, n, n)) = 1 /\ SubSeq(s, n, n)[1] = s[n]
      BY <3>2
    <3>4. s[n] \in C
      BY <3>1, ElementOfSeq
    <3>5. <<s[n]>> \in Seq(C) /\ Len(<<s[n]>>) = 1 /\ <<s[n]>>[1] = s[n]
      BY <3>4
    <3>6. \A i \in 1 .. Len(SubSeq(s, n, n)) : SubSeq(s, n, n)[i] = <<s[n]>>[i]
      BY <3>3, <3>5
    <3>7. SubSeq(s, n, n) = <<s[n]>>
      BY <3>2, <3>3, <3>5, <3>6, SeqEqual
    <3>8. QED BY <2>1, <3>1, <3>7 DEF CharAt
  <2>3. CASE n > Len(s)
    <3>1. n \notin 1 .. Len(s) /\ e = Len(s)
      BY <1>1, <2>3
    <3>2. SubSeq(s, n, Len(s)) = <<>>
      BY <1>1, <2>3, SubSeqEmpty
    <3>3. QED BY <2>1, <3>1, <3>2 DEF CharAt
  <2>4. QED BY <1>1, <2>2, <2>3
<1>6. ASSUME NEW t \in Seq(C), t # <<>>
      PROVE  /\ InStr(s, t) # 0 => Mid(s, InStr(s, t), Len(t)) = t
             /\ \A j \in 1 .. (IF InStr(s, t) = 0 THEN Len(s) ELSE InStr(s, t) - 1) :
                  Mid(s, j, Len(t)) # t
  <2> DEFINE found == {k \in 1 .. Len(s) : At(s, t, k)}
  <2>1. Len(t) \in Nat \ {0}
    BY <1>6, LenProperties, EmptySeq
  <2>2. InStr(s, t) = IF found = {} THEN 0 ELSE Min(found)
    BY <1>6 DEF InStr, Position
  <2>3. found # {} => Min(found) \in found /\ \A x \in found : Min(found) <= x
    <3>1. found \in SUBSET Nat
      BY <1>1
    <3>2. QED BY <3>1, MinIs
  <2>4. ASSUME NEW j \in 1 .. Len(s) PROVE Mid(s, j, Len(t)) = t <=> j \in found
    <3>1. j \in Nat \ {0} /\ Len(t) \in Nat /\ j <= Len(s) /\ j - 1 + Len(t) = j + Len(t) - 1
      BY <1>1, <2>1
    <3> DEFINE e == IF j - 1 + Len(t) <= Len(s) THEN j - 1 + Len(t) ELSE Len(s)
    <3>2. Mid(s, j, Len(t)) = SubSeq(s, j, e)
      BY <3>1, MidIs
    <3>3. e \in 0 .. Len(s) /\ j <= e
      BY <1>1, <2>1, <3>1
    <3>4. Len(SubSeq(s, j, e)) = e - j + 1
      <4> HIDE DEF e
      <4>1. QED BY <3>1, <3>3, PartIs
    <3>5. CASE j - 1 + Len(t) <= Len(s)
      BY <3>1, <3>2, <3>5 DEF At
    <3>6. CASE ~ j - 1 + Len(t) <= Len(s)
      <4>1. Len(SubSeq(s, j, e)) < Len(t)
        BY <1>1, <2>1, <3>1, <3>4, <3>6
      <4>2. SubSeq(s, j, e) # t
        BY <2>1, <4>1
      <4>3. QED BY <3>1, <3>2, <3>6, <4>2 DEF At
    <3>7. QED BY <3>5, <3>6
  <2> HIDE DEF found
  <2>5. found \subseteq 1 .. Len(s)
    BY DEF found
  <2>6. CASE found = {}
    BY <2>2, <2>4, <2>6
  <2>7. CASE found # {}
    <3> DEFINE k == Min(found)
    <3>1. k \in found /\ k \in 1 .. Len(s) /\ InStr(s, t) = k /\ \A x \in found : k <= x
      BY <2>2, <2>3, <2>5, <2>7
    <3> HIDE DEF k
    <3>2. \A j \in 1 .. k - 1 : j \in 1 .. Len(s) /\ j \notin found
      BY <1>1, <3>1
    <3>3. k # 0
      BY <1>1, <3>1
    <3>4. QED BY <2>4, <3>1, <3>2, <3>3
  <2>8. QED BY <2>6, <2>7
<1>7. QED BY <1>2, <1>3, <1>4, <1>5, <1>6
================================================================================
