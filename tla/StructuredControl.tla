--------------------------- MODULE StructuredControl ---------------------------
(***************************************************************************)
(* What the language promises about leaving a construct early (Readme.md,  *)
(* Fehlerbehandlung, Try / Catch / Finally, Continue).  A statement that   *)
(* does not complete normally - Exit, Continue, Return, an error - ends,   *)
(* in one step, every construct up to the one it is meant for, except that *)
(* a Finally in between runs first and may change its mind.                *)
(***************************************************************************)
EXTENDS Naturals, Sequences

CONSTANTS MaxDepth   \* bound on the nesting of constructs and calls

VARIABLES
  frames,  \* the constructs being executed, the innermost last
  out      \* "running", or how the script ended

vars == <<frames, out>>

Loops    == {"For", "While", "Do"}
Contexts == {"use", "IsError", "Not"}

\* A completion: what happened, and for Exit the kind of loop that it names.
Cpl(s)      == [s |-> s, of |-> "none"]
Normal      == Cpl("None")
ExitLoop(l) == [s |-> "ExitLoop", of |-> l]
Abrupt      == {Cpl(s) : s \in {"ExitSub", "ExitFunction", "Return", "Error", "ContinueLoop"}}
                 \cup {ExitLoop(l) : l \in Loops \cup {"none"}}

Frame(k) == [kind |-> k, part |-> "body", loop |-> "none", ctx |-> "none",
             catch |-> "none", finally |-> FALSE, pend |-> Normal]

LoopFrame(l)   == [Frame("loop") EXCEPT !.loop = l, !.part = "head"]
CallFrame(c)   == [Frame("call") EXCEPT !.ctx = c]
TryFrame(c, f) == [Frame("try") EXCEPT !.catch = c, !.finally = f]

Depth == Len(frames)
Top   == frames[Depth]

--------------------------------------------------------------------------------
\* Which construct a completion is meant for.
Concerns(c, f) ==
  CASE f.kind = "loop" -> c = ExitLoop(f.loop) \/ c.s = "ContinueLoop"
    [] f.kind = "try"  -> \/ f.part = "body" /\ c.s = "Error" /\ f.catch # "none"
                          \/ f.part # "finally" /\ f.finally
    [] f.kind = "call" -> c.s = "Error" => f.ctx = "IsError"
    [] OTHER           -> f.kind = "script"

\* What that construct does: the frames it leaves in place of itself.
Reaction(c, f) ==
  CASE f.kind = "loop" /\ c.s = "ContinueLoop" -> <<[f EXCEPT !.part = "head"]>>
    [] f.kind = "try" /\ f.part = "body" /\ c.s = "Error" /\ f.catch # "none" ->
         <<[f EXCEPT !.part = "catch"]>>
    [] f.kind = "try" /\ (f.part = "catch" \/ c.s # "Error" \/ f.catch = "none") ->
         <<[f EXCEPT !.part = "finally", !.pend = c]>>
    [] OTHER -> <<>>

Target(fs, c) ==
  CHOOSE i \in 1 .. Len(fs) :
    Concerns(c, fs[i]) /\ \A j \in i + 1 .. Len(fs) : ~Concerns(c, fs[j])

\* The constructs that are still being executed after the completion.
Unwound(fs, c) ==
  SubSeq(fs, 1, Target(fs, c) - 1) \o Reaction(c, fs[Target(fs, c)])

\* How the script ends if its last frame is left.
Outcome(c) ==
  CASE c.s = "Error"                      -> "runtime error"
    [] c.s \in {"Return", "ContinueLoop"} -> "unknown signal"
    [] OTHER                              -> "ok"

Ends(fs, c) == IF Unwound(fs, c) = <<>> THEN Outcome(c) ELSE "running"

--------------------------------------------------------------------------------
Init ==
  /\ frames = <<Frame("script")>>
  /\ out = "running"

\* A statement completes abruptly.
Complete(c) ==
  /\ out = "running"
  /\ frames' = Unwound(frames, c)
  /\ out' = Ends(frames, c)

\* The statements of a part of a construct have all been executed.
EndPart ==
  /\ out = "running"
  /\ LET below == SubSeq(frames, 1, Depth - 1)
     IN  \/ /\ Top.kind = "loop" /\ Top.part = "body"
            /\ frames' = Append(below, [Top EXCEPT !.part = "head"])
            /\ UNCHANGED out
         \/ /\ Top.kind = "try" /\ Top.part # "finally" /\ Top.finally
            /\ frames' = Append(below, [Top EXCEPT !.part = "finally", !.pend = Normal])
            /\ UNCHANGED out
         \/ /\ Top.kind = "try" /\ Top.part = "finally" /\ Top.pend # Normal
            /\ frames' = Unwound(below, Top.pend)
            /\ out' = Ends(below, Top.pend)
         \/ /\ \/ Top.kind \in {"block", "call"}
               \/ Top.kind = "try" /\ Top.part # "finally" /\ ~Top.finally
               \/ Top.kind = "try" /\ Top.part = "finally" /\ Top.pend = Normal
            /\ frames' = below
            /\ UNCHANGED out
         \/ /\ Top.kind = "script"
            /\ frames' = <<>>
            /\ out' = "ok"

\* A construct is entered, or a loop begins its next iteration or is done.
Enter(f) ==
  /\ out = "running" /\ Depth < MaxDepth
  /\ frames' = Append(frames, f)
  /\ UNCHANGED out

Iterate ==
  /\ out = "running" /\ Top.kind = "loop" /\ Top.part = "head"
  /\ frames' = [frames EXCEPT ![Depth].part = "body"]
  /\ UNCHANGED out

EndLoop ==
  /\ out = "running" /\ Top.kind = "loop" /\ Top.part = "head"
  /\ frames' = SubSeq(frames, 1, Depth - 1)
  /\ UNCHANGED out

\* A fault of the interpreter itself ends the script.
Panic ==
  /\ out = "running"
  /\ frames' = <<>>
  /\ out' = "internal error"

Next ==
  \/ \E c \in Abrupt : Complete(c)
  \/ EndPart
  \/ \E l \in Loops : Enter(LoopFrame(l))
  \/ \E c \in {"none", "empty", "body"}, f \in BOOLEAN : Enter(TryFrame(c, f))
  \/ \E c \in Contexts : Enter(CallFrame(c))
  \/ Enter(Frame("block"))
  \/ Iterate \/ EndLoop
  \/ Panic

Spec == Init /\ [][Next]_vars
================================================================================
