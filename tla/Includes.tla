------------------------------- MODULE Includes -------------------------------
(***************************************************************************)
(* Reading a script with the files it includes, once or several times in a *)
(* process: INCLUDE of the parser (parser.go), the pipeline behind RunFile *)
(* and CanExecuteFile (runfile.go), and CanRun, by which a running script  *)
(* has others checked (Global.go).                                         *)
(*                                                                         *)
(* The parser remembers across calls which files are being read            *)
(* (includeActive), which were ever included (includeSeen) and what they   *)
(* contained (includeCache); procedures are registered in global tables.   *)
(* A syntax error is a panic that unwinds every parser at work.            *)
(*                                                                         *)
(* A file is the list of the files it includes, at its top, and a rest     *)
(* that declares one procedure, calls the procedure of each file included  *)
(* there, and may have a syntax error.  Files do not change meanwhile.     *)
(***************************************************************************)
EXTENDS Naturals, Sequences, FiniteSets, Functions

CONSTANTS
  Files,
  Script,       \* the file on the command line
  None,         \* no file, no verdict
  MaxIncludes,  \* bound on the INCLUDEs of a file
  MaxPasses     \* bound on the scripts read in a process

Conditions == {"fine", "broken", "absent"}
Problems   == {"unreadable", "loop", "broken"}
Verdicts   == Problems \cup {"clean", "warned"}
Modes      == {"run", "dryrun", "validate"}

ASSUME IncludesAssumption ==
  /\ IsFiniteSet(Files) /\ Script \in Files /\ None \notin Files \cup Verdicts
  /\ MaxIncludes \in Nat /\ MaxPasses \in Nat

VARIABLES
  includes,   \* the files each file includes
  condition,  \* whether each file exists and parses
  phase,      \* of the process: idle, parsing, executing, ended
  mode,       \* what the latest pass is for
  root,       \* the script it reads
  passes,     \* how many passes there have been
  stack,      \* the parsers at work, each with its file and the next INCLUDE
  parsed,     \* the includes of this pass, in the order of their statements
  verdict,    \* the result of the latest pass, None while it lasts
  active, seen, cached,  \* includeActive, includeSeen, includeCache
  known       \* the files whose procedure is registered

disk   == <<includes, condition>>
pass   == <<mode, root, passes>>
tables == <<active, seen, cached>>
vars   == <<disk, phase, pass, stack, parsed, verdict, tables, known>>

Exists(f) == condition[f] # "absent"

Lists == UNION {[1 .. n -> Files] : n \in 0 .. MaxIncludes}

Init ==
  /\ includes \in [Files -> Lists]
  /\ condition \in [Files -> Conditions]
  /\ \A f \in Files : ~Exists(f) => includes[f] = <<>>
  /\ phase = "idle" /\ mode = "run" /\ root = Script /\ passes = 0
  /\ stack = <<>> /\ parsed = <<>> /\ verdict = None
  /\ active = {} /\ seen = {} /\ cached = {} /\ known = {}

--------------------------------------------------------------------------------
(* The parsers.                                                             *)

Depth == Len(stack)
Top   == stack[Depth]

AtInclude == phase = "parsing" /\ Top.next <= Len(includes[Top.file])
AtRest    == phase = "parsing" /\ Top.next >  Len(includes[Top.file])

Included == includes[Top.file][Top.next]
Parser(f) == [file |-> f, next |-> 1]

\* The files of the parsers INCLUDE has started.
Pending == {stack[i].file : i \in 2 .. Depth}

\* A validation returns to the script that asked for it, a script is executed
\* unless it has a problem.
AfterPass(v) ==
  IF mode = "validate" \/ (mode = "run" /\ v \notin Problems) THEN "executing" ELSE "ended"

\* A bug of the kind panics invite: the delete is not deferred, and they pass it by.
Panic_KeepsActive(v) ==
  /\ verdict' = v /\ phase' = AfterPass(v)
  /\ stack' = <<>> /\ UNCHANGED active
  /\ UNCHANGED <<disk, pass, parsed, seen, cached, known>>

\* p.error: the panic runs the deferred delete(includeActive, ...) of every parser
\* on its way to runFileInternal, and nothing is registered.
Panic(v) ==
  /\ verdict' = v /\ phase' = AfterPass(v)
  /\ stack' = <<>> /\ active' = active \ Pending
  /\ UNCHANGED <<disk, pass, parsed, seen, cached, known>>

\* A bug of the kind two tables invite: INCLUDE asks for include-once before it asks for a loop.
Skip_BeforeLoop ==
  /\ AtInclude
  /\ ~Exists(Included) \/ Included \in seen
  /\ stack' = [stack EXCEPT ![Depth].next = @ + 1]
  /\ UNCHANGED <<disk, phase, pass, parsed, verdict, tables, known>>

\* INCLUDE passes over a file that does not exist or was included before.
Skip ==
  /\ AtInclude
  /\ ~Exists(Included) \/ (Included \notin active /\ Included \in seen)
  /\ stack' = [stack EXCEPT ![Depth].next = @ + 1]
  /\ UNCHANGED <<disk, phase, pass, parsed, verdict, tables, known>>

\* "Include-Schleife": the file is being read.
LoopFound ==
  /\ AtInclude /\ Exists(Included) /\ Included \in active
  /\ Panic("loop")

\* INCLUDE reads another file; were it in the cache, its statements would be used.
Enter ==
  /\ AtInclude /\ Exists(Included)
  /\ Included \notin active /\ Included \notin seen
  /\ seen' = seen \cup {Included}
  /\ IF Included \in cached
       THEN /\ stack' = [stack EXCEPT ![Depth].next = @ + 1]
            /\ parsed' = Append(parsed, Included)
            /\ UNCHANGED active
       ELSE /\ stack' = Append(stack, Parser(Included))
            /\ active' = active \cup {Included}
            /\ UNCHANGED parsed
  /\ UNCHANGED <<disk, phase, pass, verdict, cached, known>>

SyntaxError ==
  /\ AtRest /\ condition[Top.file] = "broken"
  /\ Panic("broken")

\* A bug of the kind early returns invite: a file stays in includeActive after it has been read.
Leave_StaysActive ==
  /\ AtRest /\ Depth > 1 /\ condition[Top.file] # "broken"
  /\ stack' = [SubSeq(stack, 1, Depth - 1) EXCEPT ![Depth - 1].next = @ + 1]
  /\ UNCHANGED active
  /\ cached' = cached \cup {Top.file}
  /\ parsed' = Append(parsed, Top.file)
  /\ UNCHANGED <<disk, phase, pass, verdict, seen, known>>

\* The sub-parser returns its statements to the INCLUDE that started it.
Leave ==
  /\ AtRest /\ Depth > 1 /\ condition[Top.file] # "broken"
  /\ stack' = [SubSeq(stack, 1, Depth - 1) EXCEPT ![Depth - 1].next = @ + 1]
  /\ active' = active \ {Top.file}
  /\ cached' = cached \cup {Top.file}
  /\ parsed' = Append(parsed, Top.file)
  /\ UNCHANGED <<disk, phase, pass, verdict, seen, known>>

\* CheckUnknownCalls: a procedure is called that is not registered.
UnknownCall(registered) ==
  \E f \in {root} \cup Range(parsed) : ~(Range(includes[f]) \subseteq registered)

\* The script has been read: registerFuncsAndSubs, CheckUnknownCalls.
EndPass ==
  /\ AtRest /\ Depth = 1 /\ condition[Top.file] # "broken"
  /\ known' = known \cup {root} \cup Range(parsed)
  /\ verdict' = IF UnknownCall(known') THEN "warned" ELSE "clean"
  /\ phase' = AfterPass(verdict')
  /\ stack' = <<>>
  /\ UNCHANGED <<disk, pass, parsed, tables>>

--------------------------------------------------------------------------------
(* The process.                                                             *)

\* runFileInternal: the command line, or CanRun of the script that is executed.
Begin(m, f) ==
  /\ passes < MaxPasses
  /\ \/ phase = "idle" /\ m \in {"run", "dryrun"} /\ f = Script
     \/ phase = "executing" /\ m = "validate"
  /\ mode' = m /\ root' = f /\ passes' = passes + 1
  /\ parsed' = <<>>
  /\ IF Exists(f)
       THEN phase' = "parsing" /\ stack' = <<Parser(f)>> /\ verdict' = None
       ELSE /\ phase' = IF m = "validate" THEN "executing" ELSE "ended"
            /\ verdict' = "unreadable"
            /\ UNCHANGED stack
  /\ UNCHANGED <<disk, tables, known>>

Exit ==
  /\ phase = "executing"
  /\ phase' = "ended"
  /\ UNCHANGED <<disk, pass, stack, parsed, verdict, tables, known>>

Parse == Skip \/ LoopFound \/ Enter \/ SyntaxError \/ Leave \/ EndPass

Next ==
  \/ Parse
  \/ \E m \in Modes, f \in Files : Begin(m, f)
  \/ Exit

Spec == Init /\ [][Next]_vars

--------------------------------------------------------------------------------
(* What a script is, by its files alone.                                    *)

Successors(f) == {g \in Range(includes[f]) : Exists(g)}

\* No file of the set includes one outside it.
Closed(set) == \A g \in set : Successors(g) \subseteq set

\* f and the files that are read with it: the smallest such set.
Reach(f) ==
  {g \in Files : \A set \in SUBSET Files : f \in set /\ Closed(set) => g \in set}

HasLoop(f)    == \E g \in Reach(f) : \E h \in Successors(g) : g \in Reach(h)
HasError(f)   == \E g \in Reach(f) : condition[g] = "broken"
HasMissing(f) == \E g \in Reach(f) : Range(includes[g]) # Successors(g)
IsClean(f)    == Exists(f) /\ ~HasLoop(f) /\ ~HasError(f) /\ ~HasMissing(f)

--------------------------------------------------------------------------------
(* Properties.                                                              *)

\* The types of the variables of parser.go and runfile.go.
TypeOK ==
  /\ includes \in [Files -> Seq(Files)] /\ condition \in [Files -> Conditions]
  /\ phase \in {"idle", "parsing", "executing", "ended"}
  /\ mode \in Modes /\ root \in Files /\ passes \in 0 .. MaxPasses
  /\ stack \in Seq([file : Files, next : Nat \ {0}])
  /\ parsed \in Seq(Files) /\ verdict \in Verdicts \cup {None}
  /\ active \subseteq Files /\ seen \subseteq Files /\ cached \subseteq Files
  /\ known \subseteq Files
  /\ phase = "parsing" <=> stack # <<>>

\* includeActive holds exactly the files whose parser INCLUDE has started and
\* which has not returned, each of them once: also after a panic, so that an
\* error in one script never makes another look like a loop.
ActiveIsPending ==
  /\ active = Pending
  /\ \A i, j \in 2 .. Depth : stack[i].file = stack[j].file => i = j

\* The first script a process reads is judged by its files, and read with every
\* file it needs, once ("Dateien werden nur einmal geladen", Readme.md:153).
FirstPassIsRight ==
  passes = 1 /\ verdict # None =>
    /\ verdict \in Problems <=> ~Exists(root) \/ HasLoop(root) \/ HasError(root)
    /\ verdict = "clean" <=> IsClean(root)
    /\ verdict \notin Problems => /\ Range(parsed) = Reach(root) \ {root}
                                  /\ Len(parsed) = Cardinality(Range(parsed))

\* Only a loop is called one: when INCLUDE reports "Include-Schleife", the parsers at
\* work lead from the file to itself, each reading what the one before includes.
LoopIsReal ==
  [][verdict = None /\ verdict' = "loop" =>
       \E i \in 2 .. Depth :
         /\ stack[i].file = Included
         /\ \A j \in i .. Depth - 1 :
              stack[j + 1].file = includes[stack[j].file][stack[j].next]]_vars

================================================================================
