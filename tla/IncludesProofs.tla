---------------------------- MODULE IncludesProofs ----------------------------
(***************************************************************************)
(* Proofs about Includes, for all files, every graph of INCLUDEs between   *)
(* them and every number of scripts read in a process.                     *)
(*                                                                         *)
(* An action leaves the stack of parsers alone, empties it, moves its top  *)
(* past an INCLUDE, adds a parser or takes one away; the invariant is      *)
(* proved once for each of these changes.                                  *)
(***************************************************************************)
EXTENDS Includes, SequenceTheorems, FiniteSetTheorems, TLAPS

Parsers == [file : Files, next : Nat \ {0}]

\* Each parser but the last has started the one above it.
Chain(s) ==
  \A i \in 1 .. Len(s) - 1 :
    /\ s[i].next \in 1 .. Len(includes[s[i].file])
    /\ s[i + 1].file = includes[s[i].file][s[i].next]

IsPending(s, a) ==
  /\ a = {s[i].file : i \in 2 .. Len(s)}
  /\ \A i, j \in 2 .. Len(s) : s[i].file = s[j].file => i = j

\* An entry of the cache is of a file that INCLUDE passes over.
CacheNeverHit == cached \subseteq seen

\* active \subseteq seen is why the file that Leave caches is one that was seen.
IInv ==
  /\ TypeOK
  /\ IsPending(stack, active)
  /\ Chain(stack)
  /\ CacheNeverHit
  /\ active \subseteq seen

--------------------------------------------------------------------------------
(* The changes of the stack.                                                *)

\* The stack with its top moved past an INCLUDE.
Moved(s) == [s EXCEPT ![Len(s)].next = @ + 1]

LEMMA MovedParser ==
  ASSUME NEW s \in Seq(Parsers), s # <<>>
  PROVE  /\ Moved(s) \in Seq(Parsers) /\ Len(Moved(s)) = Len(s) /\ Moved(s) # <<>>
         /\ \A i \in 1 .. Len(s) : Moved(s)[i].file = s[i].file
         /\ \A i \in 1 .. Len(s) - 1 : Moved(s)[i] = s[i]
<1>1. Len(s) \in Nat /\ Len(s) \in 1 .. Len(s) /\ Len(s) # 0
  BY EmptySeq, LenProperties
<1>2. \A i \in 1 .. Len(s) : s[i] \in Parsers
  BY ElementOfSeq
<1>3. [s[Len(s)] EXCEPT !.next = @ + 1] \in Parsers
  BY <1>1, <1>2 DEF Parsers
<1>4. Moved(s) = [s EXCEPT ![Len(s)] = [s[Len(s)] EXCEPT !.next = @ + 1]]
  BY <1>1 DEF Moved
<1>5. Moved(s) \in Seq(Parsers) /\ Len(Moved(s)) = Len(s)
  BY <1>1, <1>3, <1>4, ExceptSeq
<1>6. \A i \in 1 .. Len(s) : Moved(s)[i].file = s[i].file
  BY <1>1, <1>2, <1>4 DEF Parsers
<1>7. \A i \in 1 .. Len(s) - 1 : Moved(s)[i] = s[i]
  BY <1>1, <1>4
<1>8. QED BY <1>1, <1>5, <1>6, <1>7, EmptySeq

\* A change of the top's position keeps the parsers and the chain to the top.
LEMMA MovedKeeps ==
  ASSUME NEW s \in Seq(Parsers), s # <<>>, NEW a, IsPending(s, a), Chain(s)
  PROVE  IsPending(Moved(s), a) /\ Chain(Moved(s))
<1>1. Len(s) \in Nat
  BY LenProperties
<1>2. QED BY <1>1, MovedParser DEF IsPending, Chain

\* A parser is added for what the top includes.
LEMMA PushKeeps ==
  ASSUME NEW s \in Seq(Parsers), s # <<>>, NEW a, IsPending(s, a), Chain(s),
         NEW f \in Files \ a,
         s[Len(s)].next \in 1 .. Len(includes[s[Len(s)].file]),
         f = includes[s[Len(s)].file][s[Len(s)].next]
  PROVE  /\ Append(s, Parser(f)) \in Seq(Parsers) /\ Append(s, Parser(f)) # <<>>
         /\ IsPending(Append(s, Parser(f)), a \cup {f})
         /\ Chain(Append(s, Parser(f)))
<1> DEFINE t == Append(s, Parser(f))
<1>1. Len(s) \in Nat /\ Len(s) # 0
  BY EmptySeq, LenProperties
<1>2. Parser(f) \in Parsers /\ Parser(f).file = f
  BY DEF Parser, Parsers
<1>3. /\ t \in Seq(Parsers) /\ Len(t) = Len(s) + 1
      /\ t[Len(s) + 1] = Parser(f)
      /\ \A i \in 1 .. Len(s) : t[i] = s[i]
  BY <1>1, <1>2, AppendProperties
<1>4. t # <<>>
  BY <1>1, <1>3, EmptySeq
<1>5. IsPending(t, a \cup {f})
  <2>1. \A i \in 2 .. Len(t) : i \in 2 .. Len(s) \/ i = Len(s) + 1
    BY <1>1, <1>3
  <2>2. Len(s) + 1 \in 2 .. Len(t) /\ 2 .. Len(s) \subseteq 2 .. Len(t)
    BY <1>1, <1>3
  <2>3. \A i \in 2 .. Len(s) : t[i].file = s[i].file /\ s[i].file \in a
    BY <1>1, <1>3 DEF IsPending
  <2>4. t[Len(s) + 1].file = f
    BY <1>2, <1>3
  <2>5. {t[i].file : i \in 2 .. Len(t)} = a \cup {f}
    BY <2>1, <2>2, <2>3, <2>4 DEF IsPending
  <2>6. \A i, j \in 2 .. Len(t) : t[i].file = t[j].file => i = j
    BY <2>1, <2>3, <2>4 DEF IsPending
  <2>7. QED BY <2>5, <2>6 DEF IsPending
<1>6. Chain(t)
  BY <1>1, <1>2, <1>3 DEF Chain
<1>7. QED BY <1>3, <1>4, <1>5, <1>6

\* The top is taken away, and the parser that waited for it goes on.
LEMMA PopKeeps ==
  ASSUME NEW s \in Seq(Parsers), Len(s) > 1, NEW a, IsPending(s, a), Chain(s)
  PROVE  LET t == SubSeq(s, 1, Len(s) - 1)
         IN  /\ t \in Seq(Parsers) /\ t # <<>> /\ Len(t) = Len(s) - 1
             /\ IsPending(t, a \ {s[Len(s)].file}) /\ Chain(t)
<1>1. Len(s) \in Nat /\ Len(s) - 1 # 0
  OBVIOUS
<1> DEFINE t == SubSeq(s, 1, Len(s) - 1)
<1>2. \A i \in 1 .. Len(s) - 1 : s[i] \in Parsers
  BY <1>1, ElementOfSeq
<1>3. /\ t \in Seq(Parsers) /\ Len(t) = Len(s) - 1
      /\ \A i \in 1 .. Len(s) - 1 : t[i] = s[i]
  <2>1. 1 \in Int /\ Len(s) - 1 \in Int /\ 1 <= Len(s) - 1
    BY <1>1
  <2>2. /\ t \in Seq(Parsers) /\ Len(t) = (Len(s) - 1) - 1 + 1
        /\ \A i \in 1 .. (Len(s) - 1) - 1 + 1 : t[i] = s[1 + i - 1]
    BY <1>2, <2>1, SubSeqProperties
  <2>3. QED BY <1>1, <2>2
<1>4. t # <<>>
  <2> HIDE DEF t
  <2>1. QED BY <1>1, <1>3, EmptySeq
<1>5. {t[i].file : i \in 2 .. Len(t)} = a \ {s[Len(s)].file}
  <2>1. \A i \in 2 .. Len(s) : i \in 2 .. Len(t) \/ i = Len(s)
    BY <1>1, <1>3
  <2>2. Len(s) \in 2 .. Len(s) /\ 2 .. Len(t) \subseteq 2 .. Len(s) /\ Len(s) \notin 2 .. Len(t)
    BY <1>1, <1>3
  <2>3. \A i \in 2 .. Len(t) : t[i].file = s[i].file /\ s[i].file # s[Len(s)].file
    BY <1>1, <1>3, <2>2 DEF IsPending
  <2>4. QED BY <2>1, <2>2, <2>3 DEF IsPending
<1>6. IsPending(t, a \ {s[Len(s)].file})
  BY <1>1, <1>3, <1>5 DEF IsPending
<1>7. Chain(t)
  BY <1>1, <1>3 DEF Chain
<1>8. QED BY <1>3, <1>4, <1>6, <1>7

\* Without parsers nothing is pending.
LEMMA NoParsers == <<>> \in Seq(Parsers) /\ IsPending(<<>>, {}) /\ Chain(<<>>)
<1>1. Len(<<>>) = 0 /\ <<>> \in Seq(Parsers)
  BY EmptySeq
<1>2. QED BY <1>1 DEF IsPending, Chain

\* The parser of a script is none that INCLUDE started.
LEMMA FirstParser ==
  ASSUME NEW f \in Files
  PROVE  /\ <<Parser(f)>> \in Seq(Parsers) /\ <<Parser(f)>> # <<>>
         /\ IsPending(<<Parser(f)>>, {}) /\ Chain(<<Parser(f)>>)
<1>1. Len(<<Parser(f)>>) = 1 /\ <<Parser(f)>> # <<>>
  OBVIOUS
<1>2. Parser(f) \in Parsers
  BY DEF Parser, Parsers
<1>3. <<Parser(f)>> \in Seq(Parsers)
  BY <1>2
<1>4. QED BY <1>1, <1>3 DEF IsPending, Chain

--------------------------------------------------------------------------------
(* The invariant.                                                           *)

\* ActiveIsPending is the part of IInv about includeActive.
LEMMA PendingIs == IsPending(stack, active) <=> ActiveIsPending
  BY DEF IsPending, ActiveIsPending, Pending, Depth

\* At the start of the process.
LEMMA InitIInv == Init => IInv
<1> SUFFICES ASSUME Init PROVE IInv
  OBVIOUS
<1>1. includes \in [Files -> Seq(Files)]
  <2>1. \A n \in 0 .. MaxIncludes : [1 .. n -> Files] \subseteq Seq(Files)
    BY IncludesAssumption, SeqDef
  <2>2. Lists \subseteq Seq(Files)
    BY <2>1 DEF Lists
  <2>3. QED BY <2>2 DEF Init
<1>2. TypeOK
  BY <1>1, NoParsers, IncludesAssumption, EmptySeq DEF Init, TypeOK, Modes, Parsers, Verdicts
<1>3. QED BY <1>2, NoParsers DEF Init, IInv, CacheNeverHit

\* What the actions of the parsers know of the parser on top.
LEMMA TopParser ==
  ASSUME TypeOK, phase = "parsing"
  PROVE  /\ stack \in Seq(Parsers) /\ stack # <<>>
         /\ Depth \in Nat \ {0} /\ Top \in Parsers /\ Top = stack[Len(stack)]
         /\ Top.file \in Files /\ Top.next \in Nat \ {0}
         /\ includes[Top.file] \in Seq(Files) /\ Len(includes[Top.file]) \in Nat
         /\ AtInclude => /\ Top.next \in 1 .. Len(includes[Top.file])
                         /\ Included \in Files
<1>1. stack \in Seq(Parsers) /\ stack # <<>>
  BY DEF TypeOK, Parsers
<1>2. Depth \in Nat \ {0} /\ Depth \in 1 .. Len(stack)
  BY <1>1, EmptySeq, LenProperties DEF Depth
<1>3. Top \in Parsers /\ Top = stack[Len(stack)]
  BY <1>1, <1>2, ElementOfSeq DEF Top, Depth
<1>4. Top.file \in Files /\ Top.next \in Nat \ {0}
  BY <1>3 DEF Parsers
<1>5. includes[Top.file] \in Seq(Files) /\ Len(includes[Top.file]) \in Nat
  BY <1>4, LenProperties DEF TypeOK
<1>6. AtInclude => /\ Top.next \in 1 .. Len(includes[Top.file])
                  /\ Included \in Files
  <2> HAVE AtInclude
  <2>1. Top.next \in 1 .. Len(includes[Top.file])
    BY <1>4, <1>5 DEF AtInclude
  <2>2. QED BY <1>5, <2>1, ElementOfSeq DEF Included
<1>7. QED BY <1>1, <1>2, <1>3, <1>4, <1>5, <1>6

\* A panic: every parser leaves the stack and the table.
LEMMA PanicKeeps ==
  ASSUME IInv, NEW v \in Problems, Panic(v)
  PROVE  IInv'
<1>1. active \ Pending = {}
  BY PendingIs DEF IInv, ActiveIsPending
<1>2. stack' = <<>> /\ active' = {}
  BY <1>1 DEF Panic
<1>3. phase' \in {"executing", "ended"}
  BY DEF Panic, AfterPass
<1>4. TypeOK'
  BY <1>2, <1>3, NoParsers DEF IInv, TypeOK, Panic, Verdicts, Problems, disk, pass, Parsers
<1>5. QED BY <1>2, <1>4, NoParsers DEF IInv, Panic, CacheNeverHit, Chain, disk

LEMMA SkipKeeps == ASSUME IInv, Skip PROVE IInv'
<1>1. stack \in Seq(Parsers) /\ stack # <<>>
  BY TopParser DEF IInv, Skip, AtInclude
<1>2. stack' = Moved(stack)
  BY DEF Skip, Moved, Depth
<1>3. stack' \in Seq(Parsers) /\ stack' # <<>>
  BY <1>1, <1>2, MovedParser
<1>4. IsPending(stack', active) /\ Chain(stack')
  BY <1>1, <1>2, MovedKeeps DEF IInv
<1>5. TypeOK'
  BY <1>3 DEF IInv, Skip, AtInclude, TypeOK, disk, pass, tables, Parsers
<1>6. QED BY <1>4, <1>5 DEF IInv, Skip, CacheNeverHit, Chain, disk, tables

LEMMA EnterKeeps == ASSUME IInv, Enter PROVE IInv'
<1>1. /\ stack \in Seq(Parsers) /\ stack # <<>>
      /\ Top = stack[Len(stack)] /\ Top.next \in 1 .. Len(includes[Top.file])
      /\ Included \in Files \ active
  BY TopParser DEF IInv, Enter, AtInclude
<1>2. Included \notin cached
  BY DEF IInv, Enter, CacheNeverHit
<1>3. /\ stack' = Append(stack, Parser(Included)) /\ active' = active \cup {Included}
      /\ seen' = seen \cup {Included} /\ parsed' = parsed
  BY <1>2 DEF Enter
<1>4. /\ stack' \in Seq(Parsers) /\ stack' # <<>>
      /\ IsPending(stack', active') /\ Chain(stack')
  BY <1>1, <1>3, PushKeeps DEF IInv, Included
<1>5. TypeOK'
  BY <1>1, <1>3, <1>4 DEF IInv, Enter, AtInclude, TypeOK, disk, pass, Parsers
<1>6. QED BY <1>3, <1>4, <1>5 DEF IInv, Enter, CacheNeverHit, Chain, disk

LEMMA LeaveKeeps == ASSUME IInv, Leave PROVE IInv'
<1> DEFINE t == SubSeq(stack, 1, Len(stack) - 1)
<1>1. /\ stack \in Seq(Parsers) /\ stack # <<>> /\ Len(stack) > 1
      /\ Top = stack[Len(stack)] /\ Top.file \in Files
  BY TopParser DEF IInv, Leave, AtRest, Depth
<1>2. /\ t \in Seq(Parsers) /\ t # <<>> /\ Len(t) = Len(stack) - 1
      /\ IsPending(t, active \ {Top.file}) /\ Chain(t)
  BY <1>1, PopKeeps DEF IInv
<1>3. stack' = Moved(t)
  BY <1>2 DEF Leave, Moved, Depth
<1>4. stack' \in Seq(Parsers) /\ stack' # <<>>
  BY <1>2, <1>3, MovedParser
<1>5. IsPending(stack', active') /\ Chain(stack')
  BY <1>2, <1>3, MovedKeeps DEF Leave
<1>6. Top.file \in seen
  <2>1. Len(stack) \in 2 .. Len(stack)
    BY <1>1, LenProperties
  <2>2. Top.file \in active
    BY <1>1, <2>1 DEF IInv, IsPending
  <2>3. QED BY <2>2 DEF IInv
<1>7. parsed' \in Seq(Files)
  BY <1>1, AppendProperties DEF IInv, Leave, TypeOK
<1>8. TypeOK'
  BY <1>1, <1>4, <1>7 DEF IInv, Leave, AtRest, TypeOK, disk, pass, Parsers
<1>9. QED BY <1>5, <1>6, <1>8 DEF IInv, Leave, CacheNeverHit, Chain, disk

LEMMA EndPassKeeps == ASSUME IInv, EndPass PROVE IInv'
<1>1. stack' = <<>> /\ active' = active /\ cached' = cached /\ seen' = seen
  BY DEF EndPass, tables
<1>2. active = {}
  BY DEF IInv, IsPending, EndPass, Depth
<1>3. phase' \in {"executing", "ended"} /\ verdict' \in Verdicts
  BY DEF EndPass, AfterPass, Verdicts
<1>4. known' \subseteq Files
  <2>1. Range(parsed) \subseteq Files
    BY ElementOfSeq DEF IInv, TypeOK, Range
  <2>2. QED BY <2>1 DEF IInv, TypeOK, EndPass
<1>5. TypeOK'
  BY <1>1, <1>3, <1>4, NoParsers DEF IInv, TypeOK, EndPass, disk, pass, Parsers
<1>6. QED BY <1>1, <1>2, <1>5, NoParsers DEF IInv, EndPass, CacheNeverHit, disk, Chain

LEMMA BeginKeeps == ASSUME IInv, NEW m \in Modes, NEW f \in Files, Begin(m, f) PROVE IInv'
<1>1. stack = <<>> /\ active = {}
  <2>1. stack = <<>>
    BY DEF Begin, IInv, TypeOK
  <2>2. Len(<<>>) = 0
    BY EmptySeq
  <2>3. QED BY <2>1, <2>2 DEF IInv, IsPending
<1>2. /\ stack' \in Seq(Parsers) /\ IsPending(stack', {}) /\ Chain(stack')
      /\ phase' \in {"parsing", "executing", "ended"} /\ (phase' = "parsing" <=> stack' # <<>>)
      /\ verdict' \in Verdicts \cup {None}
  <2>1. CASE Exists(f)
    <3>1. stack' = <<Parser(f)>> /\ phase' = "parsing" /\ verdict' = None /\ UNCHANGED disk
      BY <2>1 DEF Begin
    <3>2. QED BY <3>1, FirstParser DEF Chain, disk
  <2>2. CASE ~Exists(f)
    <3>1. /\ stack' = <<>> /\ phase' \in {"executing", "ended"}
          /\ verdict' = "unreadable" /\ UNCHANGED disk
      BY <1>1, <2>2 DEF Begin
    <3>2. QED BY <3>1, NoParsers DEF Chain, disk, Verdicts, Problems
  <2>3. QED BY <2>1, <2>2
<1>3. passes' \in 0 .. MaxPasses /\ parsed' \in Seq(Files)
  BY IncludesAssumption, EmptySeq DEF Begin, IInv, TypeOK
<1>4. TypeOK'
  BY <1>2, <1>3 DEF IInv, TypeOK, Begin, disk, tables, Parsers
<1>5. QED BY <1>1, <1>2, <1>4 DEF IInv, Begin, CacheNeverHit, tables, disk, Chain

\* Every step keeps the invariant.
LEMMA StepIInv == IInv /\ [Next]_vars => IInv'
<1> SUFFICES ASSUME IInv, [Next]_vars PROVE IInv'
  OBVIOUS
<1>1. CASE Skip
  BY <1>1, SkipKeeps
<1>2. CASE LoopFound
  BY <1>2, PanicKeeps DEF LoopFound, Problems
<1>3. CASE Enter
  BY <1>3, EnterKeeps
<1>4. CASE SyntaxError
  BY <1>4, PanicKeeps DEF SyntaxError, Problems
<1>5. CASE Leave
  BY <1>5, LeaveKeeps
<1>6. CASE EndPass
  BY <1>6, EndPassKeeps
<1>7. CASE \E m \in Modes, f \in Files : Begin(m, f)
  BY <1>7, BeginKeeps
<1>8. CASE Exit
  <2>1. TypeOK'
    BY <1>8 DEF Exit, IInv, TypeOK, disk, pass, tables
  <2>2. QED BY <1>8, <2>1 DEF Exit, IInv, CacheNeverHit, Chain, disk, tables
<1>9. CASE UNCHANGED vars
  <2>1. TypeOK'
    BY <1>9 DEF IInv, TypeOK, vars, disk, pass, tables
  <2>2. QED BY <1>9, <2>1 DEF IInv, CacheNeverHit, Chain, vars, disk, pass, tables
<1>10. QED BY <1>1, <1>2, <1>3, <1>4, <1>5, <1>6, <1>7, <1>8, <1>9 DEF Next, Parse

LEMMA Invariance == Spec => []IInv
<1>1. QED BY InitIInv, StepIInv, PTL DEF Spec

--------------------------------------------------------------------------------
(* The theorems.                                                            *)

\* The variables of parser.go and runfile.go are always of their types.
THEOREM TypeCorrect == Spec => []TypeOK
<1>1. IInv => TypeOK
  BY DEF IInv
<1>2. QED BY <1>1, Invariance, PTL

\* includeActive holds the files being read and no other, also after panics
\* (parser.go:1243, the deferred delete).
THEOREM ActiveCorrect == Spec => []ActiveIsPending
<1>1. IInv => ActiveIsPending
  BY PendingIs DEF IInv
<1>2. QED BY <1>1, Invariance, PTL

\* includeCache is never of use: INCLUDE passes over every file in it
\* (parser.go:1234 comes before parser.go:1248).
THEOREM CacheUnused == Spec => []CacheNeverHit
<1>1. IInv => CacheNeverHit
  BY DEF IInv
<1>2. QED BY <1>1, Invariance, PTL

\* "Include-Schleife" is reported for loops only (parser.go:1229).
THEOREM LoopsReported == Spec => LoopIsReal
<1> DEFINE Real ==
      verdict = None /\ verdict' = "loop" =>
        \E i \in 2 .. Depth :
          /\ stack[i].file = Included
          /\ \A j \in i .. Depth - 1 :
               stack[j + 1].file = includes[stack[j].file][stack[j].next]
<1>1. IInv /\ [Next]_vars => [Real]_vars
  <2>1. SUFFICES ASSUME IInv, [Next]_vars, verdict = None, verdict' = "loop"
                 PROVE  Real
    OBVIOUS
  <2>2. verdict' # verdict
    BY <2>1, IncludesAssumption DEF Verdicts, Problems
  <2>3. LoopFound
    <3>1. ~Skip /\ ~Enter /\ ~Leave /\ ~Exit /\ ~(UNCHANGED vars)
      BY <2>2 DEF Skip, Enter, Leave, Exit, vars
    <3>2. ~SyntaxError /\ ~EndPass
      BY <2>1 DEF SyntaxError, EndPass, Panic
    <3>3. \A m \in Modes, f \in Files : ~Begin(m, f)
      BY <2>1, <2>2 DEF Begin
    <3>4. QED BY <2>1, <3>1, <3>2, <3>3 DEF Next, Parse
  <2>4. PICK i \in 2 .. Len(stack) : stack[i].file = Included
    BY <2>1, <2>3 DEF LoopFound, IInv, IsPending
  <2>5. Len(stack) \in Nat
    BY <2>1, LenProperties DEF IInv, TypeOK
  <2>6. \A j \in i .. Len(stack) - 1 : stack[j + 1].file = includes[stack[j].file][stack[j].next]
    BY <2>1, <2>4, <2>5 DEF IInv, Chain
  <2>7. QED BY <2>4, <2>6 DEF Depth
<1>2. QED BY <1>1, Invariance, PTL DEF Spec, LoopIsReal

--------------------------------------------------------------------------------
(* The first script of a process.                                           *)

\* A file that has been read parses, and every file it includes was read before it.
ReadInOrder(p) ==
  /\ \A k \in 1 .. Len(p) : /\ condition[p[k]] = "fine" /\ p[k] \in Reach(root)
                            /\ Successors(p[k]) \subseteq {p[j] : j \in 1 .. k - 1}
  /\ \A j, k \in 1 .. Len(p) : p[j] = p[k] => j = k

\* A parser at work has read what comes before its INCLUDE, and a parser is
\* at work on a file that is read with the file of each parser below it.
ReadSoFar(s, done) ==
  /\ s # <<>> => s[1].file = root
  /\ \A i \in 1 .. Len(s) :
       /\ Exists(s[i].file)
       /\ \A n \in 1 .. Len(includes[s[i].file]) :
            n < s[i].next /\ Exists(includes[s[i].file][n]) => includes[s[i].file][n] \in done
  /\ \A i, j \in 1 .. Len(s) : i <= j => s[j].file \in Reach(s[i].file)

\* A file INCLUDE has come to is being read or has been read, and the script is
\* not among those that have been read: the file that includes it is at work.
FirstReading ==
  /\ known = {} /\ seen = active \cup Range(parsed) /\ active \cap Range(parsed) = {}
  /\ root \notin Range(parsed)
  /\ ReadInOrder(parsed)
  /\ ReadSoFar(stack, Range(parsed))

FirstInv ==
  /\ phase = "parsing" <=> (verdict = None /\ passes > 0)
  /\ passes = 0 <=> phase = "idle"
  /\ passes = 0 => known = {} /\ seen = {}
  /\ passes = 1 /\ phase = "parsing" => FirstReading
  /\ FirstPassIsRight

\* The files that are read with a file: itself, with each one those it includes, and no more.
LEMMA ReachIs ==
  ASSUME includes \in [Files -> Seq(Files)], NEW f \in Files
  PROVE  /\ f \in Reach(f) /\ Reach(f) \subseteq Files
         /\ \A g \in Reach(f) : Successors(g) \subseteq Reach(f)
         /\ \A S \in SUBSET Files : f \in S /\ Closed(S) => Reach(f) \subseteq S
<1>1. ASSUME NEW g \in Files  PROVE Successors(g) \subseteq Files
  BY ElementOfSeq DEF Successors, Range
<1>2. f \in Reach(f) /\ Reach(f) \subseteq Files
  BY DEF Reach
<1>3. \A S \in SUBSET Files : f \in S /\ Closed(S) => Reach(f) \subseteq S
  BY DEF Reach
<1>4. ASSUME NEW g \in Reach(f), NEW h \in Successors(g)  PROVE h \in Reach(f)
  <2>1. h \in Files /\ g \in Files
    BY <1>1, <1>2
  <2>2. ASSUME NEW S \in SUBSET Files, f \in S, Closed(S)  PROVE h \in S
    <3>1. g \in S
      BY <1>3, <2>2
    <3>2. QED BY <2>2, <3>1 DEF Closed
  <2>3. QED BY <2>1, <2>2 DEF Reach
<1>5. QED BY <1>2, <1>3, <1>4

LEMMA ReachTransitive ==
  ASSUME includes \in [Files -> Seq(Files)], NEW f \in Files, NEW g \in Reach(f)
  PROVE  g \in Files /\ Reach(g) \subseteq Reach(f)
<1>1. g \in Files /\ Reach(f) \in SUBSET Files /\ Closed(Reach(f))
  BY ReachIs DEF Closed
<1>2. QED BY <1>1, ReachIs

\* What an INCLUDE names, when it exists.
LEMMA IncludedIsSuccessor ==
  ASSUME includes \in [Files -> Seq(Files)], NEW f \in Files, NEW n \in 1 .. Len(includes[f])
  PROVE  /\ includes[f][n] \in Files /\ includes[f][n] \in Range(includes[f])
         /\ Exists(includes[f][n]) => includes[f][n] \in Successors(f)
<1>1. includes[f] \in Seq(Files) /\ DOMAIN includes[f] = 1 .. Len(includes[f])
  BY LenProperties
<1>2. includes[f][n] \in Files
  BY <1>1, ElementOfSeq
<1>3. QED BY <1>1, <1>2 DEF Successors, Range

\* Without a loop: in the order of reading no file leads back to itself.
LEMMA NoLoopInOrder ==
  ASSUME includes \in [Files -> Seq(Files)], NEW p \in Seq(Files), ReadInOrder(p),
         NEW k \in 1 .. Len(p), NEW h \in Successors(p[k])
  PROVE  p[k] \notin Reach(h) /\ Reach(h) \subseteq Range(p)
<1>1. Len(p) \in Nat /\ DOMAIN p = 1 .. Len(p) /\ \A i \in 1 .. Len(p) : p[i] \in Files
  BY LenProperties, ElementOfSeq
<1>2. PICK j \in 1 .. k - 1 : h = p[j]
  BY DEF ReadInOrder
<1>3. j \in 1 .. Len(p) /\ j < k /\ j \in Nat
  BY <1>1
<1> DEFINE S == {p[i] : i \in 1 .. j}
<1>4. S \subseteq Files /\ h \in S /\ S \subseteq Range(p)
  <2>1. \A i \in 1 .. j : i \in 1 .. Len(p)
    BY <1>1, <1>3
  <2>2. j \in 1 .. j
    BY <1>3
  <2>3. QED BY <1>1, <1>2, <2>1, <2>2 DEF Range
<1>5. Closed(S)
  <2>1. SUFFICES ASSUME NEW i \in 1 .. j PROVE Successors(p[i]) \subseteq S
    BY DEF Closed
  <2>2. i \in 1 .. Len(p) /\ \A l \in 1 .. i - 1 : l \in 1 .. j
    BY <1>1, <1>3
  <2>3. {p[l] : l \in 1 .. i - 1} \subseteq S
    BY <2>2
  <2>4. Successors(p[i]) \subseteq {p[l] : l \in 1 .. i - 1}
    BY <2>2 DEF ReadInOrder
  <2>5. QED BY <2>3, <2>4
<1>6. h \in Files /\ Reach(h) \subseteq S
  BY <1>4, <1>5, ReachIs
<1>7. p[k] \notin S
  <2>1. SUFFICES ASSUME NEW i \in 1 .. j, p[k] = p[i] PROVE FALSE
    OBVIOUS
  <2>2. i \in 1 .. Len(p) /\ i # k
    BY <1>1, <1>3
  <2>3. QED BY <2>1, <2>2 DEF ReadInOrder
<1>8. QED BY <1>4, <1>6, <1>7

\* As many files have been read as there are statements' places for them.
LEMMA ReadOnce ==
  ASSUME NEW p \in Seq(Files), ReadInOrder(p)
  PROVE  Len(p) = Cardinality(Range(p))
<1>1. Len(p) \in Nat /\ DOMAIN p = 1 .. Len(p) /\ p \in [1 .. Len(p) -> Files]
  BY LenProperties
<1>2. p \in Bijection(1 .. Len(p), Range(p))
  BY <1>1 DEF ReadInOrder, Bijection, Injection, Surjection, IsInjective, Range
<1>3. ExistsBijection(1 .. Len(p), Range(p))
  BY <1>2 DEF ExistsBijection
<1>4. QED BY <1>1, <1>3, FS_CountingElements

\* One more file has been read.
LEMMA OrderGrows ==
  ASSUME includes \in [Files -> Seq(Files)], NEW p \in Seq(Files), ReadInOrder(p),
         NEW f \in Files, condition[f] = "fine", f \in Reach(root), Successors(f) \subseteq Range(p),
         f \notin Range(p)
  PROVE  ReadInOrder(Append(p, f)) /\ Range(Append(p, f)) = Range(p) \cup {f}
<1> DEFINE q == Append(p, f)
<1>1. /\ Len(p) \in Nat /\ DOMAIN p = 1 .. Len(p)
      /\ q \in Seq(Files) /\ Len(q) = Len(p) + 1 /\ DOMAIN q = 1 .. Len(p) + 1
      /\ \A i \in 1 .. Len(p) : q[i] = p[i]
      /\ q[Len(p) + 1] = f
  BY LenProperties, AppendProperties
<1> HIDE DEF q
<1>2. Range(q) = Range(p) \cup {f}
  <2>1. 1 .. Len(p) + 1 = (1 .. Len(p)) \cup {Len(p) + 1}
    BY <1>1
  <2>2. ASSUME NEW h \in Range(q)  PROVE h \in Range(p) \cup {f}
    <3>1. PICK i \in DOMAIN q : q[i] = h
      BY DEF Range
    <3>2. i \in 1 .. Len(p) \/ i = Len(p) + 1
      BY <1>1, <2>1
    <3>3. QED BY <1>1, <3>1, <3>2 DEF Range
  <2>3. ASSUME NEW h \in Range(p)  PROVE h \in Range(q)
    <3>1. PICK i \in DOMAIN p : p[i] = h
      BY DEF Range
    <3>2. i \in 1 .. Len(p) /\ i \in DOMAIN q
      BY <1>1, <2>1, <3>1
    <3>3. q[i] = h
      BY <1>1, <3>1, <3>2
    <3>4. QED BY <3>2, <3>3 DEF Range
  <2>4. f \in Range(q)
    <3>1. Len(p) + 1 \in DOMAIN q
      BY <1>1, <2>1
    <3>2. QED BY <1>1, <3>1 DEF Range
  <2>5. QED BY <2>2, <2>3, <2>4
<1>3. ASSUME NEW k \in 1 .. Len(q)
      PROVE  /\ condition[q[k]] = "fine" /\ q[k] \in Reach(root)
             /\ Successors(q[k]) \subseteq {q[j] : j \in 1 .. k - 1}
  <2>1. k \in Nat /\ \A j \in 1 .. k - 1 : j \in 1 .. Len(p)
    BY <1>1
  <2>2. {q[j] : j \in 1 .. k - 1} = {p[j] : j \in 1 .. k - 1}
    <3>1. \A j \in 1 .. k - 1 : q[j] = p[j]
      BY <1>1, <2>1
    <3>2. QED BY <3>1
  <2>3. CASE k \in 1 .. Len(p)
    <3>1. q[k] = p[k]
      BY <1>1, <2>3
    <3>2. /\ condition[p[k]] = "fine" /\ p[k] \in Reach(root)
          /\ Successors(p[k]) \subseteq {p[j] : j \in 1 .. k - 1}
      BY <2>3 DEF ReadInOrder
    <3>3. QED BY <2>2, <3>1, <3>2
  <2>4. CASE k = Len(p) + 1
    <3>1. q[k] = f /\ k - 1 = Len(p)
      BY <1>1, <2>4
    <3>2. Range(p) \subseteq {p[j] : j \in 1 .. Len(p)}
      BY <1>1 DEF Range
    <3>3. Range(p) \subseteq {q[j] : j \in 1 .. k - 1}
      BY <2>2, <3>1, <3>2
    <3>4. QED BY <3>1, <3>3
  <2>5. k \in 1 .. Len(p) \/ k = Len(p) + 1
    BY <1>1
  <2>6. QED BY <2>3, <2>4, <2>5
<1>4. ASSUME NEW j \in 1 .. Len(q), NEW k \in 1 .. Len(q), q[j] = q[k]  PROVE j = k
  <2>1. \A i \in 1 .. Len(p) : q[i] # f
    <3>1. \A i \in 1 .. Len(p) : p[i] \in Range(p)
      BY <1>1 DEF Range
    <3>2. QED BY <1>1, <3>1
  <2>2. \A i \in 1 .. Len(q) : i \in 1 .. Len(p) \/ i = Len(p) + 1
    BY <1>1
  <2>3. CASE j \in 1 .. Len(p) /\ k \in 1 .. Len(p)
    BY <1>1, <1>4, <2>3 DEF ReadInOrder
  <2>4. CASE j = Len(p) + 1 \/ k = Len(p) + 1
    <3>1. q[j] = f /\ q[k] = f
      BY <1>1, <1>4, <2>4
    <3>2. QED BY <2>1, <2>2, <3>1
  <2>5. QED BY <2>2, <2>3, <2>4
<1>5. ReadInOrder(q)
  BY <1>3, <1>4 DEF ReadInOrder
<1>6. QED BY <1>2, <1>5 DEF q

\* The top has passed an INCLUDE of a file that does not exist or has been read.
LEMMA MovedReads ==
  ASSUME NEW s \in Seq(Parsers), s # <<>>, NEW done, ReadSoFar(s, done),
         Exists(includes[s[Len(s)].file][s[Len(s)].next])
           => includes[s[Len(s)].file][s[Len(s)].next] \in done
  PROVE  ReadSoFar(Moved(s), done)
<1> DEFINE t == Moved(s)
<1>1. /\ Len(s) \in Nat /\ Len(s) \in 1 .. Len(s) /\ 1 \in 1 .. Len(s)
      /\ \A i \in 1 .. Len(s) : s[i] \in Parsers
  BY EmptySeq, LenProperties, ElementOfSeq
<1>2. PICK x \in Nat : s[Len(s)].next = x
  BY <1>1 DEF Parsers
<1>3. t[Len(s)].next = x + 1
  <2>1. [s[Len(s)] EXCEPT !.next = @ + 1].next = x + 1
    BY <1>1, <1>2 DEF Parsers
  <2>2. t[Len(s)] = [s[Len(s)] EXCEPT !.next = @ + 1]
    BY <1>1 DEF Moved
  <2>3. QED BY <2>1, <2>2
<1>4. /\ Len(t) = Len(s) /\ t # <<>>
      /\ \A i \in 1 .. Len(s) : t[i].file = s[i].file
      /\ \A i \in 1 .. Len(s) - 1 : t[i] = s[i]
  BY MovedParser
<1> HIDE DEF t
<1>5. t[1].file = root
  BY <1>1, <1>4 DEF ReadSoFar
<1>6. ASSUME NEW i \in 1 .. Len(t)
      PROVE  /\ Exists(t[i].file)
             /\ \A n \in 1 .. Len(includes[t[i].file]) :
                  n < t[i].next /\ Exists(includes[t[i].file][n]) => includes[t[i].file][n] \in done
  <2>1. i \in 1 .. Len(s) /\ t[i].file = s[i].file
    BY <1>4
  <2>2. Exists(t[i].file)
    BY <2>1 DEF ReadSoFar
  <2>3. ASSUME NEW n \in 1 .. Len(includes[t[i].file]), n < t[i].next,
               Exists(includes[t[i].file][n])
        PROVE  includes[t[i].file][n] \in done
    <3>1. CASE i = Len(s) /\ n = x
      BY <1>2, <2>1, <2>3, <3>1
    <3>2. CASE i # Len(s) \/ n # x
      <4>1. n < s[i].next
        <5>1. CASE i = Len(s)
          BY <1>2, <1>3, <2>3, <3>2, <5>1
        <5>2. CASE i # Len(s)
          <6>1. i \in 1 .. Len(s) - 1
            BY <1>1, <2>1, <5>2
          <6>2. QED BY <1>4, <2>3, <6>1
        <5>3. QED BY <5>1, <5>2
      <4>2. QED BY <2>1, <2>3, <4>1 DEF ReadSoFar
    <3>3. QED BY <3>1, <3>2
  <2>4. QED BY <2>2, <2>3
<1>7. ASSUME NEW i \in 1 .. Len(t), NEW j \in 1 .. Len(t), i <= j
      PROVE  t[j].file \in Reach(t[i].file)
  BY <1>4, <1>7 DEF ReadSoFar
<1>8. ReadSoFar(t, done)
  BY <1>5, <1>6, <1>7 DEF ReadSoFar
<1>9. QED BY <1>8 DEF t

\* The top has come to the INCLUDE of a file that exists, and a parser is added for it.
LEMMA PushReads ==
  ASSUME includes \in [Files -> Seq(Files)],
         NEW s \in Seq(Parsers), s # <<>>, NEW done, ReadSoFar(s, done),
         NEW f \in Successors(s[Len(s)].file)
  PROVE  ReadSoFar(Append(s, Parser(f)), done)
<1> DEFINE t == Append(s, Parser(f))
<1>1. /\ Len(s) \in Nat /\ Len(s) \in 1 .. Len(s) /\ 1 \in 1 .. Len(s)
      /\ \A i \in 1 .. Len(s) : s[i] \in Parsers
  BY EmptySeq, LenProperties, ElementOfSeq
<1>2. s[Len(s)].file \in Files
  BY <1>1 DEF Parsers
<1>3. f \in Files /\ Exists(f)
  <2>1. Successors(s[Len(s)].file) \subseteq Reach(s[Len(s)].file)
    BY <1>2, ReachIs
  <2>2. QED BY <1>2, <2>1, ReachIs DEF Successors
<1>4. Parser(f) \in Parsers /\ Parser(f).file = f /\ Parser(f).next = 1
  BY <1>3 DEF Parser, Parsers
<1>5. /\ Len(t) = Len(s) + 1 /\ t[Len(s) + 1] = Parser(f)
      /\ \A i \in 1 .. Len(s) : t[i] = s[i]
  BY <1>1, <1>4, AppendProperties
<1> HIDE DEF t
<1>6. t[1].file = root
  BY <1>1, <1>5 DEF ReadSoFar
<1>7. \A i \in 1 .. Len(t) : i \in 1 .. Len(s) \/ i = Len(s) + 1
  BY <1>1, <1>5
<1>8. ASSUME NEW i \in 1 .. Len(t)
      PROVE  /\ Exists(t[i].file)
             /\ \A n \in 1 .. Len(includes[t[i].file]) :
                  n < t[i].next /\ Exists(includes[t[i].file][n]) => includes[t[i].file][n] \in done
  <2>1. CASE i \in 1 .. Len(s)
    BY <1>5, <2>1 DEF ReadSoFar
  <2>2. CASE i = Len(s) + 1
    <3>1. t[i].file = f /\ t[i].next = 1
      BY <1>4, <1>5, <2>2
    <3>2. \A n \in 1 .. Len(includes[f]) : ~(n < 1)
      OBVIOUS
    <3>3. QED BY <1>3, <3>1, <3>2
  <2>3. QED BY <1>7, <2>1, <2>2
<1>9. ASSUME NEW i \in 1 .. Len(t), NEW j \in 1 .. Len(t), i <= j
      PROVE  t[j].file \in Reach(t[i].file)
  <2>1. CASE j \in 1 .. Len(s)
    <3>1. i \in 1 .. Len(s)
      BY <1>1, <1>9, <2>1
    <3>2. QED BY <1>5, <1>9, <2>1, <3>1 DEF ReadSoFar
  <2>2. CASE j = Len(s) + 1 /\ i \in 1 .. Len(s)
    <3>1. s[Len(s)].file \in Reach(s[i].file)
      <4>1. i <= Len(s)
        BY <1>1, <2>2
      <4>2. QED BY <1>1, <2>2, <4>1 DEF ReadSoFar
    <3>2. s[i].file \in Files
      BY <1>1, <2>2 DEF Parsers
    <3>3. f \in Reach(s[i].file)
      BY <3>1, <3>2, ReachIs
    <3>4. QED BY <1>4, <1>5, <2>2, <3>3
  <2>3. CASE j = Len(s) + 1 /\ i = Len(s) + 1
    <3>1. t[j].file = f /\ t[i].file = f
      BY <1>4, <1>5, <2>3
    <3>2. f \in Reach(f)
      BY <1>3, ReachIs
    <3>3. QED BY <3>1, <3>2
  <2>4. QED BY <1>7, <2>1, <2>2, <2>3
<1>10. ReadSoFar(t, done)
  BY <1>6, <1>8, <1>9 DEF ReadSoFar
<1>11. QED BY <1>10 DEF t

\* The top is taken away, and one more file may have been read.
LEMMA PopReads ==
  ASSUME NEW s \in Seq(Parsers), Len(s) > 1, NEW done, NEW more, done \subseteq more,
         ReadSoFar(s, done)
  PROVE  ReadSoFar(SubSeq(s, 1, Len(s) - 1), more)
<1> DEFINE t == SubSeq(s, 1, Len(s) - 1)
<1>1. Len(s) \in Nat /\ \A i \in 1 .. Len(s) - 1 : s[i] \in Parsers
  BY LenProperties, ElementOfSeq
<1>2. Len(t) = Len(s) - 1 /\ \A i \in 1 .. Len(s) - 1 : t[i] = s[i]
  <2>1. 1 \in Int /\ Len(s) - 1 \in Int /\ 1 <= Len(s) - 1
    BY <1>1
  <2>2. /\ Len(t) = (Len(s) - 1) - 1 + 1
        /\ \A i \in 1 .. (Len(s) - 1) - 1 + 1 : t[i] = s[1 + i - 1]
    BY <1>1, <2>1, SubSeqProperties
  <2>3. QED BY <1>1, <2>2
<1> HIDE DEF t
<1>3. \A i \in 1 .. Len(t) : i \in 1 .. Len(s) /\ t[i] = s[i]
  BY <1>1, <1>2
<1>4. 1 \in 1 .. Len(t) /\ s # <<>>
  BY <1>1, <1>2, EmptySeq
<1>5. t[1].file = root
  BY <1>3, <1>4 DEF ReadSoFar
<1>6. ASSUME NEW i \in 1 .. Len(t)
      PROVE  /\ Exists(t[i].file)
             /\ \A n \in 1 .. Len(includes[t[i].file]) :
                  n < t[i].next /\ Exists(includes[t[i].file][n]) => includes[t[i].file][n] \in more
  BY <1>3 DEF ReadSoFar
<1>7. ASSUME NEW i \in 1 .. Len(t), NEW j \in 1 .. Len(t), i <= j
      PROVE  t[j].file \in Reach(t[i].file)
  BY <1>3, <1>7 DEF ReadSoFar
<1>8. ReadSoFar(t, more)
  BY <1>5, <1>6, <1>7 DEF ReadSoFar
<1>9. QED BY <1>8 DEF t

\* What the verdict and the order of reading say of the script.
JudgedRight(v, p) ==
  /\ v \in Problems <=> ~Exists(root) \/ HasLoop(root) \/ HasError(root)
  /\ v = "clean" <=> IsClean(root)
  /\ v \notin Problems => /\ Range(p) = Reach(root) \ {root}
                          /\ Len(p) = Cardinality(Range(p))

\* While a script is read, nothing changes what is to be said of it.
LEMMA SameScript ==
  ASSUME UNCHANGED disk, root' = root
  PROVE  /\ ReadInOrder(parsed)' <=> ReadInOrder(parsed')
         /\ ReadSoFar(stack, Range(parsed))' <=> ReadSoFar(stack', Range(parsed'))
         /\ JudgedRight(verdict, parsed)' <=> JudgedRight(verdict', parsed')
<1>1. includes' = includes /\ condition' = condition
  BY DEF disk
<1>2. ReadInOrder(parsed)' <=> ReadInOrder(parsed')
  BY <1>1 DEF ReadInOrder, Reach, Closed, Successors, Exists
<1>3. ReadSoFar(stack, Range(parsed))' <=> ReadSoFar(stack', Range(parsed'))
  BY <1>1 DEF ReadSoFar, Reach, Closed, Successors, Exists
<1>4. HasLoop(root)' <=> HasLoop(root)
  BY <1>1 DEF HasLoop, Reach, Closed, Successors, Exists
<1>5. HasError(root)' <=> HasError(root)
  BY <1>1 DEF HasError, Reach, Closed, Successors, Exists
<1>6. HasMissing(root)' <=> HasMissing(root)
  BY <1>1 DEF HasMissing, Reach, Closed, Successors, Exists
<1>7. Reach(root)' = Reach(root) /\ (Exists(root)' <=> Exists(root))
  BY <1>1 DEF Reach, Closed, Successors, Exists
<1>8. JudgedRight(verdict, parsed)' <=> JudgedRight(verdict', parsed')
  BY <1>4, <1>5, <1>6, <1>7 DEF JudgedRight, IsClean
<1>9. QED BY <1>2, <1>3, <1>8

\* What there is to show of a step within the first script.
LEMMA ReadingGoesOn ==
  ASSUME UNCHANGED disk, root' = root, known' = {},
         seen' = active' \cup Range(parsed'), active' \cap Range(parsed') = {},
         root \notin Range(parsed'), ReadInOrder(parsed'), ReadSoFar(stack', Range(parsed'))
  PROVE  FirstReading'
  BY SameScript DEF FirstReading

\* What the parser on top says of the script: its file is read with every file at
\* work below it, and at its rest all it includes has been read.
LEMMA TopReads ==
  ASSUME IInv, FirstReading, phase = "parsing"
  PROVE  /\ stack[1].file = root
         /\ Exists(Top.file)
         /\ \A i \in 1 .. Len(stack) : Top.file \in Reach(stack[i].file)
         /\ Top.file \in Reach(root)
         /\ AtInclude /\ Exists(Included) => Included \in Successors(Top.file)
         /\ AtRest => Successors(Top.file) \subseteq Range(parsed)
<1>1. /\ stack # <<>> /\ Len(stack) \in Nat /\ Len(stack) \in 1 .. Len(stack)
      /\ 1 \in 1 .. Len(stack) /\ Top = stack[Len(stack)]
      /\ Top.file \in Files /\ Top.next \in Nat \ {0}
      /\ includes[Top.file] \in Seq(Files) /\ includes \in [Files -> Seq(Files)]
  BY TopParser DEF IInv, TypeOK, Depth
<1>2. ReadSoFar(stack, Range(parsed))
  BY DEF FirstReading
<1>3. stack[1].file = root /\ Exists(Top.file)
  BY <1>1, <1>2 DEF ReadSoFar
<1>4. \A i \in 1 .. Len(stack) : Top.file \in Reach(stack[i].file)
  <2>1. \A i \in 1 .. Len(stack) : i <= Len(stack)
    BY <1>1
  <2>2. QED BY <1>1, <1>2, <2>1 DEF ReadSoFar
<1>5. AtInclude /\ Exists(Included) => Included \in Successors(Top.file)
  <2>1. AtInclude => Top.next \in 1 .. Len(includes[Top.file])
    BY TopParser DEF IInv
  <2>2. QED BY <1>1, <2>1, IncludedIsSuccessor DEF Included
<1>6. ASSUME AtRest, NEW h \in Successors(Top.file)  PROVE h \in Range(parsed)
  <2>1. Exists(h) /\ h \in Range(includes[Top.file])
    BY DEF Successors
  <2>2. PICK n \in 1 .. Len(includes[Top.file]) : h = includes[Top.file][n]
    BY <1>1, <2>1, LenProperties DEF Range
  <2>3. n < Top.next
    BY <1>1, <1>6, LenProperties DEF AtRest
  <2>4. QED BY <1>1, <1>2, <2>1, <2>2, <2>3 DEF ReadSoFar
<1>7. QED BY <1>1, <1>3, <1>4, <1>5, <1>6

LEMMA SkipReads == ASSUME IInv, FirstReading, Skip PROVE FirstReading'
<1>1. /\ phase = "parsing" /\ stack \in Seq(Parsers) /\ stack # <<>>
      /\ Top = stack[Len(stack)]
  BY TopParser DEF IInv, Skip, AtInclude
<1>2. stack' = Moved(stack)
  BY DEF Skip, Moved, Depth
<1>3. Exists(Included) => Included \in Range(parsed)
  BY DEF Skip, FirstReading
<1>4. ReadSoFar(stack', Range(parsed))
  BY <1>1, <1>2, <1>3, MovedReads DEF FirstReading, Included
<1>5. UNCHANGED <<disk, root, known, seen, active, parsed>>
  BY DEF Skip, pass, tables
<1>6. QED BY <1>4, <1>5, ReadingGoesOn DEF FirstReading

LEMMA EnterReads == ASSUME IInv, FirstReading, Enter PROVE FirstReading'
<1>1. /\ phase = "parsing" /\ stack \in Seq(Parsers) /\ stack # <<>>
      /\ Top = stack[Len(stack)]
  BY TopParser DEF IInv, Enter, AtInclude
<1>2. Included \notin cached
  BY DEF IInv, Enter, CacheNeverHit
<1>3. /\ stack' = Append(stack, Parser(Included)) /\ active' = active \cup {Included}
      /\ seen' = seen \cup {Included} /\ parsed' = parsed
      /\ UNCHANGED <<disk, root, known>>
  BY <1>2 DEF Enter, pass
<1>4. Included \in Successors(Top.file)
  BY <1>1, TopReads DEF Enter
<1>5. ReadSoFar(stack', Range(parsed))
  BY <1>1, <1>3, <1>4, PushReads DEF FirstReading, IInv, TypeOK
<1>6. Included \notin Range(parsed)
  BY DEF Enter, FirstReading
<1>7. QED BY <1>3, <1>5, <1>6, ReadingGoesOn DEF FirstReading

\* The script may include itself, but then INCLUDE finds the loop before it has
\* read the script as an include of its own.
LEMMA LeaveReads == ASSUME IInv, FirstReading, Leave PROVE FirstReading'
<1> DEFINE f == Top.file
           t == SubSeq(stack, 1, Len(stack) - 1)
<1>1. /\ phase = "parsing" /\ stack \in Seq(Parsers) /\ Len(stack) \in Nat /\ Len(stack) > 1
      /\ Top = stack[Len(stack)] /\ f \in Files /\ parsed \in Seq(Files)
      /\ includes \in [Files -> Seq(Files)] /\ condition \in [Files -> Conditions]
  BY TopParser, LenProperties DEF IInv, TypeOK, Leave, AtRest, Depth
<1>2. IsPending(stack, active) /\ Chain(stack)
  BY DEF IInv
<1>3. f \in active /\ f \notin Range(parsed)
  <2>1. Len(stack) \in 2 .. Len(stack)
    BY <1>1
  <2>2. QED BY <1>1, <1>2, <2>1 DEF IsPending, FirstReading
<1>4. /\ stack[1].file = root /\ condition[f] = "fine" /\ f \in Reach(root)
      /\ Successors(f) \subseteq Range(parsed)
  BY <1>1, TopReads DEF Leave, Exists, Conditions
<1>5. f # root
  <2> SUFFICES ASSUME f = root PROVE FALSE
    OBVIOUS
  <2>1. 1 \in 1 .. Len(stack) - 1 /\ 2 \in 2 .. Len(stack) /\ 2 \in 1 .. Len(stack) /\ 1 + 1 = 2
    BY <1>1
  <2>2. PICK n \in 1 .. Len(includes[root]) : stack[2].file = includes[root][n]
    BY <1>2, <1>4, <2>1 DEF Chain
  <2>3. Exists(stack[2].file)
    BY <2>1 DEF FirstReading, ReadSoFar
  <2>4. stack[2].file \in Successors(root)
    BY <1>1, <2>2, <2>3, IncludedIsSuccessor
  <2>5. stack[2].file \in active
    BY <1>2, <2>1 DEF IsPending
  <2>6. QED BY <1>4, <2>4, <2>5 DEF FirstReading
<1>6. /\ parsed' = Append(parsed, f) /\ active' = active \ {f}
      /\ UNCHANGED <<disk, root, known, seen>>
  BY DEF Leave, pass
<1>7. ReadInOrder(parsed') /\ Range(parsed') = Range(parsed) \cup {f}
  BY <1>1, <1>3, <1>4, <1>6, OrderGrows DEF FirstReading
<1>8. /\ t \in Seq(Parsers) /\ t # <<>> /\ Len(t) = Len(stack) - 1
  BY <1>1, <1>2, PopKeeps
<1>9. stack' = Moved(t)
  BY <1>8 DEF Leave, Moved, Depth
<1>10. ReadSoFar(t, Range(parsed'))
  BY <1>1, <1>7, PopReads DEF FirstReading
<1>11. includes[t[Len(t)].file][t[Len(t)].next] = f
  <2>1. Len(stack) - 1 \in 1 .. Len(stack) - 1 /\ Len(stack) - 1 + 1 = Len(stack)
    BY <1>1
  <2>2. t[Len(stack) - 1] = stack[Len(stack) - 1]
    BY <1>1, <2>1
  <2>3. QED BY <1>1, <1>2, <1>8, <2>1, <2>2 DEF Chain
<1>12. ReadSoFar(stack', Range(parsed'))
  <2> HIDE DEF t, f
  <2>1. QED BY <1>7, <1>8, <1>9, <1>10, <1>11, MovedReads
<1>13. QED
  <2> HIDE DEF t, f
  <2>1. QED BY <1>3, <1>5, <1>6, <1>7, <1>12, ReadingGoesOn DEF FirstReading

LEMMA BeginReads ==
  ASSUME IInv, known = {}, seen = {}, NEW m \in Modes, NEW f \in Files, Begin(m, f), Exists(f)
  PROVE  FirstReading'
<1>1. /\ stack' = <<Parser(f)>> /\ parsed' = <<>> /\ root' = f
      /\ UNCHANGED <<disk, active, seen, known>>
  BY DEF Begin, tables
<1>2. active = {} /\ Range(<<>>) = {}
  BY DEF IInv, Range
<1>3. f \in Reach(f)
  BY ReachIs DEF IInv, TypeOK
<1>4. ReadInOrder(parsed)'
  BY <1>1, EmptySeq DEF ReadInOrder
<1>5. ReadSoFar(stack, Range(parsed))'
  <2>1. Len(stack') = 1 /\ stack'[1].file = f /\ stack'[1].next = 1
    BY <1>1 DEF Parser
  <2>2. includes' = includes /\ condition' = condition
    BY <1>1 DEF disk
  <2>3. Exists(f)' /\ f \in Reach(f)'
    BY <1>3, <2>2 DEF Exists, Reach, Closed, Successors
  <2>4. QED BY <1>1, <2>1, <2>2, <2>3 DEF ReadSoFar
<1>6. QED BY <1>1, <1>2, <1>4, <1>5 DEF FirstReading

\* A loop is reported when a file at work, with which the top is read, is included again.
LEMMA LoopJudged ==
  ASSUME IInv, FirstReading, LoopFound
  PROVE  JudgedRight(verdict', parsed')
<1>1. phase = "parsing" /\ verdict' = "loop" /\ Exists(Included) /\ Included \in active
  BY DEF LoopFound, AtInclude, Panic
<1>2. PICK i \in 2 .. Len(stack) : stack[i].file = Included
  BY <1>1 DEF IInv, IsPending
<1>3. i \in 1 .. Len(stack)
  BY <1>2, LenProperties DEF IInv, TypeOK
<1>4. /\ Top.file \in Reach(root) /\ Included \in Successors(Top.file)
      /\ Top.file \in Reach(Included)
  BY <1>1, <1>2, <1>3, TopReads DEF LoopFound
<1>5. HasLoop(root)
  BY <1>4 DEF HasLoop
<1>6. QED BY <1>1, <1>5 DEF JudgedRight, IsClean, Problems

LEMMA ErrorJudged ==
  ASSUME IInv, FirstReading, SyntaxError
  PROVE  JudgedRight(verdict', parsed')
<1>1. /\ phase = "parsing" /\ verdict' = "broken" /\ condition[Top.file] = "broken"
  BY DEF SyntaxError, AtRest, Panic
<1>2. HasError(root)
  BY <1>1, TopReads DEF HasError
<1>3. QED BY <1>1, <1>2 DEF JudgedRight, IsClean, Problems

\* When a script has been read to its end, it has been read with all it needs.
LEMMA EndReachesAll ==
  ASSUME IInv, FirstReading, EndPass
  PROVE  /\ condition[root] = "fine"
         /\ Successors(root) \subseteq Range(parsed) /\ Closed(Range(parsed))
         /\ Reach(root) = {root} \cup Range(parsed)
<1>1. /\ phase = "parsing" /\ Len(stack) = 1 /\ Top = stack[Len(stack)]
      /\ root \in Files /\ parsed \in Seq(Files)
      /\ includes \in [Files -> Seq(Files)] /\ condition \in [Files -> Conditions]
  BY TopParser DEF IInv, TypeOK, EndPass, AtRest, Depth
<1>2. Top.file = root /\ Exists(root) /\ Successors(root) \subseteq Range(parsed)
  BY <1>1, TopReads DEF EndPass
<1>3. condition[root] = "fine"
  BY <1>1, <1>2 DEF EndPass, Exists, Conditions
<1>4. DOMAIN parsed = 1 .. Len(parsed) /\ Len(parsed) \in Nat
  BY <1>1, LenProperties
<1>5. ASSUME NEW g \in Range(parsed)
      PROVE  g \in Files /\ g \in Reach(root) /\ Successors(g) \subseteq Range(parsed)
  <2>1. PICK k \in 1 .. Len(parsed) : g = parsed[k]
    BY <1>4 DEF Range
  <2>2. /\ g \in Reach(root)
        /\ Successors(g) \subseteq {parsed[j] : j \in 1 .. k - 1}
    BY <2>1 DEF FirstReading, ReadInOrder
  <2>3. \A j \in 1 .. k - 1 : parsed[j] \in Range(parsed)
    <3>1. \A j \in 1 .. k - 1 : j \in 1 .. Len(parsed)
      BY <1>4
    <3>2. QED BY <1>4, <3>1 DEF Range
  <2>4. QED BY <1>1, <2>1, <2>2, <2>3, ElementOfSeq
<1>6. Closed(Range(parsed)) /\ Closed({root} \cup Range(parsed))
  BY <1>2, <1>5 DEF Closed
<1>7. {root} \cup Range(parsed) \in SUBSET Files
  BY <1>1, <1>5
<1>8. root \in Reach(root) /\ Reach(root) \subseteq {root} \cup Range(parsed)
  BY <1>1, <1>6, <1>7, ReachIs
<1>9. QED BY <1>2, <1>3, <1>5, <1>6, <1>8

LEMMA EndJudged ==
  ASSUME IInv, FirstReading, EndPass
  PROVE  JudgedRight(verdict', parsed')
<1> DEFINE R == {root} \cup Range(parsed)
<1>1. /\ root \in Files /\ parsed \in Seq(Files) /\ includes \in [Files -> Seq(Files)]
      /\ DOMAIN parsed = 1 .. Len(parsed) /\ Range(parsed) \in SUBSET Files
  BY LenProperties, ElementOfSeq DEF IInv, TypeOK, Range
<1>2. /\ condition[root] = "fine" /\ Successors(root) \subseteq Range(parsed)
      /\ Closed(Range(parsed)) /\ Reach(root) = R
  BY EndReachesAll
<1>3. /\ known' = R /\ parsed' = parsed
      /\ verdict' = IF UnknownCall(R) THEN "warned" ELSE "clean"
  BY DEF EndPass, FirstReading
<1>4. \A g \in R : condition[g] = "fine"
  <2>1. ASSUME NEW g \in Range(parsed)  PROVE condition[g] = "fine"
    <3>1. PICK k \in 1 .. Len(parsed) : g = parsed[k]
      BY <1>1 DEF Range
    <3>2. QED BY <3>1 DEF FirstReading, ReadInOrder
  <2>2. QED BY <1>2, <2>1
<1>5. Exists(root) /\ ~HasError(root)
  BY <1>2, <1>4 DEF Exists, HasError
<1>6. ~HasLoop(root)
  <2>1. SUFFICES ASSUME NEW g \in R, NEW h \in Successors(g), g \in Reach(h)  PROVE FALSE
    BY <1>2 DEF HasLoop
  <2>2. CASE g = root
    <3>1. h \in Range(parsed) /\ h \in Files
      BY <1>1, <1>2, <2>2
    <3>2. Reach(h) \subseteq Range(parsed)
      BY <1>1, <1>2, <3>1, ReachIs
    <3>3. QED BY <2>1, <2>2, <3>2 DEF FirstReading
  <2>3. CASE g \in Range(parsed)
    <3>1. PICK k \in 1 .. Len(parsed) : g = parsed[k]
      BY <1>1, <2>3 DEF Range
    <3>2. QED BY <1>1, <2>1, <3>1, NoLoopInOrder DEF FirstReading
  <2>4. QED BY <2>2, <2>3
<1>7. UnknownCall(R) <=> HasMissing(root)
  <2>1. \A g \in R : Range(includes[g]) \subseteq R <=> Range(includes[g]) = Successors(g)
    <3>1. ASSUME NEW g \in R, Range(includes[g]) \subseteq R
          PROVE  Range(includes[g]) = Successors(g)
      BY <1>4, <3>1 DEF Successors, Exists
    <3>2. \A g \in R : Successors(g) \subseteq R
      BY <1>2 DEF Closed
    <3>3. QED BY <3>1, <3>2
  <2>2. QED BY <1>2, <2>1 DEF UnknownCall, HasMissing
<1>8. Len(parsed) = Cardinality(Range(parsed))
  BY <1>1, ReadOnce DEF FirstReading
<1>9. Range(parsed) = Reach(root) \ {root}
  BY <1>2 DEF FirstReading
<1>10. verdict' \notin Problems /\ (verdict' = "clean" <=> ~UnknownCall(R))
  BY <1>3 DEF Problems
<1>11. QED BY <1>3, <1>5, <1>6, <1>7, <1>8, <1>9, <1>10 DEF JudgedRight, IsClean

--------------------------------------------------------------------------------
(* The first script is judged right.                                        *)

\* Before a script is read nothing is known, and a verdict is there once it has been read.
LEMMA FirstTables ==
  ASSUME IInv, FirstInv, [Next]_vars
  PROVE  /\ phase' = "parsing" <=> (verdict' = None /\ passes' > 0)
         /\ passes' = 0 <=> phase' = "idle"
         /\ passes' = 0 => known' = {} /\ seen' = {}
<1>1. None \notin Verdicts /\ passes \in Nat
  BY IncludesAssumption DEF IInv, TypeOK
<1>2. CASE UNCHANGED vars
  BY <1>2 DEF vars, pass, tables, FirstInv
<1>3. CASE Skip \/ Enter \/ Leave
  <2>1. /\ phase = "parsing" /\ UNCHANGED <<phase, passes, verdict, known>>
    BY <1>3 DEF Skip, Enter, Leave, AtInclude, AtRest, pass
  <2>2. QED BY <2>1 DEF FirstInv
<1>4. CASE LoopFound \/ SyntaxError \/ EndPass
  <2>1. phase = "parsing" /\ passes' = passes /\ verdict' \in Verdicts
    BY <1>4 DEF LoopFound, SyntaxError, EndPass, AtInclude, AtRest, Panic, pass, Verdicts, Problems
  <2>2. phase' \in {"executing", "ended"}
    BY <1>4 DEF LoopFound, SyntaxError, EndPass, Panic, AfterPass
  <2>3. QED BY <1>1, <2>1, <2>2 DEF FirstInv
<1>5. CASE \E m \in Modes, f \in Files : Begin(m, f)
  <2>1. PICK m \in Modes, f \in Files : Begin(m, f)
    BY <1>5
  <2>2. passes' = passes + 1
    BY <2>1 DEF Begin
  <2>3. \/ phase' = "parsing" /\ verdict' = None
        \/ phase' \in {"executing", "ended"} /\ verdict' = "unreadable"
    BY <2>1 DEF Begin
  <2>4. QED BY <1>1, <2>2, <2>3 DEF Verdicts, Problems
<1>6. CASE Exit
  BY <1>6 DEF Exit, pass, tables, FirstInv
<1>7. QED BY <1>2, <1>3, <1>4, <1>5, <1>6 DEF Next, Parse

\* The part of FirstInv that speaks of the first script.
FirstPart ==
  /\ passes = 1 /\ phase = "parsing" => FirstReading
  /\ FirstPassIsRight

\* A step of the parsers that reads on.
LEMMA ReadOnStep ==
  ASSUME IInv, FirstInv, Skip \/ Enter \/ Leave
  PROVE  FirstPart'
<1>1. /\ phase = "parsing" /\ UNCHANGED <<phase, passes, verdict>>
  BY DEF Skip, Enter, Leave, AtInclude, AtRest, pass
<1>2. verdict' = None
  BY <1>1 DEF FirstInv
<1>3. passes = 1 => FirstReading'
  BY <1>1, SkipReads, EnterReads, LeaveReads DEF FirstInv
<1>4. QED BY <1>1, <1>2, <1>3 DEF FirstPart, FirstPassIsRight

\* A step of the parsers that ends the reading.
LEMMA VerdictStep ==
  ASSUME IInv, FirstInv, LoopFound \/ SyntaxError \/ EndPass
  PROVE  FirstPart'
<1>1. phase = "parsing" /\ UNCHANGED <<disk, root, passes>>
  BY DEF LoopFound, SyntaxError, EndPass, AtInclude, AtRest, Panic, pass
<1>2. phase' # "parsing"
  BY DEF LoopFound, SyntaxError, EndPass, Panic, AfterPass
<1>3. passes = 1 => JudgedRight(verdict', parsed')
  BY <1>1, LoopJudged, ErrorJudged, EndJudged DEF FirstInv
<1>4. passes = 1 => JudgedRight(verdict, parsed)'
  BY <1>1, <1>3, SameScript
<1>5. QED BY <1>1, <1>2, <1>4 DEF FirstPart, FirstPassIsRight, JudgedRight

\* runFileInternal begins with a script.
LEMMA BeginStep ==
  ASSUME IInv, FirstInv, NEW m \in Modes, NEW f \in Files, Begin(m, f)
  PROVE  FirstPart'
<1>1. passes' = passes + 1 /\ passes \in Nat /\ root' = f /\ UNCHANGED disk
  BY DEF Begin, IInv, TypeOK
<1>2. CASE passes # 0
  BY <1>1, <1>2 DEF FirstPart, FirstPassIsRight
<1>3. CASE passes = 0 /\ Exists(f)
  <2>1. known = {} /\ seen = {}
    BY <1>3 DEF FirstInv
  <2>2. FirstReading' /\ verdict' = None
    BY <1>3, <2>1, BeginReads DEF Begin
  <2>3. QED BY <2>2 DEF FirstPart, FirstPassIsRight
<1>4. CASE passes = 0 /\ ~Exists(f)
  <2>1. phase' # "parsing" /\ verdict' = "unreadable"
    BY <1>4 DEF Begin
  <2>2. ~Exists(root)'
    BY <1>1, <1>4 DEF Exists, disk
  <2>3. JudgedRight(verdict, parsed)'
    BY <2>1, <2>2 DEF JudgedRight, IsClean, Problems
  <2>4. QED BY <2>1, <2>3 DEF FirstPart, FirstPassIsRight, JudgedRight
<1>5. QED BY <1>2, <1>3, <1>4

\* A step that reads nothing.
LEMMA RestStep ==
  ASSUME IInv, FirstInv, Exit \/ UNCHANGED vars
  PROVE  FirstPart'
<1>1. UNCHANGED <<disk, root, passes, verdict, parsed, stack, tables, known>>
  BY DEF Exit, vars, pass, tables
<1>2. phase' = "parsing" => phase = "parsing"
  BY DEF Exit, vars
<1>3. passes = 1 /\ phase = "parsing" => FirstReading'
  BY <1>1, ReadingGoesOn DEF FirstInv, FirstReading, tables
<1>4. passes = 1 /\ verdict # None => JudgedRight(verdict, parsed)
  BY DEF FirstInv, FirstPassIsRight, JudgedRight
<1>5. passes = 1 /\ verdict # None => JudgedRight(verdict, parsed)'
  BY <1>1, <1>4, SameScript
<1>6. QED BY <1>1, <1>2, <1>3, <1>5 DEF FirstPart, FirstPassIsRight, JudgedRight

LEMMA StepFirstInv == IInv /\ FirstInv /\ [Next]_vars => FirstInv'
<1> SUFFICES ASSUME IInv, FirstInv, [Next]_vars PROVE FirstInv'
  OBVIOUS
<1>1. FirstPart'
  <2>1. CASE Skip \/ Enter \/ Leave
    BY <2>1, ReadOnStep
  <2>2. CASE LoopFound \/ SyntaxError \/ EndPass
    BY <2>2, VerdictStep
  <2>3. CASE \E m \in Modes, f \in Files : Begin(m, f)
    BY <2>3, BeginStep
  <2>4. CASE Exit \/ UNCHANGED vars
    BY <2>4, RestStep
  <2>5. QED BY <2>1, <2>2, <2>3, <2>4 DEF Next, Parse
<1>2. QED BY <1>1, FirstTables DEF FirstInv, FirstPart

\* The first script of a process is judged by its files, for every graph of INCLUDEs:
\* an error or a loop is reported exactly if there is one, and a script without is read
\* with every file it leads to, each of them once (parser.go:1229, 1234; Readme.md:153).
THEOREM FirstPassCorrect == Spec => []FirstPassIsRight
<1>1. Init => FirstInv
  BY IncludesAssumption DEF Init, FirstInv, FirstPassIsRight
<1>2. FirstInv => FirstPassIsRight
  BY DEF FirstInv
<1>3. QED BY <1>1, <1>2, StepFirstInv, Invariance, PTL DEF Spec
================================================================================
