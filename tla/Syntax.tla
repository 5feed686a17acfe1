--------------------------------- MODULE Syntax ---------------------------------
(***************************************************************************)
(* The statements of a script: parser.go, which reads the tokens by        *)
(* recursive descent, and walker.go, which warns of calls nobody answers.  *)
(*                                                                         *)
(* Beside scripts, expressions and texts are read: their trees and lines   *)
(* are those of modules Expressions and Lexer.                             *)
(*                                                                         *)
(* A token stands for the part of a line the parser consumes in one go; an *)
(* expression in it is one that parses.  The stack of the parser's active  *)
(* calls is explicit: one frame for a construct, with  *)
(* the part of it that is read now, and one for a file.  An INCLUDE reads  *)
(* the file at its place, up to its EOF; which files are read and how      *)
(* often is the subject of module Includes.                                *)
(*                                                                         *)
(* Of what the code permits, Features names what is enumerated:            *)
(*   "nested_procedure"  a SUB inside IF, FOR, ... (not inside a SUB)      *)
(*   "nested_include"    an INCLUDE that is not on the top level           *)
(*   "nested_public"     a PUBLIC inside a SUB                             *)
(*   "multiline_braces"  a line that ends inside the {} of a $"..."        *)
(***************************************************************************)
EXTENDS Expressions, Lexer

CONSTANTS Features,      \* a set of the names above
          Vocabularies,  \* sets of tokens a script is made of
          MaxTokens,     \* the longest script, the EOF of the main file included
          MaxSymbols,    \* the longest expression
          Alphabet,      \* the characters of a text; a "_" may continue a line
          MaxLetters     \* the longest text

ASSUME SyntaxAssumption ==
  /\ Features \subseteq {"nested_procedure", "nested_include", "nested_public", "multiline_braces"}
  /\ Alphabet \subseteq Letters
  /\ MaxTokens \in Nat \ {0} /\ MaxSymbols \in Nat /\ MaxLetters \in Nat

Loops  == {"FOR", "WHILE", "DO"}
Blocks == Loops \cup {"SELECT", "IF", "TRY"}
EOF    == <<"EOF", "">>

\* The token that ends a construct.
Closer(kind) == CASE kind = "FOR"  -> <<"NEXT", "">>
                  [] kind = "DO"   -> <<"LOOP", "">>
                  [] kind = "FILE" -> EOF
                  [] OTHER         -> <<"END", kind>>

VARIABLES what,       \* "script", "expression" or "text"
          words,      \* the vocabulary of a script
          read,       \* what was read so far
          stack,      \* the active calls of the parser, the main file first
          loopDepth, loopStack, procStack,
          verdict,    \* "reading", "accepted", "error"
          warnings    \* of the walker: [name, context]

parser == <<loopDepth, loopStack, procStack>>
vars   == <<what, words, read, stack, parser, verdict, warnings>>

Top == Last(stack)

\* A statement: its kind, its name, and the statements of all its parts in one sequence.
Node(kind, name, body) == [kind |-> kind, name |-> name, body |-> body]

Frame(kind, name, part) ==
  [kind |-> kind, name |-> name, part |-> part, body |-> <<>>,
   loops |-> loopStack, procs |-> procStack]

Init ==
  /\ what \in {"script", "expression", "text"}
  /\ words \in IF what = "script" THEN Vocabularies ELSE {{}}
  /\ read = <<>> /\ verdict = "reading" /\ warnings = {}
  /\ loopDepth = 0 /\ loopStack = <<>> /\ procStack = <<>>
  /\ stack = << [kind |-> "FILE", name |-> "", part |-> "body", body |-> <<>>,
                 loops |-> <<>>, procs |-> <<>>] >>

Add(frames, node) == [frames EXCEPT ![Len(frames)].body = Append(@, node)]

--------------------------------------------------------------------------------
(***************************************************************************)
(* The walker.                                                             *)
(***************************************************************************)

RECURSIVE registerFuncsAndSubs(_), collectDeclaredNames(_), findProcs(_), calls(_)

\* A bug of the kind the walker's four walks over the same tree invite: one of them goes
\* deeper than the others.
registerFuncsAndSubs_TopLevel(stmts) ==
  {n.name : n \in {m \in ToSet(stmts) : m.kind = "SUB"}}

registerFuncsAndSubs(stmts) ==
  UNION {CASE n.kind = "SUB"  -> {n.name}
           [] n.kind = "FILE" -> registerFuncsAndSubs(n.body)
           [] OTHER           -> {} : n \in ToSet(stmts)}

\* The names of a piece of the script; a PUBLIC counts for its procedure alone, like a DIM.
collectDeclaredNames(stmts) ==
  UNION {CASE n.kind \in {"DIM", "PUBLIC"} -> {n.name}
           [] n.kind = "SUB"              -> {}
           [] OTHER                       -> collectDeclaredNames(n.body) : n \in ToSet(stmts)}

findProcs(stmts) ==
  UNION {CASE n.kind = "SUB"  -> {n}
           [] n.kind = "FILE" -> findProcs(n.body)
           [] OTHER           -> {} : n \in ToSet(stmts)}

\* walkStmts: the names that are called; the body of a procedure is walked on its own.
calls(stmts) ==
  UNION {CASE n.kind = "CALL" -> {n.name}
           [] n.kind = "SUB"  -> {}
           [] OTHER           -> calls(n.body) : n \in ToSet(stmts)}

reportIfUnknown(names, vars_, known, context) ==
  {[name |-> n, context |-> context] : n \in names \ (vars_ \cup known)}

CheckUnknownCalls(stmts) ==
  LET known        == registerFuncsAndSubs(stmts)
      topLevelVars == collectDeclaredNames(stmts)
  IN  reportIfUnknown(calls(stmts), topLevelVars, known, "Top-Level")
      \cup UNION {reportIfUnknown(calls(p.body), topLevelVars \cup collectDeclaredNames(p.body),
                                  known, p.name) : p \in findProcs(stmts)}

--------------------------------------------------------------------------------
(***************************************************************************)
(* The parser: what it does with the token t.                              *)
(***************************************************************************)

\* Right after SELECT only CASE and END SELECT are looked for.
StatementFits == ~ (Top.kind = "SELECT" /\ Top.part = "head")

BlockFits(t) == t[1] \in Blocks /\ StatementFits

OpenBlock(t) ==
  /\ BlockFits(t)
  /\ stack' = Append(stack, Frame(t[1], "", IF t[1] = "SELECT" THEN "head" ELSE "body"))
  /\ loopDepth' = IF t[1] \in Loops THEN loopDepth + 1 ELSE loopDepth
  /\ loopStack' = IF t[1] \in Loops THEN Append(loopStack, t[1]) ELSE loopStack
  /\ UNCHANGED <<procStack, verdict, warnings>>

\* The next part of a construct: its kind, the part before, the token, the part it begins.
IfParts ==
  { <<"IF", "body", <<"ELSEIF", "">>, "body">>,     <<"IF", "body", <<"ELSE", "">>, "else">> }

SelectParts ==
  { <<"SELECT", "head", <<"CASE", "">>, "case">>,   <<"SELECT", "head", <<"CASE", "ELSE">>, "else">>,
    <<"SELECT", "case", <<"CASE", "">>, "case">>,   <<"SELECT", "case", <<"CASE", "ELSE">>, "else">> }

TryParts ==
  { <<"TRY", "body", <<"CATCH", "">>, "catch">>,    <<"TRY", "body", <<"FINALLY", "">>, "finally">>,
    <<"TRY", "catch", <<"FINALLY", "">>, "finally">> }

NextParts(t) == {p \in IfParts \cup SelectParts \cup TryParts : p[1] = Top.kind /\ p[2] = Top.part /\ p[3] = t}

NextPart(t) ==
  /\ \E p \in NextParts(t) : stack' = [stack EXCEPT ![Len(stack)].part = p[4]]
  /\ UNCHANGED <<parser, verdict, warnings>>

CloseFits(t) ==
  /\ t = Closer(Top.kind)
  /\ ~ (Top.kind = "TRY" /\ Top.part = "body")

Close(t) ==
  /\ CloseFits(t) /\ Len(stack) > 1
  /\ stack' = Add(Front(stack), Node(Top.kind, Top.name, Top.body))
  /\ loopDepth' = IF Top.kind \in Loops THEN loopDepth - 1 ELSE loopDepth
  /\ loopStack' = IF Top.kind = "FILE" THEN Top.loops
                  ELSE IF Top.kind \in Loops THEN Front(loopStack) ELSE loopStack
  /\ procStack' = IF Top.kind = "FILE" THEN Top.procs
                  ELSE IF Top.kind = "SUB" THEN Front(procStack) ELSE procStack
  /\ UNCHANGED <<verdict, warnings>>

SubFits(t) ==
  /\ t[1] = "SUB" /\ StatementFits
  /\ procStack = <<>>

OpenSub(t) ==
  /\ SubFits(t)
  /\ stack' = Append(stack, Frame("SUB", t[2], "body"))
  /\ procStack' = Append(procStack, "SUB")
  /\ UNCHANGED <<loopDepth, loopStack, verdict, warnings>>

\* The parser of the included file knows the depth of the loops, not which loops they
\* are, and not the procedure.
IncludeFits(t) == t[1] = "INCLUDE" /\ StatementFits

Include(t) ==
  /\ IncludeFits(t)
  /\ stack' = Append(stack, Frame("FILE", "", "body"))
  /\ loopStack' = <<>> /\ procStack' = <<>>
  /\ UNCHANGED <<loopDepth, verdict, warnings>>

ExitFits(t) == t[2] \in Loops => loopDepth > 0

\* A bug of the kind the two ways to know the loop invite: the kind is not compared.
ContinueFits_AnyLoop(t) == loopDepth > 0 /\ loopStack # <<>>

ContinueFits(t) ==
  /\ loopDepth > 0 /\ loopStack # <<>>
  /\ t[2] \in Loops => t[2] = Last(loopStack)

SimpleFits(t) ==
  /\ StatementFits
  /\ t[1] \in {"DIM", "PUBLIC", "CALL", "EXIT", "CONTINUE"}
  /\ t[1] = "EXIT" => ExitFits(t)
  /\ t[1] = "CONTINUE" => ContinueFits(t)

Simple(t) ==
  /\ SimpleFits(t)
  /\ stack' = Add(stack, Node(t[1], t[2], <<>>))
  /\ UNCHANGED <<parser, verdict, warnings>>

\* The main file is read; the walker goes over its statements.
Accept(t) ==
  /\ CloseFits(t) /\ Len(stack) = 1
  /\ verdict' = "accepted"
  /\ warnings' = CheckUnknownCalls(Top.body)
  /\ UNCHANGED <<stack, parser>>

Fits(t) == \/ BlockFits(t) \/ NextParts(t) # {} \/ CloseFits(t)
           \/ SubFits(t) \/ IncludeFits(t) \/ SimpleFits(t)

\* The function error of the parser: a panic out of all its calls.
Fail(t) ==
  /\ ~ Fits(t)
  /\ verdict' = "error"
  /\ UNCHANGED <<stack, parser, warnings>>

--------------------------------------------------------------------------------

InFilesOnly == \A i \in 1 .. Len(stack) : stack[i].kind = "FILE"

\* The scripts that are enumerated: a name is a procedure once; the habits of Features.
Enumerated(t) ==
  /\ t[1] = "SUB" => /\ t \notin ToSet(read)
                     /\ procStack # <<>> \/ InFilesOnly \/ "nested_procedure" \in Features
  /\ t[1] = "INCLUDE" => InFilesOnly \/ "nested_include" \in Features
  /\ t[1] = "PUBLIC" => procStack = <<>> \/ "nested_public" \in Features

Read(t) ==
  /\ verdict = "reading" /\ Len(read) < MaxTokens /\ Enumerated(t)
  /\ read' = Append(read, t) /\ UNCHANGED <<what, words>>

Token == \E t \in words :
  Read(t) /\ (\/ OpenBlock(t) \/ NextPart(t) \/ Close(t) \/ OpenSub(t)
              \/ Include(t) \/ Simple(t) \/ Accept(t) \/ Fail(t))

\* An expression: after an operand what may follow one, else what an operand begins with.
Symbol ==
  /\ what = "expression" /\ Len(read) < MaxSymbols
  /\ \E s \in IF read # <<>> /\ Last(read) \in {"x", ")", "}"} THEN Follows
              ELSE Begins \cup (IF read # <<>> /\ Last(read) \in {"f(", "{", ","}
                                THEN {")", "}"} ELSE {}) :
       read' = Append(read, s)
  /\ UNCHANGED <<what, words, stack, parser, verdict, warnings>>

\* A text of any characters.
Letter ==
  /\ what = "text" /\ Len(read) < MaxLetters
  /\ \E c \in Alphabet : read' = Append(read, c)
  /\ \/ "multiline_braces" \in Features
     \/ ~ \E i, j, k \in DOMAIN read' :
            i < j /\ j < k /\ read'[i] = "$" /\ read'[j] = "{" /\ read'[k] = "nl"
  /\ UNCHANGED <<what, words, stack, parser, verdict, warnings>>

Next == Token \/ Symbol \/ Letter

Spec == Init /\ [][Next]_vars

--------------------------------------------------------------------------------
(***************************************************************************)
(* What a script is: all of up to MaxTokens tokens, by length.  A context  *)
(* is "top", "block" (no loop around it) or the kind of the innermost loop.*)
(***************************************************************************)

Contexts   == <<"top", "block", "FOR", "WHILE", "DO">>
Around(c)  == CHOOSE i \in 1 .. Len(Contexts) : Contexts[i] = c
Below(c)   == IF c = "top" THEN "block" ELSE c
Then(A, B) == {a \o b : a \in A, b \in B}

\* The sequences of length n, with those of length m in table[m + 1].
Texts(table, n, w) ==
  LET One(T)      == {<<t>> : t \in T \cap w}
      Of(f, m, c) == IF m < 0 THEN {} ELSE table[m + 1][Around(c)][f]
      block(m, c) == Of("block", m, Below(c))
      \* The token t, a block, and what has to follow it.
      Part(t, c, f) == UNION {Then(One({t}), Then(block(m, c), Of(f, n - 1 - m, c))) : m \in 0 .. n - 1}
      End(t, c)     == Then(One({t}), block(n - 2, c))

      simple(c) == {t \in w : \/ t[1] \in {"DIM", "PUBLIC", "CALL"}
                              \/ t[1] = "EXIT" /\ (t[2] \in Loops => c \in Loops)
                              \/ t[1] = "CONTINUE" /\ c \in Loops /\ t[2] \in {"", c}}
      ifRest(c)    == (IF n = 1 THEN One({<<"END", "IF">>}) ELSE {})
                      \cup Part(<<"ELSEIF", "">>, c, "ifRest")
                      \cup Then(End(<<"ELSE", "">>, c), One({<<"END", "IF">>}))
      caseRest(c)  == (IF n = 1 THEN One({<<"END", "SELECT">>}) ELSE {})
                      \cup Part(<<"CASE", "">>, c, "caseRest")
                      \cup Then(End(<<"CASE", "ELSE">>, c), One({<<"END", "SELECT">>}))
      finally(c)   == Then(End(<<"FINALLY", "">>, c), One({<<"END", "TRY">>}))
      tryRest(c)   == Then(End(<<"CATCH", "">>, c), One({<<"END", "TRY">>}))
                      \cup Part(<<"CATCH", "">>, c, "finally") \cup finally(c)
      stmt(c) ==
        (IF n = 1 THEN One(simple(c)) ELSE {})
        \cup Part(<<"IF", "">>, c, "ifRest") \cup Part(<<"TRY", "">>, c, "tryRest")
        \cup Then(One({<<"SELECT", "">>}), Of("caseRest", n - 1, c))
        \cup UNION {Then(Then(One({<<k, "">>}), Of("block", n - 2, k)), One({Closer(k)})) : k \in Loops}
        \cup (IF c # "top" THEN {}
              ELSE UNION {Then(End(t, "block"), One({<<"END", "SUB">>})) : t \in {u \in w : u[1] = "SUB"}}
                   \cup Then(Then(One({<<"INCLUDE", "">>}), Of("block", n - 2, "top")), One({EOF})))
      \* A first statement, shorter ones and one of all n tokens, and the rest.
      texts(c) == IF n = 0 THEN {<<>>}
                  ELSE stmt(c) \cup UNION {Then(Of("stmt", m, c), Of("block", n - m, c)) : m \in 1 .. n - 1}
      entry(c) == [stmt |-> stmt(c), block |-> texts(c), ifRest |-> ifRest(c),
                   caseRest |-> caseRest(c), tryRest |-> tryRest(c), finally |-> finally(c)]
  IN  <<entry("top"), entry("block"), entry("FOR"), entry("WHILE"), entry("DO")>>

Scripts(w) ==
  LET table == FoldLeft(LAMBDA t, n : Append(t, Texts(t, n, w)), <<>>,
                        [n \in 1 .. MaxTokens |-> n - 1])
      all   == UNION {table[n][1].block : n \in 1 .. MaxTokens}
  IN  {Append(s, EOF) : s \in {r \in all : \A i, j \in DOMAIN r : r[i][1] = "SUB" /\ r[i] = r[j] => i = j}}

Language == UNION {Scripts(w) : w \in Vocabularies}
Beginnings == UNION {Prefixes(s) : s \in Language} \ {<<>>}

--------------------------------------------------------------------------------
(***************************************************************************)
(* Properties.                                                             *)
(***************************************************************************)

Open(kinds) == SelectSeq(stack, LAMBDA f : f.kind \in kinds)

\* TypeOK: the counters the parser keeps beside its calls say what is open: loopDepth all
\* loops, the two stacks those of the file being read ("Gleicher Parser-Kontext",
\* parser.go:1277, passes on the depth alone).
TypeOK ==
  LET file == CHOOSE i \in 1 .. Len(stack) :
                stack[i].kind = "FILE" /\ \A j \in i + 1 .. Len(stack) : stack[j].kind # "FILE"
      here == SubSeq(stack, file, Len(stack))
      kinds(K) == [i \in 1 .. Len(SelectSeq(here, LAMBDA f : f.kind \in K)) |->
                     SelectSeq(here, LAMBDA f : f.kind \in K)[i].kind]
  IN  /\ verdict \in {"reading", "accepted", "error"}
      /\ stack # <<>> /\ stack[1].kind = "FILE"
      /\ loopDepth = Len(Open(Loops))
      /\ loopStack = kinds(Loops)
      /\ procStack = kinds({"SUB"})
      /\ warnings # {} => verdict = "accepted"

\* AcceptedIffWellFormed: the parser accepts a script iff it is one of the language: every
\* construct is closed by its own end, its parts are in order, a TRY has a CATCH or a
\* FINALLY, EXIT and CONTINUE of a loop are in one of the same procedure.  It refuses a
\* script at the first token no script goes on with, never later.
AcceptedIffWellFormed ==
  /\ verdict = "accepted" => read \in Language
  /\ verdict = "error"    => read \notin Beginnings

\* The procedure around token k of the text: the last SUB without its END before k.
Around_(k) ==
  LET subs   == {m \in 1 .. k : read[m][1] = "SUB"}
      ends   == {m \in 1 .. k : read[m] = <<"END", "SUB">>}
      open   == {m \in subs : \A j \in m .. k : Cardinality(ends \cap m .. j)
                                                 < Cardinality(subs \cap m .. j)}
  IN  IF open = {} THEN "Top-Level" ELSE read[Max(open)][2]

\* WarningsAreRight: a call is warned of iff nothing in the text answers it: no procedure
\* of that name anywhere, no variable of the top level or of the same procedure, and no
\* PUBLIC anywhere: it is "im gesamten Skript sichtbar" (Readme.md:365).
\* "verschachtelte Deklarationen sind laut Parser ohnehin nicht erlaubt" (walker.go:190)
\* is why the walker looks for procedures on the top level only.
WarningsAreRight ==
  verdict = "accepted" =>
    LET answered(k) ==
          \E m \in 1 .. Len(read) :
            /\ read[m][1] \in {"SUB", "DIM", "PUBLIC"} /\ read[m][2] = read[k][2]
            /\ read[m][1] = "DIM" => Around_(m) \in {"Top-Level", Around_(k)}
    IN  warnings = {[name |-> read[k][2], context |-> Around_(k)] :
                      k \in {j \in 1 .. Len(read) : read[j][1] = "CALL" /\ ~ answered(j)}}

\* ExpressionsParseRight: the tree of an expression is the one that is meant; a text that
\* means nothing is an error.
ExpressionsParseRight == what = "expression" /\ read # <<>> => Parsed(read) = Meant(read)

\* LinesAreRight: an error of the lexer names the line it is in, and up to there the line
\* the parser names, "Zeilen bis zur aktuellen Parser-Position" (parser.go:165), is that of
\* the token it is at, whatever comments, strings and interpolations go before.
LinesAreRight ==
  what = "text" =>
    LET tokens == tokenize(read)
        right(k) == 1 + Breaks(read, 1, tokens[k].at - 1)
        error  == First(1, Len(tokens), LAMBDA k : tokens[k].type = "ERROR")
    IN  /\ \A k \in DOMAIN tokens : tokens[k].type = "ERROR" => tokens[k].line = right(k)
        /\ \A k \in 1 .. error - 1 : currentLine(tokens, k - 1) = right(k)

================================================================================
