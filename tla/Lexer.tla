--------------------------------- MODULE Lexer ----------------------------------
(***************************************************************************)
(* lexer.go: the tokens of a text, and the line each of them is on.        *)
(*                                                                         *)
(* The lexer knows its line and writes it into the errors it emits; the    *)
(* parser has no lines, it counts those of the tokens it has consumed.     *)
(* A character stands for its class: "a" for letters and digits, "+" for   *)
(* the operators, "?" for what is no token; "nl" ends a line.  A token is  *)
(* [type, line, at, breaks]: the line the lexer is in, the place in the    *)
(* text, the ends of lines inside it.                                      *)
(***************************************************************************)
EXTENDS Integers, Sequences, FiniteSets, FiniteSetsExt, SequencesExt

Letters == {"a", "+", "'", "/", "quote", "$", "{", "}", "nl", "sp", "_", "?"}

Breaks(s, i, j) == Cardinality({k \in i .. j : s[k] = "nl"})

\* The first place from i to j where the condition holds; without one, the place after j.
First(i, j, Holds(_)) == Min({k \in i .. j : Holds(k)} \cup {j + 1})

\* A bug of the kind the comment "PATCH 2a" names: the lines in a comment are not counted.
CommentLines_None(s, i, j) == 0

\* The lines a comment between i and j goes over.
CommentLines(s, i, j) == Breaks(s, i, j)

\* The tokens of s[first .. last], the first of which is on the given line.
tokenizeFrom(s, first, last, startLine) ==
  LET has(i, j, c) == i <= j /\ s[i] = c
      doubled(i, j)  == has(i + 1, j, s[i])
      tok(type, line, at) == [type |-> type, line |-> line, at |-> at, breaks |-> 0]

      \* tokenizeInterpolatedString from i: the place after it, its expressions, or an error.
      text[i \in 1 .. last + 2, j \in 0 .. last] ==
        LET failed(k) == [next |-> k, failed |-> TRUE, exprs |-> <<>>]
            depth(k)  == Cardinality({m \in i + 1 .. k - 1 : s[m] = "{"})
                           - Cardinality({m \in i + 1 .. k - 1 : s[m] = "}"})
            close     == First(i + 1, j, LAMBDA k : s[k] = "}" /\ depth(k) = 0)
        IN  IF i > j \/ has(i, j, "nl") THEN failed(i)
            ELSE IF s[i] \in {"quote", "{", "}"} /\ doubled(i, j) THEN text[i + 2, j]
            ELSE CASE s[i] = "quote" -> [next |-> i + 1, failed |-> FALSE, exprs |-> <<>>]
                   [] s[i] = "}" -> failed(i)
                   [] s[i] = "{" /\ close > j -> failed(close)
                   [] s[i] = "{" /\ close <= j ->
                        LET rest == text[close + 1, j]
                        IN  [rest EXCEPT !.exprs = <<<<i + 1, close>>>> \o @]
                   [] OTHER -> text[i + 1, j]

      \* A string from i: the place of its end, a doubled quote is none.
      ending[i \in 1 .. last + 2, j \in 0 .. last] ==
        IF i > j \/ has(i, j, "nl") THEN i
        ELSE CASE s[i] = "quote" /\ ~ doubled(i, j) -> i
               [] s[i] = "quote" /\ doubled(i, j) -> ending[i + 2, j]
               [] OTHER -> ending[i + 1, j]

      lex[i \in 1 .. last + 2, j \in 0 .. last, line \in 1 .. last + 2] ==
        LET comment == First(i + 2, j - 1, LAMBDA k : s[k] = "'" /\ s[k + 1] = "/")
            endLine == First(i, j, LAMBDA k : s[k] = "nl")
            word    == First(i, j, LAMBDA k : s[k] \notin {"a", "_"})
            blanks  == First(i + 1, j, LAMBDA k : s[k] # "sp")
            broken  == IF has(blanks, j, "'") THEN endLine ELSE blanks
            str     == ending[i + 1, j]
            inter   == text[i + 2, j]
            \* (text & (expression) & text ...)
            chain   == FoldLeft(LAMBDA ts, e :
                                  ts \o <<tok("op", line, e[1] - 1), tok("op", line, e[1] - 1)>>
                                     \o SelectSeq(lex[e[1], e[2] - 1, line], LAMBDA t : t.type # "EOF")
                                     \o <<tok("op", line, e[2]), tok("op", line, e[2]), tok("STRING", line, e[2])>>,
                                <<tok("op", line, i), tok("STRING", line, i)>>, inter.exprs)
            one(type, next) == <<tok(type, line, i)>> \o lex[next, j, line]
        IN  IF i > j THEN <<tok("EOF", line, j + 1)>>
            ELSE
            CASE s[i] = "/" /\ has(i + 1, j, "'") /\ comment > j - 1 ->
                   \* Not closed: the rest of the text is skipped.
                   LET end == line + Breaks(s, i + 2, j - 1)
                   IN  <<tok("ERROR", end, j), tok("EOF", end, j + 1)>>
              [] s[i] = "/" /\ has(i + 1, j, "'") /\ comment <= j - 1 ->
                   LET n == CommentLines(s, i + 2, comment)
                   IN  <<[tok("COMMENT", line, i) EXCEPT !.breaks = Breaks(s, i + 2, comment)]>>
                       \o lex[comment + 2, j, line + n]
              [] s[i] = "'" -> one("COMMENT", endLine)
              [] s[i] = "$" /\ has(i + 1, j, "quote") ->
                   IF inter.failed THEN one("ERROR", inter.next)
                   ELSE chain \o <<tok("op", line, inter.next - 1)>> \o lex[inter.next, j, line]
              [] s[i] = "nl" -> <<tok("NEWLINE", line, i)>> \o lex[i + 1, j, line + 1]
              [] s[i] = "sp" -> lex[i + 1, j, line]
              [] s[i] = "quote" -> IF has(str, j, "quote") THEN one("STRING", str + 1)
                                                            ELSE one("ERROR", str)
              [] s[i] = "_" /\ has(broken, j, "nl") -> lex[broken + 1, j, line + 1]
              [] s[i] \in {"a", "_"} /\ ~ (s[i] = "_" /\ has(broken, j, "nl")) -> one("word", word)
              [] s[i] \in {"+", "{", "}"} \/ (s[i] = "/" /\ ~ has(i + 1, j, "'")) -> one("op", i + 1)
              [] OTHER -> one("ERROR", i + 1)
  IN  lex[first, last, startLine]

tokenize(s) == tokenizeFrom(s, 1, Len(s), 1)

\* The line the parser names when it has consumed n of the tokens.
currentLine(tokens, n) ==
  FoldLeft(LAMBDA line, t : line + t.breaks + (IF t.type = "NEWLINE" THEN 1 ELSE 0),
           1, SubSeq(tokens, 1, n))

================================================================================
