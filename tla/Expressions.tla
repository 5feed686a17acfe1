------------------------------ MODULE Expressions ------------------------------
(***************************************************************************)
(* The expressions of the language: the recursive descent of parser.go,    *)
(* from parseOr down to parseFactor, and what it has to agree with.        *)
(*                                                                         *)
(* A name or a literal is "x", a name with the parenthesis of its          *)
(* arguments "f("; an array literal stands in braces.  A tree is <<"x">>,  *)
(* <<operator, tree>>, <<operator, tree, tree>>, or <<"f(" or "{">> and    *)
(* the trees of the elements.                                              *)
(***************************************************************************)
EXTENDS Integers, Sequences, FiniteSets, FiniteSetsExt, SequencesExt

\* The operators of parseOr, parseAnd, parseNot, parseCompare, parseConcat, parseAddSub
\* and parseTerm; "=" stands for all six comparisons.
Operators == <<{"OR"}, {"AND"}, {"NOT"}, {"="}, {"&"}, {"+", "-"}, {"*", "/"}>>

Negation   == 3
Comparison == 4
Factor     == 8

Binary  == UNION {Operators[n] : n \in DOMAIN Operators \ {Negation}}
Unary   == {"NOT", "-"}

\* What an operand begins with, and what follows it.
Begins  == {"x", "(", "f(", "{"} \cup Unary
Follows == {")", "}", ","} \cup Binary

Error == <<"error">>

Join(op, left, right) == IF Error \in {left, right} THEN Error ELSE <<op, left, right>>
Apply(op, right)      == IF right = Error THEN Error ELSE <<op, right>>

List(what, trees) == IF Error \in ToSet(trees) THEN Error ELSE <<what>> \o trees

Ends == [open \in {"(", "f(", "{"} |-> IF open = "{" THEN "}" ELSE ")"]

\* A bug of the kind a loop of operators rewritten as a recursion invites: the operands
\* after the first are taken together from the right.
Chain_FromTheRight(left, items) ==
  IF items = <<>> THEN left
  ELSE LET n == Len(items)
           f[k \in 1 .. n] == IF k = n THEN items[n].right
                             ELSE Join(items[k + 1].op, items[k].right, f[k + 1])
       IN  Join(items[1].op, left, f[1])

\* The loops of parseOr, parseAnd, parseConcat, parseAddSub and parseTerm.
Chain(left, items) == FoldLeft(LAMBDA t, r : Join(r.op, t, r.right), left, items)

--------------------------------------------------------------------------------

\* The tree the parser makes of s; a token that is left over is an error, too.
Parsed(s) ==
  LET token(i) == IF i <= Len(s) THEN s[i] ELSE "EOF"
      result(t, i) == [tree |-> t, next |-> IF t = Error THEN Len(s) + 2 ELSE i]

      \* parse["expr", n, i]: the expression of level n that begins at token i.
      \* parse["rest", n, i]: the operators of level n from there on, with their operands.
      \* parse["f(", _, i], parse["{", _, i]: the arguments or elements from i to the end.
      parse[what \in {"expr", "rest", "f(", "{"}, n \in 1 .. Factor, i \in 1 .. Len(s) + 2] ==
        CASE what = "rest" ->
               IF token(i) \notin Operators[n] THEN [items |-> <<>>, next |-> i]
               ELSE LET right == parse["expr", n + 1, i + 1]
                        more  == IF n = Comparison THEN [items |-> <<>>, next |-> right.next]
                                                   ELSE parse["rest", n, right.next]
                    IN  [items |-> <<[op |-> token(i), right |-> right.tree]>> \o more.items,
                         next  |-> more.next]
          [] what \in {"f(", "{"} ->
               IF what = "{" /\ token(i) = "}" THEN [items |-> <<>>, next |-> i + 1]
               ELSE LET first == parse["expr", 1, i]
                        rest  == parse[what, n, first.next + 1]
                    IN  CASE token(first.next) = ","        ->
                               [items |-> <<first.tree>> \o rest.items, next |-> rest.next]
                          [] token(first.next) = Ends[what] ->
                               [items |-> <<first.tree>>, next |-> first.next + 1]
                          [] OTHER -> [items |-> <<Error>>, next |-> Len(s) + 2]
          [] what = "expr" /\ n \notin {Negation, Factor} ->
               LET left == parse["expr", n + 1, i]
                   rest == parse["rest", n, left.next]
               IN  result(Chain(left.tree, rest.items), rest.next)
          [] what = "expr" /\ n = Negation /\ token(i) # "NOT" -> parse["expr", n + 1, i]
          [] OTHER ->
               CASE token(i) \in Unary ->
                      LET right == parse["expr", n, i + 1]
                      IN  result(Apply(token(i), right.tree), right.next)
                 [] token(i) = "x" -> result(<<"x">>, i + 1)
                 [] token(i) = "(" ->
                      LET inner == parse["expr", 1, i + 1]
                      IN  IF token(inner.next) = ")" THEN result(inner.tree, inner.next + 1)
                                                     ELSE result(Error, i)
                 [] token(i) = "f(" /\ token(i + 1) = ")" -> result(<<"f(">>, i + 2)
                 [] token(i) = "{" \/ (token(i) = "f(" /\ token(i + 1) # ")") ->
                      LET list == parse[token(i), n, i + 1]
                      IN  result(List(token(i), list.items), list.next)
                 [] OTHER -> result(Error, i)

      whole == parse["expr", 1, 1]
  IN  IF whole.next = Len(s) + 1 THEN whole.tree ELSE Error

--------------------------------------------------------------------------------

\* What is meant: the operator that binds least, of several the last one, is on top.  A
\* comparison has no other one below it; a NOT at the begin of an expression or after
\* AND, OR or NOT reaches as far as a comparison does, elsewhere it binds like a minus.
Meant(s) ==
  LET depth(k) == Cardinality({m \in 1 .. k - 1 : s[m] \in DOMAIN Ends})
                    - Cardinality({m \in 1 .. k - 1 : s[m] \in {")", "}"}})
      level(k) == CHOOSE n \in DOMAIN Operators : s[k] \in Operators[n]
      isBinary(k) == s[k] \in Binary /\ k > 1 /\ s[k - 1] \in {"x", ")", "}"}
      \* An array literal may end with a comma, the arguments of a call may not.
      commas(i, j) == {k \in i + 1 .. j - 1 : s[k] = "," /\ depth(k) = depth(i) + 1}
                        \ (IF s[i] = "{" /\ j > i + 2 THEN {j - 1} ELSE {})

      tree[i \in 1 .. Len(s) + 1, j \in 0 .. Len(s), loose \in BOOLEAN] ==
        LET splits == {k \in i .. j : isBinary(k) /\ depth(k) = depth(i)}
            least  == {k \in splits : \A m \in splits : level(k) <= level(m)}
        IN  IF i > j THEN Error
            ELSE IF loose /\ s[i] = "NOT" /\ \A k \in splits : level(k) > Negation
            THEN Apply("NOT", tree[i + 1, j, TRUE])
            ELSE IF splits # {}
            THEN LET k    == Max(least)
                     side == loose /\ level(k) < Negation
                 IN  IF level(k) = Comparison /\ Cardinality(least) > 1 THEN Error
                     ELSE Join(s[k], tree[i, k - 1, side], tree[k + 1, j, side])
            ELSE CASE s[i] \in Unary -> Apply(s[i], tree[i + 1, j, FALSE])
                   [] s[i] = "x" /\ i = j -> <<"x">>
                   [] s[i] = "(" /\ s[j] = ")" -> tree[i + 1, j - 1, TRUE]
                   [] s[i] \in {"f(", "{"} /\ s[j] = Ends[s[i]] ->
                        LET last == IF s[i] = "{" /\ j > i + 1 /\ s[j - 1] = "," THEN j - 1 ELSE j
                            cuts == SetToSortSeq(commas(i, j) \cup {i, last}, <)
                        IN  IF j = i + 1 THEN <<s[i]>>
                            ELSE List(s[i], [k \in 1 .. Len(cuts) - 1 |->
                                               tree[cuts[k] + 1, cuts[k + 1] - 1, TRUE]])
                   [] OTHER -> Error
  IN  tree[1, Len(s), TRUE]

================================================================================
