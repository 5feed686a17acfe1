--------------------------------- MODULE Values ---------------------------------
(***************************************************************************)
(* Values of a script: how evaluator.go and helper.go read them as         *)
(* numbers, texts and truth, calculate and compare with them, and how      *)
(* Select finds the case to execute, by a table built when it is executed  *)
(* first or by looking at one case after the other.                        *)
(*                                                                         *)
(* Numbers are counted in halves.  A text is one of a few, with what       *)
(* strconv.ParseFloat makes of it.                                         *)
(*                                                                         *)
(* Of what the code permits, ValueFeatures names what is enumerated:       *)
(*   "mixed_cases"  a Case with a number and one with a text that reads as *)
(*                  the same number: the table looks for the kind of the   *)
(*                  value first, not for the order                         *)
(*   "odd_numerals" Case 1 for "01" or "1,5", Case "01" for 1, Case 0 for  *)
(*                  a text that is no number: only the search by cases     *)
(*                  calls them equal                                       *)
(*   "infinity"     the text "inf": x - "inf" is a number, x -= "inf" an   *)
(*                  error                                                  *)
(***************************************************************************)
EXTENDS Integers, Sequences, FiniteSetsExt

CONSTANTS ValueFeatures, \* a set of the names above
          MaxCases       \* the cases of a Select

ASSUME ValueAssumption ==
  ValueFeatures \subseteq {"mixed_cases", "odd_numerals", "infinity"} /\ MaxCases \in Nat

VARIABLES left, right,   \* the values of two variables of the script
          cases          \* the cases of a Select, as far as they are parsed

Infinity == 1000
NoNumber == 2000        \* what ParseFloat returns an error for

\* The texts, the number each is for ParseFloat with commas replaced by points, and those
\* whose number has a comma.  "empty", "point" and "comma" stand for "", "1.5" and "1,5".
Texts == {"empty", "a", "A", "0", "1", "01", "point", "comma", "inf"}
Comma == {"comma"}
Reading(t) == CASE t = "0" -> 0 [] t \in {"1", "01"} -> 2 [] t \in {"point", "comma"} -> 3
                [] t = "inf" -> Infinity [] OTHER -> NoNumber
ToLower(t) == IF t = "A" THEN "a" ELSE t

Num(n)  == [kind |-> "num", num |-> n, str |-> "empty"]
Str(t)  == [kind |-> "str", num |-> 0, str |-> t]
Bool(b) == [kind |-> IF b THEN "true" ELSE "false", num |-> 0, str |-> "empty"]
Null    == [kind |-> "null", num |-> 0, str |-> "empty"]
Bools   == {Bool(TRUE), Bool(FALSE)}

Literals == {Num(n) : n \in {0, 2, 3}} \cup {Str(t) : t \in Texts}
AllValues == Literals \cup Bools \cup {Null}

-----------------------------------------------------------------------------
(* Readings *)

tryParseFloat(t) == IF t \in Comma THEN NoNumber ELSE Reading(t)

toNumVal(v) ==
  CASE v.kind = "num" -> v.num
    [] v.kind = "str" /\ Reading(v.str) # NoNumber -> Reading(v.str)
    [] OTHER -> 0

toFloatSafe(v) == toNumVal(v)

tryNumber(v) ==
  CASE v.kind = "num" -> v.num
    [] v.kind = "str" /\ Reading(v.str) # Infinity -> Reading(v.str)
    [] OTHER -> NoNumber

requireNumber(v) ==
  CASE v.kind = "num" -> v.num
    [] v.kind = "str" -> Reading(v.str)
    [] OTHER -> NoNumber

isTruthy(v) ==
  CASE v.kind = "num" -> v.num # 0
    [] v.kind = "str" -> v.str # "empty"
    [] OTHER -> v.kind = "true"

formatNum(n) == CASE n = 0 -> "0" [] n = 2 -> "1" [] n = 3 -> "point" [] OTHER -> "number"

AsText(v) ==
  CASE v.kind = "num" -> formatNum(v.num)
    [] v.kind = "str" -> v.str
    [] v.kind = "null" -> "empty"
    [] OTHER -> v.kind

-----------------------------------------------------------------------------
(* Calculating: a result is written down as the operation on what was      *)
(* read, or an error.                                                      *)

Result(op, l, r) == << op, l, r >>
Failed == << "error" >>

calculateBinaryOp(op, l, r) ==
  LET ln == tryNumber(l) rn == tryNumber(r)
      numbers == ln # NoNumber /\ rn # NoNumber
  IN  IF l.kind = "str" /\ r.kind = "str" /\ op = "+" THEN Result("text", l.str, r.str)
      ELSE IF ~ numbers
           THEN IF op = "+" THEN Result("text", AsText(l), AsText(r)) ELSE Failed
      ELSE IF op = "/" /\ rn = 0 THEN Failed
      ELSE Result(op, ln, rn)

\* x op y
BinOp(op, l, r) ==
  LET ln == requireNumber(l) rn == requireNumber(r)
  IN  IF op = "+" THEN
        IF l.kind = "str" /\ r.kind = "str" THEN Result("text", l.str, r.str)
        ELSE IF tryNumber(l) # NoNumber /\ tryNumber(r) # NoNumber
             THEN Result("+", tryNumber(l), tryNumber(r))
             ELSE Result("text", AsText(l), AsText(r))
      ELSE IF ln = NoNumber \/ rn = NoNumber THEN Failed
      ELSE calculateBinaryOp(op, Num(ln), Num(rn))

\* x op= y
CompoundAssign(op, l, r) == calculateBinaryOp(op, l, r)

\* The operation on two numbers of the text, calculated once and kept.
Folded(op, l, r) == IF op \in {"+", "-", "*"} THEN calculateBinaryOp(op, l, r) ELSE BinOp(op, l, r)

-----------------------------------------------------------------------------
(* Comparing *)

valuesAreEqual(l, r) ==
  IF l.kind = r.kind
  THEN CASE l.kind = "num" -> l.num = r.num
         [] l.kind = "str" -> ToLower(l.str) = ToLower(r.str)
         [] OTHER          -> TRUE
  ELSE CASE {l.kind, r.kind} = {"num", "str"} -> toNumVal(l) = toNumVal(r)
         [] {l.kind, r.kind} \cap {"true", "false"} # {} -> isTruthy(l) = isTruthy(r)
         [] OTHER -> FALSE

\* The operators of expressions; NoNumber: an error.
Equal(l, r) ==
  IF "str" \in {l.kind, r.kind} THEN AsText(l) = AsText(r) ELSE valuesAreEqual(l, r)

compareNum(op, a, b) ==
  CASE op = "<" -> a < b [] op = ">" -> a > b [] op = "<=" -> a <= b [] OTHER -> a >= b

\* Case Is op value
evalBinary(l, op, r) ==
  CASE op = "="  -> valuesAreEqual(l, r)
    [] op = "<>" -> ~ valuesAreEqual(l, r)
    [] OTHER -> compareNum(op, toFloatSafe(l), toFloatSafe(r))

-----------------------------------------------------------------------------
(* Select: the cases q with one condition each, [is, op, value]            *)

Lit(v)    == [is |-> "literal", op |-> "=", value |-> v]
Is(op, v) == [is |-> "Is", op |-> op, value |-> v]
Dynamic(v) == [is |-> "expression", op |-> "=", value |-> v]

Matches(v, c) ==
  IF c.is = "Is" THEN evalBinary(v, c.op, c.value) ELSE valuesAreEqual(v, c.value)

\* The first case that matches; 0: Case Else.
Scan(v, q) ==
  LET hits == {i \in DOMAIN q : Matches(v, q[i])}
  IN  IF hits = {} THEN 0 ELSE Min(hits)

dispatchOK(q) == \A i \in DOMAIN q : q[i].is = "literal" /\ q[i].value \in Literals

\* The two tables: for a number or a text in lower case, the case that has it first.
\* A bug of the kind such a table invites: a later case overwrites the entry.
dispatchNumCache_LastWins(q, n) ==
  LET hits == {i \in DOMAIN q : q[i].value = Num(n)}
  IN  IF hits = {} THEN 0 ELSE Max(hits)

dispatchNumCache(q, n) ==
  LET hits == {i \in DOMAIN q : q[i].value = Num(n)}
  IN  IF hits = {} THEN 0 ELSE Min(hits)

dispatchStrCache(q, t) ==
  LET hits == {i \in DOMAIN q : /\ q[i].value.kind = "str"
                                /\ ToLower(q[i].value.str) = ToLower(t)}
  IN  IF hits = {} THEN 0 ELSE Min(hits)

Dispatch(v, q) ==
  LET n == dispatchNumCache(q, v.num)
      t == dispatchStrCache(q, v.str)
  IN  CASE v.kind = "num" -> IF n # 0 THEN n ELSE dispatchStrCache(q, AsText(v))
        [] v.kind = "str" -> IF t # 0 THEN t ELSE dispatchNumCache(q, tryParseFloat(v.str))
        [] OTHER -> 0

Select(v, q) ==
  IF dispatchOK(q) /\ v \notin Bools THEN Dispatch(v, q) ELSE Scan(v, q)

-----------------------------------------------------------------------------
Conditions == {Lit(v) : v \in AllValues} \cup {Is(op, Num(2)) : op \in {"<", ">=", "<>"}}
              \cup {Dynamic(Num(0)), Dynamic(Str("a"))}

ValuesInit == left \in AllValues /\ right \in AllValues /\ cases = <<>>

AddCase ==
  /\ Len(cases) < MaxCases
  /\ \E c \in Conditions : cases' = Append(cases, c)
  /\ UNCHANGED <<left, right>>

valueVars == <<left, right, cases>>

ValueSpec == ValuesInit /\ [][AddCase]_valueVars

-----------------------------------------------------------------------------
\* A value and a case of another kind that are the same only in one of the two searches.
Odd(v, c) ==
  /\ {v.kind, c.kind} = {"num", "str"}
  /\ valuesAreEqual(v, c)
  /\ AsText(v) # AsText(c)

Ordinary(v, q) ==
  LET values == {q[i].value : i \in DOMAIN q}
  IN  /\ "odd_numerals" \in ValueFeatures \/ \A c \in values : ~ Odd(v, c)
      /\ \/ "mixed_cases" \in ValueFeatures
         \/ ~ \E c, d \in values : {c.kind, d.kind} = {"num", "str"} /\ valuesAreEqual(c, d)

\* SelectIsFirstMatch: "Es wird der erste passende `Case` ausgeführt. Überlappende Werte in
\* mehreren `Case`-Zweigen sind erlaubt, der erste Treffer gewinnt" (md/Allgemein.md:305),
\* whether the table of the first execution answers or the search through the cases.
SelectIsFirstMatch == Ordinary(left, cases) => Select(left, cases) = Scan(left, cases)

\* CompoundIsPlain: x op= y calculates what x = x op y does, with the same errors, though the
\* two read their operands by different functions; what is calculated once and kept is what
\* would be calculated every time.
CompoundIsPlain ==
  "infinity" \in ValueFeatures \/ Str("inf") \notin {left, right} =>
    \A op \in {"+", "-", "*", "/"} :
      /\ CompoundAssign(op, left, right) = BinOp(op, left, right)
      /\ left.kind = "num" /\ right.kind = "num" => Folded(op, left, right) = BinOp(op, left, right)

\* What the code has two ways for is the same either way: "der erste Treffer gewinnt"
\* (md/Allgemein.md:305), whichever of its tables Select uses; and x op= y leaves in x what
\* x = x op y does, or the same error (evaluator.go:889).
SameEitherWay == SelectIsFirstMatch /\ CompoundIsPlain

================================================================================
