---------------------------------- MODULE Text ----------------------------------
(***************************************************************************)
(* The functions of Global.go and stdlib_string.go that cut, search and    *)
(* change texts and their lines.  A text is a sequence of characters; one  *)
(* that is not ASCII, "ae", has two bytes.                                 *)
(*                                                                         *)
(* Of what the code permits, TextFeatures names what is enumerated:        *)
(*   "umlauts"  texts with such characters.  IndexOf counts bytes and      *)
(*              Substring characters; PadLeft asks whether a text is long  *)
(*              enough in bytes and fills it up in characters              *)
(*   "old_mac"  texts whose lines end with a lone "cr"                     *)
(*   "mixed"    texts whose lines end in different ways                    *)
(*   "digits"   versions whose parts have different numbers of digits, the *)
(*              highest of which ExtractMax looks for as if they were text *)
(***************************************************************************)
EXTENDS Strings

CONSTANTS TextFeatures,   \* a set of the names above
          MaxText,        \* the longest text
          MaxPart         \* the longest part of a version, marker or separator

ASSUME TextAssumption ==
  /\ TextFeatures \subseteq {"umlauts", "old_mac", "mixed", "digits"}
  /\ MaxText \in Nat /\ MaxPart \in Nat \ {0}

VARIABLES text, page   \* the text of a script's variable; whether it has several lines

Bytes(s) == FoldLeft(LAMBDA n, c : n + (IF c = "ae" THEN 2 ELSE 1), 0, s)

BadStart == <<"error">>

-----------------------------------------------------------------------------
(* Parts of a text *)

Left(s, n)  == SubSeq(s, 1, Min({IF n < 0 THEN 0 ELSE n, Len(s)}))
Right(s, n) == SubSeq(s, Len(s) - Min({IF n < 0 THEN 0 ELSE n, Len(s)}) + 1, Len(s))

\* A bug of the kind a 1-based position invites: it is used as a 0-based one.
Mid_ZeroBased(s, start, length) ==
  IF start < 1 THEN BadStart
  ELSE SubSeq(s, start + 1, Min({start + (IF length < 0 THEN 0 ELSE length), Len(s)}))

Mid(s, start, length) ==
  IF start < 1 THEN BadStart
  ELSE SubSeq(s, start, Min({start - 1 + (IF length < 0 THEN 0 ELSE length), Len(s)}))

Substring(s, start, length) ==
  LET from == IF start < 0 THEN 0 ELSE start
  IN  SubSeq(s, from + 1, Min({from + (IF length < 0 THEN 0 ELSE length), Len(s)}))

CharAt(s, i) == IF i \in 1 .. Len(s) THEN <<s[i]>> ELSE <<>>

InStr(s, t) == IF t = <<>> THEN 1 ELSE Position(s, t, 1)

\* strings.Index counts bytes.
IndexOf(s, t) ==
  IF t = <<>> THEN 0
  ELSE IF Position(s, t, 1) = 0 THEN -1 ELSE Bytes(SubSeq(s, 1, Position(s, t, 1) - 1))

PadLeft(s, n, pad) ==
  IF Bytes(s) >= n THEN s
  ELSE [i \in 1 .. n - Len(s) |-> pad[((i - 1) % Len(pad)) + 1]] \o s

PadRight(s, n, pad) ==
  IF Bytes(s) >= n THEN s
  ELSE s \o [i \in 1 .. n - Len(s) |-> pad[((i - 1) % Len(pad)) + 1]]

Split(s, sep, removeEmpty, unique) ==
  FoldLeft(LAMBDA result, p :
             LET part == TrimSpace(p, Blank)
             IN  IF (removeEmpty /\ part = <<>>) \/ (unique /\ Contains(result, part))
                 THEN result ELSE Append(result, part),
           <<>>, Cut(s, sep))

Between(s, start, end) ==
  LET from == Position(s, start, 1) + Len(start)
      to   == Position(s, end, from)
  IN  IF Position(s, start, 1) = 0 \/ to = 0 THEN <<>> ELSE SubSeq(s, from, to - 1)

-----------------------------------------------------------------------------
(* Lines *)

ConvNewLine(s, target) ==
  CASE target = "crlf" -> Replace(Unix(s), <<"nl">>, <<"cr", "nl">>)
    [] target = "cr"   -> Replace(Unix(s), <<"nl">>, <<"cr">>)
    [] OTHER           -> Unix(s)

Ending(s) ==
  IF Position(s, <<"cr", "nl">>, 1) # 0 THEN <<"cr", "nl">>
  ELSE IF Position(s, <<"cr">>, 1) # 0 THEN <<"cr">> ELSE <<"nl">>

\* Of the lines of a text: without the one of a number (0-based), or without the first one
\* or all that contain the searched text.
RemoveLineAt(s, index) ==
  LET lines == Cut(Unix(s), <<"nl">>)
  IN  IF index \notin 0 .. Len(lines) - 1 THEN s ELSE Glue(RemoveAt(lines, index + 1), Ending(s))

RemoveLine(s, search, all) ==
  LET lines == Cut(Unix(s), <<"nl">>)
      hits  == {i \in DOMAIN lines : Position(lines[i], search, 1) # 0}
      gone  == IF all \/ hits = {} THEN hits ELSE {Min(hits)}
      kept  == SelectSeq([i \in DOMAIN lines |-> <<i, lines[i]>>], LAMBDA l : l[1] \notin gone)
  IN  IF search = <<>> THEN s ELSE Glue([i \in DOMAIN kept |-> kept[i][2]], Ending(s))

InsertAfterText(s, search, insert) ==
  LET lines == Cut(Unix(s), <<"nl">>)
      after(l) == LET k == Position(l, search, 1) + Len(search) - 1
                  IN  IF Position(l, search, 1) = 0 THEN l
                      ELSE SubSeq(l, 1, k) \o insert \o SubSeq(l, k + 1, Len(l))
  IN  Glue([i \in DOMAIN lines |-> after(lines[i])], <<"nl">>)

CleanLines(s) ==
  LET lines == Cut(Replace(s, <<"cr", "nl">>, <<"nl">>), <<"nl">>)
  IN  TrimSpace(Glue([i \in DOMAIN lines |-> TrimRight(lines[i], {"sp"})], <<"nl">>), {"nl"})

CleanAllLines(s) ==
  LET lines == Cut(Replace(s, <<"cr", "nl">>, <<"nl">>), <<"nl">>)
  IN  Glue(SelectSeq([i \in DOMAIN lines |-> TrimSpace(lines[i], Blank)], LAMBDA l : l # <<>>),
           <<"nl">>)

-----------------------------------------------------------------------------
(* Versions: the numbers between the dots, those that are none as 0.       *)

Compare(a, b) ==
  LET part(v, i) == IF i <= Len(v) THEN v[i] ELSE 0
      differ == {i \in 1 .. Max({Len(a), Len(b)}) : part(a, i) # part(b, i)}
  IN  IF differ = {} THEN 0
      ELSE IF part(a, Min(differ)) > part(b, Min(differ)) THEN 1 ELSE -1

\* The last of the found versions by their length, then by their characters: numbers have up to
\* two digits, and a dot is less than any of them.
Written(v) ==
  Glue([i \in DOMAIN v |-> IF v[i] > 9 THEN <<v[i] \div 10, v[i] % 10>> ELSE <<v[i]>>], <<-1>>)

After(s, t) ==
  IF Len(s) # Len(t) THEN Len(s) > Len(t)
  ELSE \E i \in DOMAIN s : s[i] > t[i] /\ \A k \in 1 .. i - 1 : s[k] = t[k]

ExtractMax(versions) ==
  CHOOSE v \in versions : \A w \in versions \ {v} : ~ After(Written(w), Written(v))

-----------------------------------------------------------------------------
\* A script has a text in a variable, and adds to it.  Words and pages are enumerated apart.
Characters(lines) ==
  IF lines THEN {"a", "sp", "nl", "cr"}
          ELSE {"a", "b", "sp"} \cup (IF "umlauts" \in TextFeatures THEN {"ae"} ELSE {})

TextInit == text = <<>> /\ page \in BOOLEAN

AddText ==
  /\ Len(text) < MaxText
  /\ \E c \in Characters(page) : text' = Append(text, c)
  /\ UNCHANGED page

Parts == SeqOf({"a", "b"}, MaxPart) \ {<<>>}

\* The line ends of the text are those of a system of today.
Modern == "old_mac" \in TextFeatures
          \/ \A i \in 1 .. Len(text) : text[i] = "cr" => At(text, <<"cr", "nl">>, i)

\* The way the first line of a text ends.
Style(s) ==
  LET ends == {i \in DOMAIN s : s[i] \in {"nl", "cr"}}
  IN  CASE ends = {} \/ s[Min(ends)] = "nl"   -> "lf"
        [] At(s, <<"cr", "nl">>, Min(ends)) -> "crlf"
        [] OTHER                            -> "cr"

\* PartsFitTogether: the functions of parts agree on what a position is.  What Left, Mid and
\* Right cut off makes up the text; a place found by InStr or IndexOf is where Mid and
\* Substring find the text again, and no place before it is one; parts of Split glued
\* together give the text back; a padded text ends with the text and is as long as asked
\* for ("Mindestlänge", stdlib_string.go:520).
PartsFitTogether ==
  /\ \A n \in -1 .. MaxText + 1 :
       /\ Left(text, n) \o Mid(text, (IF n < 0 THEN 0 ELSE n) + 1, MaxText) = text
       /\ n \in 0 .. Len(text) => Left(text, Len(text) - n) \o Right(text, n) = text
       /\ \A k \in -1 .. 2 : n >= 0 => Substring(text, n, k) = Mid(text, n + 1, k)
       /\ n >= 1 => CharAt(text, n) = Substring(text, n - 1, 1)
       /\ \A pad \in Parts :
            LET l == PadLeft(text, n, pad) r == PadRight(text, n, pad)
            IN  /\ EndsWith(l, text) /\ StartsWith(r, text)
                /\ Len(l) = Max({n, Len(text)}) /\ Len(r) = Len(l)
  /\ \A t \in Parts :
       LET k == InStr(text, t) i == IndexOf(text, t) parts == Split(text, t, TRUE, TRUE)
       IN  /\ (k = 0) = (i = -1)
           /\ k # 0 => Mid(text, k, Len(t)) = t /\ Substring(text, i, Len(t)) = t
           /\ \A j \in 1 .. (IF k = 0 THEN Len(text) ELSE k - 1) : Mid(text, j, Len(t)) # t
           /\ Glue(Cut(text, t), t) = text
           /\ \A u \in Parts : Between(text, t, u) # <<>> =>
                                 InStr(text, t \o Between(text, t, u) \o u) # 0
           /\ \A p \in ToSet(parts) : p # <<>> /\ InStr(p, t) = 0
           /\ IsInjective(parts)
           /\ ToSet(Split(text, t, FALSE, FALSE)) \ {<<>>} = ToSet(parts)

\* LinesAreKept: what changes lines changes no other line.  RemoveLine takes away exactly the lines
\* meant "im selben Stil ... wie der Input" (stdlib_string.go:193): all lines it leaves end like the
\* first one of the text ("gewinnt der zuerst im Text gefundene Stil", md/string.md:395).  Converted
\* line ends can be converted again and back; cleaning twice is cleaning once.
LinesAreKept ==
  page /\ Modern =>
    LET linesOf(t) == Cut(Unix(t), <<"nl">>)
        here == linesOf(text)
        n    == Len(here)
        hits == SelectSeq(here, LAMBDA l : Contains(l, "a"))
        kept == SelectSeq(here, LAMBDA l : ~ Contains(l, "a"))
        uniform    == "mixed" \in TextFeatures \/ ConvNewLine(text, Style(text)) = text
        InStyle(r) == uniform => ConvNewLine(r, Style(text)) = r
    IN  /\ RemoveLineAt(text, n) = text
        /\ \A i \in 0 .. n - 1 :
             LET r == RemoveLineAt(text, i)
             IN  /\ n > 1 => linesOf(r) = RemoveAt(here, i + 1)
                 /\ InStyle(r)
        /\ hits # <<>> /\ n > 1 => Len(linesOf(RemoveLine(text, <<"a">>, FALSE))) = n - 1
        /\ kept # <<>> => linesOf(RemoveLine(text, <<"a">>, TRUE)) = kept
        /\ hits # <<>> => InStyle(RemoveLine(text, <<"a">>, TRUE))
        /\ \A i \in 1 .. n :
             LET new == linesOf(InsertAfterText(text, <<"a">>, <<"b">>))[i]
             IN  /\ Contains(here[i], "a") => At(new, <<"a", "b">>, InStr(here[i], <<"a">>))
                 /\ SelectSeq(new, LAMBDA c : c # "b") = here[i]
        /\ \A t, u \in {"crlf", "cr", "lf"} : ConvNewLine(ConvNewLine(text, t), u) = ConvNewLine(text, u)
        /\ CleanLines(CleanLines(text)) = CleanLines(text)
        /\ CleanAllLines(CleanAllLines(text)) = CleanAllLines(text)

\* VersionsAreOrdered: comparing versions is an order in which missing parts count as 0
\* (Global.go:174), and "die höchste Version" of a text is the greatest of them
\* (stdlib_string.go:350).
VersionsAreOrdered ==
  /\ text = <<>> =>
       \A a, b, c \in SeqOf(0 .. 2, MaxPart) :
          /\ Compare(a, b) = - Compare(b, a)
          /\ Compare(a, b) >= 0 /\ Compare(b, c) >= 0 => Compare(a, c) >= 0
          /\ Compare(a, a \o <<0>>) = 0 /\ Compare(a \o <<1>>, a) = 1
  /\ text = <<>> =>
       \A a, b \in SeqOf({1, 2, 10, 11}, MaxPart) \ {<<>>} :
          /\ a # b
          /\ \/ "digits" \in TextFeatures
             \/ DOMAIN a = DOMAIN b /\ \A i \in DOMAIN a : (a[i] > 9) = (b[i] > 9)
          => (ExtractMax({a, b}) = a => Compare(a, b) >= 0)

================================================================================
