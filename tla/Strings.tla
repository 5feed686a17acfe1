-------------------------------- MODULE Strings --------------------------------
(***************************************************************************)
(* What Go's package strings does for Text and Files.  A text is a         *)
(* sequence of characters; "sp" is a space, "nl" and "cr" end lines.       *)
(***************************************************************************)
EXTENDS Integers, Sequences, SequencesExt

\* t stands in s at position i.
At(s, t, i) == i + Len(t) - 1 <= Len(s) /\ SubSeq(s, i, i + Len(t) - 1) = t

\* The first position of t in s from i on; 0: none.
Position(s, t, i) ==
  LET found == {k \in i .. Len(s) : At(s, t, k)} IN IF found = {} THEN 0 ELSE Min(found)

Cut(s, sep) ==
  LET parts[i \in 1 .. Len(s) + 1] ==
        LET k == Position(s, sep, i)
        IN  IF k = 0 THEN <<SubSeq(s, i, Len(s))>>
                     ELSE <<SubSeq(s, i, k - 1)>> \o parts[k + Len(sep)]
  IN  parts[1]

Glue(parts, sep) ==
  IF parts = <<>> THEN <<>>
  ELSE FoldLeft(LAMBDA s, p : s \o sep \o p, Head(parts), Tail(parts))

Replace(s, find, repl) == Glue(Cut(s, find), repl)

TrimRight(s, set) ==
  LET kept == {i \in 1 .. Len(s) : s[i] \notin set}
  IN  IF kept = {} THEN <<>> ELSE SubSeq(s, 1, Max(kept))

TrimSpace(s, set) == Reverse(TrimRight(Reverse(TrimRight(s, set)), set))

Blank == {"sp", "nl", "cr"}

Unix(s) == Replace(Replace(s, <<"cr", "nl">>, <<"nl">>), <<"cr">>, <<"nl">>)

StartsWith(s, prefix) == At(s, prefix, 1)
EndsWith(s, suffix) == Len(suffix) <= Len(s) /\ At(s, suffix, Len(s) - Len(suffix) + 1)
================================================================================
