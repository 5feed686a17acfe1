--------------------------------- MODULE Files ---------------------------------
(***************************************************************************)
(* The functions of stdlib_file.go that write, copy, move and rewrite      *)
(* files, as the system calls they are made of: a file is emptied when it  *)
(* is opened for writing, a write may end after any part of it, and the    *)
(* process may end between two steps.  The functions that read are         *)
(* operators on what a file holds.                                         *)
(*                                                                         *)
(* A content is a sequence of characters as in Strings; those in upper     *)
(* case are the Base64 form of the others.  What a call does depends on    *)
(* nothing but the files, so that one call is made from every content.     *)
(*                                                                         *)
(* Of what the code permits, FileFeatures names what is enumerated:        *)
(*   "same"      a call whose output is its input (stdlib_file.go:2299)    *)
(*   "encode"    a write of Base64Encode or FindWords that fails (:366)    *)
(*   "in_place"  a rewriting that is interrupted (:2082)                   *)
(*   "chunk"     Tail of files longer than a chunk (:1840)                 *)
(*   "open_end"  Tail of a file whose last line has no end (:1853)         *)
(*   "blank_end" the lines of a file that ends with empty ones (:1330)     *)
(*   "open_cr"   the lines of a file that ends with a lone "cr" (:1329)    *)
(***************************************************************************)
EXTENDS Strings, FiniteSets

CONSTANTS FileFeatures,   \* a set of the names above
          Paths,          \* files in one directory, or in two of different drives
          Chunk,          \* what Tail reads at once, 4096
          MaxContent      \* the longest file the calls start with

ASSUME FileAssumption ==
  /\ FileFeatures \subseteq {"same", "encode", "in_place", "chunk", "open_end", "blank_end", "open_cr"}
  /\ Chunk \in Nat \ {0} /\ MaxContent \in Nat

VARIABLES disk,     \* what each path holds
          call      \* the call that is made

fileVars == <<disk, call>>

Missing == <<"missing">>
Exists(p) == disk[p] # Missing

NL == <<"nl">>
Encoding == [a |-> "A", b |-> "B", nl |-> "N", cr |-> "R"]
Plain    == DOMAIN Encoding

Base64(c) == [i \in DOMAIN c |-> Encoding[c[i]]]
Decodes(c) == \A i \in DOMAIN c : \E x \in Plain : Encoding[x] = c[i]
Unbase64(c) == [i \in DOMAIN c |-> CHOOSE x \in Plain : Encoding[x] = c[i]]

-----------------------------------------------------------------------------
(***************************************************************************)
(* The functions that read.                                                *)
(***************************************************************************)
WithoutCR(c) == Replace(c, <<"cr", "nl">>, NL)
Lines(c)     == Cut(WithoutCR(c), NL)

\* A bug of the kind the last line end invites: a line is counted after it.
Scanned_Split(c) == Lines(c)

\* What a bufio.Scanner finds: an end of a line closes it, and the last one needs none; its
\* "cr" is dropped even so.
Scanned(c) ==
  LET l == Lines(c)
  IN  IF Last(l) = <<>> THEN Front(l)
      ELSE Append(Front(l), IF Last(Last(l)) = "cr" THEN Front(Last(l)) ELSE Last(l))

LineCount(c)      == Len(Scanned(c))
HeadLines(c, n)   == SubSeq(Scanned(c), 1, Min({n, LineCount(c)}))
ReadAllLines(c)   == Cut(TrimRight(WithoutCR(c), {"nl"}), NL)
SearchLines(c, s) == SelectSeq(Scanned(c), LAMBDA l : Position(l, s, 1) # 0)

\* Chunks are read from the end until they hold enough line ends or the file is read; then
\* what stands before the line end that is one too many is cut off.
TailLines(c, n) ==
  LET ends(m) == {i \in Len(c) - m + 1 .. Len(c) : i > 0 /\ c[i] = "nl"}
      enough  == {k \in 1 .. Len(c) : k * Chunk >= Len(c) \/ Cardinality(ends(k * Chunk)) >= n}
      read    == IF c = <<>> THEN 0 ELSE Min({Len(c), Min(enough) * Chunk})
      before  == {i \in ends(read) : Cardinality({j \in ends(read) : j > i}) >= n}
  IN  SubSeq(c, (IF before = {} THEN Len(c) - read ELSE Max(before)) + 1, Len(c))

GetDuplicates(c) ==
  LET l == [i \in DOMAIN Cut(c, NL) |-> TrimRight(Cut(c, NL)[i], {"cr"})]
  IN  {l[i] : i \in {k \in DOMAIN l : l[k] # <<>> /\ \E m \in DOMAIN l : m # k /\ l[m] = l[k]}}

\* 0: the same, 1: not, -1: an error.  A path is the same as itself before it is opened.
Compare(p, q) ==
  IF p = q THEN 0
  ELSE IF ~ Exists(p) \/ ~ Exists(q) THEN -1
  ELSE IF Len(disk[p]) = Len(disk[q]) /\ \A i \in DOMAIN disk[p] : disk[p][i] = disk[q][i] THEN 0 ELSE 1

FirstWith(lines, Test(_)) ==
  LET hits == {i \in DOMAIN lines : Test(TrimSpace(lines[i], Blank))} IN IF hits = {} THEN 0 ELSE Min(hits)

ReadValue(c, prefix) ==
  LET l == Lines(c)
      i == FirstWith(l, LAMBDA x : StartsWith(x, prefix))
      t == IF i = 0 THEN <<>> ELSE TrimSpace(l[i], Blank)
  IN  IF i = 0 THEN <<>> ELSE TrimSpace(SubSeq(t, Len(prefix) + 1, Len(t)), Blank)

-----------------------------------------------------------------------------
(***************************************************************************)
(* What the functions that rewrite a file write; Missing: they do not.     *)
(***************************************************************************)
ReplaceLine(c, pattern, new) ==
  LET l == Lines(c)
      hits == {i \in DOMAIN l : Position(l[i], pattern, 1) # 0}
  IN  IF hits = {} THEN Missing ELSE Glue([l EXCEPT ![Min(hits)] = new], NL)

ReplaceText(c, old, new) == Replace(c, old, new)

UpdateValue(c, prefix, new) ==
  LET l == Lines(c)
      i == FirstWith(l, LAMBDA x : StartsWith(x, prefix))
      crlf == Position(c, <<"cr", "nl">>, 1) # 0
  IN  IF i = 0 THEN Missing ELSE Glue([l EXCEPT ![i] = new], IF crlf THEN <<"cr", "nl">> ELSE NL)

\* A bug of the kind the comparison of trimmed lines invites: the first of two is forgotten.
UniqueLines_Adjacent(c) ==
  Glue(FoldLeft(LAMBDA kept, l :
                  LET t == TrimSpace(l, Blank)
                  IN  IF t = <<>> \/ (kept # <<>> /\ Last(kept) = t) THEN kept ELSE Append(kept, t),
                <<>>, Cut(c, NL)), NL)

UniqueLines(c) ==
  Glue(FoldLeft(LAMBDA kept, l :
                  LET t == TrimSpace(l, Blank)
                  IN  IF t = <<>> \/ Contains(kept, t) THEN kept ELSE Append(kept, t),
                <<>>, Cut(c, NL)), NL)

InsertAfter(c, search, insert) ==
  LET after(l) == LET k == Position(l, search, 1) + Len(search) - 1
                  IN  IF Position(l, search, 1) = 0 THEN l ELSE SubSeq(l, 1, k) \o insert \o SubSeq(l, k + 1, Len(l))
  IN  Glue([i \in DOMAIN ReadAllLines(c) |-> after(ReadAllLines(c)[i])], NL)

\* The lines with the words, each with an end; their numbers are left out.
FindWords(c, word) == FlattenSeq([i \in DOMAIN SearchLines(c, word) |-> SearchLines(c, word)[i] \o NL])

\* What AppendLine adds: the last line gets an end if it has none.
LineAdded(c, line) == (IF c \in {Missing, <<>>} \/ Last(c) = "nl" THEN <<>> ELSE NL) \o line \o NL

-----------------------------------------------------------------------------
(***************************************************************************)
(* The calls.                                                              *)
(***************************************************************************)
Idle == call.step = "done"

FileInit ==
  /\ \E p \in Paths, c \in (UNION {[1 .. n -> {"a", "b", "nl"}] : n \in 0 .. MaxContent})
                            \cup {<<"a", "cr", "nl", "b">>, <<"a", "cr", "nl", "a">>, <<"a", "nl", "b", "nl", "a">>,
                                  <<"A", "N", "B">>, <<"A", "b">>}, other \in {Missing, <<"b">>} :
       disk = [q \in Paths |-> IF q = p THEN c ELSE other]
  /\ call = [op |-> "none", src |-> {}, dst |-> {}, arg |-> <<>>, text |-> <<>>, overwrite |-> FALSE,
             step |-> "done", result |-> "ok", before |-> disk]

Called(op, src, dst, arg, text, overwrite, step, result) ==
  /\ call.op = "none"
  /\ call' = [op |-> op, src |-> src, dst |-> dst, arg |-> arg, text |-> text, overwrite |-> overwrite,
              step |-> step, result |-> result, before |-> disk]

Returns(result) == call' = [call EXCEPT !.step = "done", !.result = result]
Fails(op, src, dst)   == Called(op, src, dst, <<>>, <<>>, FALSE, "done", "error") /\ UNCHANGED disk
Nothing(op, src, dst) == Called(op, src, dst, <<>>, <<>>, FALSE, "done", "nothing") /\ UNCHANGED disk

\* os.WriteFile and os.Create empty the file, os.OpenFile with O_APPEND leaves it as it is.
Opens(op, src, dst, arg, text, overwrite) ==
  /\ "same" \in FileFeatures \/ src # dst \/ op \notin {"copy", "move", "encode", "decode", "findwords"}
  /\ Called(op, src, dst, arg, text, overwrite, "writing", "running")
  /\ disk' = [disk EXCEPT ![dst] = <<>>]

OpensToAppend(op, p, arg, text) ==
  /\ Called(op, p, p, arg, text, FALSE, "writing", "running")
  /\ disk' = [disk EXCEPT ![p] = IF @ = Missing THEN <<>> ELSE @]

\* What io.Copy reads: nothing, when the output it was emptied for is its input.
Source(src, dst) == IF src = dst THEN <<>> ELSE disk[src]

\* WriteBytes and StreamWrite differ from the first two in what they are given only.
WriteAllText(p, text)  == Opens("write", p, p, text, text, TRUE)
AppendAllText(p, text) == OpensToAppend("append", p, text, text)
AppendLine(p, line)    == OpensToAppend("line", p, line, LineAdded(disk[p], line))

Create(p) ==
  /\ Called("create", p, p, <<>>, <<>>, FALSE, "done", "ok")
  /\ disk' = [disk EXCEPT ![p] = IF @ = Missing THEN <<>> ELSE @]

Delete(p) ==
  /\ Called("delete", p, p, <<>>, <<>>, FALSE, "done", "ok")
  /\ disk' = [disk EXCEPT ![p] = Missing]

Rewrite(op, p, arg, new, Written(_)) ==
  IF ~ Exists(p) THEN Fails(op, p, p)
  ELSE IF Written(disk[p]) = Missing THEN Nothing(op, p, p)
  ELSE Opens(op, p, p, <<arg, new>>, Written(disk[p]), TRUE)

Replace1(p, s, new)   == Rewrite("replace", p, s, new, LAMBDA c : ReplaceLine(c, s, new))
ReplaceEvery(p, s, new) == Rewrite("replaceall", p, s, new, LAMBDA c : ReplaceText(c, s, new))
Update(p, s, new)     == Rewrite("update", p, s, new, LAMBDA c : UpdateValue(c, s, new))
Uniq(p)               == Rewrite("unique", p, <<>>, <<>>, UniqueLines)

Insert(src, dst, s, new) ==
  IF ~ Exists(src) THEN Fails("insert", src, dst)
  ELSE Opens("insert", src, dst, <<s, new>>, InsertAfter(disk[src], s, new), TRUE)

Find(src, dst, word) ==
  IF ~ Exists(src) THEN Fails("findwords", src, dst)
  ELSE Opens("findwords", src, dst, <<word>>, FindWords(Source(src, dst), word), TRUE)

Base64Encode(src, dst) ==
  IF ~ Exists(src) THEN Fails("encode", src, dst)
  ELSE Opens("encode", src, dst, <<>>, Base64(Source(src, dst)), TRUE)

\* A text that is none of Base64 is noticed when it is read: what stands before is written.
Base64Decode(src, dst) ==
  IF ~ Exists(src) THEN Fails("decode", src, dst)
  ELSE IF Decodes(Source(src, dst)) THEN Opens("decode", src, dst, <<>>, Unbase64(Source(src, dst)), TRUE)
  ELSE /\ Called("decode", src, dst, <<>>, <<>>, TRUE, "done", "error")
       /\ \E k \in {m \in 0 .. Len(disk[src]) : Decodes(SubSeq(disk[src], 1, m))} :
            disk' = [disk EXCEPT ![dst] = Unbase64(SubSeq(disk[src], 1, k))]

Blocked(dst, overwrite) == Exists(dst) /\ ~ overwrite

Copy(src, dst, overwrite) ==
  IF ~ Exists(src) \/ Blocked(dst, overwrite) THEN Fails("copy", src, dst)
  ELSE Opens("copy", src, dst, <<>>, Source(src, dst), overwrite)

Renamed(src, dst) == [disk EXCEPT ![src] = Missing, ![dst] = disk[src]]

\* os.Rename, and where it cannot, copyAndDelete.
Move(src, dst, overwrite) ==
  IF ~ Exists(src) \/ Blocked(dst, overwrite) THEN Fails("move", src, dst)
  ELSE \/ /\ Called("move", src, dst, <<>>, <<>>, overwrite, "done", "ok")
          /\ disk' = Renamed(src, dst)
       \/ src # dst /\ Opens("move", src, dst, <<>>, Source(src, dst), overwrite)

Rename(src, dst) ==
  IF ~ Exists(src) THEN Fails("rename", src, dst)
  ELSE /\ Called("rename", src, dst, <<>>, <<>>, TRUE, "done", "ok")
       /\ disk' = Renamed(src, dst)

\* secureDeleteFile: the file is overwritten in place, emptied, renamed and removed.
SecureDelete(p) ==
  IF ~ Exists(p) THEN Fails("shred", p, p)
  ELSE /\ Called("shred", p, p, <<>>, <<>>, TRUE, "shredding", "running")
       /\ disk' = [disk EXCEPT ![p] = [i \in DOMAIN @ |-> "noise"]]

-----------------------------------------------------------------------------
(***************************************************************************)
(* How a call goes on.                                                     *)
(***************************************************************************)
Put(text) == disk' = [disk EXCEPT ![call.dst] = @ \o text]

Writes ==
  /\ call.step = "writing"
  /\ Put(call.text)
  /\ IF call.op = "move" THEN call' = [call EXCEPT !.step = "copied"] ELSE Returns("ok")

\* Base64Encode and FindWords do not look at the errors of their writes.
WriteFails ==
  /\ call.step = "writing"
  /\ "encode" \in FileFeatures \/ call.op \notin {"encode", "findwords"}
  /\ \E k \in 0 .. Len(call.text) : Put(SubSeq(call.text, 1, k))
  /\ Returns(IF call.op \in {"encode", "findwords"} THEN "ok" ELSE "error")

\* A bug of the kind copyAndDelete invites: the source is deleted although the copy failed.
RemoveSource_Always ==
  /\ call.op = "move" /\ call.step \in {"writing", "copied"}
  /\ disk' = [disk EXCEPT ![call.src] = Missing]
  /\ Returns("ok")

RemoveSource ==
  /\ call.step = "copied"
  /\ \/ disk' = [disk EXCEPT ![call.src] = Missing] /\ Returns("ok")
     \/ UNCHANGED disk /\ Returns("error")

Shreds ==
  /\ call.step = "shredding"
  /\ \/ disk' = [disk EXCEPT ![call.src] = Missing] /\ Returns("ok")
     \/ disk' \in {[disk EXCEPT ![call.src] = c] : c \in {disk[call.src], <<>>, Missing}} /\ Returns("error")

\* The process ends; what is left is what another script finds.
Crash ==
  /\ call.step # "done"
  /\ \/ UNCHANGED disk
     \/ call.step = "writing" /\ \E k \in 1 .. Len(call.text) : Put(SubSeq(call.text, 1, k))
  /\ Returns("crash")

Given == {<<"a">>, <<"b", "a">>}

Starts ==
  \/ \E p \in Paths, t \in Given :
       WriteAllText(p, t) \/ AppendAllText(p, t) \/ AppendLine(p, t)
  \/ \E p \in Paths :
       \/ Create(p) \/ Delete(p) \/ Uniq(p) \/ SecureDelete(p)
       \/ \E s \in {<<"a">>, <<"b">>}, new \in {<<"b", "b">>, <<"b", "a">>} :
            \/ Replace1(p, s, new) \/ ReplaceEvery(p, s, new) \/ Update(p, s, new)
            \/ \E q \in Paths : Insert(p, q, s, new)
       \/ \E q \in Paths :
            \/ (Exists(p) => ToSet(disk[p]) \subseteq Plain) /\ Base64Encode(p, q)
            \/ Base64Decode(p, q) \/ Rename(p, q) \/ Find(p, q, <<"a">>)
            \/ \E overwrite \in BOOLEAN : Copy(p, q, overwrite) \/ Move(p, q, overwrite)

FileNext == Starts \/ Writes \/ WriteFails \/ RemoveSource \/ Shreds \/ Crash

FileSpec == FileInit /\ [][FileNext]_fileVars
-----------------------------------------------------------------------------
(***************************************************************************)
(* The properties.                                                         *)
(***************************************************************************)
Text(c) == IF c = Missing THEN <<>> ELSE c
Occurs(s, t) == Position(s, t, 1) # 0
LinesWith(lines, t) == {i \in DOMAIN lines : Occurs(lines[i], t)}

\* m is l but for the line i.
OneLine(l, m, i) == i \in DOMAIN l /\ DOMAIN m = DOMAIN l /\ \A k \in DOMAIN l \ {i} : m[k] = l[k]

\* What op has done when it says that it succeeded: b and d are the output before and after, s the
\* input, arg what it was given.
Meaning(op, s, b, d, arg) ==
  CASE op = "write"     -> d = arg
    [] op = "append"    -> d = Text(b) \o arg
    [] op = "line"      -> Scanned(d) = Append(Scanned(Text(b)), arg) /\ Last(d) = "nl"
    [] op = "create"    -> d = Text(b)
    [] op = "delete"    -> d = Missing
    [] op = "shred"     -> d = Missing
    [] op \in {"copy", "move", "rename"} -> d = s
    [] op = "encode"    -> Decodes(d) /\ Unbase64(d) = s
    [] op = "decode"    -> Base64(d) = s
    [] op = "replace"   -> \E i \in LinesWith(Lines(s), arg[1]) :
                             /\ OneLine(Lines(s), Lines(d), i) /\ Lines(d)[i] = arg[2]
                             /\ \A k \in LinesWith(Lines(s), arg[1]) : i <= k
    [] op = "replaceall" -> Occurs(d, arg[1]) => Occurs(arg[2], arg[1])
    [] op = "update"    -> /\ \E i \in DOMAIN Lines(s) : OneLine(Lines(s), Lines(d), i) /\ Lines(d)[i] = arg[2]
                           /\ StartsWith(arg[2], arg[1]) => arg[1] \o ReadValue(d, arg[1]) = arg[2]
                           /\ Occurs(s, <<"cr">>) => Occurs(d, <<"cr">>)
    [] op = "unique"    -> /\ GetDuplicates(d) = {} /\ UniqueLines(d) = d
                           /\ ToSet(Lines(d)) \cup {<<>>} = {TrimSpace(l, Blank) : l \in ToSet(Lines(s))} \cup {<<>>}
    [] op = "insert"    -> Len(d) = Len(Glue(ReadAllLines(s), NL))
                                    + Cardinality(LinesWith(ReadAllLines(s), arg[1])) * Len(arg[2])
    [] op = "findwords" -> Scanned(d) = SearchLines(s, arg[1])

\* A call that reports success has done what its description says, and a move leaves nothing
\* behind (stdlib_file.go, the texts of the registrations; md/file.md).
CallsDoWhatTheySay ==
  Idle /\ call.op # "none" =>
    /\ call.result = "ok" =>
         /\ Meaning(call.op, call.before[call.src], call.before[call.dst], disk[call.dst], call.arg)
         /\ call.op \in {"move", "rename"} /\ call.src # call.dst => ~ Exists(call.src)
         /\ call.op = "copy" => Compare(call.src, call.dst) = 0
    /\ call.result = "nothing" => disk = call.before

\* "Fehler beim Kodieren und beim Abschließen des Encoders werden jetzt als `ErrorVal` gemeldet
\* statt verschluckt" (md/file.md:615): a Base64Encode without an error has encoded all of its input.
EncodeErrorsAreReported ==
  Idle /\ call.op = "encode" /\ call.result = "ok" =>
    Decodes(disk[call.dst]) /\ Unbase64(disk[call.dst]) = call.before[call.src]

\* The functions that read agree with one another and with the lines of the file: Head and Tail
\* are its ends, and the duplicates are the lines that are there twice (stdlib_file.go:1305, :1489,
\* :1523, :1764, :2160).  ReadAllLines finds the lines of the others unless the file ends with empty
\* lines or with a "cr" alone.
ReadersAgree ==
  \A c \in {disk[p] : p \in Paths} \ {Missing} :
    /\ /\ (c # <<>> /\ Last(Scanned(c)) # <<>>) \/ "blank_end" \in FileFeatures
       /\ c = <<>> \/ Last(c) # "cr" \/ "open_cr" \in FileFeatures
       => Scanned(c) = ReadAllLines(c)
    /\ \A n \in 1 .. 3 :
         /\ IsPrefix(HeadLines(c, n), Scanned(c))
         /\ LET tail == TailLines(c, n)
            IN  /\ IsSuffix(tail, c)
                /\ /\ Len(c) <= Chunk \/ "chunk" \in FileFeatures
                   /\ c = <<>> \/ Last(c) = "nl" \/ "open_end" \in FileFeatures
                   => Scanned(tail) = SubSeq(Scanned(c), Max({0, LineCount(c) - n}) + 1, LineCount(c))
    /\ GetDuplicates(c) = {l \in ToSet(Scanned(c)) \ {<<>>} :
                            Cardinality({i \in DOMAIN Scanned(c) : Scanned(c)[i] = l}) > 1}

\* Whatever becomes of a call, the content it was given is in its input or in its output; a target
\* it must not overwrite and files it does not name stay as they are (stdlib_file.go:451, :503).
SourcesSurvive ==
  call.op # "none" =>
    /\ \A p \in Paths \ {call.src, call.dst} : disk[p] = call.before[p]
    /\ call.src # call.dst =>
         call.before[call.src] \in {disk[call.src]} \cup IF call.op \in {"move", "rename"} THEN {disk[call.dst]} ELSE {}
    /\ call.src = call.dst /\ call.op \in {"copy", "move", "rename", "encode", "decode", "findwords"} =>
         call.before[call.src] = disk[call.src]
    /\ ~ call.overwrite /\ call.op \in {"copy", "move"} /\ call.before[call.dst] # Missing =>
         disk[call.dst] = call.before[call.dst]
    /\ call.op \in {"append", "line", "create"} => IsPrefix(Text(call.before[call.dst]), disk[call.dst])
    /\ /\ "in_place" \in FileFeatures /\ Idle /\ call.result # "ok"
       /\ call.op \in {"replace", "replaceall", "update", "unique"}
       => disk = call.before
================================================================================
