-------------------------------- MODULE LogWatch --------------------------------
(***************************************************************************)
(* file.WatchLog (stdlib_file_linux.go, stdlib_file_windows.go): a log     *)
(* file is polled by its path while another program appends lines to it,   *)
(* empties it or puts a new file in its place; what was added since the    *)
(* last poll is read through the handle that was opened before.  And       *)
(* file.Watch, which waits for a change of the size or the time of a file. *)
(*                                                                         *)
(* A file is a sequence of pieces <<line, part>>: a line with the pattern  *)
(* has a head and an end, and is found only where both are read at once;   *)
(* any other line is one piece.                                            *)
(*                                                                         *)
(* Of what the other program may do, WatchFeatures names what is           *)
(* enumerated:                                                             *)
(*   "parts"   a line is written in two parts (stdlib_file_linux.go:62)    *)
(*   "late"    a file is emptied or replaced with lines that were not read *)
(*   "regrow"  the next file is as long as the last before it is noticed   *)
(*             (stdlib_file_linux.go:45)                                   *)
(***************************************************************************)
EXTENDS Integers, Sequences, SequencesExt

CONSTANTS WatchFeatures,  \* a set of the names above
          MaxLines,       \* the lines that are logged
          MaxCuts         \* how often the log is emptied or replaced

ASSUME WatchAssumption ==
  WatchFeatures \subseteq {"parts", "late", "regrow"} /\ MaxLines \in Nat /\ MaxCuts \in Nat

VARIABLES logs,     \* the files the log has been, by inode
          stamps,   \* when each was changed last
          named,    \* the inode at the path, 0: none
          lines,    \* the lines begun
          cuts,     \* how often the log was emptied or replaced
          watch     \* the call of WatchLog or Watch: its kind is "log", "silent" or "change"

logVars   == <<logs, stamps, named, lines, cuts>>
watchVars == <<logVars, watch>>

Size == Len(logs[named])
Watching == watch.step \notin {"idle", "done"}

\* The file at the path is another than the one that was read up to pos.
Replaced == Watching /\ (watch.handle # named \/ watch.cut)

Unfinished == named # 0 /\ logs[named] # <<>> /\ Last(logs[named])[2] = "head"

LogInit ==
  /\ logs = << <<>> >> /\ stamps = <<0>> /\ named = 1 /\ lines = 0 /\ cuts = 0
  /\ watch \in [step : {"idle"}, kind : {"log", "silent", "change"}, timed : BOOLEAN, handle : {0}, pos : {0},
                size : {0}, stamp : {0}, cut : {FALSE}, from : {0}, shown : {<<>>}, result : {"none"}]

-----------------------------------------------------------------------------
(***************************************************************************)
(* The other program.                                                      *)
(***************************************************************************)
Now == Max(ToSet(stamps)) + 1

Reading == Watching /\ watch.kind # "change"

Adds(pieces) ==
  /\ named # 0
  /\ Reading /\ Replaced /\ "regrow" \notin WatchFeatures => Size + Len(pieces) < watch.pos
  /\ logs' = [logs EXCEPT ![named] = @ \o pieces]
  /\ stamps' = [stamps EXCEPT ![named] = Now]
  /\ UNCHANGED <<named, cuts, watch>>

WriteLine ==
  /\ lines < MaxLines /\ ~ Unfinished
  /\ lines' = lines + 1
  /\ \/ Adds(<< <<lines', "other">> >>)
     \/ Adds(<< <<lines', "head">>, <<lines', "end">> >>)
     \/ "parts" \in WatchFeatures /\ Adds(<< <<lines', "head">> >>)

WriteEnd == Unfinished /\ Adds(<< <<Last(logs[named])[1], "end">> >>) /\ UNCHANGED lines

Cuts ==
  /\ cuts < MaxCuts /\ named # 0 /\ ~ Unfinished
  /\ Reading /\ "late" \notin WatchFeatures => ~ Replaced /\ watch.pos = Size
  /\ Reading /\ "regrow" \notin WatchFeatures => watch.pos > 0
  /\ cuts' = cuts + 1
  /\ watch' = [watch EXCEPT !.cut = TRUE]
  /\ UNCHANGED lines

Truncate ==
  /\ Cuts
  /\ logs' = [logs EXCEPT ![named] = <<>>] /\ stamps' = [stamps EXCEPT ![named] = Now]
  /\ UNCHANGED named

Rotate == Cuts /\ named' = 0 /\ UNCHANGED <<logs, stamps>>

Recreate ==
  /\ named = 0
  /\ logs' = Append(logs, <<>>) /\ stamps' = Append(stamps, Now) /\ named' = Len(logs')
  /\ UNCHANGED <<lines, cuts, watch>>

-----------------------------------------------------------------------------
(***************************************************************************)
(* watchLogInternal, and the loop of file.Watch.                           *)
(***************************************************************************)
Begin ==
  /\ watch.step = "idle" /\ named # 0
  /\ watch' = [watch EXCEPT !.step = "poll", !.handle = named, !.pos = Size, !.size = Size,
                            !.stamp = stamps[named], !.from = lines, !.cut = FALSE]

TimesOut ==
  /\ watch.step = "poll" /\ watch.timed /\ watch.kind # "log"
  /\ watch' = [watch EXCEPT !.step = "done", !.result = "false"]

\* os.Stat by path: a shorter file is a new one, a longer one is read on.
Poll ==
  /\ watch.step = "poll" /\ watch.kind # "change" /\ named # 0 /\ Size # watch.pos
  /\ watch' = [watch EXCEPT !.step = IF Size < watch.pos THEN "reopen" ELSE "read", !.size = Size]

\* A bug of the kind the shared position invites: the new file is read from where the old one ended.
Reopen_KeepsPosition ==
  /\ watch.step = "reopen"
  /\ watch' = [watch EXCEPT !.step = "poll", !.handle = named, !.pos = IF named # 0 THEN Size ELSE @,
                            !.cut = named = 0 /\ @]

\* The old file is closed first; if the new one cannot be opened the closed handle stays.
Reopen ==
  /\ watch.step = "reopen"
  /\ watch' = [watch EXCEPT !.step = "poll", !.handle = named, !.pos = IF named # 0 THEN 0 ELSE @,
                            !.cut = named = 0 /\ @]

Found(buffer) ==
  {buffer[i][1] : i \in {k \in 1 .. Len(buffer) - 1 : buffer[k][2] = "head" /\ buffer[k + 1][2] = "end"}}

\* ReadAt fails on a closed file and where the file ends too early: then nothing is looked at.
Buffer ==
  IF watch.handle = 0 \/ Len(logs[watch.handle]) < watch.size THEN <<>>
  ELSE SubSeq(logs[watch.handle], watch.pos + 1, watch.size)

Read ==
  /\ watch.step = "read"
  /\ watch' = [watch EXCEPT !.pos = watch.size,
                            !.shown = @ \o SetToSortSeq(Found(Buffer), <),
                            !.step = IF watch.kind = "silent" /\ Found(Buffer) # {} THEN "done" ELSE "poll",
                            !.result = IF watch.kind = "silent" /\ Found(Buffer) # {} THEN "true" ELSE @]

Changed == Size # watch.size \/ stamps[named] > watch.stamp

PollChange ==
  /\ watch.step = "poll" /\ watch.kind = "change"
  /\ named # 0 => Changed
  /\ watch' = [watch EXCEPT !.step = "done", !.result = IF named = 0 THEN "error" ELSE "true"]

Watcher == (Begin \/ TimesOut \/ Poll \/ Reopen \/ Read \/ PollChange) /\ UNCHANGED logVars

LogNext == WriteLine \/ WriteEnd \/ Truncate \/ Rotate \/ Recreate \/ Watcher

-----------------------------------------------------------------------------
Logged == UNION {Found(logs[i]) : i \in DOMAIN logs}

\* Whenever the watch has read as far as the log goes, it has reported every line with the pattern
\* that was logged since it began, each once; silent, it returns True for the first one only
\* (md/file.md:580, :590).
WatchSeesMatches ==
  /\ watch.step = "poll" /\ named # 0 /\ ~ Replaced /\ watch.pos = Size =>
       {id \in Logged : id > watch.from} \subseteq ToSet(watch.shown)
  /\ \A i, j \in DOMAIN watch.shown : i < j => watch.shown[i] < watch.shown[j]
  /\ \A id \in ToSet(watch.shown) : watch.from < id
  /\ watch.kind = "silent" => (watch.result = "true") = (watch.shown # <<>>)

\* And it goes on reading: a line with the pattern that is logged while the log is watched is
\* reported in the end, and any change of a file ends its Watch, if the watch goes on polling and
\* no timeout ends it.
LinesAreReported ==
  /\ [][WatchSeesMatches']_watchVars
  /\ \A id \in 1 .. MaxLines :
       (Reading /\ id > watch.from /\ id \in Logged) ~> (id \in ToSet(watch.shown) \/ watch.step = "done")
  /\ (Watching /\ watch.kind = "change" /\ (lines > watch.from \/ watch.cut)) ~> (watch.step = "done")
================================================================================
