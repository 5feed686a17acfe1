---------------------------- MODULE FolderWorkers ----------------------------
(***************************************************************************)
(* The builtins that work on the files of a folder in parallel             *)
(* (stdlib_folder.go, stdlib_file.go): folder.Copy, folder.Move with its   *)
(* fallback to Copy and RemoveAll, folder.FindInFiles and file.HashBatch.  *)
(*                                                                         *)
(* They share a pattern: main visits the files and hands each to one of    *)
(* Slots workers; a worker may send results on a bounded channel; main     *)
(* waits for all of them.  They differ in where it can go wrong:           *)
(*   FindInFiles  starts a goroutine per file while a semaphore has a free *)
(*                slot, and receives results only after the last file has  *)
(*                been handed over                                         *)
(*   HashBatch    has a channel with room for all jobs, and one for all    *)
(*                results                                                  *)
(*   Copy, Move   have a bounded channel of jobs and no results: what      *)
(*                copyFileInternalBuffered returns is not looked at        *)
(* Order of the walk, names and contents are left open.                    *)
(***************************************************************************)
EXTENDS Naturals, Sequences, FiniteSets, Functions, FiniteSetsExt

CONSTANTS
  Files,
  None,         \* no file
  Slots,        \* number of workers, or of slots of the semaphore (8, 4, 16 in the code)
  JobCap,       \* capacity of Copy's channel of jobs (4 per worker in the code)
  ResultCap,    \* capacity of FindInFiles' channel of results (1024 in the code)
  MaxMatches,   \* bound on the matching lines of a file
  Features

(***************************************************************************)
(* many_matches   the files match so often that FindInFiles' channel fills *)
(*                while it waits for a slot                                *)
(* copy_fails     a file or a directory cannot be copied                   *)
(***************************************************************************)
AllFeatures == {"many_matches", "copy_fails"}

ASSUME FolderAssumption ==
  /\ IsFiniteSet(Files) /\ None \notin Files
  /\ Slots \in Nat \ {0} /\ JobCap \in Nat \ {0} /\ ResultCap \in Nat \ {0}
  /\ MaxMatches \in Nat
  /\ Features \subseteq AllFeatures

Workers  == 1 .. Slots
Builtins == {"Copy", "Move", "FindInFiles", "HashBatch"}
Copying  == {"Copy", "Move"}

VARIABLES
  files,    \* the files of the folder
  builtin,  \* the builtin that is executed
  main,     \* where it is
  todo,     \* the files the walk has not reached
  jobs,     \* the channel of jobs
  job,      \* the file each worker works on, or None
  left,     \* the results each worker has still to send
  results, closed,   \* the channel of results, and whether it is closed
  out,      \* the number of results received, by file
  failed,   \* the files that could not be read to the end
  matches,  \* the number of matching lines of each file
  src, dst  \* the files in the source folder; the state of each in the target

walk   == <<builtin, main, todo>>
pool   == <<jobs, job, left>>
chan   == <<results, closed, out>>
folder == <<src, dst>>
vars   == <<files, walk, pool, chan, failed, matches, folder>>

\* Results of a file: a line per match, one hash or one error, none.
Expected(f) == CASE builtin = "FindInFiles" -> matches[f]
                 [] builtin = "HashBatch"   -> 1
                 [] OTHER -> 0

Capacity == IF builtin = "HashBatch" THEN Cardinality(files) ELSE ResultCap

FewMatches == FoldFunction(+, 0, matches) <= ResultCap \/ Cardinality(files) <= Slots

Init ==
  /\ files \in SUBSET Files
  /\ builtin \in Builtins
  /\ main = IF builtin = "Move" THEN "rename" ELSE "walking"
  /\ todo = files /\ jobs = <<>>
  /\ job = [w \in Workers |-> None] /\ left = [w \in Workers |-> 0]
  /\ results = <<>> /\ closed = FALSE /\ out = [f \in Files |-> 0]
  /\ failed = {}
  /\ matches \in [Files -> 0 .. MaxMatches]
  /\ \A f \in Files \ files : matches[f] = 0
  /\ "many_matches" \notin Features => FewMatches
  /\ builtin # "FindInFiles" => matches = [f \in Files |-> 0]
  /\ src = files
  /\ \E before \in {"absent", "old"} : dst = [f \in Files |-> before]

\* wg.Wait() would return.
AllDone == jobs = <<>> /\ \A w \in Workers : job[w] = None

--------------------------------------------------------------------------------
(* main.                                                                    *)

\* failIfExists, and the target exists.
Refuse ==
  /\ main = "rename" \/ (main = "walking" /\ builtin = "Copy" /\ todo = files /\ AllDone)
  /\ \E f \in Files : dst[f] = "old"
  /\ main' = "returned"
  /\ UNCHANGED <<files, builtin, todo, pool, chan, failed, matches, folder>>

\* os.RenameFolder moves the folder or fails and changes nothing.
RenameFolder ==
  /\ main = "rename"
  /\ \/ /\ main' = "returned"
        /\ src' = {} /\ dst' = [f \in Files |-> "copied"]
     \/ main' = "walking" /\ UNCHANGED folder
  /\ UNCHANGED <<files, builtin, todo, pool, chan, failed, matches>>

\* FindInFiles: sem <- struct{}{}; go func.  A file that cannot be opened, or read
\* to its end, has fewer results.
StartWorker(f, w) ==
  /\ main = "walking" /\ builtin = "FindInFiles" /\ f \in todo
  /\ job[w] = None
  /\ todo' = todo \ {f}
  /\ job' = [job EXCEPT ![w] = f]
  /\ \E n \in 0 .. Expected(f) :
       /\ left' = [left EXCEPT ![w] = n]
       /\ failed' = IF n < Expected(f) THEN failed \cup {f} ELSE failed
  /\ UNCHANGED <<files, builtin, main, jobs, chan, matches, folder>>

\* Copy, HashBatch: jobs <- f.
Enqueue(f) ==
  /\ main = "walking" /\ builtin # "FindInFiles" /\ f \in todo
  /\ builtin \in Copying => Len(jobs) < JobCap
  /\ todo' = todo \ {f}
  /\ jobs' = Append(jobs, f)
  /\ UNCHANGED <<files, builtin, main, job, left, chan, failed, matches, folder>>

\* WalkDir reports an error for a directory: its files are passed over.
Skip(f) ==
  /\ main = "walking" /\ builtin # "HashBatch" /\ f \in todo
  /\ builtin \in Copying => "copy_fails" \in Features
  /\ todo' = todo \ {f}
  /\ failed' = failed \cup {f}
  /\ UNCHANGED <<files, builtin, main, pool, chan, matches, folder>>

EndWalk ==
  /\ main = "walking" /\ todo = {}
  /\ main' = IF builtin \in Copying THEN "waiting" ELSE "collecting"
  /\ UNCHANGED <<files, builtin, todo, pool, chan, failed, matches, folder>>

Receive ==
  /\ main = "collecting" /\ results # <<>>
  /\ results' = Tail(results)
  /\ out' = [out EXCEPT ![Head(results)] = @ + 1]
  /\ UNCHANGED <<files, walk, pool, closed, failed, matches, folder>>

\* A bug of the kind channels invite: an empty channel is taken for the end.
EndCollecting_WhenEmpty ==
  /\ main = "collecting" /\ results = <<>>
  /\ main' = "returned"
  /\ UNCHANGED <<files, builtin, todo, pool, chan, failed, matches, folder>>

\* for r := range results ends when the channel is closed and empty.
EndCollecting ==
  /\ main = "collecting" /\ results = <<>> /\ closed
  /\ main' = "returned"
  /\ UNCHANGED <<files, builtin, todo, pool, chan, failed, matches, folder>>

\* A bug of the kind wait groups invite: RemoveAll does not wait for the copies.
EndCopy_NoWait ==
  /\ main = "waiting"
  /\ main' = IF builtin = "Move" THEN "removing" ELSE "returned"
  /\ UNCHANGED <<files, builtin, todo, pool, chan, failed, matches, folder>>

EndCopy ==
  /\ main = "waiting" /\ AllDone
  /\ main' = IF builtin = "Move" THEN "removing" ELSE "returned"
  /\ UNCHANGED <<files, builtin, todo, pool, chan, failed, matches, folder>>

\* Move: os.RemoveAll(src), file by file.
RemoveFile(f) ==
  /\ main = "removing" /\ f \in src
  /\ src' = src \ {f}
  /\ UNCHANGED <<files, walk, pool, chan, failed, matches, dst>>

EndMove ==
  /\ main = "removing" /\ src = {}
  /\ main' = "returned"
  /\ UNCHANGED <<files, builtin, todo, pool, chan, failed, matches, folder>>

--------------------------------------------------------------------------------
(* The workers, and the goroutine that closes the results.                  *)

\* Copying begins with O_TRUNC.
Take(w) ==
  /\ jobs # <<>> /\ job[w] = None
  /\ jobs' = Tail(jobs)
  /\ job' = [job EXCEPT ![w] = Head(jobs)]
  /\ left' = [left EXCEPT ![w] = Expected(Head(jobs))]
  /\ dst' = IF builtin \in Copying THEN [dst EXCEPT ![Head(jobs)] = "partial"] ELSE dst
  /\ UNCHANGED <<files, walk, chan, failed, matches, src>>

\* HashBatch sends the error instead of the hash of a file it cannot read.
SendResult(w) ==
  /\ job[w] # None /\ left[w] > 0
  /\ Len(results) < Capacity
  /\ results' = Append(results, job[w])
  /\ left' = [left EXCEPT ![w] = @ - 1]
  /\ UNCHANGED <<files, walk, jobs, job, closed, out, failed, matches, folder>>

\* A copy that fails removes what it has written.
Finish(w) ==
  /\ job[w] # None /\ left[w] = 0
  /\ job' = [job EXCEPT ![w] = None]
  /\ \E result \in {"copied"} \cup (IF "copy_fails" \in Features THEN {"absent"} ELSE {}) :
       dst' = IF builtin \in Copying THEN [dst EXCEPT ![job[w]] = result] ELSE dst
  /\ UNCHANGED <<files, walk, jobs, left, chan, failed, matches, src>>

\* wg.Wait(); close(results)
CloseResults ==
  /\ main = "collecting" /\ ~closed /\ AllDone
  /\ closed' = TRUE
  /\ UNCHANGED <<files, walk, pool, results, out, failed, matches, folder>>

--------------------------------------------------------------------------------
Main ==
  \/ RenameFolder
  \/ \E f \in Files : (\E w \in Workers : StartWorker(f, w)) \/ Enqueue(f) \/ RemoveFile(f)
  \/ EndWalk \/ Receive \/ EndCollecting \/ EndCopy \/ EndMove

Worker(w) == Take(w) \/ SendResult(w) \/ Finish(w)

\* The builtin has returned.
Returned == main = "returned" /\ UNCHANGED vars

Next ==
  \/ Main \/ Refuse
  \/ \E f \in Files : Skip(f)
  \/ \E w \in Workers : Worker(w)
  \/ CloseResults
  \/ Returned

\* Every goroutine that can go on does.
Fairness ==
  /\ WF_vars(Main) /\ WF_vars(CloseResults)
  /\ \A w \in Workers : WF_vars(Worker(w))

Spec == Init /\ [][Next]_vars /\ Fairness

--------------------------------------------------------------------------------
(* Correctness.                                                             *)

\* The types, and: the goroutines never have more in their hands than there is,
\* each file once.
TypeOK ==
  /\ builtin \in Builtins
  /\ main \in {"rename", "walking", "waiting", "collecting", "removing", "returned"}
  /\ files \subseteq Files
  /\ todo \subseteq files /\ failed \subseteq files /\ src \subseteq files
  /\ jobs \in Seq(Files) /\ job \in [Workers -> Files \cup {None}]
  /\ left \in [Workers -> 0 .. MaxMatches + 1]
  /\ results \in Seq(Files) /\ Len(results) <= Capacity /\ closed \in BOOLEAN
  /\ out \in [Files -> Nat]
  /\ dst \in [Files -> {"absent", "old", "partial", "copied"}]
  /\ \A w \in Workers : job[w] = None => left[w] = 0
  /\ \A v, w \in Workers : v # w /\ job[v] # None => job[v] # job[w]

\* A file that Move takes from the source is complete in the target, at every
\* moment: neither the workers nor an end of the process in between lose one
\* (md/folder.md: "Schlägt das fehl ..., wird auf Copy + Delete zurückgegriffen").
NothingLost == \A f \in files : f \in src \/ dst[f] = "copied"

\* What FindInFiles and HashBatch hand over: every result of every file once,
\* except that a file FindInFiles cannot read has fewer.
ResultsComplete ==
  builtin \in {"FindInFiles", "HashBatch"} =>
     \A f \in files : \/ out[f] = Expected(f)
                      \/ f \in failed /\ out[f] <= Expected(f)

\* Every builtin returns, and with all its results: no order in which the walk, the
\* workers and the goroutine that closes the channel go on makes them wait for one
\* another, or closes it too early (stdlib_file.go:1073, stdlib_folder.go:731).
ReturnsComplete == <>[](main = "returned" /\ ResultsComplete)
================================================================================
