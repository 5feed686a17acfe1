------------------------------ MODULE FilesProofs ------------------------------
(***************************************************************************)
(* Proofs about what happens to files: about FolderWorkers for any number  *)
(* of files, workers and jobs, and about Files for all contents and paths. *)
(*                                                                         *)
(* The moments between are the point.  In folder.Move a file that is not   *)
(* complete in the target is known to somebody, the walk, the channel or a *)
(* worker, until the wait group is done; and nothing is removed before     *)
(* that.  In a call of the namespace file. the input is where it was until *)
(* a move that has written all of its output removes it; and what is still *)
(* to be written is what the call promises, up to the report.              *)
(***************************************************************************)
EXTENDS FolderWorkers, Files, SequenceTheorems, TLAPS

Types ==
  /\ builtin \in Builtins
  /\ files \subseteq Files /\ todo \subseteq files
  /\ jobs \in Seq(files) /\ job \in [Workers -> files \cup {None}]
  /\ dst \in [Files -> {"absent", "old", "partial", "copied"}]

Queued(f)  == \E i \in 1 .. Len(jobs) : jobs[i] = f
InHand(f)  == \E w \in Workers : job[w] = f
Pending(f) == f \in todo \/ Queued(f) \/ InHand(f)

\* Somebody has still to copy a file, or it has been copied.
CopiesComplete ==
  builtin \in Copying /\ main \in {"walking", "waiting", "removing"} =>
    \A f \in files : Pending(f) \/ dst[f] = "copied"

\* Where main is, all files have been handed over, or copied as well.
Progress ==
  /\ main = "waiting" => todo = {}
  /\ main = "removing" => todo = {} /\ AllDone /\ builtin = "Move"
  /\ main = "rename" => AllDone /\ todo = files

\* Nothing has been removed, or everything has been copied and nobody is at work.
RemovedLast ==
  \/ src = files
  \/ main \in {"removing", "returned"} /\ AllDone /\ \A f \in files : dst[f] = "copied"

IInv == Types /\ CopiesComplete /\ Progress /\ RemovedLast

--------------------------------------------------------------------------------
\* At the call of the builtin nothing has been taken and nothing is lost.
LEMMA InitInv == Init => IInv
<1> SUFFICES ASSUME Init PROVE IInv  OBVIOUS
<1> USE DEF Init
<1>1. Types  BY DEF Types
<1>2. CopiesComplete  BY DEF CopiesComplete, Pending
<1>3. Progress /\ RemovedLast  BY DEF Progress, RemovedLast, AllDone
<1> QED  BY <1>1, <1>2, <1>3 DEF IInv

\* What main does before the copies are done.
LEMMA WalkStep ==
  ASSUME IInv, NEW f \in Files, (\E w \in Workers : StartWorker(f, w)) \/ Enqueue(f)
  PROVE  IInv'
<1> USE DEF StartWorker, Enqueue, Copying
<1>0. f \in todo /\ src' = src /\ files' = files  BY DEF folder
<1>1. f \in files /\ src' = src /\ files' = files  BY <1>0 DEF IInv, Types
<1>2. Types'
  <2>1. jobs' \in Seq(files)  BY <1>1 DEF IInv, Types
  <2>2. job' \in [Workers -> files \cup {None}]  BY <1>1 DEF IInv, Types
  <2>3. todo' \subseteq files /\ builtin' = builtin /\ dst' = dst  BY DEF IInv, Types, folder
  <2> QED  BY <1>1, <2>1, <2>2, <2>3 DEF IInv, Types
<1>3. CopiesComplete'
  <2> SUFFICES ASSUME builtin \in Copying, NEW g \in files, Pending(g) \/ dst[g] = "copied"
      PROVE Pending(g)' \/ dst'[g] = "copied"
    BY <1>1 DEF IInv, CopiesComplete, folder
  <2>1. jobs' = Append(jobs, f) /\ job' = job /\ todo' = todo \ {f} /\ dst' = dst
    BY DEF folder
  <2>2. Queued(f)' /\ (Queued(g) => Queued(g)')
    BY <2>1, <1>1 DEF IInv, Types, Queued
  <2> QED  BY <2>1, <2>2 DEF Pending, InHand
<1>4. Progress' /\ RemovedLast'
  BY <1>1 DEF IInv, Progress, RemovedLast
<1> QED  BY <1>2, <1>3, <1>4 DEF IInv

\* Steps of main that leave the channel of jobs and the workers alone.
LEMMA MainStep ==
  ASSUME IInv, Refuse \/ RenameFolder \/ EndWalk \/ Receive \/ EndCollecting \/ EndCopy \/ EndMove
               \/ CloseResults \/ Returned
  PROVE  IInv'
<1> USE DEF Refuse, RenameFolder, EndWalk, Receive, EndCollecting, EndCopy, EndMove, CloseResults, Returned,
       vars, walk, pool, chan, folder
<1>1. Types'  BY DEF IInv, Types
<1>2. jobs' = jobs /\ job' = job /\ todo' = todo /\ files' = files /\ builtin' = builtin  OBVIOUS
<1>3. \A f \in files : Pending(f)' <=> Pending(f)  BY <1>2 DEF Pending, Queued, InHand
<1>4. AllDone' <=> AllDone  BY <1>2 DEF AllDone
<1>5. CopiesComplete'
  <2>1. CASE main = "rename"
    BY <2>1, <1>2 DEF IInv, CopiesComplete, Progress, Pending
  <2>2. CASE main # "rename"
    BY <2>2, <1>2, <1>3 DEF IInv, CopiesComplete, Copying
  <2> QED  BY <2>1, <2>2
<1>6. Progress'
  BY <1>2, <1>4 DEF IInv, Progress, Types, Builtins, Copying
<1>7. RemovedLast'
  BY <1>2, <1>4 DEF IInv, RemovedLast, Progress, Types
<1> QED  BY <1>1, <1>5, <1>6, <1>7 DEF IInv

\* os.Remove of Move: nobody is at work, so that all of the source is in the target.
LEMMA RemoveStep == ASSUME IInv, NEW f \in Files, RemoveFile(f) PROVE IInv'
<1> USE DEF RemoveFile, walk, pool
<1>1. AllDone /\ todo = {} /\ builtin \in Copying  BY DEF IInv, Progress, Copying
<1>2. \A g \in files : ~Pending(g)
  BY <1>1, FolderAssumption DEF IInv, Types, AllDone, Pending, Queued, InHand
<1>3. \A g \in files : dst[g] = "copied"  BY <1>1, <1>2 DEF IInv, CopiesComplete
<1>4. Types' /\ CopiesComplete'
  BY <1>3 DEF IInv, Types, CopiesComplete
<1>5. Progress' /\ RemovedLast'
  BY <1>1, <1>3 DEF IInv, Progress, RemovedLast, AllDone
<1> QED  BY <1>4, <1>5 DEF IInv

\* A directory is passed over only where nothing is copied.
LEMMA SkipStep ==
  ASSUME "copy_fails" \notin Features, IInv, NEW f \in Files, Skip(f) PROVE IInv'
<1> USE DEF Skip, pool, folder
<1>1. Types'  BY DEF IInv, Types
<1>2. CopiesComplete' /\ Progress' /\ RemovedLast'
  BY DEF IInv, CopiesComplete, Progress, RemovedLast
<1> QED  BY <1>1, <1>2 DEF IInv

\* A worker takes a job: its file goes from the channel into a hand.
LEMMA TakeStep == ASSUME IInv, NEW w \in Workers, Take(w) PROVE IInv'
<1> USE DEF Take, walk, Copying
<1>1. ~AllDone /\ src' = src /\ files' = files /\ src = files
  BY DEF IInv, RemovedLast, AllDone
<1>2. Head(jobs) \in files /\ Tail(jobs) \in Seq(files)
  BY DEF IInv, Types
<1>3. Types'  BY <1>2 DEF IInv, Types
<1>4. CopiesComplete'
  <2> SUFFICES ASSUME builtin \in Copying, main # "removing", NEW g \in files,
                      Pending(g) \/ dst[g] = "copied"
      PROVE Pending(g)' \/ dst'[g] = "copied"
    BY <1>1 DEF IInv, CopiesComplete, Progress
  <2>1. CASE g = Head(jobs)
    BY <2>1 DEF Pending, InHand, IInv, Types
  <2>2. CASE g # Head(jobs)
    <3>1. Queued(g) => Queued(g)'
      <4> SUFFICES ASSUME NEW i \in 1 .. Len(jobs), jobs[i] = g PROVE Queued(g)'  BY DEF Queued
      <4>1. i # 1  BY <2>2 DEF IInv, Types
      <4>2. i - 1 \in 1 .. Len(Tail(jobs)) /\ Tail(jobs)[i - 1] = g
        BY <4>1 DEF IInv, Types
      <4> QED  BY <4>2 DEF Queued
    <3>2. InHand(g) => InHand(g)'
      BY <1>2, FolderAssumption DEF InHand, IInv, Types
    <3>3. dst'[g] = dst[g]  BY <2>2, <1>2 DEF IInv, Types
    <3> QED  BY <3>1, <3>2, <3>3 DEF Pending
  <2> QED  BY <2>1, <2>2
<1>5. Progress' /\ RemovedLast'
  BY <1>1 DEF IInv, Progress, RemovedLast
<1> QED  BY <1>3, <1>4, <1>5 DEF IInv

\* A worker sends what it found: no file changes.
LEMMA SendStep == ASSUME IInv, NEW w \in Workers, SendResult(w) PROVE IInv'
<1> USE DEF SendResult, walk, folder
<1>1. Types'  BY DEF IInv, Types
<1>2. CopiesComplete'  BY DEF IInv, CopiesComplete, Pending, Queued, InHand
<1>3. Progress' /\ RemovedLast'  BY DEF IInv, Progress, RemovedLast, AllDone
<1> QED  BY <1>1, <1>2, <1>3 DEF IInv

\* A copy that ends is complete.
LEMMA FinishStep ==
  ASSUME "copy_fails" \notin Features, IInv, NEW w \in Workers, Finish(w) PROVE IInv'
<1> USE DEF Finish, walk, Copying
<1>1. ~AllDone /\ src' = src /\ files' = files /\ src = files /\ job[w] \in files
  BY DEF IInv, RemovedLast, AllDone, Types
<1>2. Types'  BY <1>1 DEF IInv, Types
<1>3. CopiesComplete'
  <2> SUFFICES ASSUME builtin \in Copying, main # "removing", NEW g \in files,
                      Pending(g) \/ dst[g] = "copied"
      PROVE Pending(g)' \/ dst'[g] = "copied"
    BY <1>1 DEF IInv, CopiesComplete, Progress
  <2>1. CASE g = job[w]  BY <2>1, <1>1 DEF IInv, Types
  <2>2. CASE g # job[w]
    <3>1. dst'[g] = dst[g]  BY <2>2, <1>1 DEF IInv, Types
    <3>2. Pending(g) => Pending(g)'  BY <2>2 DEF Pending, Queued, InHand, IInv, Types
    <3> QED  BY <3>1, <3>2
  <2> QED  BY <2>1, <2>2
<1>4. Progress' /\ RemovedLast'
  BY <1>1 DEF IInv, Progress, RemovedLast
<1> QED  BY <1>2, <1>3, <1>4 DEF IInv

\* Every step of the walk, the workers and main keeps the invariant.
LEMMA NextInv == ASSUME "copy_fails" \notin Features, IInv, [Next]_vars PROVE IInv'
<1>1. CASE Next
  BY <1>1, WalkStep, MainStep, RemoveStep, SkipStep, TakeStep, SendStep, FinishStep
     DEF Next, Main, Worker
<1>2. CASE UNCHANGED vars
  BY <1>2, MainStep DEF Returned, vars, walk, pool, chan, folder, IInv, Types, CopiesComplete,
     Pending, Queued, InHand, Progress, RemovedLast, AllDone
<1> QED  BY <1>1, <1>2

\* If every file can be copied, Move loses none, at no moment of the copying and the
\* removal, whatever the workers do in whichever order (stdlib_folder.go:353).
THEOREM MoveLosesNothing ==
  ASSUME "copy_fails" \notin Features
  PROVE  Spec => []NothingLost
<1>1. Init => IInv  BY InitInv
<1>2. IInv /\ [Next]_vars => IInv'  BY NextInv
<1>3. IInv => NothingLost  BY DEF IInv, RemovedLast, NothingLost
<1> QED  BY <1>1, <1>2, <1>3, PTL DEF Spec

--------------------------------------------------------------------------------
(* The functions of the namespace file.: a script makes one call, which may *)
(* fail or be interrupted after any step of it.                             *)

Characters == {"a", "b", "nl", "cr", "A", "B", "N", "R", "missing"}
Contents   == Seq(Characters)

\* The functions whose output is not their input, and those that add to a file.
Separate  == {"copy", "move", "rename", "encode", "decode", "findwords"}
Appending == {"append", "line", "create"}

IsCall(c) ==
  c = [op |-> c.op, src |-> c.src, dst |-> c.dst, arg |-> c.arg, text |-> c.text,
       overwrite |-> c.overwrite, step |-> c.step, result |-> c.result, before |-> c.before]

\* The input is where it was, until a move that has written its output removes it.
InputKept ==
  /\ call.src # call.dst =>
       \/ disk[call.src] = call.before[call.src]
       \/ /\ call.op \in {"move", "rename"} /\ call.step = "done"
          /\ disk[call.dst] = call.before[call.src]
  /\ call.step = "writing" /\ call.op = "move" =>
       /\ call.src # call.dst /\ disk[call.src] = call.before[call.src]
       /\ disk[call.dst] = <<>> /\ call.text = call.before[call.src]
  /\ call.step = "copied" => /\ call.op = "move" /\ call.src # call.dst
                             /\ disk[call.dst] = call.before[call.src]
  /\ call.src = call.dst /\ call.op \in Separate =>
       disk[call.src] = call.before[call.src] /\ call.step = "done"

\* The output: one that must not be overwritten is not opened, one that is added to not emptied.
OutputKept ==
  /\ ~ call.overwrite /\ call.op \in {"copy", "move"} /\ call.before[call.dst] # Missing =>
       disk[call.dst] = call.before[call.dst] /\ call.step = "done"
  /\ call.op \in Appending =>
       /\ IsPrefix(Text(call.before[call.dst]), disk[call.dst])
       /\ call.step # "done" => /\ call.step = "writing" /\ call.text \in Contents
                                /\ disk[call.dst] = Text(call.before[call.dst])

CallInv ==
  /\ IsCall(call) /\ disk = [p \in Paths |-> disk[p]]
  /\ call.op = "none" => disk \in [Paths -> Contents]
  /\ call.op # "none" =>
       /\ call.before \in [Paths -> Contents] /\ call.src \in Paths /\ call.dst \in Paths
       /\ \A p \in Paths \ {call.src, call.dst} : disk[p] = call.before[p]
       /\ InputKept /\ OutputKept
       /\ call.step = "shredding" => call.op = "shred" /\ call.src = call.dst
  /\ call.op = "none" => call.step = "done"

\* What is added to a file leaves what stands before.
LEMMA PrefixGrows ==
  ASSUME NEW s \in Contents, NEW t \in Contents
  PROVE  IsPrefix(s, s \o t) /\ IsPrefix(s, s)
<1>1. /\ s \o t \in Contents /\ Len(s \o t) = Len(s) + Len(t)
      /\ \A i \in 1 .. Len(s) : (s \o t)[i] = s[i]
  BY ConcatProperties DEF Contents
<1>2. Len(s) \in Nat /\ Len(t) \in Nat
  BY LenProperties DEF Contents
<1>3. SubSeq(s, 1, Len(s)) = SubSeq(s \o t, 1, Len(s))
  BY <1>1, <1>2 DEF Contents
<1>4. QED BY <1>1, <1>2, <1>3 DEF IsPrefix

\* A part of a text is a text.
LEMMA PartOfText ==
  ASSUME NEW t \in Contents, NEW k \in 0 .. Len(t)
  PROVE  SubSeq(t, 1, k) \in Contents
  BY LenProperties DEF Contents

\* A file that is missing, and an empty one, are contents.
LEMMA MissingIsContent == Missing \in Contents /\ <<>> \in Contents
  BY DEF Missing, Contents, Characters

\* Before the first call no file is in danger.
LEMMA InitCallInv == FileInit => CallInv
<1> SUFFICES ASSUME FileInit PROVE CallInv
  OBVIOUS
<1> DEFINE Short == UNION {[1 .. n -> {"a", "b", "nl"}] : n \in 0 .. MaxContent}
           Other == {<<"a", "cr", "nl", "b">>, <<"a", "cr", "nl", "a">>, <<"a", "nl", "b", "nl", "a">>,
                     <<"A", "N", "B">>, <<"A", "b">>}
<1>1. PICK p \in Paths, c \in Short \cup Other, other \in {Missing, <<"b">>} :
       disk = [q \in Paths |-> IF q = p THEN c ELSE other]
  BY Zenon DEF FileInit
<1>2. c \in Contents
  <2>1. ASSUME c \in Short  PROVE c \in Contents
    <3>1. PICK n \in 0 .. MaxContent : c \in [1 .. n -> {"a", "b", "nl"}]
      BY <2>1
    <3>2. n \in Nat /\ c \in [1 .. n -> Characters]
      BY <3>1, FileAssumption DEF Characters
    <3>3. QED BY <3>2, SeqDef DEF Contents
  <2>2. ASSUME c \in Other  PROVE c \in Contents
    <3>1. /\ <<"a", "cr", "nl", "b">> \in Contents /\ <<"a", "cr", "nl", "a">> \in Contents
          /\ <<"a", "nl", "b", "nl", "a">> \in Contents
      BY DEF Contents, Characters
    <3>2. <<"A", "N", "B">> \in Contents /\ <<"A", "b">> \in Contents
      BY DEF Contents, Characters
    <3>3. QED BY <2>2, <3>1, <3>2, Zenon
  <2>3. QED
    <3> HIDE DEF Short, Other
    <3>1. QED BY <2>1, <2>2
<1>3. other \in Contents
  <2>1. <<"b">> \in Contents
    BY DEF Contents, Characters
  <2>2. QED BY <2>1, MissingIsContent
<1>4. disk \in [Paths -> Contents]
  BY <1>1, <1>2, <1>3
<1>5. QED BY <1>4 DEF FileInit, CallInv, IsCall

\* What a call is before it is made, and how it is recorded.
LEMMA Recorded ==
  ASSUME CallInv, NEW op, NEW from \in Paths, NEW to \in Paths, NEW arg, NEW text,
         NEW overwrite, NEW step, NEW result, op # "none",
         Called(op, from, to, arg, text, overwrite, step, result)
  PROVE  /\ disk \in [Paths -> Contents] /\ IsCall(call')
         /\ call'.op = op /\ call'.src = from /\ call'.dst = to /\ call'.text = text
         /\ call'.overwrite = overwrite /\ call'.step = step /\ call'.before = disk
  BY DEF CallInv, Called, IsCall

\* A call that fails or finds nothing to do.
LEMMA RefusedStep ==
  ASSUME CallInv, NEW op, NEW from \in Paths, NEW to \in Paths, op \notin Appending \cup {"none"},
         Fails(op, from, to) \/ Nothing(op, from, to)
  PROVE  CallInv'
<1>1. /\ disk \in [Paths -> Contents] /\ IsCall(call') /\ disk' = disk
      /\ call'.op = op /\ call'.src = from /\ call'.dst = to
      /\ call'.overwrite = FALSE /\ call'.step = "done" /\ call'.before = disk
  <2>1. op # "none" /\ disk' = disk
    BY DEF Fails, Nothing
  <2>2. CASE Fails(op, from, to)
    BY <2>1, <2>2 DEF Fails, Called, CallInv, IsCall
  <2>3. CASE Nothing(op, from, to)
    BY <2>1, <2>3 DEF Nothing, Called, CallInv, IsCall
  <2>4. QED BY <2>1, <2>2, <2>3
<1>2. InputKept' /\ OutputKept'
  BY <1>1 DEF InputKept, OutputKept
<1>3. QED BY <1>1, <1>2 DEF CallInv

\* A call that opens its output for writing, which empties it.
LEMMA OpensStep ==
  ASSUME "same" \notin FileFeatures, CallInv,
         NEW op, NEW from \in Paths, NEW to \in Paths, NEW arg, NEW text, NEW overwrite,
         op \notin Appending \cup {"none", "rename"},
         op = "move" => from # to /\ text = disk[from],
         op \in {"copy", "move"} => ~ Blocked(to, overwrite),
         Opens(op, from, to, arg, text, overwrite)
  PROVE  CallInv'
<1>1. /\ disk \in [Paths -> Contents] /\ IsCall(call') /\ disk' = [disk EXCEPT ![to] = <<>>]
      /\ call'.op = op /\ call'.src = from /\ call'.dst = to /\ call'.text = text
      /\ call'.overwrite = overwrite /\ call'.step = "writing" /\ call'.before = disk
  BY Recorded DEF Opens
<1>2. from = to => op \notin Separate
  BY DEF Opens, Separate
<1>3. op \in {"copy", "move"} => overwrite \/ disk[to] = Missing
  BY DEF Blocked, Exists
<1>4. InputKept'
  BY <1>1, <1>2 DEF InputKept
<1>5. OutputKept'
  BY <1>1, <1>3 DEF OutputKept
<1>6. QED BY <1>1, <1>4, <1>5 DEF CallInv

\* A call that opens its output to add to it, which leaves it as it is.
LEMMA AppendStep ==
  ASSUME CallInv, NEW op \in {"append", "line"}, NEW p \in Paths, NEW arg, NEW text \in Contents,
         OpensToAppend(op, p, arg, text)
  PROVE  CallInv'
<1>1. /\ disk \in [Paths -> Contents] /\ IsCall(call')
      /\ disk' = [disk EXCEPT ![p] = IF @ = Missing THEN <<>> ELSE @]
      /\ call'.op = op /\ call'.src = p /\ call'.dst = p /\ call'.text = text
      /\ call'.overwrite = FALSE /\ call'.step = "writing" /\ call'.before = disk
  BY Recorded DEF OpensToAppend
<1>2. disk'[p] = Text(disk[p]) /\ Text(disk[p]) \in Contents
  BY <1>1, MissingIsContent DEF Text
<1>3. IsPrefix(Text(disk[p]), disk'[p])
  BY <1>2, MissingIsContent, PrefixGrows
<1>4. InputKept'
  BY <1>1 DEF InputKept, Separate
<1>5. OutputKept'
  BY <1>1, <1>2, <1>3 DEF OutputKept
<1>6. QED BY <1>1, <1>4, <1>5 DEF CallInv

\* The texts that are added.
LEMMA AddedIsText ==
  ASSUME NEW c \in Contents, NEW t \in Given
  PROVE  t \in Contents /\ LineAdded(c, t) \in Contents
<1>1. /\ <<"a">> \in Contents /\ <<"b", "a">> \in Contents
      /\ NL \in Contents /\ <<>> \in Contents
  BY DEF NL, Contents, Characters
<1>2. t \in Contents
  BY <1>1 DEF Given
<1>3. QED BY <1>1, <1>2, ConcatProperties DEF LineAdded, Contents

\* Create, Delete and the overwriting of SecureDelete.
LEMMA InPlaceStep ==
  ASSUME CallInv, NEW p \in Paths, Create(p) \/ Delete(p) \/ SecureDelete(p)
  PROVE  CallInv'
<1>1. CASE Create(p)
  <2>1. /\ disk \in [Paths -> Contents] /\ IsCall(call')
        /\ disk' = [disk EXCEPT ![p] = IF @ = Missing THEN <<>> ELSE @]
        /\ call'.op = "create" /\ call'.src = p /\ call'.dst = p
        /\ call'.step = "done" /\ call'.before = disk
    BY <1>1 DEF Create, Called, CallInv, IsCall
  <2>2. disk'[p] = Text(disk[p]) /\ Text(disk[p]) \in Contents
    BY <2>1, MissingIsContent DEF Text
  <2>3. IsPrefix(Text(disk[p]), disk'[p])
    BY <2>2, MissingIsContent, PrefixGrows
  <2>4. InputKept' /\ OutputKept'
    BY <2>1, <2>3 DEF InputKept, OutputKept, Separate
  <2>5. QED BY <2>1, <2>4 DEF CallInv
<1>2. CASE Delete(p)
  <2>1. /\ disk \in [Paths -> Contents] /\ IsCall(call') /\ disk' = [disk EXCEPT ![p] = Missing]
        /\ call'.op = "delete" /\ call'.src = p /\ call'.dst = p
        /\ call'.step = "done" /\ call'.before = disk
    BY <1>2 DEF Delete, Called, CallInv, IsCall
  <2>2. InputKept' /\ OutputKept'
    BY <2>1 DEF InputKept, OutputKept, Separate, Appending
  <2>3. QED BY <2>1, <2>2 DEF CallInv
<1>3. CASE SecureDelete(p) /\ Exists(p)
  <2>1. /\ disk \in [Paths -> Contents] /\ IsCall(call')
        /\ disk' = [disk EXCEPT ![p] = [i \in DOMAIN @ |-> "noise"]]
        /\ call'.op = "shred" /\ call'.src = p /\ call'.dst = p
        /\ call'.step = "shredding" /\ call'.before = disk
    BY <1>3 DEF SecureDelete, Called, CallInv, IsCall
  <2>2. InputKept' /\ OutputKept'
    BY <2>1 DEF InputKept, OutputKept, Separate, Appending
  <2>3. QED BY <2>1, <2>2 DEF CallInv
<1>4. CASE SecureDelete(p) /\ ~ Exists(p)
  BY <1>4, RefusedStep DEF SecureDelete, Appending
<1>5. QED BY <1>1, <1>2, <1>3, <1>4

\* os.Rename, by Move or by itself.
LEMMA RenamedStep ==
  ASSUME CallInv, NEW op \in {"move", "rename"}, NEW from \in Paths, NEW to \in Paths,
         NEW overwrite, op = "move" => ~ Blocked(to, overwrite),
         Called(op, from, to, <<>>, <<>>, overwrite, "done", "ok"), disk' = Renamed(from, to)
  PROVE  CallInv'
<1>1. /\ disk \in [Paths -> Contents] /\ IsCall(call')
      /\ disk' = [disk EXCEPT ![from] = Missing, ![to] = disk[from]]
      /\ call'.op = op /\ call'.src = from /\ call'.dst = to
      /\ call'.overwrite = overwrite /\ call'.step = "done" /\ call'.before = disk
  BY Recorded DEF Renamed
<1>2. disk'[to] = disk[from]
  BY <1>1
<1>3. InputKept'
  BY <1>1, <1>2 DEF InputKept
<1>4. OutputKept'
  BY <1>1 DEF OutputKept, Blocked, Exists, Appending
<1>5. QED BY <1>1, <1>3, <1>4 DEF CallInv

\* A decoding that ends at a text that is none of Base64.
LEMMA DecodeStep ==
  ASSUME "same" \notin FileFeatures, CallInv, NEW from \in Paths, NEW to \in Paths,
         Base64Decode(from, to)
  PROVE  CallInv'
<1>1. CASE ~ Exists(from)
  BY <1>1, RefusedStep DEF Base64Decode, Appending
<1>2. CASE Exists(from) /\ Decodes(Source(from, to))
  BY <1>2, OpensStep DEF Base64Decode, Appending
<1>3. CASE Exists(from) /\ ~ Decodes(Source(from, to))
  <2>1. from # to
    <3> SUFFICES ASSUME from = to PROVE FALSE
      OBVIOUS
    <3>1. Source(from, to) = <<>> /\ DOMAIN <<>> = {}
      BY DEF Source
    <3>2. QED BY <1>3, <3>1 DEF Decodes
  <2>2. PICK k \in {m \in 0 .. Len(disk[from]) : Decodes(SubSeq(disk[from], 1, m))} :
          disk' = [disk EXCEPT ![to] = Unbase64(SubSeq(disk[from], 1, k))]
    BY <1>3 DEF Base64Decode
  <2>3. PICK d : disk' = [disk EXCEPT ![to] = d]
    BY <2>2
  <2>4. /\ disk \in [Paths -> Contents] /\ IsCall(call')
        /\ call'.op = "decode" /\ call'.src = from /\ call'.dst = to
        /\ call'.step = "done" /\ call'.before = disk
    BY <1>3 DEF Base64Decode, Called, CallInv, IsCall
  <2>5. InputKept' /\ OutputKept'
    BY <2>1, <2>3, <2>4 DEF InputKept, OutputKept, Appending
  <2>6. QED BY <2>3, <2>4, <2>5 DEF CallInv
<1>4. QED BY <1>1, <1>2, <1>3

\* A call that goes on is what it was, but for where it is.
LEMMA GoesOn ==
  ASSUME IsCall(call),
         \/ \E result : Returns(result)
         \/ call' = [call EXCEPT !.step = "copied"]
  PROVE  /\ IsCall(call') /\ call'.op = call.op /\ call'.src = call.src /\ call'.dst = call.dst
         /\ call'.text = call.text /\ call'.overwrite = call.overwrite /\ call'.before = call.before
         /\ (\E result : Returns(result)) => call'.step = "done"
  BY DEF IsCall, Returns

\* A call that ends after it has written a part of its text, or all of it.
LEMMA WrittenStep ==
  ASSUME CallInv, call.step = "writing", NEW text, Put(text),
         call.op \in Appending => text \in Contents,
         NEW result, Returns(result)
  PROVE  CallInv'
<1>1. /\ call.op # "none" /\ IsCall(call) /\ call.step = "writing"
      /\ call.src \in Paths /\ call.dst \in Paths /\ call.before \in [Paths -> Contents]
  BY DEF CallInv
<1>2. /\ IsCall(call') /\ call'.op = call.op /\ call'.src = call.src /\ call'.dst = call.dst
      /\ call'.text = call.text /\ call'.overwrite = call.overwrite
      /\ call'.before = call.before /\ call'.step = "done"
  BY <1>1, GoesOn
<1>3. disk = [p \in Paths |-> disk[p]] /\ disk' = [disk EXCEPT ![call.dst] = disk[call.dst] \o text]
  BY DEF CallInv, Put
<1>4. /\ disk' = [p \in Paths |-> disk'[p]] /\ disk'[call.dst] = disk[call.dst] \o text
      /\ \A p \in Paths \ {call.dst} : disk'[p] = disk[p]
  BY <1>1, <1>3
<1>5. call.src = call.dst => call.op \notin Separate
  BY <1>1 DEF CallInv, InputKept
<1>6. call.src # call.dst => disk[call.src] = call.before[call.src]
  BY <1>1 DEF CallInv, InputKept
<1>7. ~ call.overwrite /\ call.op \in {"copy", "move"} => call.before[call.dst] = Missing
  BY <1>1 DEF CallInv, OutputKept
<1>8. call.op \in Appending => IsPrefix(Text(call.before[call.dst]), disk'[call.dst])
  <2> SUFFICES ASSUME call.op \in Appending
               PROVE  IsPrefix(Text(call.before[call.dst]), disk'[call.dst])
    OBVIOUS
  <2>1. disk[call.dst] = Text(call.before[call.dst])
    BY <1>1 DEF CallInv, OutputKept
  <2>2. Text(call.before[call.dst]) \in Contents
    BY <1>1, MissingIsContent DEF Text
  <2>3. QED BY <1>4, <2>1, <2>2, PrefixGrows
<1>9. InputKept'
  BY <1>1, <1>2, <1>4, <1>5, <1>6 DEF InputKept
<1>10. OutputKept'
  BY <1>2, <1>7, <1>8 DEF OutputKept
<1>11. \A p \in Paths \ {call'.src, call'.dst} : disk'[p] = call'.before[p]
  BY <1>1, <1>2, <1>4 DEF CallInv
<1>12. QED BY <1>1, <1>2, <1>4, <1>9, <1>10, <1>11 DEF CallInv

\* copyAndDelete has written its copy.
LEMMA CopiedStep ==
  ASSUME CallInv, call.step = "writing", call.op = "move", Put(call.text),
         call' = [call EXCEPT !.step = "copied"]
  PROVE  CallInv'
<1>1. /\ call.op = "move" /\ IsCall(call) /\ call.src \in Paths /\ call.dst \in Paths
      /\ call.before \in [Paths -> Contents]
  BY DEF CallInv
<1>2. /\ IsCall(call') /\ call'.op = "move" /\ call'.src = call.src /\ call'.dst = call.dst
      /\ call'.overwrite = call.overwrite /\ call'.before = call.before
  BY <1>1, GoesOn
<1>3. call'.step = "copied"
  BY <1>1 DEF IsCall
<1>4. /\ call.src # call.dst /\ disk[call.src] = call.before[call.src]
      /\ disk[call.dst] = <<>> /\ call.text = call.before[call.src]
  BY <1>1 DEF CallInv, InputKept
<1>5. disk = [p \in Paths |-> disk[p]] /\ disk' = [disk EXCEPT ![call.dst] = disk[call.dst] \o call.text]
  BY DEF CallInv, Put
<1>6. <<>> \o call.before[call.src] = call.before[call.src]
  <2>1. call.before[call.src] \in Contents
    BY <1>1
  <2>2. QED BY <2>1, ConcatEmptySeq DEF Contents
<1>7. /\ disk' = [p \in Paths |-> disk'[p]] /\ disk'[call.dst] = call.before[call.src]
      /\ \A p \in Paths \ {call.dst} : disk'[p] = disk[p]
  BY <1>1, <1>4, <1>5, <1>6
<1>8. ~ call.overwrite => call.before[call.dst] = Missing
  BY <1>1 DEF CallInv, OutputKept
<1>9. InputKept'
  BY <1>1, <1>2, <1>3, <1>4, <1>7 DEF InputKept
<1>10. OutputKept'
  BY <1>2, <1>8 DEF OutputKept, Appending
<1>11. \A p \in Paths \ {call'.src, call'.dst} : disk'[p] = call'.before[p]
  BY <1>1, <1>2, <1>7 DEF CallInv
<1>12. QED BY <1>1, <1>2, <1>3, <1>7, <1>9, <1>10, <1>11 DEF CallInv

\* copyAndDelete removes the source, or cannot.
LEMMA RemovedStep ==
  ASSUME CallInv, RemoveSource
  PROVE  CallInv'
<1>1. /\ call.step = "copied" /\ call.op = "move" /\ IsCall(call) /\ call.src # call.dst
      /\ call.src \in Paths /\ call.dst \in Paths /\ call.before \in [Paths -> Contents]
      /\ disk[call.dst] = call.before[call.src] /\ disk = [p \in Paths |-> disk[p]]
  BY DEF RemoveSource, CallInv, InputKept
<1>2. /\ IsCall(call') /\ call'.op = call.op /\ call'.src = call.src /\ call'.dst = call.dst
      /\ call'.overwrite = call.overwrite /\ call'.before = call.before /\ call'.step = "done"
  BY <1>1, GoesOn DEF RemoveSource
<1>3. /\ disk' = [p \in Paths |-> disk'[p]]
      /\ \A p \in Paths \ {call.src} : disk'[p] = disk[p]
  BY <1>1 DEF RemoveSource
<1>4. ~ call.overwrite => call.before[call.dst] = Missing
  BY <1>1 DEF CallInv, OutputKept
<1>5. InputKept'
  BY <1>1, <1>2, <1>3 DEF InputKept
<1>6. OutputKept'
  BY <1>1, <1>2, <1>4 DEF OutputKept, Appending
<1>7. \A p \in Paths \ {call'.src, call'.dst} : disk'[p] = call'.before[p]
  BY <1>1, <1>2, <1>3 DEF CallInv
<1>8. QED BY <1>1, <1>2, <1>3, <1>5, <1>6, <1>7 DEF CallInv

\* secureDeleteFile removes its file, or returns an error.
LEMMA ShredsStep ==
  ASSUME CallInv, Shreds
  PROVE  CallInv'
<1>1. /\ call.step = "shredding" /\ call.op = "shred" /\ IsCall(call) /\ call.src = call.dst
      /\ call.src \in Paths /\ call.before \in [Paths -> Contents]
      /\ disk = [p \in Paths |-> disk[p]]
  BY DEF Shreds, CallInv
<1>2. /\ IsCall(call') /\ call'.op = call.op /\ call'.src = call.src /\ call'.dst = call.dst
      /\ call'.overwrite = call.overwrite /\ call'.before = call.before /\ call'.step = "done"
  BY <1>1, GoesOn DEF Shreds
<1>3. PICK c : disk' = [disk EXCEPT ![call.src] = c]
  BY DEF Shreds
<1>4. InputKept' /\ OutputKept'
  BY <1>1, <1>2 DEF InputKept, OutputKept, Separate, Appending
<1>5. QED BY <1>1, <1>2, <1>3, <1>4 DEF CallInv

\* The process ends between two steps.
LEMMA StoppedStep ==
  ASSUME CallInv, call.step # "done", UNCHANGED disk, NEW result, Returns(result)
  PROVE  CallInv'
<1>1. call.op # "none" /\ IsCall(call) /\ disk' = disk
  BY DEF CallInv
<1>2. /\ IsCall(call') /\ call'.op = call.op /\ call'.src = call.src /\ call'.dst = call.dst
      /\ call'.overwrite = call.overwrite /\ call'.before = call.before /\ call'.step = "done"
  BY <1>1, GoesOn
<1>3. InputKept' /\ OutputKept'
  BY <1>1, <1>2 DEF CallInv, InputKept, OutputKept
<1>4. QED BY <1>1, <1>2, <1>3 DEF CallInv

\* The functions that rewrite a file, or write what they have made of one to another.
LEMMA RewriteStep ==
  ASSUME "same" \notin FileFeatures, CallInv, NEW p \in Paths, NEW q \in Paths, NEW s, NEW new,
         \/ Uniq(p) \/ Replace1(p, s, new) \/ ReplaceEvery(p, s, new) \/ Update(p, s, new)
         \/ Insert(p, q, s, new) \/ Find(p, q, s)
  PROVE  CallInv'
<1>1. ASSUME NEW op \in {"replace", "replaceall", "update", "unique"},
             NEW arg, NEW text,
             Fails(op, p, p) \/ Nothing(op, p, p) \/ Opens(op, p, p, arg, text, TRUE)
      PROVE  CallInv'
  BY <1>1, RefusedStep, OpensStep DEF Appending
<1>2. CASE Uniq(p)
  BY <1>1, <1>2 DEF Uniq, Rewrite
<1>3. CASE Replace1(p, s, new)
  BY <1>1, <1>3 DEF Replace1, Rewrite
<1>4. CASE ReplaceEvery(p, s, new)
  BY <1>1, <1>4 DEF ReplaceEvery, Rewrite
<1>5. CASE Update(p, s, new)
  BY <1>1, <1>5 DEF Update, Rewrite
<1>6. CASE Insert(p, q, s, new)
  BY <1>6, RefusedStep, OpensStep DEF Insert, Appending
<1>7. CASE Find(p, q, s)
  BY <1>7, RefusedStep, OpensStep DEF Find, Appending
<1>8. QED BY <1>2, <1>3, <1>4, <1>5, <1>6, <1>7

\* The functions with an input and an output.
LEMMA TransferStep ==
  ASSUME "same" \notin FileFeatures, CallInv, NEW p \in Paths, NEW q \in Paths,
         NEW overwrite \in BOOLEAN,
         \/ Base64Encode(p, q) \/ Base64Decode(p, q) \/ Rename(p, q)
         \/ Copy(p, q, overwrite) \/ Move(p, q, overwrite)
  PROVE  CallInv'
<1>1. CASE Base64Encode(p, q)
  BY <1>1, RefusedStep, OpensStep DEF Base64Encode, Appending
<1>2. CASE Base64Decode(p, q)
  BY <1>2, DecodeStep
<1>3. CASE Rename(p, q)
  BY <1>3, RefusedStep, RenamedStep DEF Rename, Appending
<1>4. CASE Copy(p, q, overwrite)
  BY <1>4, RefusedStep, OpensStep DEF Copy, Appending
<1>5. CASE Move(p, q, overwrite)
  <2>1. CASE ~ Exists(p) \/ Blocked(q, overwrite)
    BY <1>5, <2>1, RefusedStep DEF Move, Appending
  <2>2. CASE /\ ~ Blocked(q, overwrite)
             /\ Called("move", p, q, <<>>, <<>>, overwrite, "done", "ok")
             /\ disk' = Renamed(p, q)
    BY <2>2, RenamedStep
  <2>3. CASE /\ ~ Blocked(q, overwrite)
             /\ p # q /\ Opens("move", p, q, <<>>, Source(p, q), overwrite)
    <3>1. Source(p, q) = disk[p]
      BY <2>3 DEF Source
    <3>2. QED BY <2>3, <3>1, OpensStep DEF Appending
  <2>4. QED BY <1>5, <2>1, <2>2, <2>3 DEF Move
<1>6. QED BY <1>1, <1>2, <1>3, <1>4, <1>5

\* Every function of file. begins with its input in place.
LEMMA StartsStep ==
  ASSUME "same" \notin FileFeatures, CallInv, Starts
  PROVE  CallInv'
<1>1. ASSUME NEW p \in Paths, NEW t \in Given,
             WriteAllText(p, t) \/ AppendAllText(p, t) \/ AppendLine(p, t)
      PROVE  CallInv'
  <2>1. CASE WriteAllText(p, t)
    BY <2>1, OpensStep DEF WriteAllText, Appending
  <2>2. CASE AppendAllText(p, t)
    <3>1. t \in Contents
      BY MissingIsContent, AddedIsText
    <3>2. QED BY <2>2, <3>1, AppendStep DEF AppendAllText
  <2>3. CASE AppendLine(p, t)
    <3>1. disk[p] \in Contents
      BY <2>3 DEF AppendLine, OpensToAppend, Called, CallInv
    <3>2. LineAdded(disk[p], t) \in Contents
      BY <3>1, AddedIsText
    <3>3. QED BY <2>3, <3>2, AppendStep DEF AppendLine
  <2>4. QED BY <1>1, <2>1, <2>2, <2>3
<1>2. ASSUME NEW p \in Paths, Create(p) \/ Delete(p) \/ SecureDelete(p)
      PROVE  CallInv'
  BY <1>2, InPlaceStep
<1>3. ASSUME NEW p \in Paths, NEW q \in Paths, NEW s, NEW new,
             \/ Uniq(p) \/ Replace1(p, s, new) \/ ReplaceEvery(p, s, new) \/ Update(p, s, new)
             \/ Insert(p, q, s, new) \/ Find(p, q, s)
      PROVE  CallInv'
  BY <1>3, RewriteStep
<1>4. ASSUME NEW p \in Paths, NEW q \in Paths, NEW overwrite \in BOOLEAN,
             \/ Base64Encode(p, q) \/ Base64Decode(p, q) \/ Rename(p, q)
             \/ Copy(p, q, overwrite) \/ Move(p, q, overwrite)
      PROVE  CallInv'
  BY <1>4, TransferStep
<1>5. QED BY <1>1, <1>2, <1>3, <1>4 DEF Starts

\* Every step of a call, and the end of the process, keeps the invariant.
LEMMA StepCallInv ==
  ASSUME "same" \notin FileFeatures, CallInv, [FileNext]_fileVars
  PROVE  CallInv'
<1>1. CASE Starts
  BY <1>1, StartsStep
<1>2. CASE Writes
  <2>1. call.op \in Appending => call.text \in Contents
    BY <1>2 DEF Writes, CallInv, OutputKept, Appending
  <2>2. QED BY <1>2, <2>1, WrittenStep, CopiedStep DEF Writes
<1>3. CASE WriteFails
  <2>1. PICK k \in 0 .. Len(call.text) : Put(SubSeq(call.text, 1, k))
    BY <1>3 DEF WriteFails
  <2>2. call.op \in Appending => SubSeq(call.text, 1, k) \in Contents
    BY <1>3, PartOfText DEF WriteFails, CallInv, OutputKept, Appending
  <2>3. QED BY <1>3, <2>1, <2>2, WrittenStep DEF WriteFails
<1>4. CASE RemoveSource
  BY <1>4, RemovedStep
<1>5. CASE Shreds
  BY <1>5, ShredsStep
<1>6. CASE Crash
  <2>1. CASE UNCHANGED disk
    BY <1>6, <2>1, StoppedStep DEF Crash
  <2>2. CASE call.step = "writing" /\ \E k \in 1 .. Len(call.text) : Put(SubSeq(call.text, 1, k))
    <3>1. PICK k \in 1 .. Len(call.text) : Put(SubSeq(call.text, 1, k))
      BY <2>2
    <3>2. call.op \in Appending => SubSeq(call.text, 1, k) \in Contents
      <4> SUFFICES ASSUME call.op \in Appending PROVE SubSeq(call.text, 1, k) \in Contents
        OBVIOUS
      <4>1. call.text \in Contents
        BY <2>2 DEF CallInv, OutputKept, Appending
      <4>2. k \in 0 .. Len(call.text)
        BY <4>1, LenProperties DEF Contents
      <4>3. QED BY <4>1, <4>2, PartOfText
    <3>3. QED BY <1>6, <2>2, <3>1, <3>2, WrittenStep DEF Crash
  <2>3. QED BY <1>6, <2>1, <2>2 DEF Crash
<1>7. CASE UNCHANGED fileVars
  BY <1>7 DEF fileVars, CallInv, InputKept, OutputKept
<1>8. QED BY <1>1, <1>2, <1>3, <1>4, <1>5, <1>6, <1>7 DEF FileNext

\* Whatever the files hold and wherever a call of the namespace file. fails or is interrupted: what
\* it was given is in its input or its output, a target it must not overwrite stays, and
\* what stands in a file that is added to as well (stdlib_file.go:451, :503).
THEOREM InputsSurvive ==
  ASSUME "same" \notin FileFeatures, "in_place" \notin FileFeatures
  PROVE  FileSpec => []SourcesSurvive
<1>1. CallInv /\ [FileNext]_fileVars => CallInv'
  BY StepCallInv
<1>2. CallInv => SourcesSurvive
  BY DEF CallInv, InputKept, OutputKept, SourcesSurvive, Separate, Appending
<1>3. QED BY <1>1, <1>2, InitCallInv, PTL DEF FileSpec

\* The functions that do not look into what they write.
Transfers == {"write", "append", "create", "delete", "shred", "copy", "move", "rename", "encode", "decode"}

\* What the output of the call makes true.
Means(d) == Meaning(call.op, call.before[call.src], call.before[call.dst], d, call.arg)

\* A call that is writing is about to make it true, one that has copied its source has done so;
\* one that has nothing to do does nothing.
Faithful ==
  /\ call.op \in Transfers /\ call.step = "writing" => Means(disk[call.dst] \o call.text)
  /\ call.op = "copy" /\ call.step = "writing" => call.before[call.src] # Missing /\ call.src # call.dst
  /\ call.step = "copied" => Means(disk[call.dst])
  /\ call.op \in Transfers \/ call.result = "nothing" => CallsDoWhatTheySay
  /\ call.step = "writing" => call.op # "rename"
  /\ ~ Idle => call.result = "running"

\* Base64: what is encoded can be decoded, and the other way round.
LEMMA Encoded ==
  ASSUME NEW c \in Seq(Plain)
  PROVE  /\ Base64(c) \in Contents /\ Decodes(Base64(c))
         /\ Unbase64(Base64(c)) = c
<1>1. Plain = {"a", "b", "nl", "cr"}
  BY DEF Plain, Encoding
<1>2. /\ \A x \in Plain : Encoding[x] \in Characters
      /\ \A x, y \in Plain : Encoding[x] = Encoding[y] => x = y
  <2>1. Encoding["a"] = "A" /\ Encoding["b"] = "B" /\ Encoding["nl"] = "N" /\ Encoding["cr"] = "R"
    BY DEF Encoding
  <2>2. {"A", "B", "N", "R"} \subseteq Characters
    BY DEF Characters
  <2>3. QED BY <1>1, <2>1, <2>2
<1>3. Len(c) \in Nat /\ DOMAIN c = 1 .. Len(c) /\ \A i \in DOMAIN c : c[i] \in Plain
  BY LenProperties, ElementOfSeq
<1> DEFINE b == [i \in DOMAIN c |-> Encoding[c[i]]]
<1>4. b \in [1 .. Len(c) -> Characters]
  BY <1>2, <1>3
<1>5. b \in Contents
  BY <1>3, <1>4, SeqDef DEF Contents
<1>6. \A i \in DOMAIN c : b[i] = Encoding[c[i]]
  OBVIOUS
<1>7. DOMAIN b = DOMAIN c
  OBVIOUS
<1> HIDE DEF b
<1>8. Decodes(b)
  BY <1>3, <1>6, <1>7 DEF Decodes
<1>9. \A i \in DOMAIN c : (CHOOSE x \in Plain : Encoding[x] = b[i]) = c[i]
  BY <1>2, <1>3, <1>6
<1>10. Unbase64(b) = [i \in DOMAIN c |-> c[i]]
  BY <1>7, <1>9 DEF Unbase64
<1>11. [i \in DOMAIN c |-> c[i]] = c
  OBVIOUS
<1>12. Base64(c) = b
  BY DEF Base64, b
<1>13. QED BY <1>5, <1>8, <1>10, <1>11, <1>12

\* What Base64Decode accepts is what it would encode again.
LEMMA Decoded ==
  ASSUME NEW c \in Contents, Decodes(c)
  PROVE  Unbase64(c) \in Contents /\ Base64(Unbase64(c)) = c
<1>1. Plain = {"a", "b", "nl", "cr"}
  BY DEF Plain, Encoding
<1>2. Len(c) \in Nat /\ DOMAIN c = 1 .. Len(c)
  BY LenProperties DEF Contents
<1> DEFINE Of(i) == CHOOSE x \in Plain : Encoding[x] = c[i]
           u == [i \in DOMAIN c |-> Of(i)]
<1>3. \A i \in DOMAIN c : Of(i) \in Plain /\ Encoding[Of(i)] = c[i]
  BY DEF Decodes
<1> HIDE DEF Of
<1>4. \A i \in DOMAIN c : Of(i) \in Characters
  BY <1>1, <1>3 DEF Characters
<1>5. u \in [1 .. Len(c) -> Characters]
  BY <1>2, <1>4
<1>6. u \in Contents
  BY <1>2, <1>5, SeqDef DEF Contents
<1>7. DOMAIN u = DOMAIN c /\ \A i \in DOMAIN c : u[i] = Of(i)
  OBVIOUS
<1> HIDE DEF u
<1>8. Base64(u) = [i \in DOMAIN c |-> c[i]]
  BY <1>3, <1>7 DEF Base64
<1>9. [i \in DOMAIN c |-> c[i]] = c
  BY DEF Contents
<1>10. Unbase64(c) = u
  BY DEF Unbase64, u, Of
<1>11. QED BY <1>6, <1>8, <1>9, <1>10

\* What a call means by itself.
LEMMA MeaningIs ==
  ASSUME NEW s, NEW b, NEW d, NEW arg
  PROVE  /\ Meaning("write", s, b, d, arg) <=> d = arg
         /\ Meaning("append", s, b, d, arg) <=> d = Text(b) \o arg
         /\ Meaning("create", s, b, d, arg) <=> d = Text(b)
         /\ Meaning("delete", s, b, d, arg) <=> d = Missing
         /\ Meaning("shred", s, b, d, arg) <=> d = Missing
         /\ \A op \in {"copy", "move", "rename"} : Meaning(op, s, b, d, arg) <=> d = s
         /\ Meaning("encode", s, b, d, arg) <=> Decodes(d) /\ Unbase64(d) = s
         /\ Meaning("decode", s, b, d, arg) <=> Base64(d) = s
<1>1. Meaning("write", s, b, d, arg) <=> d = arg
  BY Zenon DEF Meaning
<1>2. Meaning("append", s, b, d, arg) <=> d = Text(b) \o arg
  BY Zenon DEF Meaning
<1>3. Meaning("create", s, b, d, arg) <=> d = Text(b)
  BY Zenon DEF Meaning
<1>4. Meaning("delete", s, b, d, arg) <=> d = Missing
  BY Zenon DEF Meaning
<1>5. Meaning("shred", s, b, d, arg) <=> d = Missing
  BY Zenon DEF Meaning
<1>6. ASSUME NEW op \in {"copy", "move", "rename"} PROVE Meaning(op, s, b, d, arg) <=> d = s
  BY Zenon DEF Meaning
<1>7. Meaning("encode", s, b, d, arg) <=> Decodes(d) /\ Unbase64(d) = s
  BY Zenon DEF Meaning
<1>8. Meaning("decode", s, b, d, arg) <=> Base64(d) = s
  BY Zenon DEF Meaning
<1>9. QED BY <1>1, <1>2, <1>3, <1>4, <1>5, <1>6, <1>7, <1>8

\* A call of an operation that looks into lines, and has found something, promises nothing here.
LEMMA FaithfulElse ==
  ASSUME call'.op \notin Transfers, call'.result # "nothing", call'.step = "done",
         call'.op # "none"
  PROVE  Faithful'
  BY Zenon DEF Faithful, Transfers, Idle

\* A call that fails has promised nothing; one that finds nothing to do leaves the files alone.
LEMMA FaithfulRefused ==
  ASSUME NEW op, NEW from, NEW to, Fails(op, from, to) \/ Nothing(op, from, to)
  PROVE  Faithful'
<1>1. /\ call'.step = "done" /\ call'.result \in {"error", "nothing"}
      /\ call'.result = "nothing" => disk' = call'.before
  BY DEF Fails, Nothing, Called
<1>2. CallsDoWhatTheySay'
  BY <1>1 DEF CallsDoWhatTheySay
<1>3. QED BY <1>1, <1>2, Zenon DEF Faithful, Idle

\* A call that fails later, or ends with the process.
LEMMA FaithfulFailed ==
  ASSUME IsCall(call), call.op # "none", NEW result \in {"error", "crash"}, Returns(result)
  PROVE  Faithful'
<1>1. call'.step = "done" /\ call'.result = result
  BY DEF Returns, IsCall
<1>2. CallsDoWhatTheySay'
  BY <1>1 DEF CallsDoWhatTheySay
<1>3. QED BY <1>1, <1>2, Zenon DEF Faithful, Idle

\* A call that writes what it should.
LEMMA FaithfulOpens ==
  ASSUME CallInv, NEW op, NEW from \in Paths, NEW to \in Paths, NEW arg, NEW text, NEW overwrite,
         Opens(op, from, to, arg, text, overwrite),
         op \in Transfers => Meaning(op, disk[from], disk[to], <<>> \o text, arg),
         op # "rename", op = "copy" => Exists(from) /\ from # to
  PROVE  Faithful'
<1>1. /\ call'.op = op /\ call'.src = from /\ call'.dst = to /\ call'.text = text /\ call'.arg = arg
      /\ call'.step = "writing" /\ call'.result = "running" /\ call'.before = disk
      /\ disk' = [disk EXCEPT ![to] = <<>>]
  BY DEF Opens, Called
<1>2. disk'[to] = <<>>
  BY <1>1 DEF CallInv
<1>3. op \in Transfers => Means(disk[call.dst] \o call.text)'
  BY <1>1, <1>2 DEF Means
<1>4. op = "copy" => call'.before[call'.src] # Missing /\ call'.src # call'.dst
  BY <1>1 DEF Exists
<1>5. CallsDoWhatTheySay'
  BY <1>1 DEF CallsDoWhatTheySay, Idle
<1>6. QED BY <1>1, <1>3, <1>4, <1>5, Zenon DEF Faithful, Idle

\* What is written to an empty file is what it holds.
LEMMA WrittenAlone ==
  ASSUME NEW t \in Contents
  PROVE  <<>> \o t = t
  BY ConcatEmptySeq DEF Contents

\* AppendAllText is about to add its text.
LEMMA FaithfulAppends ==
  ASSUME CallInv, NEW op \in {"append", "line"}, NEW p \in Paths, NEW arg, NEW text,
         OpensToAppend(op, p, arg, text), op = "append" => text = arg
  PROVE  Faithful'
<1>1. /\ call'.op = op /\ call'.src = p /\ call'.dst = p /\ call'.text = text /\ call'.arg = arg
      /\ call'.step = "writing" /\ call'.result = "running" /\ call'.before = disk
      /\ disk' = [disk EXCEPT ![p] = IF @ = Missing THEN <<>> ELSE @]
  BY DEF OpensToAppend, Called
<1>2. disk'[p] = Text(disk[p])
  BY <1>1 DEF CallInv, Text
<1>3. op = "append" => Means(disk[call.dst] \o call.text)'
  <2> SUFFICES ASSUME op = "append" PROVE Means(disk[call.dst] \o call.text)'
    OBVIOUS
  <2>1. disk'[call'.dst] \o call'.text = Text(disk[p]) \o arg
    BY <1>1, <1>2
  <2>2. Meaning("append", disk[p], disk[p], Text(disk[p]) \o arg, arg)
    <3>1. \A s, b, d : d = Text(b) \o arg => Meaning("append", s, b, d, arg)
      BY MeaningIs
    <3>2. QED BY <3>1, Zenon
  <2>3. QED BY <1>1, <2>1, <2>2 DEF Means
<1>4. CallsDoWhatTheySay'
  BY <1>1 DEF CallsDoWhatTheySay, Idle
<1>5. op \in Transfers => op = "append"
  BY DEF Transfers
<1>6. QED BY <1>1, <1>3, <1>4, <1>5, Zenon DEF Faithful, Idle

\* A call that is done at once.
LEMMA FaithfulAtOnce ==
  ASSUME CallInv, NEW op, op # "copy", NEW from \in Paths, NEW to \in Paths, NEW overwrite,
         Called(op, from, to, <<>>, <<>>, overwrite, "done", "ok"),
         Meaning(op, disk[from], disk[to], disk'[to], <<>>),
         op \in {"move", "rename"} /\ from # to => disk'[from] = Missing
  PROVE  Faithful'
<1>1. /\ call'.op = op /\ call'.src = from /\ call'.dst = to /\ call'.arg = <<>>
      /\ call'.step = "done" /\ call'.result = "ok" /\ call'.before = disk
  BY DEF Called
<1>2. CallsDoWhatTheySay'
  BY <1>1 DEF CallsDoWhatTheySay, Exists
<1>3. QED BY <1>1, <1>2, Zenon DEF Faithful, Idle

\* os.Rename moves what the input holds, under Move as under Rename.
LEMMA FaithfulRenames ==
  ASSUME CallInv, NEW op \in {"move", "rename"}, NEW from \in Paths, NEW to \in Paths, NEW overwrite,
         Called(op, from, to, <<>>, <<>>, overwrite, "done", "ok"), disk' = Renamed(from, to)
  PROVE  Faithful'
<1>1. disk'[to] = disk[from] /\ (from # to => disk'[from] = Missing)
  BY DEF Renamed, CallInv
<1>2. Meaning(op, disk[from], disk[to], disk'[to], <<>>)
  BY <1>1, MeaningIs
<1>3. QED BY <1>1, <1>2, FaithfulAtOnce

\* Create, Delete and SecureDelete.
LEMMA FaithfulInPlace ==
  ASSUME CallInv, NEW p \in Paths, Create(p) \/ Delete(p) \/ SecureDelete(p)
  PROVE  Faithful'
<1>1. CASE Create(p)
  <2>1. disk'[p] = Text(disk[p])
    BY <1>1 DEF Create, CallInv, Text
  <2>2. Meaning("create", disk[p], disk[p], disk'[p], <<>>)
    BY <2>1, MeaningIs
  <2>3. QED BY <1>1, <2>2, FaithfulAtOnce DEF Create
<1>2. CASE Delete(p)
  <2>1. disk'[p] = Missing
    BY <1>2 DEF Delete, CallInv
  <2>2. Meaning("delete", disk[p], disk[p], disk'[p], <<>>)
    BY <2>1, MeaningIs
  <2>3. QED BY <1>2, <2>2, FaithfulAtOnce DEF Delete
<1>3. CASE SecureDelete(p) /\ ~ Exists(p)
  BY <1>3, FaithfulRefused DEF SecureDelete
<1>4. CASE SecureDelete(p) /\ Exists(p)
  <2>1. call'.op = "shred" /\ call'.step = "shredding" /\ call'.result = "running"
    BY <1>4 DEF SecureDelete, Called
  <2>2. CallsDoWhatTheySay'
    BY <2>1 DEF CallsDoWhatTheySay, Idle
  <2>3. QED BY <2>1, <2>2, Zenon DEF Faithful, Idle
<1>5. QED BY <1>1, <1>2, <1>3, <1>4

\* The functions with an input and an output.
LEMMA FaithfulTransfer ==
  ASSUME "same" \notin FileFeatures, CallInv, NEW p \in Paths, NEW q \in Paths, NEW overwrite \in BOOLEAN,
         \/ (Exists(p) => ToSet(disk[p]) \subseteq Plain) /\ Base64Encode(p, q)
         \/ Base64Decode(p, q) \/ Rename(p, q)
         \/ Copy(p, q, overwrite) \/ Move(p, q, overwrite)
  PROVE  Faithful'
<1>1. disk[p] \in Contents /\ disk[q] \in Contents
  <2>1. call.op = "none"
    BY DEF Base64Encode, Base64Decode, Rename, Copy, Move, Opens, Fails, Called
  <2>2. QED BY <2>1 DEF CallInv
<1>2. CASE ~ Exists(p)
  BY <1>2, FaithfulRefused DEF Base64Encode, Base64Decode, Rename, Copy, Move
<1>3. CASE Exists(p) /\ ToSet(disk[p]) \subseteq Plain /\ Base64Encode(p, q)
  <2>1. Opens("encode", p, q, <<>>, Base64(Source(p, q)), TRUE)
    BY <1>3 DEF Base64Encode
  <2>2. p # q
    BY <2>1 DEF Opens
  <2>3. Source(p, q) = disk[p]
    BY <2>2 DEF Source
  <2>4. disk[p] \in Seq(Plain)
    <3>1. \A i \in 1 .. Len(disk[p]) : disk[p][i] \in Plain
      BY <1>1, <1>3, LenProperties DEF ToSet, Contents
    <3>2. Len(disk[p]) \in Nat /\ disk[p] = [i \in 1 .. Len(disk[p]) |-> disk[p][i]]
      BY <1>1, LenProperties DEF Contents
    <3>3. disk[p] \in [1 .. Len(disk[p]) -> Plain]
      BY <3>1, <3>2
    <3>4. QED BY <3>2, <3>3, SeqDef
  <2>5. <<>> \o Base64(disk[p]) = Base64(disk[p])
    BY <2>4, Encoded, WrittenAlone
  <2>6. Meaning("encode", disk[p], disk[q], <<>> \o Base64(disk[p]), <<>>)
    BY <2>4, <2>5, Encoded, MeaningIs
  <2>7. QED BY <2>1, <2>3, <2>6, FaithfulOpens
<1>4. CASE Exists(p) /\ Base64Decode(p, q) /\ Decodes(Source(p, q))
  <2>1. Opens("decode", p, q, <<>>, Unbase64(Source(p, q)), TRUE)
    BY <1>4 DEF Base64Decode
  <2>2. p # q
    BY <2>1 DEF Opens
  <2>3. Source(p, q) = disk[p]
    BY <2>2 DEF Source
  <2>4. <<>> \o Unbase64(disk[p]) = Unbase64(disk[p])
    BY <1>1, <1>4, <2>3, Decoded, WrittenAlone
  <2>5. Meaning("decode", disk[p], disk[q], <<>> \o Unbase64(disk[p]), <<>>)
    BY <1>1, <1>4, <2>3, <2>4, Decoded, MeaningIs
  <2>6. QED BY <2>1, <2>3, <2>5, FaithfulOpens
<1>5. CASE Exists(p) /\ Base64Decode(p, q) /\ ~ Decodes(Source(p, q))
  <2>1. call'.op = "decode" /\ call'.step = "done" /\ call'.result = "error"
    BY <1>5 DEF Base64Decode, Called
  <2>2. CallsDoWhatTheySay'
    BY <2>1 DEF CallsDoWhatTheySay
  <2>3. QED BY <2>1, <2>2, Zenon DEF Faithful, Idle
<1>6. CASE Exists(p) /\ Rename(p, q)
  BY <1>6, FaithfulRenames DEF Rename
<1>7. CASE Blocked(q, overwrite) /\ (Copy(p, q, overwrite) \/ Move(p, q, overwrite))
  BY <1>7, FaithfulRefused DEF Copy, Move
<1>8. ASSUME NEW op \in {"copy", "move"}, Exists(p), Opens(op, p, q, <<>>, Source(p, q), overwrite)
      PROVE  Faithful'
  <2>1. p # q
    BY <1>8 DEF Opens
  <2>2. Source(p, q) = disk[p] /\ <<>> \o disk[p] = disk[p]
    BY <1>1, <2>1, WrittenAlone DEF Source
  <2>3. Meaning(op, disk[p], disk[q], <<>> \o disk[p], <<>>)
    BY <2>2, MeaningIs
  <2>4. QED BY <1>8, <2>1, <2>2, <2>3, FaithfulOpens
<1>9. CASE Exists(p) /\ ~ Blocked(q, overwrite) /\ Copy(p, q, overwrite)
  BY <1>8, <1>9 DEF Copy
<1>10. CASE Exists(p) /\ ~ Blocked(q, overwrite) /\ Move(p, q, overwrite)
  BY <1>8, <1>10, FaithfulRenames DEF Move
<1>11. QED BY <1>2, <1>3, <1>4, <1>5, <1>6, <1>7, <1>9, <1>10

\* The functions that look into lines open their output, or not.
LEMMA FaithfulRewrite ==
  ASSUME CallInv, NEW p \in Paths, NEW q \in Paths, NEW s, NEW new,
         \/ Uniq(p) \/ Replace1(p, s, new) \/ ReplaceEvery(p, s, new) \/ Update(p, s, new)
         \/ Insert(p, q, s, new) \/ Find(p, q, s)
  PROVE  Faithful'
<1>1. ASSUME NEW op \in {"replace", "replaceall", "update", "unique", "insert", "findwords"},
             NEW to \in Paths, NEW arg, NEW text,
             Fails(op, p, to) \/ Nothing(op, p, to) \/ Opens(op, p, to, arg, text, TRUE)
      PROVE  Faithful'
  <2>1. op \notin Transfers /\ op \notin {"copy", "rename"}
    BY DEF Transfers
  <2>2. QED BY <1>1, <2>1, FaithfulRefused, FaithfulOpens
<1>2. CASE Uniq(p)
  BY <1>1, <1>2 DEF Uniq, Rewrite
<1>3. CASE Replace1(p, s, new)
  BY <1>1, <1>3 DEF Replace1, Rewrite
<1>4. CASE ReplaceEvery(p, s, new)
  BY <1>1, <1>4 DEF ReplaceEvery, Rewrite
<1>5. CASE Update(p, s, new)
  BY <1>1, <1>5 DEF Update, Rewrite
<1>6. CASE Insert(p, q, s, new)
  BY <1>1, <1>6 DEF Insert
<1>7. CASE Find(p, q, s)
  BY <1>1, <1>7 DEF Find
<1>8. QED BY <1>2, <1>3, <1>4, <1>5, <1>6, <1>7

\* Every call begins on its way to what it says.
LEMMA FaithfulStarts ==
  ASSUME "same" \notin FileFeatures, CallInv, Starts
  PROVE  Faithful'
<1>1. ASSUME NEW p \in Paths, NEW t \in Given,
             WriteAllText(p, t) \/ AppendAllText(p, t) \/ AppendLine(p, t)
      PROVE  Faithful'
  <2>1. CASE WriteAllText(p, t)
    <3>1. <<>> \o t = t
      BY WrittenAlone, AddedIsText, MissingIsContent
    <3>2. Meaning("write", disk[p], disk[p], <<>> \o t, t)
      BY <3>1, MeaningIs
    <3>3. QED BY <2>1, <3>2, FaithfulOpens DEF WriteAllText
  <2>2. CASE AppendAllText(p, t)
    BY <2>2, FaithfulAppends DEF AppendAllText
  <2>3. CASE AppendLine(p, t)
    BY <2>3, FaithfulAppends DEF AppendLine
  <2>4. QED BY <1>1, <2>1, <2>2, <2>3
<1>2. ASSUME NEW p \in Paths, Create(p) \/ Delete(p) \/ SecureDelete(p)
      PROVE  Faithful'
  BY <1>2, FaithfulInPlace
<1>3. ASSUME NEW p \in Paths, NEW q \in Paths, NEW s, NEW new,
             \/ Uniq(p) \/ Replace1(p, s, new) \/ ReplaceEvery(p, s, new) \/ Update(p, s, new)
             \/ Insert(p, q, s, new) \/ Find(p, q, s)
      PROVE  Faithful'
  BY <1>3, FaithfulRewrite
<1>4. ASSUME NEW p \in Paths, NEW q \in Paths, NEW overwrite \in BOOLEAN,
             \/ (Exists(p) => ToSet(disk[p]) \subseteq Plain) /\ Base64Encode(p, q)
             \/ Base64Decode(p, q) \/ Rename(p, q)
             \/ Copy(p, q, overwrite) \/ Move(p, q, overwrite)
      PROVE  Faithful'
  BY <1>4, FaithfulTransfer
<1>5. QED BY <1>1, <1>2, <1>3, <1>4 DEF Starts

\* What is written is what was to be written.
LEMMA FaithfulWrites ==
  ASSUME CallInv, Faithful, Writes
  PROVE  Faithful'
<1>1. /\ call.step = "writing" /\ call.op # "none" /\ IsCall(call) /\ call.result = "running"
      /\ call.src \in Paths /\ call.dst \in Paths
      /\ disk' = [disk EXCEPT ![call.dst] = disk[call.dst] \o call.text]
      /\ disk = [p \in Paths |-> disk[p]] /\ call.op # "rename"
  BY DEF Writes, Put, CallInv, Faithful, Idle
<1>2. /\ disk'[call.dst] = disk[call.dst] \o call.text
      /\ call.src # call.dst => disk'[call.src] = disk[call.src]
  BY <1>1
<1>3. /\ call'.op = call.op /\ call'.src = call.src /\ call'.dst = call.dst /\ call'.arg = call.arg
      /\ call'.before = call.before
      /\ \/ call.op = "move" /\ call'.step = "copied" /\ call'.result = "running"
         \/ call.op # "move" /\ call'.step = "done" /\ call'.result = "ok"
  BY <1>1 DEF Writes, Returns, IsCall
<1>4. call.op \in Transfers => Means(disk[call.dst])'
  BY <1>1, <1>2, <1>3 DEF Means, Faithful
<1>5. CASE call.op \notin Transfers
  <2>1. call.op # "move"
    BY <1>5 DEF Transfers
  <2>2. QED BY <1>1, <1>3, <1>5, <2>1, FaithfulElse
<1>6. CASE call.op = "move"
  <2>1. CallsDoWhatTheySay'
    BY <1>3, <1>6 DEF CallsDoWhatTheySay, Idle
  <2>2. Means(disk[call.dst])'
    BY <1>4, <1>6 DEF Transfers
  <2>3. QED BY <1>3, <1>6, <2>1, <2>2, Zenon DEF Faithful
<1>7. CASE call.op \in Transfers /\ call.op # "move"
  <2>1. call.op = "copy" => Compare(call.src, call.dst)' = 0
    <3> SUFFICES ASSUME call.op = "copy" PROVE Compare(call.src, call.dst)' = 0
      OBVIOUS
    <3>1. call.before[call.src] # Missing /\ call.src # call.dst
      BY <1>1 DEF Faithful
    <3>2. disk[call.src] = call.before[call.src]
      BY <1>1, <3>1 DEF CallInv, InputKept
    <3>3. disk'[call'.dst] = call.before[call.src]
      BY <1>3, <1>4, <1>7, MeaningIs DEF Means
    <3>4. /\ call'.src # call'.dst /\ disk'[call'.src] = disk'[call'.dst]
          /\ disk'[call'.src] # Missing
      BY <1>2, <1>3, <3>1, <3>2, <3>3
    <3>5. QED BY <3>4 DEF Compare, Exists
  <2>2. CallsDoWhatTheySay'
    BY <1>3, <1>1, <1>4, <1>7, <2>1, Zenon DEF CallsDoWhatTheySay, Means
  <2>3. QED BY <1>3, <1>7, <2>2, Zenon DEF Faithful, Idle
<1>8. QED BY <1>5, <1>6, <1>7

\* copyAndDelete has removed the source, or says that it has not.
LEMMA FaithfulRemoves ==
  ASSUME CallInv, Faithful, RemoveSource
  PROVE  Faithful'
<1>1. /\ call.step = "copied" /\ call.op = "move" /\ call.src # call.dst /\ IsCall(call)
      /\ call.src \in Paths /\ call.dst \in Paths /\ disk = [p \in Paths |-> disk[p]]
      /\ Means(disk[call.dst])
  BY DEF RemoveSource, CallInv, InputKept, Faithful
<1>2. CASE Returns("error")
  BY <1>1, <1>2, FaithfulFailed
<1>3. CASE disk' = [disk EXCEPT ![call.src] = Missing] /\ Returns("ok")
  <2>1. disk'[call.dst] = disk[call.dst] /\ disk'[call.src] = Missing
    BY <1>1, <1>3
  <2>2. /\ call'.op = "move" /\ call'.src = call.src /\ call'.dst = call.dst /\ call'.arg = call.arg
        /\ call'.before = call.before /\ call'.step = "done" /\ call'.result = "ok"
    BY <1>1, <1>3 DEF Returns, IsCall
  <2>3. Meaning(call.op, call.before[call.src], call.before[call.dst], disk'[call.dst], call.arg)
    BY <1>1, <2>1 DEF Means
  <2>4. CallsDoWhatTheySay'
    BY <1>1, <2>1, <2>2, <2>3 DEF CallsDoWhatTheySay, Exists
  <2>5. QED BY <2>2, <2>4, Zenon DEF Faithful, Idle
<1>4. QED BY <1>2, <1>3 DEF RemoveSource

\* secureDeleteFile has removed the file, or says that it has not.
LEMMA FaithfulShreds ==
  ASSUME CallInv, Faithful, Shreds
  PROVE  Faithful'
<1>1. /\ call.step = "shredding" /\ call.op = "shred" /\ call.src = call.dst /\ IsCall(call)
      /\ call.src \in Paths /\ disk = [p \in Paths |-> disk[p]]
  BY DEF Shreds, CallInv
<1>2. CASE Returns("error")
  BY <1>1, <1>2, FaithfulFailed
<1>3. CASE disk' = [disk EXCEPT ![call.src] = Missing] /\ Returns("ok")
  <2>1. disk'[call.dst] = Missing
    BY <1>1, <1>3
  <2>2. /\ call'.op = "shred" /\ call'.src = call.src /\ call'.dst = call.dst /\ call'.arg = call.arg
        /\ call'.before = call.before /\ call'.step = "done" /\ call'.result = "ok"
    BY <1>1, <1>3 DEF Returns, IsCall
  <2>3. Meaning("shred", call.before[call.src], call.before[call.dst], disk'[call.dst], call.arg)
    BY <2>1, MeaningIs
  <2>4. CallsDoWhatTheySay'
    BY <2>2, <2>3 DEF CallsDoWhatTheySay
  <2>5. QED BY <2>2, <2>4, Zenon DEF Faithful, Idle
<1>4. QED BY <1>2, <1>3 DEF Shreds

\* Faithful is kept by every step.
LEMMA StepFaithful ==
  ASSUME "same" \notin FileFeatures, "encode" \notin FileFeatures, CallInv, Faithful, [FileNext]_fileVars
  PROVE  Faithful'
<1>1. CASE Starts
  BY <1>1, FaithfulStarts
<1>2. CASE Writes
  BY <1>2, FaithfulWrites
<1>3. CASE WriteFails
  <2>1. Returns("error") /\ call.step = "writing"
    BY <1>3 DEF WriteFails
  <2>2. QED BY <2>1, FaithfulFailed DEF CallInv
<1>4. CASE RemoveSource
  BY <1>4, FaithfulRemoves
<1>5. CASE Shreds
  BY <1>5, FaithfulShreds
<1>6. CASE Crash
  <2>1. Returns("crash") /\ call.step # "done"
    BY <1>6 DEF Crash
  <2>2. QED BY <2>1, FaithfulFailed DEF CallInv
<1>7. CASE UNCHANGED fileVars
  <2>1. call' = call /\ disk' = disk
    BY <1>7 DEF fileVars
  <2>2. \A d : Means(d)' <=> Means(d)
    BY <2>1 DEF Means
  <2>3. CallsDoWhatTheySay' <=> CallsDoWhatTheySay
    BY <2>1 DEF CallsDoWhatTheySay, Idle, Exists, Compare
  <2>4. QED BY <2>1, <2>3 DEF Faithful, Means, Idle
<1>8. QED BY <1>1, <1>2, <1>3, <1>4, <1>5, <1>6, <1>7 DEF FileNext

\* Whatever the files hold: a function that writes, copies, moves, encodes or removes whole
\* contents and reports a success has done it, though any step of it may fail or be the last; and
\* a function that reports that there is nothing to do has changed nothing (stdlib_file.go:366, :451).
THEOREM ReportsAreDeserved ==
  ASSUME "same" \notin FileFeatures, "encode" \notin FileFeatures
  PROVE  FileSpec => [](call.op \in Transfers \/ call.result = "nothing" => CallsDoWhatTheySay)
<1>1. FileInit => CallInv /\ Faithful
  <2>1. FileInit => call.op = "none" /\ call.step = "done" /\ call.result = "ok"
    BY DEF FileInit
  <2>2. FileInit => Faithful
    BY <2>1 DEF Faithful, Transfers, Idle, CallsDoWhatTheySay
  <2>3. QED BY <2>2, InitCallInv
<1>2. CallInv /\ Faithful /\ [FileNext]_fileVars => CallInv' /\ Faithful'
  BY StepCallInv, StepFaithful
<1>3. Faithful => (call.op \in Transfers \/ call.result = "nothing" => CallsDoWhatTheySay)
  BY DEF Faithful
<1>4. QED BY <1>1, <1>2, <1>3, PTL DEF FileSpec
=============================================================================
