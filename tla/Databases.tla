------------------------------- MODULE Databases -------------------------------
(***************************************************************************)
(* The builtins that write to a database: db.SyncTable, db.SyncTables,     *)
(* db.CopyTable, db.Exec, db.ExecFile and the ones that are a single       *)
(* statement (db.Insert, db.ClearTable, db.ExecParams, db.SetBlob), in     *)
(* stdlib_db.go and helper_sql.go.                                         *)
(*                                                                         *)
(* There is one source and one target connection.  A database is external: *)
(* a statement reads what is committed and what its own transaction wrote, *)
(* takes effect at once or at the commit of the transaction, or fails; a   *)
(* commit that reports an error may have happened.  Others write to the    *)
(* source whenever they like.                                              *)
(*                                                                         *)
(* A row is what the columns besides the id hold, and two values are equal *)
(* when dbValueSignature writes them alike.                                *)
(***************************************************************************)
EXTENDS Naturals, Sequences, FiniteSets, Functions, FiniteSetsExt

CONSTANTS
  Keys, NullKey,     \* the ids; NULL is an id only if NullKey is in Keys
  TableOf,           \* the table a row with this id belongs to
  TableOrder,        \* the tables in the order they are named in SyncTables
  SourceColumns, TargetColumns, \* the columns in the order SELECT * gives them
  Values,
  Absent, Untouched, \* no such row; not written by the transaction
  BatchSizes,
  MaxCalls, MaxForeign, MaxStatements, \* bounds: builtins, writes of others, statements
  Features

(***************************************************************************)
(* target_writer     others write to the target during a builtin           *)
(* exec_commit_fails the commit at the end of db.Exec fails                *)
(* manual_dry_run    a file with a COMMIT of its own is run with dryRun    *)
(* left_open         a script ends between its own BEGIN and COMMIT        *)
(***************************************************************************)
AllFeatures == {"target_writer", "exec_commit_fails", "manual_dry_run", "left_open"}

ASSUME DatabaseAssumption ==
  /\ IsFiniteSet(Keys)
  /\ TableOf \in [Keys -> Range(TableOrder)]
  /\ Range(SourceColumns) = Range(TargetColumns)
  /\ Absent \notin [Range(SourceColumns) -> Values]
  /\ Untouched \notin [Range(SourceColumns) -> Values] \cup {Absent}
  /\ BatchSizes \subseteq Nat \ {0}
  /\ MaxCalls \in Nat /\ MaxForeign \in Nat /\ MaxStatements \in Nat
  /\ Features \subseteq AllFeatures

Row      == [Range(SourceColumns) -> Values]
Contents == [Keys -> Row \cup {Absent}]

Syncing  == {"SyncTable", "SyncTables"}
Scripts  == {"Exec", "ExecFile"}
Names    == Syncing \cup Scripts \cup {"CopyTable", "Statement"}

\* Without an argument, and in SyncTables, a batch is 500 rows: all of them here.
DefaultBatch == Cardinality(Keys) + 1

VARIABLES
  source, target,  \* what is committed
  tx,              \* the transaction on the target: none, one of Go, one of a script
  writes,          \* what it has written
  call,            \* the builtin that is executed, or was executed last, with its arguments
  at,              \* where it is
  queue,           \* the tables it has still to do, the current one first
  existing,        \* existingSignatures: the rows of the target when they were read
  todo,            \* the rows of the source that are still to be compared or copied
  sinceCommit,     \* rowsSinceCommit; for a script the statements executed
  report,          \* the numbers SyncTable returns, the line "Gesamt" of SyncTables
  result,          \* of the latest builtin
  before, goal,    \* the target at its begin, and as it should be after a success
  calls, foreign   \* counters

data    == <<source, target, tx, writes>>
reading == <<existing, todo, sinceCommit>>
ghosts  == <<before, goal>>
bounds  == <<calls, foreign>>
vars    == <<data, call, at, queue, reading, report, result, ghosts, bounds>>

Nothing  == [k \in Keys |-> Untouched]
NoCounts == [insert |-> 0, update |-> 0, delete |-> 0, unchanged |-> 0]

Signature(columns, row) == [i \in DOMAIN columns |-> row[columns[i]]]

\* The signatures are compared position by position.
SameRow(s, t) == Signature(SourceColumns, s) = Signature(TargetColumns, t)

RowsOf(table, contents) == {k \in Keys : TableOf[k] = table /\ contents[k] # Absent}

\* What a statement of the current transaction sees.
Visible == [k \in Keys |-> IF writes[k] = Untouched THEN target[k] ELSE writes[k]]

Init ==
  /\ source \in Contents /\ target \in Contents
  /\ tx = "none" /\ writes = Nothing
  /\ call = [name |-> "Statement", tables |-> {}, batch |-> DefaultBatch, manual |-> FALSE, dry |-> FALSE]
  /\ at = "idle" /\ queue = <<>>
  /\ existing = target /\ todo = {} /\ sinceCommit = 0
  /\ report = NoCounts /\ result = "none"
  /\ before = target /\ goal = target
  /\ calls = 0 /\ foreign = 0

--------------------------------------------------------------------------------
(* Statements and transactions.                                             *)

Write(new) ==
  IF tx = "none"
  THEN /\ target' = [k \in Keys |-> IF k \in DOMAIN new THEN new[k] ELSE target[k]]
       /\ UNCHANGED writes
  ELSE /\ writes' = [k \in Keys |-> IF k \in DOMAIN new THEN new[k] ELSE writes[k]]
       /\ UNCHANGED target

Commit   == target' = Visible /\ tx' = "none" /\ writes' = Nothing
Rollback == tx' = "none" /\ writes' = Nothing /\ UNCHANGED target

Return(r) == at' = "idle" /\ result' = r

\* The error paths of the builtins.
Abort ==
  /\ Return("error") /\ Rollback
  /\ UNCHANGED <<source, call, queue, reading, report, ghosts, bounds>>

\* tx.Commit() with an error.
CommitFails ==
  /\ Return("error")
  /\ Commit \/ Rollback
  /\ UNCHANGED <<source, call, queue, reading, report, ghosts, bounds>>

--------------------------------------------------------------------------------
(* The script calls a builtin.                                              *)

Start(name, tables, batch, manual, dry, where) ==
  /\ at = "idle" /\ calls < MaxCalls
  /\ calls' = calls + 1
  /\ call' = [name |-> name, tables |-> Range(tables), batch |-> batch, manual |-> manual, dry |-> dry]
  /\ queue' = tables
  /\ at' = where /\ result' = "none"
  /\ report' = NoCounts /\ todo' = {} /\ sinceCommit' = 0
  /\ before' = target /\ goal' = target
  /\ UNCHANGED <<data, existing, foreign>>

StartSyncTable ==
  \E i \in DOMAIN TableOrder, batch \in BatchSizes :
     Start("SyncTable", <<TableOrder[i]>>, batch, FALSE, FALSE, "readSource")

StartSyncTables == Start("SyncTables", TableOrder, DefaultBatch, FALSE, FALSE, "readSource")

StartCopyTable ==
  \E i \in DOMAIN TableOrder :
     Start("CopyTable", <<TableOrder[i]>>, DefaultBatch, FALSE, FALSE, "readSource")

\* hasManualTx: the text contains COMMIT or ROLLBACK.
StartScript ==
  \E name \in Scripts, manual, dry \in BOOLEAN :
     /\ dry => name = "ExecFile" /\ (manual => "manual_dry_run" \in Features)
     /\ Start(name, <<>>, DefaultBatch, manual, dry, IF manual THEN "script" ELSE "begin")

\* db.Insert of a row; its id must be free.
Inserts ==
  LET used == UNION {RowsOf(TableOrder[i], Visible) : i \in DOMAIN TableOrder}
  IN {[j \in {k} |-> r] : k \in Keys \ used, r \in Row}

\* db.ClearTable.
Clearings == {[k \in RowsOf(TableOrder[i], Visible) |-> Absent] : i \in DOMAIN TableOrder}

\* These stand for any other single statement as well.
Changes == Inserts \cup Clearings

StatementBuiltin ==
  /\ at = "idle" /\ calls < MaxCalls
  /\ calls' = calls + 1
  /\ call' = [name |-> "Statement", tables |-> {}, batch |-> DefaultBatch, manual |-> FALSE, dry |-> FALSE]
  /\ before' = target
  /\ \/ \E new \in Changes :
          /\ Write(new) /\ result' = "ok"
          /\ goal' = [k \in Keys |-> IF k \in DOMAIN new THEN new[k] ELSE Visible[k]]
     \/ result' = "error" /\ goal' = target /\ UNCHANGED <<target, writes>>
  /\ UNCHANGED <<source, tx, at, queue, reading, report, foreign>>

--------------------------------------------------------------------------------
(* syncTable, and the loop of CopyTable.                                    *)

Table == Head(queue)

\* SELECT * FROM source, after the connections, names and columns were checked.
\* From here on it is known what the target should become.
ReadSource ==
  /\ at = "readSource"
  /\ todo' = RowsOf(Table, source)
  /\ goal' = [k \in Keys |->
                IF TableOf[k] = Table /\ (call.name \in Syncing \/ source[k] # Absent)
                THEN source[k] ELSE goal[k]]
  /\ at' = IF call.name \in Syncing THEN "readTarget" ELSE "begin"
  /\ UNCHANGED <<data, call, queue, existing, sinceCommit, report, result, before, bounds>>

ReadTarget ==
  /\ at = "readTarget"
  /\ existing' = target
  /\ at' = "begin"
  /\ UNCHANGED <<data, call, queue, todo, sinceCommit, report, result, ghosts, bounds>>

\* dst.Begin() and the Prepares; it fails while a script's transaction is open.
\* db.Exec drops the error of Begin and goes on with a nil transaction.
Begin ==
  /\ at = "begin" /\ tx = "none"
  /\ tx' = "go"
  /\ at' = IF call.name \in Scripts THEN "script" ELSE "rows"
  /\ UNCHANGED <<source, target, writes, call, queue, reading, report, result, ghosts, bounds>>

BeginPanics ==
  /\ at = "begin" /\ call.name = "Exec"
  /\ Return("panic")
  /\ UNCHANGED <<data, call, queue, reading, report, ghosts, bounds>>

Counted(kind, n) == report' = [report EXCEPT ![kind] = @ + n]

CompareRow(k) ==
  /\ at = "rows" /\ call.name \in Syncing /\ sinceCommit < call.batch
  /\ k \in todo
  /\ todo' = todo \ {k}
  /\ \/ /\ existing[k] # Absent /\ SameRow(goal[k], existing[k])
        /\ Counted("unchanged", 1)
        /\ UNCHANGED <<target, writes, sinceCommit>>
     \/ /\ existing[k] = Absent /\ Visible[k] = Absent
        /\ Write([j \in {k} |-> goal[k]])
        /\ Counted("insert", 1)
        /\ sinceCommit' = sinceCommit + 1
     \/ /\ existing[k] # Absent /\ ~SameRow(goal[k], existing[k])
        /\ Write([j \in {k} \ {NullKey} |-> IF Visible[k] = Absent THEN Absent ELSE goal[k]])
        /\ Counted("update", 1)
        /\ sinceCommit' = sinceCommit + 1
  /\ UNCHANGED <<source, tx, call, at, queue, existing, result, ghosts, bounds>>

\* A bug of the kind CopyTable invites: the statement was prepared on dst, not on tx.
CopyRow_OutsideTransaction(k) ==
  /\ at = "rows" /\ call.name = "CopyTable"
  /\ k \in todo /\ Visible[k] = Absent
  /\ todo' = todo \ {k}
  /\ target' = [target EXCEPT ![k] = goal[k]]
  /\ Counted("insert", 1)
  /\ UNCHANGED <<source, tx, writes, call, at, queue, existing, sinceCommit, result, ghosts, bounds>>

\* A row whose id is in use is refused.
CopyRow(k) ==
  /\ at = "rows" /\ call.name = "CopyTable"
  /\ k \in todo /\ Visible[k] = Absent
  /\ todo' = todo \ {k}
  /\ Write([j \in {k} |-> goal[k]])
  /\ Counted("insert", 1)
  /\ UNCHANGED <<source, tx, call, at, queue, existing, sinceCommit, result, ghosts, bounds>>

\* A bug of the kind the batches invite: the numbers of a batch take the place of those before.
CommitBatch_Anew ==
  /\ at = "rows" /\ sinceCommit >= call.batch
  /\ Commit
  /\ at' = "begin" /\ sinceCommit' = 0 /\ report' = NoCounts
  /\ UNCHANGED <<source, call, queue, existing, todo, result, ghosts, bounds>>

\* rowsSinceCommit >= batchSize.
CommitBatch ==
  /\ at = "rows" /\ sinceCommit >= call.batch
  /\ Commit
  /\ at' = "begin" /\ sinceCommit' = 0
  /\ UNCHANGED <<source, call, queue, existing, todo, report, result, ghosts, bounds>>

\* DELETE ... WHERE id NOT IN (the ids of the source), or all rows if there are
\* none.  Compared with NULL, no id is outside the list, and NULL itself never is.
Orphans ==
  LET ids == RowsOf(Table, goal)
      all == RowsOf(Table, Visible)
  IN IF ids = {} THEN all
     ELSE IF NullKey \in ids THEN {}
     ELSE all \ (ids \cup {NullKey})

\* A bug of the kind the order of the steps invites: deleting before writing.
DeleteOrphans_First ==
  /\ at = "rows" /\ call.name \in Syncing
  /\ sinceCommit < call.batch
  /\ Write([k \in Orphans |-> Absent])
  /\ Counted("delete", IF RowsOf(Table, goal) = {} THEN 0 ELSE Cardinality(Orphans))
  /\ at' = "commit"
  /\ UNCHANGED <<source, tx, call, queue, reading, result, ghosts, bounds>>

DeleteOrphans ==
  /\ at = "rows" /\ call.name \in Syncing
  /\ todo = {} /\ sinceCommit < call.batch
  /\ Write([k \in Orphans |-> Absent])
  /\ Counted("delete", IF RowsOf(Table, goal) = {} THEN 0 ELSE Cardinality(Orphans))
  /\ at' = "commit"
  /\ UNCHANGED <<source, tx, call, queue, reading, result, ghosts, bounds>>

EndCopyRows ==
  /\ at = "rows" /\ call.name = "CopyTable" /\ todo = {}
  /\ at' = "commit"
  /\ UNCHANGED <<data, call, queue, reading, report, result, ghosts, bounds>>

FinishTable ==
  /\ at = "commit" /\ Commit
  /\ queue' = Tail(queue) /\ sinceCommit' = 0
  /\ IF queue' = <<>> THEN Return("ok") ELSE at' = "readSource" /\ UNCHANGED result
  /\ UNCHANGED <<source, call, existing, todo, report, ghosts, bounds>>

\* A query, a Begin, a Prepare or a statement reports an error.
Fails ==
  /\ \/ at \in {"readSource", "readTarget"}
     \/ at = "begin" /\ call.name # "Exec"
     \/ at = "rows"
     \/ at = "script" /\ (tx = "manual" => "left_open" \in Features)
  /\ IF tx = "manual"
     THEN Return("error")
          /\ UNCHANGED <<data, call, queue, reading, report, ghosts, bounds>>
     ELSE Abort

FailsToCommit == at = "commit" /\ CommitFails

BatchFailsToCommit == at = "rows" /\ sinceCommit >= call.batch /\ CommitFails

--------------------------------------------------------------------------------
(* db.Exec and db.ExecFile.                                                 *)

\* A statement that changes a row, or its own BEGIN, COMMIT and ROLLBACK.
RunStatement ==
  /\ at = "script" /\ sinceCommit < MaxStatements
  /\ sinceCommit' = sinceCommit + 1
  /\ \/ /\ \E k \in Keys, r \in Row \cup {Absent} : Write([j \in {k} |-> r])
        /\ UNCHANGED tx
     \/ /\ call.manual /\ tx = "none" /\ tx' = "manual"
        /\ UNCHANGED <<target, writes>>
     \/ tx = "manual" /\ (Commit \/ Rollback)
  /\ UNCHANGED <<source, call, at, queue, existing, todo, report, result, ghosts, bounds>>

\* Without a transaction there is nothing to end.
EndManualScript ==
  /\ at = "script" /\ call.manual
  /\ tx = "manual" => "left_open" \in Features
  /\ Return("ok")
  /\ goal' = IF call.dry THEN before ELSE Visible
  /\ UNCHANGED <<data, call, queue, reading, report, before, bounds>>

\* The result of this commit is looked at by ExecFile only.
EndScript ==
  /\ at = "script" /\ ~call.manual
  /\ goal' = IF call.dry THEN before ELSE Visible
  /\ \/ Return("ok") /\ ~call.dry /\ Commit
     \/ Return("ok") /\ call.dry /\ Rollback
     \/ Return("error") /\ call.name = "ExecFile" /\ ~call.dry /\ (Commit \/ Rollback)
     \/ Return("ok") /\ call.name = "Exec" /\ "exec_commit_fails" \in Features /\ Rollback
  /\ UNCHANGED <<source, call, queue, reading, report, before, bounds>>

--------------------------------------------------------------------------------
(* Other programs.                                                          *)

\* A row the transaction has written is locked.
OthersWrite ==
  /\ foreign < MaxForeign /\ foreign' = foreign + 1
  /\ \E k \in Keys, r \in Row \cup {Absent} :
       \/ source' = [source EXCEPT ![k] = r] /\ UNCHANGED target
       \/ /\ "target_writer" \in Features /\ writes[k] = Untouched
          /\ target' = [target EXCEPT ![k] = r] /\ UNCHANGED source
  /\ UNCHANGED <<tx, writes, call, at, queue, reading, report, result, ghosts, calls>>

--------------------------------------------------------------------------------
Call == StartSyncTable \/ StartSyncTables \/ StartCopyTable \/ StartScript \/ StatementBuiltin

Sync ==
  \/ ReadSource \/ ReadTarget \/ Begin \/ BeginPanics
  \/ \E k \in Keys : CompareRow(k) \/ CopyRow(k)
  \/ CommitBatch \/ DeleteOrphans \/ EndCopyRows \/ FinishTable

Failure == Fails \/ FailsToCommit \/ BatchFailsToCommit

Script == RunStatement \/ EndManualScript \/ EndScript

Next == Call \/ Sync \/ Failure \/ Script \/ OthersWrite

Spec == Init /\ [][Next]_vars

--------------------------------------------------------------------------------
(* Correctness.                                                             *)

\* The types, and: no more rows are waiting for a commit than were compared, and
\* than a batch has.
TypeOK ==
  /\ source \in Contents /\ target \in Contents
  /\ tx \in {"none", "go", "manual"}
  /\ writes \in [Keys -> Row \cup {Absent, Untouched}]
  /\ call \in [name : Names, tables : SUBSET Range(TableOrder), batch : Nat, manual : BOOLEAN, dry : BOOLEAN]
  /\ at \in {"idle", "readSource", "readTarget", "begin", "rows", "commit", "script"}
  /\ queue \in Seq(Range(TableOrder))
  /\ existing \in Contents /\ todo \subseteq Keys /\ sinceCommit \in Nat
  /\ report \in [{"insert", "update", "delete", "unchanged"} -> Nat]
  /\ result \in {"none", "ok", "error", "panic"}
  /\ before \in Contents /\ goal \in Contents
  /\ calls \in 0 .. MaxCalls /\ foreign \in 0 .. MaxForeign
  /\ (call.name \in Syncing /\ at \in {"begin", "rows"}) =>
       /\ sinceCommit <= call.batch
       /\ sinceCommit + Cardinality(todo) <= Cardinality(RowsOf(Table, goal))

\* No builtin returns with a transaction open, on none of its error paths: it
\* would keep the rows locked and its connection busy until the process ends.
NoTransactionLeft ==
  /\ at = "idle" => tx = "none"
  /\ tx = "none" => writes = Nothing

\* db.CopyTable and scripts without a COMMIT of their own take effect at once or
\* not at all, and with dryRun not at all, at whichever statement they fail
\* (md/db.md:75 "Kapselt automatisch in eine Transaktion"); the transaction is over then.
AllOrNothing ==
  /\ NoTransactionLeft
  /\ (call.name \in {"CopyTable"} \cup Scripts /\ ~call.manual) =>
       /\ at # "idle" => target = before
       /\ at = "idle" => target \in {before, goal}
       /\ call.dry => target = before

\* A synchronisation that stops anywhere, in the middle of the batches, leaves
\* rows as they were or as the source has them, and the tables before the one
\* it stopped in are done; rows are only deleted when all others are in place.
PartialSyncIsSafe ==
  (call.name \in Syncing /\ result \in {"none", "error"}) =>
     /\ \A k \in Keys : target[k] \in {before[k], goal[k]}
     /\ \A k \in Keys : (before[k] # Absent /\ target[k] = Absent) =>
          \A j \in RowsOf(TableOf[k], goal) : target[j] = goal[j]
     /\ \A k \in Keys : TableOf[k] \notin Range(queue) => target[k] = goal[k]

\* After a success the target holds what the source held when it was read, or what
\* the statements say, whatever an earlier call left there (md/db.md:180 "Jede
\* Quellzeile wird mit der entsprechenden Zielzeile (per ID) verglichen").
SuccessIsTrue == (at = "idle" /\ result = "ok") => target = goal

\* And the numbers are those of the rows that differed in the tables of the call
\* (md/db.md:189 "[Insert, Update, Delete, Unchanged]"), but for a table whose
\* source is empty: its rows are deleted and not counted.
Differing(kind) ==
  {k \in Keys :
     /\ TableOf[k] \in call.tables
     /\ CASE kind = "insert"    -> before[k] = Absent /\ goal[k] # Absent
          [] kind = "update"    -> Absent \notin {before[k], goal[k]} /\ before[k] # goal[k]
          [] kind = "delete"    -> /\ before[k] # Absent /\ goal[k] = Absent
                                   /\ RowsOf(TableOf[k], goal) # {}
          [] kind = "unchanged" -> goal[k] # Absent /\ before[k] = goal[k]}

\* Both what SyncTable returns, whatever its batch size and however many batches
\* were committed between the counts, and the line "Gesamt" of SyncTables.
ReportIsTrue ==
  /\ SuccessIsTrue
  /\ (at = "idle" /\ result = "ok" /\ call.name \in Syncing) =>
       \A kind \in DOMAIN report : report[kind] = Cardinality(Differing(kind))
================================================================================
