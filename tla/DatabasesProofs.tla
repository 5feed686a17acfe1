---------------------------- MODULE DatabasesProofs ----------------------------
(***************************************************************************)
(* Proofs about Databases for any tables, ids, columns and values, any     *)
(* batch size, and any number of calls and of writes by others: copies and *)
(* scripts take effect as a whole or not at all, a synchronisation that    *)
(* stops has left a safe mixture, one that reports a success is done, and  *)
(* the numbers it returns are those of the rows it changed.                *)
(*                                                                         *)
(* A synchronisation has no single moment of its own: batches are          *)
(* committed one by one.  The invariant says of each id how far it is: its *)
(* table is done, or at work, or still to come; and of the table at work,  *)
(* whether the row has been compared.                                      *)
(***************************************************************************)
EXTENDS Databases, FiniteSetTheorems, SequenceTheorems, TLAPS

Places == {"idle", "readSource", "readTarget", "begin", "rows", "commit", "script"}

Types ==
  /\ source \in Contents /\ target \in Contents /\ existing \in Contents
  /\ before \in Contents /\ goal \in Contents
  /\ writes \in [Keys -> Row \cup {Absent, Untouched}]
  /\ call \in [name : Names, tables : SUBSET Range(TableOrder), batch : Nat, manual : BOOLEAN, dry : BOOLEAN]
  /\ at \in Places /\ queue \in Seq(Range(TableOrder))
  /\ todo \subseteq Keys /\ sinceCommit \in Nat

\* Which transaction is open where, and which builtin can be there.
Transactions ==
  /\ tx = "none" => writes = Nothing
  /\ at \in {"idle", "readSource", "readTarget", "begin"} => tx = "none"
  /\ at \in {"rows", "commit"} => tx = "go"
  /\ at = "script" /\ ~call.manual => tx = "go"
  /\ tx \in {"none", "go", "manual"}
  /\ at = "script" /\ call.manual => tx # "go"

Builtin ==
  /\ call.manual => call.name \in Scripts /\ ~call.dry
  /\ call.dry => call.name \in Scripts
  /\ at = "script" => call.name \in Scripts
  /\ at \in {"readSource", "rows", "commit"} => call.name \in Syncing \cup {"CopyTable"}
  /\ at = "readTarget" => call.name \in Syncing
  /\ at = "begin" => call.name # "Statement" /\ ~call.manual
  /\ at # "idle" => result = "none"
  /\ at = "idle" /\ call.name \in Syncing \cup {"CopyTable"} => result \in {"ok", "error"}
  /\ call.name \in Syncing \cup {"CopyTable"} /\ at # "idle" => queue # <<>>

\* db.CopyTable: nothing is committed before the end, and then everything.
Copying ==
  call.name = "CopyTable" =>
    /\ sinceCommit = 0 /\ call.batch > 0 /\ (at # "idle" => Len(queue) = 1)
    /\ at = "readSource" => goal = before
    /\ at = "begin" => \A k \in Keys \ todo : goal[k] = target[k]
    /\ at = "rows" => \A k \in Keys \ todo : Visible[k] = goal[k]
    /\ at = "commit" => Visible = goal

\* Copies and scripts leave the target alone until they commit.
Whole ==
  (call.name \in {"CopyTable"} \cup Scripts /\ ~call.manual) =>
     /\ at # "idle" \/ call.dry => target = before
     /\ target \in {before, goal}

--------------------------------------------------------------------------------
(* A synchronisation, seen from one id.                                     *)

\* The row is the old or the new one, and none has disappeared.
Kept(k) == target[k] \in {before[k], goal[k]} /\ (target[k] = Absent => before[k] = Absent)

Pending(k) == TableOf[k] \in Range(queue)
AtWork(k)  == queue # <<>> /\ TableOf[k] = Table

\* Its table is done.
Done(k) == target[k] = goal[k] /\ writes[k] = Untouched

\* Its table is still to come.
Ahead(k) == target[k] = before[k] /\ goal[k] = before[k] /\ writes[k] = Untouched

\* Its table is at work, before the deletion and after it.
Compared(k) ==
  IF k \in todo \/ goal[k] = Absent
  THEN target[k] = before[k] /\ writes[k] = Untouched
  ELSE Visible[k] = goal[k] /\ Kept(k)
Final(k) == Visible[k] = goal[k] /\ Kept(k)

\* The tables are different ones.
Distinct == IsInjective(queue)

Syncs ==
  call.name \in Syncing =>
    /\ Distinct
    /\ at \in {"readTarget", "begin", "rows"} => \A k \in todo : AtWork(k) /\ goal[k] # Absent
    /\ \A k \in Keys :
         /\ ~Pending(k) => Done(k)
         /\ Pending(k) /\ (at = "readSource" \/ ~AtWork(k)) => Ahead(k)
         /\ AtWork(k) /\ at = "readTarget" => k \in todo \/ goal[k] = Absent
         /\ AtWork(k) /\ at \in {"readTarget", "begin", "rows"} => Compared(k)
         /\ AtWork(k) /\ at \in {"begin", "rows"} => existing[k] = before[k]
         /\ AtWork(k) /\ at = "commit" => Final(k)
    /\ at = "idle" /\ result = "ok" => queue = <<>>
    /\ at = "idle" /\ result = "error" =>
         \/ \A k \in Keys : AtWork(k) => Done(k)
         \/ \A k \in Keys : AtWork(k) => Kept(k)


--------------------------------------------------------------------------------
(* What statements, commits and rollbacks do.                               *)

LEMMA VisibleIs ==
  ASSUME Types
  PROVE  /\ Visible \in Contents
         /\ \A k \in Keys : Visible[k] = IF writes[k] = Untouched THEN target[k] ELSE writes[k]
         /\ writes = Nothing => Visible = target
<1>1. \A k \in Keys : Visible[k] = IF writes[k] = Untouched THEN target[k] ELSE writes[k]
  BY DEF Visible
<1>2. \A k \in Keys : Visible[k] \in Row \cup {Absent}
  BY <1>1 DEF Types, Contents
<1>3. Visible \in Contents
  BY <1>2 DEF Visible, Contents
<1>4. writes = Nothing => Visible = target
  <2> SUFFICES ASSUME writes = Nothing PROVE Visible = target
    OBVIOUS
  <2>1. \A k \in Keys : Visible[k] = target[k]
    BY <1>1 DEF Nothing
  <2> QED
    BY <1>3, <2>1 DEF Types, Contents
<1> QED
  BY <1>1, <1>3, <1>4

LEMMA CommitDoes ==
  ASSUME Types, Commit \/ Rollback
  PROVE  /\ target' \in Contents /\ writes' = Nothing /\ tx' = "none"
         /\ writes' \in [Keys -> Row \cup {Absent, Untouched}]
         /\ target' \in {target, Visible}
         /\ \A k \in Keys : writes'[k] = Untouched /\ Visible'[k] = target'[k]
<1>1. /\ target' \in Contents /\ writes' = Nothing /\ tx' = "none"
      /\ target' \in {target, Visible}
  BY VisibleIs DEF Commit, Rollback, Types
<1>2. \A k \in Keys : writes'[k] = Untouched /\ Visible'[k] = target'[k]
  BY <1>1 DEF Nothing, Visible
<1>3. writes' \in [Keys -> Row \cup {Absent, Untouched}]
  BY <1>1 DEF Nothing
<1> QED
  BY <1>1, <1>2, <1>3

LEMMA WriteType ==
  ASSUME Types, NEW new, \A j \in DOMAIN new : new[j] \in Row \cup {Absent}, Write(new)
  PROVE  target' \in Contents /\ writes' \in [Keys -> Row \cup {Absent, Untouched}]
<1>1. CASE tx = "none"
  BY <1>1 DEF Write, Types, Contents
<1>2. CASE tx # "none"
  BY <1>2 DEF Write, Types, Contents
<1> QED
  BY <1>1, <1>2

\* Inside a transaction only writes changes, and only at the ids of the statement.
LEMMA WriteDoes ==
  ASSUME Types, NEW new, \A j \in DOMAIN new : new[j] \in Row \cup {Absent}, Write(new), tx = "go"
  PROVE  /\ target' = target
         /\ \A k \in Keys : writes'[k] = IF k \in DOMAIN new THEN new[k] ELSE writes[k]
         /\ \A k \in Keys : Visible'[k] = IF k \in DOMAIN new THEN new[k] ELSE Visible[k]
<1>1. /\ target' = target
      /\ \A k \in Keys : writes'[k] = IF k \in DOMAIN new THEN new[k] ELSE writes[k]
  BY DEF Write
<1>2. Untouched \notin Row \cup {Absent}
  BY DatabaseAssumption DEF Row
<1>3. ASSUME NEW k \in Keys
      PROVE  Visible'[k] = IF k \in DOMAIN new THEN new[k] ELSE Visible[k]
  BY <1>1, <1>2 DEF Visible
<1> QED
  BY <1>1, <1>3

--------------------------------------------------------------------------------
(* Types.                                                                   *)

LEMMA BatchesAreNumbers == DefaultBatch \in Nat \ {0} /\ BatchSizes \subseteq Nat \ {0}
  BY DatabaseAssumption, FS_CardinalityType DEF DefaultBatch

LEMMA StartTypes ==
  ASSUME Types, NEW name \in Names, NEW tables \in Seq(Range(TableOrder)), NEW batch \in Nat,
         NEW manual \in BOOLEAN, NEW dry \in BOOLEAN, NEW where \in Places,
         Start(name, tables, batch, manual, dry, where)
  PROVE  Types'
<1>1. Range(tables) \in SUBSET Range(TableOrder)
  BY DEF Range
<1> QED
  BY <1>1 DEF Start, Types, data

LEMMA TablesAreSequences ==
  ASSUME TableOrder \in Seq(Range(TableOrder)), NEW i \in DOMAIN TableOrder
  PROVE  <<TableOrder[i]>> \in Seq(Range(TableOrder))
  BY DEF Range

LEMMA StatementTypes ==
  ASSUME Types, StatementBuiltin
  PROVE  Types'
<1>1. Visible \in Contents
  BY VisibleIs
<1>2. CASE UNCHANGED <<target, writes>> /\ goal' = target
  BY <1>2, BatchesAreNumbers DEF StatementBuiltin, Types, Names, reading
<1>3. ASSUME NEW new \in Changes, Write(new),
             goal' = [k \in Keys |-> IF k \in DOMAIN new THEN new[k] ELSE Visible[k]]
      PROVE  Types'
  <2>1. \A j \in DOMAIN new : new[j] \in Row \cup {Absent}
    <3>1. CASE new \in Inserts
      <4>1. PICK k \in Keys, r \in Row : new = [j \in {k} |-> r]
        BY <3>1 DEF Inserts
      <4> QED
        BY <4>1
    <3>2. CASE new \in Clearings
      <4>1. PICK i \in DOMAIN TableOrder : new = [k \in RowsOf(TableOrder[i], Visible) |-> Absent]
        BY <3>2 DEF Clearings
      <4> QED
        BY <4>1
    <3> QED
      BY <1>3, <3>1, <3>2 DEF Changes
  <2>2. target' \in Contents /\ writes' \in [Keys -> Row \cup {Absent, Untouched}]
    BY <1>3, <2>1, WriteType
  <2>3. goal' \in Contents
    BY <1>1, <1>3, <2>1 DEF Contents
  <2> QED
    BY <2>2, <2>3, BatchesAreNumbers DEF StatementBuiltin, Types, Names, reading
<1> QED
  BY <1>2, <1>3 DEF StatementBuiltin

LEMMA TypesStep ==
  ASSUME TableOrder \in Seq(Range(TableOrder)), Types, [Next]_vars
  PROVE  Types'
<1>1. CASE StartSyncTable
  <2>1. PICK i \in DOMAIN TableOrder, batch \in BatchSizes :
             Start("SyncTable", <<TableOrder[i]>>, batch, FALSE, FALSE, "readSource")
    BY <1>1 DEF StartSyncTable
  <2>2. <<TableOrder[i]>> \in Seq(Range(TableOrder)) /\ batch \in Nat
    BY TablesAreSequences, BatchesAreNumbers
  <2> QED
    BY <2>1, <2>2, StartTypes DEF Names, Syncing, Places
<1>2. CASE StartSyncTables
  BY <1>2, StartTypes, BatchesAreNumbers DEF StartSyncTables, Names, Syncing, Places
<1>3. CASE StartCopyTable
  <2>1. PICK i \in DOMAIN TableOrder :
             Start("CopyTable", <<TableOrder[i]>>, DefaultBatch, FALSE, FALSE, "readSource")
    BY <1>3 DEF StartCopyTable
  <2>2. <<TableOrder[i]>> \in Seq(Range(TableOrder)) /\ DefaultBatch \in Nat
    BY TablesAreSequences, BatchesAreNumbers
  <2> QED
    BY <2>1, <2>2, StartTypes DEF Names, Places
<1>4. CASE StartScript
  <2>1. PICK name \in Scripts, manual \in BOOLEAN, dry \in BOOLEAN :
             Start(name, <<>>, DefaultBatch, manual, dry, IF manual THEN "script" ELSE "begin")
    BY <1>4 DEF StartScript
  <2>2. /\ name \in Names /\ <<>> \in Seq(Range(TableOrder)) /\ DefaultBatch \in Nat
        /\ (IF manual THEN "script" ELSE "begin") \in Places
    BY BatchesAreNumbers DEF Names, Places
  <2> QED
    BY <2>1, <2>2, StartTypes
<1>5. CASE StatementBuiltin
  BY <1>5, StatementTypes
<1>6. CASE ReadSource
  <2>1. goal' \in Contents
    BY <1>6 DEF ReadSource, Types, Contents
  <2>2. RowsOf(Table, source) \subseteq Keys
    BY DEF RowsOf
  <2> QED
    BY <1>6, <2>1, <2>2 DEF ReadSource, Types, Places, data
<1>7. CASE ReadTarget
  BY <1>7 DEF ReadTarget, Types, Places, data, ghosts
<1>8. CASE Begin
  BY <1>8 DEF Begin, Types, Places, reading, ghosts
<1>9. CASE BeginPanics
  BY <1>9 DEF BeginPanics, Return, Types, Places, data, reading, ghosts
<1>10. ASSUME NEW k \in Keys, CompareRow(k) PROVE Types'
  <2>1. /\ UNCHANGED <<source, call, at, queue, existing, before, goal>>
        /\ todo' \subseteq Keys /\ sinceCommit' \in Nat
    BY <1>10 DEF CompareRow, Types, ghosts
  <2>2. CASE UNCHANGED <<target, writes>>
    BY <2>1, <2>2 DEF Types
  <2>3. CASE Write([j \in {k} |-> goal[k]])
    <3>1. goal[k] \in Row \cup {Absent}
      BY DEF Types, Contents
    <3>2. target' \in Contents /\ writes' \in [Keys -> Row \cup {Absent, Untouched}]
      BY <2>3, <3>1, WriteType
    <3> QED
      BY <2>1, <3>2 DEF Types
  <2>4. CASE Write([j \in {k} \ {NullKey} |-> IF Visible[k] = Absent THEN Absent ELSE goal[k]])
    <3>1. goal[k] \in Row \cup {Absent}
      BY DEF Types, Contents
    <3>2. target' \in Contents /\ writes' \in [Keys -> Row \cup {Absent, Untouched}]
      BY <2>4, <3>1, WriteType
    <3> QED
      BY <2>1, <3>2 DEF Types
  <2> QED
    BY <1>10, <2>2, <2>3, <2>4 DEF CompareRow
<1>11. ASSUME NEW k \in Keys, CopyRow(k) PROVE Types'
  <2>1. goal[k] \in Row \cup {Absent}
    BY DEF Types, Contents
  <2>2. target' \in Contents /\ writes' \in [Keys -> Row \cup {Absent, Untouched}]
    BY <1>11, <2>1, WriteType DEF CopyRow
  <2> QED
    BY <1>11, <2>2 DEF CopyRow, Types, ghosts
<1>12. CASE CommitBatch
  BY <1>12, CommitDoes DEF CommitBatch, Types, Places, ghosts
<1>13. CASE DeleteOrphans
  <2>1. target' \in Contents /\ writes' \in [Keys -> Row \cup {Absent, Untouched}]
    BY <1>13, WriteType DEF DeleteOrphans
  <2> QED
    BY <1>13, <2>1 DEF DeleteOrphans, Types, Places, reading, ghosts
<1>14. CASE EndCopyRows
  BY <1>14 DEF EndCopyRows, Types, Places, data, reading, ghosts
<1>15. CASE FinishTable
  <2>1. queue' \in Seq(Range(TableOrder))
    <3>1. CASE queue = <<>>
      BY <1>15, <3>1 DEF FinishTable, Types
    <3>2. CASE queue # <<>>
      BY <1>15, <3>2 DEF FinishTable, Types
    <3> QED
      BY <3>1, <3>2
  <2>2. at' \in Places
    BY <1>15 DEF FinishTable, Return, Places
  <2>3. target' \in Contents /\ writes' \in [Keys -> Row \cup {Absent, Untouched}]
    BY <1>15, CommitDoes DEF FinishTable
  <2> QED
    BY <1>15, <2>1, <2>2, <2>3 DEF FinishTable, Types, ghosts
<1>16. CASE Fails \/ FailsToCommit \/ BatchFailsToCommit
  <2>1. /\ UNCHANGED <<source, call, queue, existing, todo, sinceCommit, before, goal>>
        /\ at' \in Places
    BY <1>16 DEF Fails, FailsToCommit, BatchFailsToCommit, Abort, CommitFails, Return, Places, data, reading, ghosts
  <2>2. Commit \/ Rollback \/ UNCHANGED <<target, writes>>
    BY <1>16 DEF Fails, FailsToCommit, BatchFailsToCommit, Abort, CommitFails, data
  <2>3. target' \in Contents /\ writes' \in [Keys -> Row \cup {Absent, Untouched}]
    BY <2>2, CommitDoes DEF Types
  <2> QED
    BY <2>1, <2>3 DEF Types
<1>17. CASE RunStatement
  <2>1. /\ UNCHANGED <<source, call, at, queue, existing, todo, before, goal>>
        /\ sinceCommit' = sinceCommit + 1
    BY <1>17 DEF RunStatement, ghosts
  <2>2. target' \in Contents /\ writes' \in [Keys -> Row \cup {Absent, Untouched}]
    <3>1. ASSUME NEW k \in Keys, NEW r \in Row \cup {Absent}, Write([j \in {k} |-> r])
          PROVE  target' \in Contents /\ writes' \in [Keys -> Row \cup {Absent, Untouched}]
      BY <3>1, WriteType
    <3> QED
      BY <1>17, <3>1, CommitDoes DEF RunStatement, Types
  <2> QED
    BY <2>1, <2>2 DEF Types
<1>18. CASE EndManualScript
  BY <1>18, VisibleIs DEF EndManualScript, Return, Types, Places, data, reading
<1>19. CASE EndScript
  <2>1. Commit \/ Rollback
    BY <1>19 DEF EndScript
  <2>2. target' \in Contents /\ writes' \in [Keys -> Row \cup {Absent, Untouched}]
    BY <2>1, CommitDoes
  <2>3. goal' \in Contents /\ at' \in Places
    BY <1>19, VisibleIs DEF EndScript, Return, Types, Places
  <2> QED
    BY <1>19, <2>2, <2>3 DEF EndScript, Types, reading
<1>20. CASE OthersWrite
  BY <1>20 DEF OthersWrite, Types, Contents, reading, ghosts
<1>21. CASE UNCHANGED vars
  BY <1>21 DEF vars, Types, data, reading, ghosts
<1> QED
  BY <1>1, <1>2, <1>3, <1>4, <1>5, <1>6, <1>7, <1>8, <1>9, <1>10, <1>11, <1>12, <1>13, <1>14, <1>15,
     <1>16, <1>17, <1>18, <1>19, <1>20, <1>21 DEF Next, Call, Sync, Failure, Script

--------------------------------------------------------------------------------
(* Where a builtin begins.                                                  *)

Opening == StartSyncTable \/ StartSyncTables \/ StartCopyTable \/ StartScript

LEMMA OpeningDoes ==
  ASSUME Opening, TableOrder \in Seq(Range(TableOrder)), TableOrder # <<>>,
         "manual_dry_run" \notin Features
  PROVE  /\ at = "idle" /\ UNCHANGED <<source, target, tx, writes, existing>>
         /\ todo' = {} /\ sinceCommit' = 0 /\ result' = "none"
         /\ before' = target /\ goal' = target
         /\ \/ /\ call'.name \in Syncing \cup {"CopyTable"} /\ ~call'.manual /\ ~call'.dry
               /\ at' = "readSource"
               /\ call'.name = "CopyTable" => Len(queue') = 1 /\ call'.batch = DefaultBatch
               /\ queue' = TableOrder \/ \E i \in DOMAIN TableOrder : queue' = <<TableOrder[i]>>
               /\ queue' # <<>>
            \/ /\ call'.name \in Scripts /\ call'.manual \in BOOLEAN /\ call'.dry \in BOOLEAN
               /\ call'.dry => ~call'.manual
               /\ at' = IF call'.manual THEN "script" ELSE "begin"
<1>1. CASE StartSyncTable
  BY <1>1 DEF StartSyncTable, Start, data, Syncing
<1>2. CASE StartSyncTables
  BY <1>2 DEF StartSyncTables, Start, data, Syncing
<1>3. CASE StartCopyTable
  BY <1>3 DEF StartCopyTable, Start, data
<1>4. CASE StartScript
  <2>1. PICK name \in Scripts, manual \in BOOLEAN, dry \in BOOLEAN :
          /\ dry => name = "ExecFile" /\ (manual => "manual_dry_run" \in Features)
          /\ Start(name, <<>>, DefaultBatch, manual, dry, IF manual THEN "script" ELSE "begin")
    BY <1>4 DEF StartScript
  <2> QED
    BY <2>1 DEF Start, data
<1> QED
  BY <1>1, <1>2, <1>3, <1>4 DEF Opening

--------------------------------------------------------------------------------
(* Transactions, and the builtins that have them.                           *)

LEMMA TransactionsStep ==
  ASSUME TableOrder \in Seq(Range(TableOrder)), TableOrder # <<>>,
         "manual_dry_run" \notin Features, "left_open" \notin Features,
         Types, Transactions, Builtin, [Next]_vars
  PROVE  Transactions'
<1>1. CASE Opening
  BY <1>1, OpeningDoes DEF Transactions
<1>2. CASE StatementBuiltin
  <2>1. tx = "none" /\ writes' = writes /\ at' = at /\ tx' = tx /\ at = "idle"
    BY <1>2 DEF StatementBuiltin, Transactions, Write
  <2> QED
    BY <2>1 DEF Transactions, Nothing
<1>3. CASE ReadSource
  BY <1>3 DEF ReadSource, Transactions, data
<1>4. CASE ReadTarget
  BY <1>4 DEF ReadTarget, Transactions, data
<1>5. CASE Begin
  BY <1>5 DEF Begin, Transactions, Builtin
<1>6. CASE BeginPanics
  BY <1>6 DEF BeginPanics, Return, Transactions, data
<1>7. ASSUME NEW k \in Keys, CompareRow(k) \/ CopyRow(k) PROVE Transactions'
  BY <1>7 DEF CompareRow, CopyRow, Transactions
<1>8. CASE CommitBatch
  BY <1>8, CommitDoes DEF CommitBatch, Transactions
<1>9. CASE DeleteOrphans
  BY <1>9 DEF DeleteOrphans, Transactions
<1>10. CASE EndCopyRows
  BY <1>10 DEF EndCopyRows, Transactions, data
<1>11. CASE FinishTable
  BY <1>11, CommitDoes DEF FinishTable, Return, Transactions
<1>12. CASE Fails
  <2>1. tx # "manual"
    BY <1>12 DEF Fails, Transactions
  <2> QED
    BY <1>12, <2>1, CommitDoes DEF Fails, Abort, Return, Transactions
<1>13. CASE FailsToCommit \/ BatchFailsToCommit
  BY <1>13, CommitDoes DEF FailsToCommit, BatchFailsToCommit, CommitFails, Return, Transactions
<1>14. CASE RunStatement
  <2>1. at = "script" /\ UNCHANGED <<call, at>>
    BY <1>14 DEF RunStatement
  <2>2. CASE Commit \/ Rollback
    BY <1>14, <2>1, <2>2, CommitDoes DEF RunStatement, Transactions
  <2>3. CASE UNCHANGED writes /\ call.manual /\ tx = "none" /\ tx' = "manual"
    BY <2>1, <2>3 DEF Transactions
  <2>4. ASSUME NEW k \in Keys, NEW r \in Row \cup {Absent}, Write([j \in {k} |-> r]), UNCHANGED tx
        PROVE  Transactions'
    <3>1. tx = "none" => writes' = writes
      BY <2>4 DEF Write
    <3> QED
      BY <2>1, <2>4, <3>1 DEF Transactions, Nothing
  <2> QED
    BY <1>14, <2>2, <2>3, <2>4 DEF RunStatement, Transactions
<1>15. CASE EndManualScript
  BY <1>15 DEF EndManualScript, Return, Transactions, data
<1>16. CASE EndScript
  <2>1. Commit \/ Rollback
    BY <1>16 DEF EndScript
  <2> QED
    BY <1>16, <2>1, CommitDoes DEF EndScript, Return, Transactions
<1>17. CASE OthersWrite
  BY <1>17 DEF OthersWrite, Transactions, Nothing
<1>18. CASE UNCHANGED vars
  BY <1>18 DEF vars, data, Transactions, Nothing
<1> QED
  BY <1>1, <1>2, <1>3, <1>4, <1>5, <1>6, <1>7, <1>8, <1>9, <1>10, <1>11, <1>12, <1>13, <1>14, <1>15,
     <1>16, <1>17, <1>18 DEF Next, Call, Opening, Sync, Failure, Script

LEMMA BuiltinStep ==
  ASSUME TableOrder \in Seq(Range(TableOrder)), TableOrder # <<>>,
         "manual_dry_run" \notin Features,
         Types, Transactions, Builtin, [Next]_vars
  PROVE  Builtin'
<1> USE DEF Syncing, Scripts
<1>1. CASE Opening
  BY <1>1, OpeningDoes DEF Builtin
<1>2. CASE StatementBuiltin
  BY <1>2 DEF StatementBuiltin, Builtin
<1>3. CASE ReadSource
  BY <1>3 DEF ReadSource, Builtin
<1>4. CASE ReadTarget
  BY <1>4 DEF ReadTarget, Builtin
<1>5. CASE Begin
  BY <1>5 DEF Begin, Builtin, Types, Names
<1>6. CASE BeginPanics
  BY <1>6 DEF BeginPanics, Return, Builtin
<1>7. ASSUME NEW k \in Keys, CompareRow(k) \/ CopyRow(k) PROVE Builtin'
  BY <1>7 DEF CompareRow, CopyRow, Builtin
<1>8. CASE CommitBatch
  BY <1>8 DEF CommitBatch, Builtin
<1>9. CASE DeleteOrphans
  BY <1>9 DEF DeleteOrphans, Builtin
<1>10. CASE EndCopyRows
  BY <1>10 DEF EndCopyRows, Builtin
<1>11. CASE FinishTable
  BY <1>11 DEF FinishTable, Return, Builtin
<1>12. CASE Fails
  BY <1>12 DEF Fails, Abort, Return, Builtin
<1>13. CASE FailsToCommit \/ BatchFailsToCommit
  BY <1>13 DEF FailsToCommit, BatchFailsToCommit, CommitFails, Return, Builtin
<1>14. CASE RunStatement
  BY <1>14 DEF RunStatement, Builtin
<1>15. CASE EndManualScript
  BY <1>15 DEF EndManualScript, Return, Builtin
<1>16. CASE EndScript
  BY <1>16 DEF EndScript, Return, Builtin
<1>17. CASE OthersWrite
  BY <1>17 DEF OthersWrite, Builtin
<1>18. CASE UNCHANGED vars
  BY <1>18 DEF vars, Builtin
<1> QED
  BY <1>1, <1>2, <1>3, <1>4, <1>5, <1>6, <1>7, <1>8, <1>9, <1>10, <1>11, <1>12, <1>13, <1>14, <1>15,
     <1>16, <1>17, <1>18 DEF Next, Call, Opening, Sync, Failure, Script

--------------------------------------------------------------------------------
(* Copies and scripts.                                                      *)

\* db.CopyTable has no batches.
LEMMA CopiesHaveNoBatches ==
  ASSUME Types, Builtin, Copying, at = "rows", sinceCommit >= call.batch
  PROVE  call.name \in Syncing
<1>1. call.batch \in Nat /\ sinceCommit \in Nat
  BY DEF Types
<1> QED
  BY <1>1 DEF Builtin, Copying

LEMMA CopyingStep ==
  ASSUME TableOrder \in Seq(Range(TableOrder)), TableOrder # <<>>,
         "manual_dry_run" \notin Features, "target_writer" \notin Features,
         Types, Transactions, Builtin, Copying, Whole, [Next]_vars
  PROVE  Copying'
<1> SUFFICES ASSUME call'.name = "CopyTable" PROVE Copying'
  BY DEF Copying
<1>1. CASE Opening
  BY <1>1, OpeningDoes, BatchesAreNumbers DEF Copying, Syncing, Scripts
<1>2. CASE StatementBuiltin
  BY <1>2 DEF StatementBuiltin
<1>3. CASE ReadSource
  <2>1. /\ at' = "begin" /\ target' = target /\ call' = call /\ call.name = "CopyTable"
        /\ UNCHANGED <<sinceCommit, queue>> /\ at = "readSource"
    BY <1>3 DEF ReadSource, data, Syncing
  <2>2. goal = before /\ target = before
    BY <2>1 DEF Copying, Whole, Builtin, Scripts
  <2>3. ASSUME NEW k \in Keys \ todo' PROVE goal'[k] = target'[k]
    <3>1. goal'[k] = goal[k]
      BY <1>3, <2>1, <2>3 DEF ReadSource, RowsOf, Syncing
    <3> QED
      BY <2>1, <2>2, <3>1
  <2> QED
    BY <2>1, <2>3 DEF Copying
<1>4. CASE ReadTarget
  BY <1>4 DEF ReadTarget, Builtin, Syncing
<1>5. CASE Begin
  <2>1. /\ at = "begin" /\ at' = "rows" /\ UNCHANGED <<target, writes, todo, goal, call, sinceCommit, queue>>
        /\ call.name = "CopyTable" /\ tx = "none"
    BY <1>5 DEF Begin, reading, ghosts, Scripts
  <2>2. Visible' = target
    BY <2>1, VisibleIs DEF Transactions, Visible
  <2> QED
    BY <2>1, <2>2 DEF Copying, Types
<1>6. CASE BeginPanics
  BY <1>6 DEF BeginPanics
<1>7. ASSUME NEW k \in Keys, CompareRow(k) PROVE Copying'
  BY <1>7 DEF CompareRow, Syncing
<1>8. ASSUME NEW k \in Keys, CopyRow(k) PROVE Copying'
  <2>1. /\ at = "rows" /\ k \in todo /\ todo' = todo \ {k} /\ Write([j \in {k} |-> goal[k]])
        /\ UNCHANGED <<call, at, queue, sinceCommit, goal>>
    BY <1>8 DEF CopyRow, ghosts
  <2>2. goal[k] \in Row \cup {Absent} /\ tx = "go"
    BY <2>1 DEF Types, Contents, Transactions
  <2>3. \A j \in Keys : Visible'[j] = IF j \in {k} THEN goal[k] ELSE Visible[j]
    BY <2>1, <2>2, WriteDoes
  <2>4. \A j \in Keys \ todo' : Visible'[j] = goal'[j]
    BY <2>1, <2>3 DEF Copying
  <2> QED
    BY <2>1, <2>4 DEF Copying
<1>9. CASE CommitBatch
  BY <1>9, CopiesHaveNoBatches DEF CommitBatch, Syncing
<1>10. CASE DeleteOrphans
  BY <1>10 DEF DeleteOrphans, Syncing
<1>11. CASE EndCopyRows
  <2>1. /\ at = "rows" /\ at' = "commit" /\ todo = {} /\ call.name = "CopyTable"
        /\ UNCHANGED <<target, writes, goal, call, sinceCommit, queue>>
    BY <1>11 DEF EndCopyRows, data, reading, ghosts
  <2>2. \A k \in Keys : Visible[k] = goal[k]
    BY <2>1 DEF Copying
  <2>3. Visible = goal
    BY <2>2, VisibleIs DEF Types, Contents
  <2>4. Visible' = goal'
    BY <2>1, <2>3 DEF Visible
  <2> QED
    BY <2>1, <2>4 DEF Copying
<1>12. CASE FinishTable
  <2>1. /\ at = "commit" /\ call' = call /\ queue' = Tail(queue) /\ sinceCommit' = 0
        /\ queue' = <<>> => at' = "idle"
    BY <1>12 DEF FinishTable, Return
  <2>2. Len(queue) = 1 /\ queue \in Seq(Range(TableOrder)) /\ call.batch > 0
    BY <2>1 DEF Copying, Types
  <2>3. at' = "idle"
    BY <2>1, <2>2
  <2> QED
    BY <2>1, <2>2, <2>3 DEF Copying
<1>13. CASE Failure
  <2>1. at' = "idle" /\ UNCHANGED <<call, sinceCommit>>
    BY <1>13 DEF Failure, Fails, FailsToCommit, BatchFailsToCommit, Abort, CommitFails, Return, reading
  <2> QED
    BY <2>1 DEF Copying
<1>14. CASE Script
  BY <1>14 DEF Script, RunStatement, EndManualScript, EndScript, Builtin, Scripts
<1>15. CASE OthersWrite
  BY <1>15 DEF OthersWrite, Copying, Visible, reading, ghosts
<1>16. CASE UNCHANGED vars
  BY <1>16 DEF vars, data, reading, ghosts, Copying, Visible
<1> QED
  BY <1>1, <1>2, <1>3, <1>4, <1>5, <1>6, <1>7, <1>8, <1>9, <1>10, <1>11, <1>12, <1>13, <1>14, <1>15,
     <1>16 DEF Next, Call, Opening, Sync

LEMMA WholeStep ==
  ASSUME TableOrder \in Seq(Range(TableOrder)), TableOrder # <<>>,
         "manual_dry_run" \notin Features, "target_writer" \notin Features,
         Types, Transactions, Builtin, Copying, Whole, [Next]_vars
  PROVE  Whole'
<1> SUFFICES ASSUME call'.name \in {"CopyTable"} \cup Scripts, ~call'.manual PROVE Whole'
  BY DEF Whole
<1> USE DEF Scripts, Syncing
<1>1. CASE Opening
  BY <1>1, OpeningDoes DEF Whole
<1>2. CASE StatementBuiltin
  BY <1>2 DEF StatementBuiltin
<1>3. CASE ReadSource
  <2>1. at = "readSource" /\ UNCHANGED <<target, call, before>>
    BY <1>3 DEF ReadSource, data
  <2> QED
    BY <2>1 DEF Whole
<1>4. CASE ReadTarget \/ EndCopyRows \/ Begin
  <2>1. at # "idle" /\ UNCHANGED <<target, call, before, goal>>
    BY <1>4 DEF ReadTarget, EndCopyRows, Begin, data, ghosts
  <2> QED
    BY <2>1 DEF Whole
<1>5. CASE BeginPanics
  BY <1>5 DEF BeginPanics, Return, Whole, data, ghosts
<1>6. ASSUME NEW k \in Keys, CompareRow(k) PROVE Whole'
  BY <1>6 DEF CompareRow
<1>7. ASSUME NEW k \in Keys, CopyRow(k) PROVE Whole'
  <2>1. at = "rows" /\ Write([j \in {k} |-> goal[k]]) /\ UNCHANGED <<call, at, before, goal>>
    BY <1>7 DEF CopyRow, ghosts
  <2>2. target' = target
    BY <2>1 DEF Write, Transactions
  <2> QED
    BY <2>1, <2>2 DEF Whole
<1>8. CASE CommitBatch \/ BatchFailsToCommit
  BY <1>8, CopiesHaveNoBatches DEF CommitBatch, BatchFailsToCommit, CommitFails
<1>9. CASE DeleteOrphans
  BY <1>9 DEF DeleteOrphans
<1>10. CASE FinishTable \/ FailsToCommit
  <2>1. /\ at = "commit" /\ (Commit \/ Rollback) /\ UNCHANGED <<call, before, goal>>
    BY <1>10 DEF FinishTable, FailsToCommit, CommitFails, ghosts
  <2>2. call.name = "CopyTable" /\ ~call.dry
    BY <2>1 DEF Builtin
  <2>3. target' \in {target, goal} /\ target = before
    BY <2>1, <2>2, CommitDoes DEF Copying, Whole
  <2>4. at' = "idle"
    <3>1. CASE FinishTable
      <4>1. Len(queue) = 1 /\ queue \in Seq(Range(TableOrder))
        BY <2>1, <2>2 DEF Copying, Types
      <4>2. Tail(queue) = <<>>
        BY <4>1, EmptySeq, HeadTailProperties
      <4> QED
        BY <3>1, <4>2 DEF FinishTable, Return
    <3> QED
      BY <1>10, <3>1 DEF FailsToCommit, CommitFails, Return
  <2> QED
    BY <2>1, <2>2, <2>3, <2>4 DEF Whole
<1>11. CASE Fails
  <2>1. at # "idle" /\ UNCHANGED <<target, call, before, goal>>
    BY <1>11 DEF Fails, Abort, Rollback, data, ghosts
  <2> QED
    BY <2>1 DEF Whole
<1>12. CASE RunStatement
  <2>1. at = "script" /\ UNCHANGED <<call, before, goal>> /\ tx = "go"
    BY <1>12 DEF RunStatement, ghosts, Transactions
  <2>2. target' = target
    BY <1>12, <2>1 DEF RunStatement, Write
  <2> QED
    BY <2>1, <2>2 DEF Whole
<1>13. CASE EndManualScript
  BY <1>13 DEF EndManualScript
<1>14. CASE EndScript
  <2>1. /\ at = "script" /\ UNCHANGED <<call, before>>
        /\ goal' = IF call.dry THEN before ELSE Visible
        /\ target' \in {target, Visible} /\ (call.dry => target' = target)
    BY <1>14 DEF EndScript, Commit, Rollback
  <2>2. at' = "idle"
    BY <1>14 DEF EndScript, Return
  <2> QED
    BY <2>1, <2>2 DEF Whole
<1>15. CASE OthersWrite
  BY <1>15 DEF OthersWrite, Whole, ghosts
<1>16. CASE UNCHANGED vars
  BY <1>16 DEF vars, data, ghosts, Whole
<1> QED
  BY <1>1, <1>2, <1>3, <1>4, <1>5, <1>6, <1>7, <1>8, <1>9, <1>10, <1>11, <1>12, <1>13, <1>14, <1>15,
     <1>16 DEF Next, Call, Opening, Sync, Failure, Script

--------------------------------------------------------------------------------
(* Synchronisations.                                                        *)

\* The table at work is one of those in the queue, and is not in its tail.
LEMMA QueueIs ==
  ASSUME Types, queue # <<>>
  PROVE  /\ Table \in Range(queue)
         /\ Range(queue) = {Table} \cup Range(Tail(queue))
         /\ Distinct => Table \notin Range(Tail(queue)) /\ IsInjective(Tail(queue))
<1> DEFINE rest == Tail(queue)
<1>1. /\ queue \in Seq(Range(TableOrder)) /\ Len(queue) \in Nat \ {0} /\ DOMAIN queue = 1 .. Len(queue)
      /\ Len(rest) = Len(queue) - 1 /\ DOMAIN rest = 1 .. Len(rest)
      /\ \A i \in 1 .. Len(rest) : rest[i] = queue[i + 1]
  <2>1. queue \in Seq(Range(TableOrder))
    BY DEF Types
  <2>2. Len(queue) \in Nat \ {0} /\ DOMAIN queue = 1 .. Len(queue)
    BY <2>1, EmptySeq, LenProperties
  <2>3. /\ rest \in Seq(Range(TableOrder)) /\ Len(rest) = Len(queue) - 1
        /\ \A i \in 1 .. Len(rest) : rest[i] = queue[i + 1]
    BY <2>1, HeadTailProperties
  <2>4. DOMAIN rest = 1 .. Len(rest)
    BY <2>3, LenProperties
  <2> QED
    BY <2>1, <2>2, <2>3, <2>4
<1>2. Table = queue[1]
  BY <1>1 DEF Table
<1> HIDE DEF rest
<1>3. Table \in Range(queue)
  BY <1>1, <1>2 DEF Range
<1>4. Range(rest) \subseteq Range(queue)
  BY <1>1 DEF Range
<1>5. Range(queue) \subseteq {Table} \cup Range(rest)
  <2> SUFFICES ASSUME NEW i \in 1 .. Len(queue), i # 1 PROVE queue[i] \in Range(rest)
    BY <1>1, <1>2 DEF Range
  <2>1. i - 1 \in 1 .. Len(rest) /\ queue[i] = rest[i - 1]
    BY <1>1
  <2> QED
    BY <1>1, <2>1 DEF Range
<1>6. ASSUME Distinct PROVE Table \notin Range(rest) /\ IsInjective(rest)
  <2>1. \A i, j \in 1 .. Len(queue) : queue[i] = queue[j] => i = j
    BY <1>1, <1>6 DEF Distinct, IsInjective
  <2>2. \A i \in 1 .. Len(rest) : i + 1 \in 1 .. Len(queue) /\ i + 1 # 1
    BY <1>1
  <2>3. \A i \in 1 .. Len(rest) : rest[i] # queue[1]
    BY <1>1, <2>1, <2>2
  <2>4. \A i, j \in 1 .. Len(rest) : rest[i] = rest[j] => i = j
    BY <1>1, <2>1, <2>2
  <2> QED
    BY <1>1, <1>2, <2>3, <2>4 DEF Range, IsInjective
<1> QED
  BY <1>3, <1>4, <1>5, <1>6 DEF rest

\* What is at work is pending.
LEMMA AtWorkIsPending ==
  ASSUME Types, NEW k \in Keys, AtWork(k)
  PROVE  Pending(k)
  BY QueueIs DEF AtWork, Pending

\* Rows with the same signature are the same.
LEMMA SameRowIsEqual ==
  ASSUME SourceColumns = TargetColumns, NEW s \in Row, NEW t \in Row, SameRow(s, t)
  PROVE  s = t
<1>1. \A i \in DOMAIN SourceColumns : s[SourceColumns[i]] = t[SourceColumns[i]]
  BY DEF SameRow, Signature
<1>2. \A c \in Range(SourceColumns) : s[c] = t[c]
  BY <1>1 DEF Range
<1> QED
  BY <1>2 DEF Row

\* A step that leaves everything alone that Syncs is about.
LEMMA SyncsRests ==
  ASSUME Syncs, UNCHANGED <<target, writes, call, at, queue, existing, todo, result, before, goal>>
  PROVE  Syncs'
  BY DEF Syncs, Distinct, Pending, AtWork, Table, Done, Ahead, Compared, Final, Kept, Visible

Tables == TableOrder \in Seq(Range(TableOrder)) /\ TableOrder # <<>>

LEMMA OpeningSyncs ==
  ASSUME Tables, IsInjective(TableOrder), "manual_dry_run" \notin Features,
         Types, Transactions, Opening
  PROVE  Syncs'
<1> SUFFICES ASSUME call'.name \in Syncing PROVE Syncs'
  BY DEF Syncs
<1>1. /\ at = "idle" /\ at' = "readSource" /\ target' = target /\ writes' = writes
      /\ before' = target /\ goal' = target /\ result' = "none"
      /\ queue' = TableOrder \/ \E i \in DOMAIN TableOrder : queue' = <<TableOrder[i]>>
  BY OpeningDoes DEF Tables, Syncing, Scripts
<1>2. \A k \in Keys : writes[k] = Untouched
  BY <1>1 DEF Transactions, Nothing
<1>3. Distinct'
  BY <1>1 DEF Distinct, IsInjective
<1> QED
  BY <1>1, <1>2, <1>3 DEF Syncs, Done, Ahead

LEMMA ReadSourceSyncs ==
  ASSUME Types, Syncs, ReadSource, call.name \in Syncing, queue # <<>>
  PROVE  Syncs'
<1>1. /\ at = "readSource" /\ at' = "readTarget" /\ todo' = RowsOf(Table, source)
      /\ UNCHANGED <<target, writes, call, queue, existing, before>>
      /\ \A k \in Keys : goal'[k] = IF TableOf[k] = Table THEN source[k] ELSE goal[k]
  BY DEF ReadSource, data
<1>2. Distinct' /\ \A k \in Keys : (Pending(k)' <=> Pending(k)) /\ (AtWork(k)' <=> AtWork(k))
  BY <1>1 DEF Syncs, Distinct, Pending, AtWork, Table
<1>3. \A k \in todo' : AtWork(k)' /\ goal'[k] # Absent
  BY <1>1 DEF RowsOf, AtWork, Table
<1>4. ASSUME NEW k \in Keys
      PROVE  /\ ~Pending(k) => Done(k)'
             /\ Pending(k) /\ ~AtWork(k) => Ahead(k)'
             /\ AtWork(k) => (k \in todo' \/ goal'[k] = Absent) /\ Compared(k)'
  <2>1. CASE ~Pending(k)
    <3>1. goal'[k] = goal[k]
      BY <1>1, <2>1, QueueIs DEF Pending
    <3> QED
      BY <1>1, <2>1, <3>1, AtWorkIsPending DEF Syncs, Done
  <2>2. CASE Pending(k) /\ ~AtWork(k)
    <3>1. goal'[k] = goal[k]
      BY <1>1, <2>2 DEF AtWork
    <3> QED
      BY <1>1, <2>2, <3>1 DEF Syncs, Ahead
  <2>3. CASE AtWork(k)
    <3>1. Ahead(k)
      BY <1>1, <2>3, AtWorkIsPending DEF Syncs
    <3>2. k \in todo' \/ goal'[k] = Absent
      BY <1>1, <2>3 DEF AtWork, RowsOf
    <3> QED
      BY <1>1, <2>3, <3>1, <3>2, AtWorkIsPending DEF Ahead, Compared
  <2> QED
    BY <2>1, <2>2, <2>3
<1> QED
  BY <1>1, <1>2, <1>3, <1>4 DEF Syncs

LEMMA ReadTargetSyncs ==
  ASSUME Types, Syncs, ReadTarget, call.name \in Syncing
  PROVE  Syncs'
<1>1. /\ at = "readTarget" /\ at' = "begin" /\ existing' = target
      /\ UNCHANGED <<target, writes, call, queue, todo, before, goal>>
  BY DEF ReadTarget, data, ghosts
<1>2. Distinct' /\ \A k \in Keys : (Pending(k)' <=> Pending(k)) /\ (AtWork(k)' <=> AtWork(k))
                                   /\ (Done(k)' <=> Done(k)) /\ (Ahead(k)' <=> Ahead(k))
                                   /\ (Compared(k)' <=> Compared(k))
  BY <1>1 DEF Syncs, Distinct, Pending, AtWork, Table, Done, Ahead, Compared, Kept, Visible
<1>3. \A k \in Keys : AtWork(k) => existing'[k] = before'[k]
  BY <1>1 DEF Syncs, Compared
<1> QED
  BY <1>1, <1>2, <1>3 DEF Syncs, AtWork, Table

LEMMA BeginSyncs ==
  ASSUME Types, Syncs, Begin, call.name \in Syncing
  PROVE  Syncs'
<1>1. /\ at = "begin" /\ at' = "rows"
      /\ UNCHANGED <<target, writes, call, queue, existing, todo, before, goal>>
  BY DEF Begin, reading, ghosts, Syncing, Scripts
<1>2. Distinct' /\ \A k \in Keys : (Pending(k)' <=> Pending(k)) /\ (AtWork(k)' <=> AtWork(k))
                                   /\ (Done(k)' <=> Done(k)) /\ (Ahead(k)' <=> Ahead(k))
                                   /\ (Compared(k)' <=> Compared(k))
  BY <1>1 DEF Syncs, Distinct, Pending, AtWork, Table, Done, Ahead, Compared, Kept, Visible
<1> QED
  BY <1>1, <1>2 DEF Syncs, AtWork, Table

\* One row: it becomes what the source has, in the transaction.
LEMMA CompareRowSyncs ==
  ASSUME SourceColumns = TargetColumns, NullKey \notin Keys,
         Types, Transactions, Syncs, NEW k \in Keys, CompareRow(k)
  PROVE  Syncs'
<1>1. /\ at = "rows" /\ tx = "go" /\ call.name \in Syncing /\ k \in todo /\ todo' = todo \ {k}
      /\ UNCHANGED <<call, at, queue, existing, before, goal>>
  BY DEF CompareRow, Transactions, ghosts
<1>2. /\ AtWork(k) /\ goal[k] # Absent
      /\ target[k] = before[k] /\ writes[k] = Untouched /\ existing[k] = before[k]
  BY <1>1 DEF Syncs, Compared
<1>3. /\ goal[k] \in Row \cup {Absent} /\ existing[k] \in Row \cup {Absent}
      /\ Visible[k] = target[k]
  BY <1>2, VisibleIs DEF Types, Contents
<1>4. /\ target' = target
      /\ \A j \in Keys \ {k} : writes'[j] = writes[j] /\ Visible'[j] = Visible[j]
      /\ Visible'[k] = goal[k]
  <2>1. CASE existing[k] # Absent /\ SameRow(goal[k], existing[k]) /\ UNCHANGED <<target, writes>>
    <3>1. goal[k] = existing[k]
      BY <1>2, <1>3, <2>1, SameRowIsEqual
    <3>2. Visible' = Visible
      BY <2>1 DEF Visible
    <3> QED
      BY <1>2, <1>3, <2>1, <3>1, <3>2
  <2>2. CASE Write([j \in {k} |-> goal[k]])
    <3> DEFINE new == [j \in {k} |-> goal[k]]
    <3>1. \A j \in DOMAIN new : new[j] \in Row \cup {Absent}
      BY <1>3
    <3>2. /\ target' = target
          /\ \A j \in Keys : writes'[j] = IF j \in DOMAIN new THEN new[j] ELSE writes[j]
          /\ \A j \in Keys : Visible'[j] = IF j \in DOMAIN new THEN new[j] ELSE Visible[j]
      <4> HIDE DEF new
      <4> QED
        BY <1>1, <2>2, <3>1, WriteDoes DEF new
    <3> QED
      BY <3>2
  <2>3. CASE /\ existing[k] # Absent
             /\ Write([j \in {k} \ {NullKey} |-> IF Visible[k] = Absent THEN Absent ELSE goal[k]])
    <3> DEFINE new == [j \in {k} \ {NullKey} |-> IF Visible[k] = Absent THEN Absent ELSE goal[k]]
    <3>1. \A j \in DOMAIN new : new[j] \in Row \cup {Absent}
      BY <1>3
    <3>2. /\ target' = target
          /\ \A j \in Keys : writes'[j] = IF j \in DOMAIN new THEN new[j] ELSE writes[j]
          /\ \A j \in Keys : Visible'[j] = IF j \in DOMAIN new THEN new[j] ELSE Visible[j]
      <4> HIDE DEF new
      <4> QED
        BY <1>1, <2>3, <3>1, WriteDoes DEF new
    <3>3. Visible[k] # Absent /\ k # NullKey
      BY <1>2, <1>3, <2>3
    <3> QED
      BY <3>2, <3>3
  <2> QED
    BY <2>1, <2>2, <2>3 DEF CompareRow
<1>5. Distinct' /\ \A j \in Keys : (Pending(j)' <=> Pending(j)) /\ (AtWork(j)' <=> AtWork(j))
  BY <1>1 DEF Syncs, Distinct, Pending, AtWork, Table
<1>6. \A j \in Keys \ {k} : (Done(j) => Done(j)') /\ (Ahead(j) => Ahead(j)') /\ (Compared(j) => Compared(j)')
  BY <1>1, <1>4 DEF Done, Ahead, Compared, Kept
<1>7. Compared(k)'
  BY <1>1, <1>2, <1>4 DEF Compared, Kept
<1>8. \A j \in todo' : AtWork(j)' /\ goal'[j] # Absent
  BY <1>1, <1>5 DEF Syncs, Types
<1>9. ASSUME NEW j \in Keys
      PROVE  /\ ~Pending(j)' => Done(j)'
             /\ Pending(j)' /\ ~AtWork(j)' => Ahead(j)'
             /\ AtWork(j)' => Compared(j)' /\ existing'[j] = before'[j]
  <2>1. CASE j = k
    BY <1>1, <1>2, <1>5, <1>7, <2>1, AtWorkIsPending
  <2>2. CASE j # k
    BY <1>1, <1>5, <1>6, <2>2 DEF Syncs
  <2> QED
    BY <2>1, <2>2
<1> QED
  BY <1>1, <1>5, <1>8, <1>9 DEF Syncs

\* A commit in the middle: what the transaction wrote is there now.
LEMMA CommitBatchSyncs ==
  ASSUME Types, Syncs, CommitBatch, call.name \in Syncing
  PROVE  Syncs'
<1>1. /\ at = "rows" /\ at' = "begin" /\ Commit
      /\ UNCHANGED <<call, queue, existing, todo, before, goal>>
  BY DEF CommitBatch, ghosts
<1>2. \A k \in Keys : /\ target'[k] = Visible[k] /\ Visible'[k] = Visible[k] /\ writes'[k] = Untouched
                      /\ writes[k] = Untouched => Visible[k] = target[k]
  BY <1>1, CommitDoes, VisibleIs DEF Commit
<1>3. Distinct' /\ \A k \in Keys : (Pending(k)' <=> Pending(k)) /\ (AtWork(k)' <=> AtWork(k))
  BY <1>1 DEF Syncs, Distinct, Pending, AtWork, Table
<1>4. \A k \in Keys : (Done(k) => Done(k)') /\ (Ahead(k) => Ahead(k)') /\ (Compared(k) => Compared(k)')
  BY <1>1, <1>2 DEF Done, Ahead, Compared, Kept
<1>5. \A k \in todo' : AtWork(k)' /\ goal'[k] # Absent
  BY <1>1, <1>3 DEF Syncs, Types
<1> QED
  BY <1>1, <1>3, <1>4, <1>5 DEF Syncs

\* The deletion, when all rows of the source are in place.
LEMMA DeleteOrphansSyncs ==
  ASSUME NullKey \notin Keys, Types, Transactions, Syncs, DeleteOrphans, queue # <<>>
  PROVE  Syncs'
<1>1. /\ at = "rows" /\ at' = "commit" /\ tx = "go" /\ call.name \in Syncing /\ todo = {}
      /\ UNCHANGED <<call, queue, existing, todo, before, goal>>
      /\ Write([k \in Orphans |-> Absent])
  BY DEF DeleteOrphans, Transactions, reading, ghosts
<1>2. /\ target' = target
      /\ \A k \in Keys : writes'[k] = IF k \in Orphans THEN Absent ELSE writes[k]
      /\ \A k \in Keys : Visible'[k] = IF k \in Orphans THEN Absent ELSE Visible[k]
  <2> DEFINE new == [k \in Orphans |-> Absent]
  <2>1. DOMAIN new = Orphans /\ \A j \in DOMAIN new : new[j] = Absent
    OBVIOUS
  <2> HIDE DEF new
  <2> QED
    BY <1>1, <2>1, WriteDoes DEF new
<1>3. \A k \in Keys : k \in Orphans <=> TableOf[k] = Table /\ Visible[k] # Absent /\ goal[k] = Absent
  BY DEF Orphans, RowsOf
<1>4. Distinct' /\ \A k \in Keys : (Pending(k)' <=> Pending(k)) /\ (AtWork(k)' <=> AtWork(k))
  BY <1>1 DEF Syncs, Distinct, Pending, AtWork, Table
<1>5. ASSUME NEW k \in Keys, ~AtWork(k)
      PROVE  (Done(k) => Done(k)') /\ (Ahead(k) => Ahead(k)')
  <2>1. k \notin Orphans
    BY <1>3, <1>5 DEF AtWork
  <2> QED
    BY <1>1, <1>2, <2>1 DEF Done, Ahead
<1>6. ASSUME NEW k \in Keys, AtWork(k) PROVE Final(k)'
  <2>1. Compared(k) /\ TableOf[k] = Table
    BY <1>1, <1>6 DEF Syncs, AtWork
  <2>2. CASE goal[k] = Absent
    BY <1>1, <1>2, <1>3, <2>1, <2>2 DEF Compared, Final, Kept
  <2>3. CASE goal[k] # Absent
    BY <1>1, <1>2, <1>3, <2>1, <2>3 DEF Compared, Final, Kept
  <2> QED
    BY <2>2, <2>3
<1> QED
  BY <1>1, <1>4, <1>5, <1>6, AtWorkIsPending DEF Syncs

\* The end of a table, and the next one.
LEMMA FinishTableSyncs ==
  ASSUME Types, Builtin, Syncs, FinishTable, call.name \in Syncing, queue # <<>>
  PROVE  Syncs'
<1>1. /\ at = "commit" /\ Commit /\ call' = call /\ queue' = Tail(queue)
      /\ UNCHANGED <<existing, before, goal>>
      /\ \/ at' = "idle" /\ result' = "ok" /\ queue' = <<>>
         \/ at' = "readSource" /\ result' = "none"
  BY DEF FinishTable, Return, Builtin, ghosts
<1>2. \A k \in Keys : /\ target'[k] = Visible[k] /\ Visible'[k] = Visible[k] /\ writes'[k] = Untouched
                      /\ writes[k] = Untouched => Visible[k] = target[k]
  BY <1>1, CommitDoes, VisibleIs DEF Commit
<1>3. /\ Range(queue) = {Table} \cup Range(Tail(queue))
      /\ Table \notin Range(Tail(queue)) /\ IsInjective(Tail(queue))
  BY QueueIs DEF Syncs
<1>4. Distinct'
  BY <1>1, <1>3 DEF Distinct
<1>5. ASSUME NEW k \in Keys
      PROVE  (~Pending(k)' => Done(k)') /\ (Pending(k)' => Ahead(k)')
  <2>1. Pending(k)' <=> TableOf[k] \in Range(Tail(queue))
    BY <1>1 DEF Pending
  <2>2. CASE AtWork(k)
    <3>1. ~Pending(k)' /\ Final(k)
      BY <1>1, <1>3, <2>1, <2>2 DEF Syncs, AtWork
    <3> QED
      BY <1>1, <1>2, <3>1 DEF Final, Done
  <2>3. CASE ~AtWork(k)
    <3>1. Pending(k)' <=> Pending(k)
      BY <1>3, <2>1, <2>3 DEF Pending, AtWork
    <3> QED
      BY <1>1, <1>2, <2>3, <3>1 DEF Syncs, Done, Ahead
  <2> QED
    BY <2>2, <2>3
<1> QED
  BY <1>1, <1>4, <1>5, AtWorkIsPending DEF Syncs

\* An error anywhere: the transaction is rolled back, or committed after all.
LEMMA FailureSyncs ==
  ASSUME Types, Transactions, Builtin, Syncs, Failure, call.name \in Syncing
  PROVE  Syncs'
<1>1. /\ at \in {"readSource", "readTarget", "begin", "rows", "commit"}
      /\ at' = "idle" /\ result' = "error" /\ (Commit \/ Rollback)
      /\ UNCHANGED <<call, queue, existing, todo, before, goal>>
  BY DEF Failure, Fails, FailsToCommit, BatchFailsToCommit, Abort, CommitFails, Return, Transactions,
         Builtin, Syncing, Scripts, reading, ghosts
<1>2. \A k \in Keys : /\ writes'[k] = Untouched
                      /\ writes[k] = Untouched => Visible[k] = target[k]
  BY <1>1, CommitDoes, VisibleIs
<1>3. target' = target \/ \A k \in Keys : target'[k] = Visible[k]
  BY <1>1 DEF Commit, Rollback
<1>4. at \notin {"rows", "commit"} => \A k \in Keys : writes[k] = Untouched
  BY <1>1 DEF Transactions, Nothing
<1>5. Distinct' /\ \A k \in Keys : (Pending(k)' <=> Pending(k)) /\ (AtWork(k)' <=> AtWork(k))
  BY <1>1 DEF Syncs, Distinct, Pending, AtWork, Table
<1>6. \A k \in Keys : (Done(k) => Done(k)') /\ (Ahead(k) => Ahead(k)')
  BY <1>1, <1>2, <1>3 DEF Done, Ahead
<1>7. \A k \in Keys : Compared(k) => Kept(k)'
  BY <1>1, <1>2, <1>3 DEF Compared, Kept
<1>8. \/ \A k \in Keys : AtWork(k)' => Done(k)'
      \/ \A k \in Keys : AtWork(k)' => Kept(k)'
  <2>1. CASE at = "readSource"
    BY <1>1, <1>5, <1>6, <2>1, AtWorkIsPending DEF Syncs, Ahead, Kept
  <2>2. CASE at \in {"readTarget", "begin", "rows"}
    BY <1>5, <1>7, <2>2 DEF Syncs
  <2>3. CASE at = "commit"
    <3>1. \A k \in Keys : AtWork(k) => Final(k)
      BY <2>3 DEF Syncs
    <3>2. CASE target' = target
      BY <1>1, <1>5, <3>1, <3>2 DEF Final, Kept
    <3>3. CASE \A k \in Keys : target'[k] = Visible[k]
      BY <1>1, <1>2, <1>5, <3>1, <3>3 DEF Final, Done
    <3> QED
      BY <1>3, <3>2, <3>3
  <2> QED
    BY <1>1, <2>1, <2>2, <2>3
<1> QED
  BY <1>1, <1>5, <1>6, <1>8 DEF Syncs

LEMMA SyncsStep ==
  ASSUME Tables, IsInjective(TableOrder), SourceColumns = TargetColumns, NullKey \notin Keys,
         "manual_dry_run" \notin Features, "target_writer" \notin Features,
         Types, Transactions, Builtin, Syncs, [Next]_vars
  PROVE  Syncs'
<1> SUFFICES ASSUME call'.name \in Syncing PROVE Syncs'
  BY DEF Syncs
<1>1. CASE Opening
  BY <1>1, OpeningSyncs
<1>2. CASE StatementBuiltin
  BY <1>2 DEF StatementBuiltin, Syncing
<1> SUFFICES ASSUME ~Opening, ~StatementBuiltin PROVE Syncs'
  BY <1>1, <1>2
<1>3. call' = call
  BY DEF Next, Call, Opening, Sync, Failure, Script, ReadSource, ReadTarget, Begin, BeginPanics,
         CompareRow, CopyRow, CommitBatch, DeleteOrphans, EndCopyRows, FinishTable, Fails,
         FailsToCommit, BatchFailsToCommit, Abort, CommitFails, RunStatement, EndManualScript,
         EndScript, OthersWrite, vars
<1>4. call.name \in Syncing /\ (at # "idle" => queue # <<>>) /\ at # "script"
  BY <1>3 DEF Builtin, Syncing, Scripts
<1>5. CASE ReadSource
  BY <1>4, <1>5, ReadSourceSyncs DEF ReadSource
<1>6. CASE ReadTarget
  BY <1>4, <1>6, ReadTargetSyncs
<1>7. CASE Begin
  BY <1>4, <1>7, BeginSyncs
<1>8. CASE BeginPanics
  BY <1>4, <1>8 DEF BeginPanics, Syncing
<1>9. ASSUME NEW k \in Keys, CompareRow(k) PROVE Syncs'
  BY <1>9, CompareRowSyncs
<1>10. ASSUME NEW k \in Keys, CopyRow(k) PROVE Syncs'
  BY <1>4, <1>10 DEF CopyRow, Syncing
<1>11. CASE CommitBatch
  BY <1>4, <1>11, CommitBatchSyncs
<1>12. CASE DeleteOrphans
  BY <1>4, <1>12, DeleteOrphansSyncs DEF DeleteOrphans
<1>13. CASE EndCopyRows
  BY <1>4, <1>13 DEF EndCopyRows, Syncing
<1>14. CASE FinishTable
  BY <1>4, <1>14, FinishTableSyncs DEF FinishTable
<1>15. CASE Failure
  BY <1>4, <1>15, FailureSyncs
<1>16. CASE Script
  BY <1>4, <1>16 DEF Script, RunStatement, EndManualScript, EndScript
<1>17. CASE OthersWrite
  BY <1>17, SyncsRests DEF OthersWrite, reading, ghosts
<1>18. CASE UNCHANGED vars
  BY <1>18, SyncsRests DEF vars, data, reading, ghosts
<1> QED
  BY <1>5, <1>6, <1>7, <1>8, <1>9, <1>10, <1>11, <1>12, <1>13, <1>14, <1>15, <1>16, <1>17, <1>18
     DEF Next, Call, Opening, Sync

--------------------------------------------------------------------------------
(* The theorems.                                                            *)

\* Nobody else writes to the target meanwhile, no script ends between its own
\* BEGIN and COMMIT, and no file with a COMMIT of its own is run with dryRun.
OrdinaryUse ==
  /\ Tables
  /\ Features \cap {"target_writer", "manual_dry_run", "left_open"} = {}

LEMMA InitHolds ==
  ASSUME Init
  PROVE  Types /\ Transactions /\ Builtin /\ Copying /\ Whole /\ Syncs
<1>1. Types
  <2>1. writes \in [Keys -> Row \cup {Absent, Untouched}]
    BY DEF Init, Nothing
  <2>2. call \in [name : Names, tables : SUBSET Range(TableOrder), batch : Nat, manual : BOOLEAN, dry : BOOLEAN]
    BY BatchesAreNumbers DEF Init, Names
  <2> QED
    BY <2>1, <2>2 DEF Init, Types, Places
<1>2. Transactions /\ Builtin /\ Copying /\ Whole /\ Syncs
  BY DEF Init, Transactions, Builtin, Copying, Whole, Syncs, Syncing, Scripts
<1> QED
  BY <1>1, <1>2

\* db.CopyTable, db.Exec and db.ExecFile, for any tables and ids, any statements
\* and any error: all of their changes are there at the end, or none, and none
\* with dryRun (their transactions: stdlib_db.go:212, 1141 and 1319).
THEOREM CopiesAndScriptsAreWhole ==
  ASSUME OrdinaryUse
  PROVE  Spec => []AllOrNothing
<1> DEFINE I == Types /\ Transactions /\ Builtin /\ Copying /\ Whole
<1>1. Init => I
  BY InitHolds
<1>2. I /\ [Next]_vars => I'
  BY TypesStep, TransactionsStep, BuiltinStep, CopyingStep, WholeStep DEF OrdinaryUse, Tables
<1>3. I => AllOrNothing
  BY DEF AllOrNothing, NoTransactionLeft, Transactions, Whole
<1> QED
  BY <1>1, <1>2, <1>3, PTL DEF Spec

\* What Syncs means for one id.
LEMMA SyncsIsSafe ==
  ASSUME Types, Builtin, Syncs
  PROVE  PartialSyncIsSafe
<1> SUFFICES ASSUME call.name \in Syncing, result \in {"none", "error"}
             PROVE  /\ \A k \in Keys : target[k] \in {before[k], goal[k]}
                    /\ \A k \in Keys : (before[k] # Absent /\ target[k] = Absent) =>
                         \A j \in RowsOf(TableOf[k], goal) : target[j] = goal[j]
                    /\ \A k \in Keys : TableOf[k] \notin Range(queue) => target[k] = goal[k]
  BY DEF PartialSyncIsSafe
<1>1. \A k \in Keys : (~Pending(k) => Done(k)) /\ (Pending(k) /\ ~AtWork(k) => Ahead(k))
  BY DEF Syncs
<1>2. \/ \A k \in Keys : AtWork(k) => Done(k)
      \/ \A k \in Keys : AtWork(k) => Kept(k)
  <2>1. CASE at = "idle"
    BY <2>1 DEF Syncs, Builtin
  <2>2. CASE at = "readSource"
    BY <2>2, AtWorkIsPending DEF Syncs, Ahead, Kept
  <2>3. CASE at \in {"readTarget", "begin", "rows"}
    BY <2>3 DEF Syncs, Compared, Kept
  <2>4. CASE at = "commit"
    BY <2>4 DEF Syncs, Final
  <2>5. at # "script"
    BY DEF Builtin, Syncing, Scripts
  <2> QED
    BY <2>1, <2>2, <2>3, <2>4, <2>5 DEF Types, Places
<1>3. \A k \in Keys : target[k] \in {before[k], goal[k]}
  BY <1>1, <1>2 DEF Done, Ahead, Kept
<1>4. ASSUME NEW k \in Keys, before[k] # Absent, target[k] = Absent, NEW j \in RowsOf(TableOf[k], goal)
      PROVE  target[j] = goal[j]
  <2>1. j \in Keys /\ TableOf[j] = TableOf[k]
    BY <1>4 DEF RowsOf
  <2>2. CASE ~Pending(k)
    BY <1>1, <2>1, <2>2 DEF Pending, Done
  <2>3. CASE Pending(k)
    <3>1. AtWork(k) /\ ~Kept(k)
      BY <1>1, <1>4, <2>3 DEF Ahead, Kept
    <3>2. AtWork(j)
      BY <2>1, <3>1 DEF AtWork
    <3> QED
      BY <1>2, <2>1, <3>1, <3>2 DEF Done
  <2> QED
    BY <2>2, <2>3
<1>5. \A k \in Keys : TableOf[k] \notin Range(queue) => target[k] = goal[k]
  BY <1>1 DEF Pending, Done
<1> QED
  BY <1>3, <1>4, <1>5

\* db.SyncTable and db.SyncTables, for any tables, ids and contents, any batch
\* size and any error between two statements (helper_sql.go:437 to 569): every
\* row is the old one or the one of the source, rows disappear only when all
\* others of their table are in place, and the tables before it are done.
THEOREM StoppedSyncsAreSafe ==
  ASSUME OrdinaryUse, IsInjective(TableOrder), SourceColumns = TargetColumns, NullKey \notin Keys
  PROVE  Spec => []PartialSyncIsSafe
<1> DEFINE I == Types /\ Transactions /\ Builtin /\ Syncs
<1>1. Init => I
  BY InitHolds
<1>2. I /\ [Next]_vars => I'
  BY TypesStep, TransactionsStep, BuiltinStep, SyncsStep DEF OrdinaryUse, Tables
<1>3. I => PartialSyncIsSafe
  BY SyncsIsSafe
<1> QED
  BY <1>1, <1>2, <1>3, PTL DEF Spec

\* And when they report a success the target is what the source was when it was read.
THEOREM ReportedSyncsHappened ==
  ASSUME OrdinaryUse, IsInjective(TableOrder), SourceColumns = TargetColumns, NullKey \notin Keys
  PROVE  Spec => [](call.name \in Syncing => SuccessIsTrue)
<1> DEFINE I == Types /\ Transactions /\ Builtin /\ Syncs
<1>1. Init => I
  BY InitHolds
<1>2. I /\ [Next]_vars => I'
  BY TypesStep, TransactionsStep, BuiltinStep, SyncsStep DEF OrdinaryUse, Tables
<1>3. I => (call.name \in Syncing => SuccessIsTrue)
  <2> SUFFICES ASSUME I, call.name \in Syncing, at = "idle", result = "ok" PROVE target = goal
    BY DEF SuccessIsTrue
  <2>1. \A k \in Keys : ~Pending(k)
    BY DEF Syncs, Pending, Range
  <2>2. \A k \in Keys : target[k] = goal[k]
    BY <2>1 DEF Syncs, Done
  <2> QED
    BY <2>2 DEF Types, Contents
<1> QED
  BY <1>1, <1>2, <1>3, PTL DEF Spec

--------------------------------------------------------------------------------
(* Every success.                                                           *)

\* All the builtins that write: each has a commit of its own, or none to make.
LEMMA SuccessStep ==
  ASSUME Tables, IsInjective(TableOrder), SourceColumns = TargetColumns, NullKey \notin Keys,
         Features = {}, Types, Transactions, Builtin, Copying, Whole, Syncs, SuccessIsTrue, [Next]_vars
  PROVE  SuccessIsTrue'
<1>1. CASE Opening
  <2>1. result' = "none"
    BY <1>1 DEF Opening, StartSyncTable, StartSyncTables, StartCopyTable, StartScript, Start
  <2> QED
    BY <2>1 DEF SuccessIsTrue
<1>2. CASE StatementBuiltin
  <2>1. at = "idle" /\ tx = "none" /\ writes = Nothing
    BY <1>2 DEF StatementBuiltin, Transactions
  <2>2. Visible = target /\ target \in Contents
    BY <2>1, VisibleIs DEF Types
  <2>3. CASE result' = "error"
    BY <2>3 DEF SuccessIsTrue
  <2>4. ASSUME NEW new, Write(new),
               goal' = [k \in Keys |-> IF k \in DOMAIN new THEN new[k] ELSE Visible[k]]
        PROVE  target' = goal'
    BY <2>1, <2>2, <2>4 DEF Write
  <2> QED
    BY <1>2, <2>3, <2>4 DEF StatementBuiltin, SuccessIsTrue
<1>3. ASSUME UNCHANGED <<target, goal, at, result>>  PROVE SuccessIsTrue'
  BY <1>3 DEF SuccessIsTrue
<1>4. ASSUME at' # "idle" \/ result' # "ok"  PROVE SuccessIsTrue'
  BY <1>4 DEF SuccessIsTrue
<1>5. CASE ReadSource \/ ReadTarget \/ Begin \/ CommitBatch \/ DeleteOrphans \/ EndCopyRows
  BY <1>4, <1>5 DEF ReadSource, ReadTarget, Begin, CommitBatch, DeleteOrphans, EndCopyRows
<1>6. CASE BeginPanics \/ Failure
  BY <1>4, <1>6 DEF BeginPanics, Failure, Fails, FailsToCommit, BatchFailsToCommit,
                    Abort, CommitFails, Return
<1>7. ASSUME NEW k \in Keys, CompareRow(k) \/ CopyRow(k)  PROVE SuccessIsTrue'
  BY <1>4, <1>7 DEF CompareRow, CopyRow
<1>8. CASE FinishTable
  <2> SUFFICES ASSUME at' = "idle", result' = "ok"  PROVE target' = goal'
    BY DEF SuccessIsTrue
  <2>1. at = "commit" /\ target' = Visible /\ goal' = goal /\ call' = call /\ queue' = Tail(queue)
    BY <1>8 DEF FinishTable, Commit, ghosts
  <2>2. CASE call.name = "CopyTable"
    BY <2>1, <2>2 DEF Copying
  <2>3. CASE call.name \in Syncing
    <3>1. Syncs' /\ Types'
      BY <2>1, SyncsStep, TypesStep DEF Tables
    <3>2. queue' = <<>> /\ call'.name \in Syncing
      BY <2>1, <2>3, <3>1 DEF Syncs
    <3>3. \A k \in Keys : ~Pending(k)'
      BY <3>2 DEF Pending, Range
    <3>4. \A k \in Keys : target'[k] = goal'[k]
      BY <3>1, <3>2, <3>3 DEF Syncs, Done
    <3> QED
      BY <3>1, <3>4 DEF Types, Contents
  <2> QED
    BY <2>1, <2>2, <2>3 DEF Builtin
<1>9. CASE RunStatement
  BY <1>4, <1>9 DEF RunStatement
<1>10. CASE EndManualScript
  <2>1. tx = "none" /\ goal' = Visible /\ target' = target
    BY <1>10 DEF EndManualScript, Transactions, Builtin, data
  <2>2. Visible = target
    BY <2>1, VisibleIs DEF Transactions
  <2> QED
    BY <2>1, <2>2 DEF SuccessIsTrue
<1>11. CASE EndScript
  <2>1. at = "script" /\ ~call.manual /\ target = before
    BY <1>11 DEF EndScript, Whole, Builtin
  <2> QED
    BY <1>11, <2>1 DEF EndScript, Commit, Rollback, Return, SuccessIsTrue
<1>12. CASE OthersWrite
  BY <1>3, <1>12 DEF OthersWrite, ghosts
<1>13. CASE UNCHANGED vars
  BY <1>3, <1>13 DEF vars, data, ghosts
<1> QED
  BY <1>1, <1>2, <1>5, <1>6, <1>7, <1>8, <1>9, <1>10, <1>11, <1>12, <1>13
     DEF Next, Call, Opening, Sync, Script

--------------------------------------------------------------------------------
(* The numbers of SyncTable and SyncTables.                                 *)

Kinds == {"insert", "update", "delete", "unchanged"}

\* Whether the row k has been counted: its table is done, or it has been compared,
\* or, for a deletion, its table's orphans have been deleted.
Told(kind, k) ==
  \/ ~Pending(k)
  \/ /\ AtWork(k)
     /\ IF kind = "delete" THEN at = "commit"
        ELSE at \in {"begin", "rows", "commit"} /\ k \notin todo

SoFar(kind) == {k \in Differing(kind) : Told(kind, k)}

Counts ==
  (call.name \in Syncing /\ (at = "idle" => result = "ok")) =>
     /\ Range(queue) \subseteq call.tables
     /\ DOMAIN report = Kinds
     /\ \A kind \in Kinds : report[kind] = Cardinality(SoFar(kind))
     /\ at = "commit" => todo = {}

\* The four kinds of rows.
LEMMA DifferingIs ==
  ASSUME NEW k \in Keys, TableOf[k] \in call.tables
  PROVE  /\ k \in Differing("insert") <=> before[k] = Absent /\ goal[k] # Absent
         /\ k \in Differing("update") <=>
              before[k] # Absent /\ goal[k] # Absent /\ before[k] # goal[k]
         /\ k \in Differing("delete") <=>
              before[k] # Absent /\ goal[k] = Absent /\ RowsOf(TableOf[k], goal) # {}
         /\ k \in Differing("unchanged") <=> goal[k] # Absent /\ before[k] = goal[k]
<1>1. k \in Differing("insert") <=> before[k] = Absent /\ goal[k] # Absent
  BY DEF Differing
<1>2. k \in Differing("update") <=>
              before[k] # Absent /\ goal[k] # Absent /\ before[k] # goal[k]
  BY DEF Differing
<1>3. k \in Differing("delete") <=>
              before[k] # Absent /\ goal[k] = Absent /\ RowsOf(TableOf[k], goal) # {}
  BY DEF Differing
<1>4. k \in Differing("unchanged") <=> goal[k] # Absent /\ before[k] = goal[k]
  BY DEF Differing
<1> QED
  BY <1>1, <1>2, <1>3, <1>4

\* A row that is not to be there after the call is none that is inserted, updated or left alone.
LEMMA OnlyDeleted ==
  ASSUME NEW k, goal[k] = Absent, NEW kind \in Kinds, kind # "delete"
  PROVE  k \notin Differing(kind)
BY DEF Differing, Kinds

\* The table at work is one of the call.
LEMMA AtWorkIsOfTheCall ==
  ASSUME Types, Counts, call.name \in Syncing, at # "idle", NEW k \in Keys, AtWork(k)
  PROVE  TableOf[k] \in call.tables
<1>1. Range(queue) \subseteq call.tables
  BY DEF Counts
<1> QED
  BY <1>1, AtWorkIsPending DEF Pending

\* Numbers of rows are numbers.
LEMMA SoFarIsFinite ==
  ASSUME NEW kind
  PROVE  SoFar(kind) \subseteq Keys /\ IsFiniteSet(SoFar(kind)) /\ Cardinality(SoFar(kind)) \in Nat
<1>1. SoFar(kind) \subseteq Keys /\ IsFiniteSet(Keys)
  BY DatabaseAssumption DEF SoFar, Differing
<1>2. IsFiniteSet(SoFar(kind))
  BY <1>1, FS_Subset
<1> QED
  BY <1>1, <1>2, FS_CardinalityType

\* What is counted changes row by row.
LEMMA SameRows ==
  ASSUME NEW kind, \A k \in Keys : k \in SoFar(kind)' <=> k \in SoFar(kind)
  PROVE  SoFar(kind)' = SoFar(kind)
<1>1. SoFar(kind) \subseteq Keys /\ SoFar(kind)' \subseteq Keys
  BY DEF SoFar, Differing
<1> QED
  BY <1>1

LEMMA OneMoreRow ==
  ASSUME NEW kind, NEW k \in Keys, k \notin SoFar(kind), k \in SoFar(kind)',
         \A j \in Keys \ {k} : j \in SoFar(kind)' <=> j \in SoFar(kind)
  PROVE  Cardinality(SoFar(kind)') = Cardinality(SoFar(kind)) + 1
<1>1. SoFar(kind) \subseteq Keys /\ SoFar(kind)' \subseteq Keys
  BY DEF SoFar, Differing
<1>2. SoFar(kind)' = SoFar(kind) \cup {k}
  BY <1>1
<1>3. IsFiniteSet(SoFar(kind))
  BY SoFarIsFinite
<1> DEFINE S == SoFar(kind)
<1>4. IsFiniteSet(S) /\ k \notin S
  BY <1>3
<1>5. Cardinality(S \cup {k}) = Cardinality(S) + 1
  <2> HIDE DEF S
  <2> QED
    BY <1>4, FS_AddElement
<1> QED
  BY <1>2, <1>5

\* Which rows differ depends on what was there and what should be there.
LEMMA SameDiffering ==
  ASSUME NEW kind, UNCHANGED <<call, before, goal>>
  PROVE  Differing(kind)' = Differing(kind)
BY DEF Differing, RowsOf

\* How far a table is depends on the queue.
LEMMA SamePlaces ==
  ASSUME UNCHANGED queue, NEW k
  PROVE  (Pending(k)' <=> Pending(k)) /\ (AtWork(k)' <=> AtWork(k))
BY DEF Pending, AtWork, Table

\* Steps that concern neither the rows nor the numbers.
LEMMA CountsRests ==
  ASSUME Counts, UNCHANGED <<call, at, queue, todo, report, result, before, goal>>
  PROVE  Counts'
<1>1. ASSUME NEW kind  PROVE SoFar(kind)' = SoFar(kind)
  <2>1. \A k : Told(kind, k)' <=> Told(kind, k)
    BY SamePlaces DEF Told
  <2> QED
    BY <2>1, SameDiffering DEF SoFar
<1> QED
  BY <1>1 DEF Counts

\* At the begin every row is still to be counted.
LEMMA OpeningCounts ==
  ASSUME Tables, Opening
  PROVE  Counts'
<1> SUFFICES ASSUME call'.name \in Syncing
             PROVE  /\ Range(queue') \subseteq call'.tables
                    /\ DOMAIN report' = Kinds
                    /\ \A kind \in Kinds : report'[kind] = Cardinality(SoFar(kind)')
                    /\ at' = "commit" => todo' = {}
  BY DEF Counts
<1>1. StartSyncTable \/ StartSyncTables
  <2>1. StartCopyTable => call'.name = "CopyTable"
    BY DEF StartCopyTable, Start
  <2>2. StartScript => call'.name \in Scripts
    BY DEF StartScript, Start
  <2> QED
    BY <2>1, <2>2 DEF Opening, Scripts, Syncing
<1>2. at' = "readSource" /\ call'.tables = Range(queue') /\ report' = NoCounts
  <2>1. ASSUME NEW name, NEW tables, NEW batch, Start(name, tables, batch, FALSE, FALSE, "readSource")
        PROVE  at' = "readSource" /\ call'.tables = Range(queue') /\ report' = NoCounts
    BY <2>1 DEF Start
  <2> QED
    BY <1>1, <2>1 DEF StartSyncTable, StartSyncTables
<1>3. ASSUME NEW kind  PROVE SoFar(kind)' = {}
  <2>1. ASSUME NEW k \in Keys, TableOf[k] \in call'.tables  PROVE ~Told(kind, k)'
    BY <1>2, <2>1 DEF Told, Pending
  <2>2. SoFar(kind)' \subseteq Keys /\ \A k \in Keys : k \notin SoFar(kind)'
    BY <2>1 DEF SoFar, Differing
  <2> QED
    BY <2>2
<1>4. DOMAIN report' = Kinds /\ \A kind \in Kinds : report'[kind] = 0
  BY <1>2 DEF NoCounts, Kinds
<1> QED
  BY <1>2, <1>3, <1>4, FS_EmptySet

\* It becomes known what the table should become; none of its rows has been counted.
LEMMA ReadSourceCounts ==
  ASSUME Types, Syncs, Counts, ReadSource, call.name \in Syncing, queue # <<>>
  PROVE  Counts'
<1>1. /\ at = "readSource" /\ at' = "readTarget"
      /\ UNCHANGED <<call, queue, before, report, result>>
      /\ \A k \in Keys : goal'[k] = IF TableOf[k] = Table THEN source[k] ELSE goal[k]
  BY DEF ReadSource, data
<1>2. ASSUME NEW kind \in Kinds, NEW k \in Keys
      PROVE  k \in SoFar(kind)' <=> k \in SoFar(kind)
  <2>1. (Pending(k)' <=> Pending(k)) /\ (Told(kind, k) <=> ~Pending(k)) /\ (Told(kind, k)' <=> ~Pending(k)')
    BY <1>1, SamePlaces DEF Told
  <2>2. ASSUME ~Pending(k)  PROVE k \in Differing(kind)' <=> k \in Differing(kind)
    <3>1. TableOf[k] # Table
      BY <2>2, QueueIs DEF Pending
    <3>2. goal'[k] = goal[k] /\ before'[k] = before[k]
      BY <1>1, <3>1
    <3>3. RowsOf(TableOf[k], goal') = RowsOf(TableOf[k], goal)
      BY <1>1, <3>1 DEF RowsOf
    <3> QED
      BY <1>1, <3>2, <3>3 DEF Differing, Kinds
  <2> QED
    BY <2>1, <2>2 DEF SoFar
<1>3. \A kind \in Kinds : SoFar(kind)' = SoFar(kind)
  BY <1>2, SameRows
<1> QED
  BY <1>1, <1>3 DEF Counts

\* Rows the source does not have are not compared.
LEMMA ReadTargetCounts ==
  ASSUME Syncs, Counts, ReadTarget, call.name \in Syncing
  PROVE  Counts'
<1>1. /\ at = "readTarget" /\ at' = "begin"
      /\ UNCHANGED <<call, queue, todo, before, goal, report, result>>
  BY DEF ReadTarget, data, ghosts
<1>2. ASSUME NEW kind \in Kinds, NEW k \in Keys
      PROVE  k \in SoFar(kind)' <=> k \in SoFar(kind)
  <2>1. Differing(kind)' = Differing(kind) /\ (Pending(k)' <=> Pending(k)) /\ (AtWork(k)' <=> AtWork(k))
    BY <1>1, SameDiffering, SamePlaces
  <2>2. Told(kind, k) <=> ~Pending(k)
    BY <1>1 DEF Told
  <2>3. ASSUME AtWork(k), k \notin todo  PROVE kind = "delete" \/ k \notin Differing(kind)
    <3>1. goal[k] = Absent
      BY <1>1, <2>3 DEF Syncs
    <3> QED
      BY <3>1, OnlyDeleted
  <2> QED
    BY <1>1, <2>1, <2>2, <2>3 DEF SoFar, Told
<1>3. \A kind \in Kinds : SoFar(kind)' = SoFar(kind)
  BY <1>2, SameRows
<1> QED
  BY <1>1, <1>3 DEF Counts

\* Transactions are not counted.
LEMMA BatchCounts ==
  ASSUME Counts, Begin \/ CommitBatch, call.name \in Syncing
  PROVE  Counts'
<1>1. /\ at \in {"begin", "rows"} /\ at' \in {"begin", "rows"}
      /\ UNCHANGED <<call, queue, todo, before, goal, report, result>>
  BY DEF Begin, CommitBatch, Syncing, Scripts, reading, ghosts
<1>2. ASSUME NEW kind  PROVE SoFar(kind)' = SoFar(kind)
  <2>1. \A k : Told(kind, k)' <=> Told(kind, k)
    BY <1>1, SamePlaces DEF Told
  <2> QED
    BY <1>1, <2>1, SameDiffering DEF SoFar
<1> QED
  BY <1>1, <1>2 DEF Counts

\* A row is counted once, as what it is.
LEMMA CompareRowCounts ==
  ASSUME SourceColumns = TargetColumns, Types, Syncs, Counts, NEW k \in Keys, CompareRow(k)
  PROVE  Counts'
<1> SUFFICES ASSUME call.name \in Syncing
             PROVE  /\ Range(queue') \subseteq call'.tables
                    /\ DOMAIN report' = Kinds
                    /\ \A kind \in Kinds : report'[kind] = Cardinality(SoFar(kind)')
                    /\ at' = "commit" => todo' = {}
  BY DEF Counts, CompareRow
<1>1. /\ at = "rows" /\ call.name \in Syncing /\ k \in todo /\ todo' = todo \ {k}
      /\ UNCHANGED <<call, at, queue, existing, before, goal, result>>
  BY DEF CompareRow, ghosts
<1>2. /\ AtWork(k) /\ goal[k] # Absent /\ existing[k] = before[k]
      /\ goal[k] \in Row \cup {Absent} /\ existing[k] \in Row \cup {Absent}
      /\ TableOf[k] \in call.tables
  BY <1>1, AtWorkIsOfTheCall DEF Syncs, Types, Contents
<1>3. PICK kind \in {"insert", "update", "unchanged"} :
          Counted(kind, 1) /\ k \in Differing(kind)
  <2>1. CASE existing[k] # Absent /\ SameRow(goal[k], existing[k]) /\ Counted("unchanged", 1)
    <3>1. goal[k] = existing[k]
      BY <1>2, <2>1, SameRowIsEqual
    <3> QED
      BY <1>2, <2>1, <3>1, DifferingIs
  <2>2. CASE existing[k] = Absent /\ Counted("insert", 1)
    BY <1>2, <2>2, DifferingIs
  <2>3. CASE existing[k] # Absent /\ ~SameRow(goal[k], existing[k]) /\ Counted("update", 1)
    <3>1. goal[k] # existing[k]
      BY <2>3 DEF SameRow, Signature
    <3> QED
      BY <1>2, <2>3, <3>1, DifferingIs
  <2> QED
    BY <2>1, <2>2, <2>3 DEF CompareRow
<1>4. ASSUME NEW other \in Kinds, other # kind  PROVE k \notin SoFar(other) /\ k \notin SoFar(other)'
  <2>1. Pending(k) /\ Pending(k)'
    BY <1>1, <1>2, AtWorkIsPending, SamePlaces
  <2>2. k \notin SoFar("delete") /\ k \notin SoFar("delete")'
    BY <1>1, <2>1 DEF SoFar, Told
  <2>3. other = "delete" \/ k \notin Differing(other)
    BY <1>2, <1>3, <1>4, DifferingIs DEF Kinds
  <2>4. Differing(other)' = Differing(other)
    BY <1>1, SameDiffering
  <2> QED
    BY <2>2, <2>3, <2>4 DEF SoFar
<1>5. k \notin SoFar(kind) /\ k \in SoFar(kind)'
  <2>1. AtWork(k)' /\ Pending(k) /\ Differing(kind)' = Differing(kind)
    BY <1>1, <1>2, AtWorkIsPending, SamePlaces, SameDiffering
  <2> QED
    BY <1>1, <1>3, <2>1 DEF SoFar, Told
<1>6. ASSUME NEW other \in Kinds, NEW j \in Keys \ {k}
      PROVE  j \in SoFar(other)' <=> j \in SoFar(other)
  <2>1. Told(other, j)' <=> Told(other, j)
    BY <1>1, SamePlaces DEF Told
  <2> QED
    BY <1>1, <2>1, SameDiffering DEF SoFar
<1>7. /\ DOMAIN report = Kinds /\ \A other \in Kinds : report[other] = Cardinality(SoFar(other))
      /\ Range(queue') \subseteq call'.tables
  BY <1>1 DEF Counts
<1>8. /\ DOMAIN report' = Kinds /\ kind \in Kinds
      /\ report'[kind] = report[kind] + 1
      /\ \A other \in Kinds : other # kind => report'[other] = report[other]
  <2>1. report' = [report EXCEPT ![kind] = @ + 1] /\ kind \in Kinds
    BY <1>3 DEF Counted, Kinds
  <2> QED
    BY <1>7, <2>1
<1>9. Cardinality(SoFar(kind)') = Cardinality(SoFar(kind)) + 1
  BY <1>5, <1>6, <1>8, OneMoreRow
<1>10. \A other \in Kinds : other # kind => SoFar(other)' = SoFar(other)
  BY <1>4, <1>6, SameRows
<1> QED
  BY <1>1, <1>7, <1>8, <1>9, <1>10

\* What a deletion deletes is what it counts, but for a source without rows.
LEMMA DeleteOrphansCounts ==
  ASSUME NullKey \notin Keys, Types, Transactions, Syncs, Counts, DeleteOrphans, queue # <<>>
  PROVE  Counts'
<1> SUFFICES ASSUME call.name \in Syncing
             PROVE  /\ Range(queue') \subseteq call'.tables
                    /\ DOMAIN report' = Kinds
                    /\ \A kind \in Kinds : report'[kind] = Cardinality(SoFar(kind)')
                    /\ at' = "commit" => todo' = {}
  BY DEF Counts, DeleteOrphans
<1> DEFINE ids == RowsOf(Table, goal)
           n   == IF ids = {} THEN 0 ELSE Cardinality(Orphans)
<1>1. /\ at = "rows" /\ at' = "commit" /\ call.name \in Syncing /\ todo = {}
      /\ UNCHANGED <<call, queue, todo, before, goal, result>>
      /\ Counted("delete", n)
  BY DEF DeleteOrphans, reading, ghosts
<1>2. /\ DOMAIN report = Kinds /\ \A kind \in Kinds : report[kind] = Cardinality(SoFar(kind))
      /\ Range(queue') \subseteq call'.tables
      /\ \A k \in Keys : AtWork(k) => TableOf[k] \in call.tables
  BY <1>1, AtWorkIsOfTheCall DEF Counts
<1>3. /\ DOMAIN report' = Kinds /\ report'["delete"] = report["delete"] + n
      /\ \A kind \in Kinds \ {"delete"} : report'[kind] = report[kind]
  <2>1. report' = [report EXCEPT !["delete"] = @ + n] /\ "delete" \in Kinds
    BY <1>1 DEF Counted, Kinds
  <2> HIDE DEF n
  <2> QED
    BY <1>2, <2>1
<1>4. ASSUME NEW k \in Keys
      PROVE  k \in Orphans <=> TableOf[k] = Table /\ before[k] # Absent /\ goal[k] = Absent
  <2>1. k \in Orphans <=> TableOf[k] = Table /\ Visible[k] # Absent /\ goal[k] = Absent
    BY DEF Orphans, RowsOf
  <2>2. ASSUME TableOf[k] = Table, goal[k] = Absent  PROVE Visible[k] = before[k]
    <3>1. Compared(k)
      BY <1>1, <2>2 DEF Syncs, AtWork
    <3> QED
      BY <2>2, <3>1, VisibleIs DEF Compared
  <2> QED
    BY <2>1, <2>2
<1>5. ASSUME NEW kind, NEW k \in Keys
      PROVE  /\ Differing(kind)' = Differing(kind)
             /\ kind # "delete" => (Told(kind, k)' <=> Told(kind, k))
             /\ ~AtWork(k) => (Told(kind, k)' <=> Told(kind, k))
             /\ AtWork(k) => ~Told("delete", k) /\ Told("delete", k)'
  <2>1. Differing(kind)' = Differing(kind) /\ (Pending(k)' <=> Pending(k)) /\ (AtWork(k)' <=> AtWork(k))
    BY <1>1, SameDiffering, SamePlaces
  <2>2. AtWork(k) => Pending(k)
    BY <1>1, AtWorkIsPending
  <2> QED
    BY <1>1, <2>1, <2>2 DEF Told
<1>6. \A kind \in Kinds \ {"delete"} : SoFar(kind)' = SoFar(kind)
  <2>1. ASSUME NEW kind \in Kinds \ {"delete"}, NEW k \in Keys
        PROVE  k \in SoFar(kind)' <=> k \in SoFar(kind)
    BY <1>5, <2>1 DEF SoFar
  <2> QED
    BY <2>1, SameRows
<1>7. Cardinality(SoFar("delete")') = Cardinality(SoFar("delete")) + n
  <2>1. CASE ids = {}
    <3>1. ASSUME NEW k \in Keys  PROVE k \in SoFar("delete")' <=> k \in SoFar("delete")
      <4>1. AtWork(k) => k \notin Differing("delete")
        BY <1>2, <2>1, DifferingIs DEF AtWork
      <4> QED
        BY <1>5, <4>1 DEF SoFar
    <3>2. SoFar("delete")' = SoFar("delete") /\ n = 0
      BY <2>1, <3>1, SameRows
    <3>3. Cardinality(SoFar("delete")) \in Nat
      BY SoFarIsFinite
    <3> QED
      BY <3>2, <3>3
  <2>2. CASE ids # {}
    <3> DEFINE S == SoFar("delete")
               T == Orphans
    <3>1. IsFiniteSet(S) /\ S \subseteq Keys
      BY SoFarIsFinite
    <3>2. IsFiniteSet(T) /\ T \subseteq Keys
      <4>1. T \subseteq Keys /\ IsFiniteSet(Keys)
        BY DatabaseAssumption DEF Orphans, RowsOf
      <4> HIDE DEF T
      <4> QED
        BY <4>1, FS_Subset
    <3>3. ASSUME NEW k \in Keys
          PROVE  /\ k \in SoFar("delete")' <=> k \in S \/ k \in T
                 /\ ~(k \in S /\ k \in T)
      <4>1. k \in T <=> AtWork(k) /\ k \in Differing("delete")
        <5>1. CASE AtWork(k)
          BY <1>2, <1>4, <2>2, <5>1, DifferingIs DEF AtWork
        <5>2. CASE ~AtWork(k)
          BY <1>4, <5>2 DEF AtWork
        <5> QED
          BY <5>1, <5>2
      <4> QED
        BY <1>5, <4>1 DEF SoFar
    <3>4. SoFar("delete")' \subseteq Keys
      BY DEF SoFar, Differing
    <3>5. SoFar("delete")' = S \cup T /\ S \cap T = {}
      <4> HIDE DEF S, T
      <4> QED
        BY <3>1, <3>2, <3>3, <3>4
    <3>6. Cardinality(S \cup T) = Cardinality(S) + Cardinality(T)
      <4> HIDE DEF S, T
      <4>1. Cardinality(S \cup T) = Cardinality(S) + Cardinality(T) - Cardinality(S \cap T)
        BY <3>1, <3>2, FS_Union
      <4>2. /\ Cardinality(S \cap T) = 0 /\ Cardinality(S) \in Nat /\ Cardinality(T) \in Nat
        BY <3>1, <3>2, <3>5, FS_EmptySet, FS_CardinalityType
      <4> QED
        BY <4>1, <4>2
    <3>7. n = Cardinality(T)
      BY <2>2
    <3> HIDE DEF n, T, ids
    <3> QED
      BY <3>5, <3>6, <3>7
  <2> HIDE DEF ids, n
  <2> QED
    BY <2>1, <2>2
<1> HIDE DEF n
<1> QED
  BY <1>1, <1>2, <1>3, <1>6, <1>7 DEF Kinds

\* At the end of a table all of its rows have been counted.
LEMMA FinishTableCounts ==
  ASSUME Types, Syncs, Counts, FinishTable, call.name \in Syncing, queue # <<>>
  PROVE  Counts'
<1> SUFFICES ASSUME call.name \in Syncing
             PROVE  /\ Range(queue') \subseteq call'.tables
                    /\ DOMAIN report' = Kinds
                    /\ \A kind \in Kinds : report'[kind] = Cardinality(SoFar(kind)')
                    /\ at' = "commit" => todo' = {}
  BY DEF Counts, FinishTable
<1>1. /\ at = "commit" /\ at' \in {"idle", "readSource"} /\ queue' = Tail(queue)
      /\ UNCHANGED <<call, todo, before, goal, report>>
  BY DEF FinishTable, Return, ghosts
<1>2. /\ DOMAIN report = Kinds /\ \A kind \in Kinds : report[kind] = Cardinality(SoFar(kind))
      /\ todo = {} /\ Range(queue) \subseteq call.tables
  BY <1>1 DEF Counts
<1>3. /\ Range(queue) = {Table} \cup Range(Tail(queue)) /\ Table \notin Range(Tail(queue))
  BY QueueIs DEF Syncs
<1>6. Range(queue') \subseteq call'.tables
  BY <1>1, <1>2, <1>3
<1>4. ASSUME NEW kind \in Kinds, NEW k \in Keys  PROVE Told(kind, k)' <=> Told(kind, k)
  <2>1. Pending(k)' <=> TableOf[k] \in Range(Tail(queue))
    BY <1>1 DEF Pending
  <2>2. Told(kind, k)' <=> ~Pending(k)'
    BY <1>1 DEF Told
  <2>3. CASE AtWork(k)
    BY <1>1, <1>2, <1>3, <2>1, <2>2, <2>3 DEF Told, AtWork
  <2>4. CASE ~AtWork(k)
    BY <1>3, <2>1, <2>2, <2>4 DEF Told, AtWork, Pending
  <2> QED
    BY <2>3, <2>4
<1>5. ASSUME NEW kind \in Kinds  PROVE SoFar(kind)' = SoFar(kind)
  <2>1. Differing(kind)' = Differing(kind)
    BY <1>1, SameDiffering
  <2>2. \A k \in Keys : k \in SoFar(kind)' <=> k \in SoFar(kind)
    BY <1>4, <2>1 DEF SoFar
  <2> QED
    BY <2>2, SameRows
<1> QED
  BY <1>1, <1>2, <1>5, <1>6

\* Every step counts what it does.
LEMMA CountsStep ==
  ASSUME Tables, SourceColumns = TargetColumns, NullKey \notin Keys,
         Types, Transactions, Builtin, Syncs, Counts, [Next]_vars
  PROVE  Counts'
<1> SUFFICES ASSUME call'.name \in Syncing PROVE Counts'
  BY DEF Counts
<1>1. CASE Opening
  BY <1>1, OpeningCounts
<1>2. CASE StatementBuiltin
  BY <1>2 DEF StatementBuiltin, Syncing
<1> SUFFICES ASSUME ~Opening, ~StatementBuiltin PROVE Counts'
  BY <1>1, <1>2
<1>3. call' = call
  BY DEF Next, Call, Opening, Sync, Failure, Script, ReadSource, ReadTarget, Begin, BeginPanics,
         CompareRow, CopyRow, CommitBatch, DeleteOrphans, EndCopyRows, FinishTable, Fails,
         FailsToCommit, BatchFailsToCommit, Abort, CommitFails, RunStatement, EndManualScript,
         EndScript, OthersWrite, vars
<1>4. /\ call.name \in Syncing /\ call.name \notin {"CopyTable", "Exec"}
      /\ (at # "idle" => queue # <<>>) /\ at # "script"
  BY <1>3 DEF Builtin, Syncing, Scripts
<1>5. CASE ReadSource
  BY <1>4, <1>5, ReadSourceCounts DEF ReadSource
<1>6. CASE ReadTarget
  BY <1>4, <1>6, ReadTargetCounts
<1>7. CASE Begin \/ CommitBatch
  BY <1>4, <1>7, BatchCounts
<1>8. CASE BeginPanics
  BY <1>4, <1>8 DEF BeginPanics
<1>9. ASSUME NEW k \in Keys, CompareRow(k) PROVE Counts'
  BY <1>9, CompareRowCounts
<1>10. ASSUME NEW k \in Keys, CopyRow(k) PROVE Counts'
  BY <1>4, <1>10 DEF CopyRow
<1>11. CASE DeleteOrphans
  BY <1>4, <1>11, DeleteOrphansCounts DEF DeleteOrphans
<1>12. CASE EndCopyRows
  BY <1>4, <1>12 DEF EndCopyRows
<1>13. CASE FinishTable
  BY <1>4, <1>13, FinishTableCounts DEF FinishTable
<1>14. CASE Failure
  <2>1. at' = "idle" /\ result' = "error"
    BY <1>14 DEF Failure, Fails, FailsToCommit, BatchFailsToCommit, Abort, CommitFails, Return
  <2> QED
    BY <2>1 DEF Counts
<1>15. CASE Script
  BY <1>4, <1>15 DEF Script, RunStatement, EndManualScript, EndScript
<1>16. CASE OthersWrite
  BY <1>16, CountsRests DEF OthersWrite, reading, ghosts
<1>17. CASE UNCHANGED vars
  BY <1>17, CountsRests DEF vars, data, reading, ghosts
<1> QED
  BY <1>5, <1>6, <1>7, <1>8, <1>9, <1>10, <1>11, <1>12, <1>13, <1>14, <1>15, <1>16, <1>17
     DEF Next, Call, Opening, Sync

\* The numbers that are returned are those of all tables.
LEMMA CountsAreTrue ==
  ASSUME Syncs, SuccessIsTrue, Counts
  PROVE  ReportIsTrue
<1> SUFFICES ASSUME at = "idle", result = "ok", call.name \in Syncing,
                    NEW kind \in DOMAIN report
             PROVE  report[kind] = Cardinality(Differing(kind))
  BY DEF ReportIsTrue
<1>1. kind \in Kinds /\ report[kind] = Cardinality(SoFar(kind))
  BY DEF Counts
<1>2. \A k \in Keys : Told(kind, k)
  BY DEF Syncs, Syncing, Told, Pending, Range
<1>3. SoFar(kind) = Differing(kind)
  <2>1. Differing(kind) \subseteq Keys
    BY DEF Differing
  <2> QED
    BY <1>2, <2>1 DEF SoFar
<1> QED
  BY <1>1, <1>3

\* Every builtin that writes and reports a success has done what it was asked
\* for, and the numbers of db.SyncTable and db.SyncTables are the rows that were
\* inserted, updated, deleted and left alone, however many tables and batches there
\* are and whoever wrote to the source meanwhile (stdlib_db.go:267, :308 and
\* helper_sql.go:437 to 569).
THEOREM ReportsAreTrue ==
  ASSUME Tables, Features = {}, IsInjective(TableOrder), SourceColumns = TargetColumns,
         NullKey \notin Keys
  PROVE  Spec => []ReportIsTrue
<1> DEFINE Sound == Types /\ Transactions /\ Builtin /\ Copying /\ Whole
           I == Sound /\ Syncs /\ SuccessIsTrue /\ Counts
<1>1. Init => I
  <2> SUFFICES ASSUME Init PROVE I
    OBVIOUS
  <2>1. SuccessIsTrue /\ Counts
    BY DEF Init, SuccessIsTrue, Counts
  <2> QED
    BY <2>1, InitHolds
<1>2. I /\ [Next]_vars => I'
  <2> SUFFICES ASSUME I, [Next]_vars PROVE I'
    OBVIOUS
  <2>1. Types' /\ Transactions' /\ Builtin' /\ Copying' /\ Whole'
    BY TypesStep, TransactionsStep, BuiltinStep, CopyingStep, WholeStep DEF Tables
  <2>2. Syncs' /\ Counts'
    BY SyncsStep, CountsStep
  <2>3. SuccessIsTrue'
    BY SuccessStep
  <2> QED
    BY <2>1, <2>2, <2>3
<1>3. I => ReportIsTrue
  BY CountsAreTrue
<1> QED
  BY <1>1, <1>2, <1>3, PTL DEF Spec

================================================================================
