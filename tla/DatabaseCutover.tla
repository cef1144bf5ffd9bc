--------------------------- MODULE DatabaseCutover ---------------------------
(* The offline import of the SQLite database into PostgreSQL                  *)
(* (efb_telegram_master/migrate_db.py) and the checks a start makes           *)
(* before it opens either (validate_runtime_cutover, DatabaseManager).        *)
(*                                                                            *)
(* Three stores have no common transaction: the files of the data directory,  *)
(* the PostgreSQL schema, and the receipt that ties them together.  The       *)
(* importer may die between any two steps; the operator may then start        *)
(* the bot on either database, import into another schema, or try again.      *)
EXTENDS Naturals, FiniteSets

CONSTANTS
    Targets,      \* PostgreSQL schemas a configuration may name
    Writes,       \* identities of rows: each is written once
    ImportIds,    \* values uuid4 may give
    MaxMedia,     \* bound: changes to the files of outbound-media/
    NoImport, NoReceipt, Missing, Nobody, Sqlite

ASSUME CutoverAssumption == MaxMedia \in Nat /\ Sqlite \notin Targets /\ Nobody \notin Targets

VARIABLES
    source,       \* tgdata.db: is it there, its rows, whether a WAL is pending,
                  \* whether it holds tables the importer does not know
    queue,        \* outbound-queue.sqlite3 and the files it refers to
    receipt,      \* .postgresql-cutover.json
    target,       \* the PostgreSQL schemas
    owner,        \* who holds the data directory lock: the importer or the bot
    schemaLock,   \* schema whose advisory lock is held beyond one step
    bot,          \* the database the bot runs on
    imp,          \* the importer process
    written,      \* every row ever written by the bot or another program
    slipped       \* rows no start has to find: those another program wrote
                  \* between the release of the fences and the fingerprint
                  \* (OtherWrites), and those of a native deployment (BotWrites)

disk == <<source, queue, receipt>>
ghosts == <<written, slipped>>
vars == <<source, queue, receipt, target, owner, schemaLock, bot, imp, written, slipped>>

Databases == Targets \cup {Sqlite}
(* Its rows, the files they refer to, and whether one of the rows refers to a *)
(* file outside outbound-media/.                                              *)
Queues == [data : SUBSET Writes, media : 0 .. MaxMedia, external : BOOLEAN]
EmptyQueue == [data |-> {}, media |-> 0, external |-> FALSE]
(* Size, inode and modification time of the file and of its WAL.              *)
Fingerprints == [rows : SUBSET Writes, wal : BOOLEAN]
Fingerprint == [rows |-> source.rows, wal |-> source.wal]
(* The digests of the queue that was imported and of its copy in the archive. *)
Manifests == [id : ImportIds, rows : SUBSET Writes, queue : Queues \cup {Missing},
              backup : Queues \cup {Missing}]
Receipts == [id : ImportIds, print : Fingerprints]
Copies == [Writes -> 0 .. 2]

(* What stands for nothing is none of these.                                  *)
ASSUME NothingAssumption ==
    /\ NoImport \notin Manifests /\ NoReceipt \notin Receipts
    /\ Missing \notin Queues /\ Sqlite # Nobody /\ Nobody \notin {"importer", "bot"}

CopiesOf(S) == [w \in Writes |-> IF w \in S THEN 1 ELSE 0]
RowsIn(c) == {w \in Writes : c[w] > 0}

(* An empty schema, one that a bot or an importer created, and what it holds. *)
EmptySchema == [tables |-> FALSE, rows |-> CopiesOf({}), manifest |-> NoImport]

IdleImporter == [at |-> "idle", into |-> Nobody, rows |-> {}, before |-> Missing,
                 archive |-> Missing, manifest |-> NoImport, stage |-> CopiesOf({}),
                 print |-> [rows |-> {}, wal |-> FALSE]]

SourceStates == [there : BOOLEAN, rows : SUBSET Writes, wal : BOOLEAN, odd : BOOLEAN]
SchemaStates == [tables : BOOLEAN, rows : Copies, manifest : Manifests \cup {NoImport}]
Importers == [at : {"idle", "fenced", "copying", "copied", "archived", "staged",
                    "committed", "unfenced", "printed"},
              into : Targets \cup {Nobody}, rows : SUBSET Writes,
              before : Queues \cup {Missing}, archive : Queues \cup {Missing},
              manifest : Manifests \cup {NoImport}, stage : Copies, print : Fingerprints]

TypeOK ==
    /\ source \in SourceStates
    /\ queue \in Queues \cup {Missing}
    /\ receipt \in Receipts \cup {NoReceipt}
    /\ target \in [Targets -> SchemaStates]
    /\ owner \in {Nobody, "importer", "bot"} /\ schemaLock \in Targets \cup {Nobody}
    /\ bot \in Databases \cup {Nobody}
    /\ imp \in Importers
    /\ written \subseteq Writes /\ slipped \subseteq Writes

Init ==
    /\ source \in [there : BOOLEAN, rows : {{}}, wal : {FALSE}, odd : BOOLEAN]
    /\ source.odd => source.there
    /\ queue \in {Missing, EmptyQueue}
    /\ receipt = NoReceipt /\ target = [t \in Targets |-> EmptySchema]
    /\ owner = Nobody /\ schemaLock = Nobody /\ bot = Nobody /\ imp = IdleImporter
    /\ written = {} /\ slipped = {}

Fenced == imp.at \in {"fenced", "copying", "copied", "archived", "staged", "committed"}

------------------------------------------------------------------------------
(* What a start accepts.                                                      *)

(* A queue file that was imported must still be there; an unchanged source    *)
(* may stay beside it, or be gone.                                            *)
CutoverHolds(m) ==
    /\ receipt # NoReceipt /\ receipt.id = m.id
    /\ m.queue # Missing => queue # Missing
    /\ source.there => receipt.print = Fingerprint

(* The receipt is not compared with the record of the target.                 *)
AnyReceipt(d) == IF d = Sqlite THEN receipt = NoReceipt ELSE receipt # NoReceipt

(* The last case is a native deployment: no SQLite ever, and no import.       *)
ValidCutover(d) ==
    IF d = Sqlite THEN receipt = NoReceipt
    ELSE LET m == target[d].manifest
         IN \/ m # NoImport /\ CutoverHolds(m)
            \/ m = NoImport /\ ~source.there /\ receipt = NoReceipt

HasRows(d) == IF d = Sqlite THEN source.rows ELSE RowsIn(target[d].rows)

(* Opening creates the files and tables that are missing.                     *)
BotStarts(d) ==
    /\ bot = Nobody /\ owner = Nobody /\ schemaLock # d /\ ValidCutover(d)
    /\ bot' = d /\ owner' = "bot"
    /\ source' = IF d = Sqlite THEN [source EXCEPT !.there = TRUE] ELSE source
    /\ target' = IF d = Sqlite THEN target ELSE [target EXCEPT ![d].tables = TRUE]
    /\ queue' = IF queue = Missing THEN EmptyQueue ELSE queue
    /\ UNCHANGED <<receipt, schemaLock, imp, ghosts>>

(* The row of a message, queued and logged; its medium may lie elsewhere.  No *)
(* receipt ties a native deployment to its schema: the configuration alone    *)
(* leads back to its rows.                                                    *)
BotWrites(w) ==
    /\ bot # Nobody /\ w \notin written
    /\ written' = written \cup {w}
    /\ queue' \in {queue, [queue EXCEPT !.data = {}, !.external = FALSE]}
                   \cup {[queue EXCEPT !.data = @ \cup {w}, !.external = @ \/ e] : e \in BOOLEAN}
    /\ slipped' = IF bot # Sqlite /\ receipt = NoReceipt THEN slipped \cup {w} ELSE slipped
    /\ IF bot = Sqlite
       THEN source' = [source EXCEPT !.rows = @ \cup {w}, !.wal = TRUE] /\ UNCHANGED target
       ELSE target' = [target EXCEPT ![bot].rows[w] = 1] /\ UNCHANGED source
    /\ UNCHANGED <<receipt, owner, schemaLock, bot, imp>>

(* A clean stop checkpoints the WAL, a kill leaves it.                        *)
BotEnds ==
    /\ bot # Nobody /\ bot' = Nobody /\ owner' = Nobody
    /\ \/ source' = [source EXCEPT !.wal = @ /\ bot # Sqlite]
       \/ UNCHANGED source
    /\ UNCHANGED <<queue, receipt, target, schemaLock, imp, ghosts>>

(* A bot of another data directory, with a native deployment in schema t.     *)
StrangerCreates(t) ==
    /\ schemaLock # t /\ target[t].manifest = NoImport /\ ~target[t].tables
    /\ target' = [target EXCEPT ![t].tables = TRUE]
    /\ UNCHANGED <<disk, owner, schemaLock, bot, imp, ghosts>>

(* A program that knows neither lock nor receipt, an older release say,       *)
(* writes the file.  Only a fence stops it.                                   *)
OtherWrites(w) ==
    /\ ~Fenced /\ w \notin written
    /\ source' = [source EXCEPT !.there = TRUE, !.rows = @ \cup {w}, !.wal = TRUE]
    /\ written' = written \cup {w}
    /\ slipped' = IF imp.at = "unfenced" THEN slipped \cup {w} ELSE slipped
    /\ UNCHANGED <<queue, receipt, target, owner, schemaLock, bot, imp>>

(* A fence does not cover the files beside the queue.                         *)
OtherMedia ==
    /\ queue # Missing /\ queue.media < MaxMedia
    /\ queue' = [queue EXCEPT !.media = @ + 1]
    /\ UNCHANGED <<source, receipt, target, owner, schemaLock, bot, imp, ghosts>>

(* The retained source is put away, once it has served.                       *)
SourceRetired ==
    /\ imp.at = "idle" /\ bot = Nobody /\ receipt # NoReceipt /\ receipt.print = Fingerprint
    /\ source' = [source EXCEPT !.there = FALSE, !.rows = {}]
    /\ UNCHANGED <<queue, receipt, target, owner, schemaLock, bot, imp, ghosts>>

(* A partial restore: the directory comes back without its queue.             *)
QueueLost ==
    /\ imp.at = "idle" /\ bot = Nobody /\ queue # Missing
    /\ queue' = Missing
    /\ UNCHANGED <<source, receipt, target, owner, schemaLock, bot, imp, ghosts>>

(* The queue and its files are put back from the archive of an import.        *)
QueueRestored ==
    /\ imp.at = "idle" /\ bot = Nobody /\ queue = Missing
    /\ \E t \in Targets : target[t].manifest # NoImport /\ queue' = target[t].manifest.backup
    /\ UNCHANGED <<source, receipt, target, owner, schemaLock, bot, imp, ghosts>>

------------------------------------------------------------------------------
(* The importer.                                                              *)

(* Any exception: the transaction rolls back, then the fences are released.   *)
Abort ==
    /\ imp' = IdleImporter /\ owner' = Nobody /\ schemaLock' = Nobody
    /\ source' = [source EXCEPT !.wal = @ /\ ~Fenced]

Take(t) ==
    /\ imp.at = "idle" /\ owner = Nobody /\ source.there
    /\ owner' = "importer" /\ imp' = [IdleImporter EXCEPT !.at = "fenced", !.into = t]
    /\ UNCHANGED <<disk, target, schemaLock, bot, ghosts>>

(* The digest of the queue and its files, and a snapshot of both databases.   *)
BackupBegins ==
    /\ imp.at = "fenced"
    /\ imp' = [imp EXCEPT !.at = "copying", !.rows = source.rows, !.before = queue]
    /\ UNCHANGED <<disk, target, owner, schemaLock, bot, ghosts>>

(* The copy refers to nothing outside: such files are copied beside the rest. *)
Relocated(q) == IF q = Missing THEN Missing ELSE [q EXCEPT !.external = FALSE]

CopyMedia ==
    /\ imp.at = "copying"
    /\ imp' = [imp EXCEPT !.at = "copied", !.archive = Relocated(queue)]
    /\ UNCHANGED <<disk, target, owner, schemaLock, bot, ghosts>>

BackupHolds == imp.archive = Relocated(imp.before) /\ queue = imp.before

BackupEnds ==
    /\ imp.at = "copied"
    /\ IF BackupHolds
       THEN imp' = [imp EXCEPT !.at = "archived"] /\ UNCHANGED <<source, owner, schemaLock>>
       ELSE Abort
    /\ UNCHANGED <<queue, receipt, target, bot, ghosts>>

(* The source holds only tables, columns and values that can be converted.    *)
Importable == ~source.odd

ReceiptFits(m) == receipt # NoReceipt => m # NoImport /\ receipt.id = m.id

(* An empty target takes the rows, with a fresh identity for the import...    *)
Untouched(t) == target[t].manifest = NoImport /\ ~target[t].tables

FreshId(id) == \A t \in Targets : target[t].manifest # NoImport => target[t].manifest.id # id

ImportRows(t, id) ==
    /\ Untouched(t) /\ FreshId(id)
    /\ imp' = [imp EXCEPT !.at = "staged",
                   !.stage = [w \in Writes |-> target[t].rows[w] + CopiesOf(imp.rows)[w]],
                   !.manifest = [id |-> id, rows |-> imp.rows, queue |-> imp.before,
                                 backup |-> imp.archive]]

(* ...and one that was imported is only compared with its record: the queue   *)
(* is the one that was imported, or its copy put back.                        *)
SameSource(m) == m.rows = imp.rows /\ imp.before \in {m.queue, m.backup}

Recover(t) ==
    LET m == target[t].manifest
    IN /\ m # NoImport /\ SameSource(m)
       /\ imp' = [imp EXCEPT !.at = "staged", !.stage = target[t].rows,
                      !.manifest = [m EXCEPT !.queue = imp.before, !.backup = imp.archive]]

Admitted(t) == /\ Importable /\ ReceiptFits(target[t].manifest)
               /\ \/ Untouched(t)
                  \/ target[t].manifest # NoImport /\ SameSource(target[t].manifest)

Transact ==
    LET t == imp.into
    IN /\ imp.at = "archived"
       /\ \/ /\ Admitted(t) /\ schemaLock' = t
             /\ (\E id \in ImportIds : ImportRows(t, id)) \/ Recover(t)
             /\ UNCHANGED <<source, owner>>
          \/ ~Admitted(t) /\ Abort
       /\ UNCHANGED <<queue, receipt, target, bot, ghosts>>

NotVerified == TRUE

(* The content of the target is read back, the queue once more.  The answer   *)
(* to the commit may be lost.                                                 *)
ContentVerified == imp.stage = CopiesOf(imp.manifest.rows)
QueueUnchanged == queue = imp.before

Commit ==
    LET t == imp.into
    IN /\ imp.at = "staged"
       /\ \/ /\ ContentVerified /\ QueueUnchanged
             /\ target' = [target EXCEPT ![t] = [tables |-> TRUE, rows |-> imp.stage,
                                                 manifest |-> imp.manifest]]
             /\ \/ imp' = [imp EXCEPT !.at = "committed"] /\ schemaLock' = Nobody
                   /\ UNCHANGED <<source, owner>>
                \/ Abort
          \/ ~(ContentVerified /\ QueueUnchanged) /\ Abort /\ UNCHANGED target
       /\ UNCHANGED <<queue, receipt, bot, ghosts>>

(* The fingerprint is taken while the fences still hold.                      *)
PrintThenUnfence ==
    /\ imp.at = "committed"
    /\ imp' = [imp EXCEPT !.at = "printed", !.print = Fingerprint]
    /\ source' = [source EXCEPT !.wal = FALSE]
    /\ UNCHANGED <<queue, receipt, target, owner, schemaLock, bot, ghosts>>

(* Closing the fences checkpoints what a killed bot left in the WAL.          *)
Unfence ==
    /\ imp.at = "committed"
    /\ imp' = [imp EXCEPT !.at = "unfenced"] /\ source' = [source EXCEPT !.wal = FALSE]
    /\ UNCHANGED <<queue, receipt, target, owner, schemaLock, bot, ghosts>>

TakeFingerprint ==
    /\ imp.at = "unfenced"
    /\ imp' = [imp EXCEPT !.at = "printed", !.print = Fingerprint]
    /\ UNCHANGED <<disk, target, owner, schemaLock, bot, ghosts>>

WriteReceipt ==
    /\ imp.at = "printed"
    /\ receipt' = IF receipt = NoReceipt \/ receipt.id = imp.manifest.id
                  THEN [id |-> imp.manifest.id, print |-> imp.print] ELSE receipt
    /\ imp' = IdleImporter /\ owner' = Nobody
    /\ UNCHANGED <<source, queue, target, schemaLock, bot, ghosts>>

(* The process dies; an open transaction is rolled back by the server.        *)
ImporterDies ==
    /\ imp.at # "idle"
    /\ imp' = IdleImporter /\ owner' = Nobody /\ schemaLock' = Nobody
    /\ UNCHANGED <<disk, target, bot, ghosts>>

Next ==
    \/ \E d \in Databases : BotStarts(d)
    \/ \E w \in Writes : BotWrites(w) \/ OtherWrites(w)
    \/ BotEnds \/ OtherMedia \/ SourceRetired \/ QueueLost \/ QueueRestored
    \/ \E t \in Targets : StrangerCreates(t) \/ Take(t)
    \/ BackupBegins \/ CopyMedia \/ BackupEnds \/ Transact \/ Commit
    \/ Unfence \/ TakeFingerprint \/ WriteReceipt \/ ImporterDies

Spec == Init /\ [][Next]_vars

------------------------------------------------------------------------------
(* Fail closed: a start finds every row that was ever acknowledged, whichever *)
(* database the bot ran on before, whatever the importer left half done, and  *)
(* although another program wrote the file.  Only rows that such a program    *)
(* slips in between the fences' release and the fingerprint are not noticed,  *)
(* and the rows of a native deployment, which nothing on disk leads to, are   *)
(* not promised: a directory without file and receipt admits any database.    *)
StartsComplete ==
    [][\A d \in Databases : bot = Nobody /\ bot' = d => written \ slipped \subseteq HasRows(d)]_vars

(* What the importer vouches for in a receipt is what the schema holds, row   *)
(* by row, be it a first import or the retry after a lost commit or a crash;  *)
(* and no such retry puts a row in twice.                                     *)
ImportIsExact ==
    /\ imp.at \in {"committed", "unfenced", "printed"} =>
          /\ target[imp.into].rows = CopiesOf(imp.rows)
          /\ target[imp.into].manifest = imp.manifest
    /\ \A t \in Targets : target[t].rows \in [Writes -> 0 .. 1]

(* A finished import can be used: as long as nobody wrote the source and the  *)
(* queue is there, the receipt admits the start it was written for, even when *)
(* the source's WAL was pending before the import.                            *)
FinishedImportStarts ==
    receipt # NoReceipt =>
        \E t \in Targets :
            LET m == target[t].manifest
            IN /\ m # NoImport /\ m.id = receipt.id
               /\ (queue # Missing /\ (source.there => source.rows = m.rows)) => ValidCutover(t)

(* The snapshot an operator would roll back to is whole: what the record says *)
(* of the queue is what the archive holds, files included, wherever they lay, *)
(* although the files are not fenced; and the record knows the copy again.    *)
ArchiveIsWhole ==
    imp.at \in {"staged", "committed"} =>
        imp.archive = Relocated(imp.manifest.queue) /\ imp.archive = imp.manifest.backup

(* An import leaves both ways open, forward to the new database and back.     *)
CutoverInv == TypeOK /\ FinishedImportStarts /\ ArchiveIsWhole
==============================================================================
