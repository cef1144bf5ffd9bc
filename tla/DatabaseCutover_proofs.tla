------------------------ MODULE DatabaseCutover_proofs -----------------------
(* Theorems about DatabaseCutover: for any schemas, rows, import identities   *)
(* and changes of media, and however often the importer dies, fails or is     *)
(* started again, a start that is admitted finds every acknowledged row.  The *)
(* invariant is CInv of CutoverInvariant.                                     *)
EXTENDS CutoverInvariant, TLAPS

------------------------------------------------------------------------------
(* Types.                                                                     *)

(* Copies of a set of rows: one of each, and nothing else.                    *)
LEMMA CopiesFacts ==
    ASSUME NEW S \in SUBSET Writes
    PROVE  /\ CopiesOf(S) \in [Writes -> 0 .. 1] /\ CopiesOf(S) \in Copies
           /\ RowsIn(CopiesOf(S)) = S
           /\ \A w \in Writes : CopiesOf(S)[w] \in 0 .. 1
  BY DEF CopiesOf, Copies, RowsIn

(* The importer's locals when no import runs.                                 *)
LEMMA IdleFacts ==
    /\ IdleImporter \in Importers /\ IdleImporter.at = "idle"
    /\ IdleImporter.rows = {} /\ IdleImporter.print.rows = {}
  BY CopiesFacts DEF IdleImporter, Importers, Fingerprints

(* Queues and their copies.                                                   *)
LEMMA QueueFacts ==
    /\ EmptyQueue \in Queues
    /\ \A q \in Queues \cup {Missing} : Relocated(q) \in Queues \cup {Missing}
  <1>1. ASSUME NEW q \in Queues PROVE [q EXCEPT !.external = FALSE] \in Queues
    BY DEF Queues
  <1> QED BY <1>1, CutoverAssumption DEF Relocated, EmptyQueue, Queues

(* What a step does to the importer's locals keeps their types.               *)
LEMMA ImporterFields ==
    ASSUME TypeOK
    PROVE  /\ imp.at \in {"idle", "fenced", "copying", "copied", "archived", "staged",
                          "committed", "unfenced", "printed"}
           /\ imp.into \in Targets \cup {Nobody} /\ imp.rows \subseteq Writes
           /\ imp.before \in Queues \cup {Missing} /\ imp.archive \in Queues \cup {Missing}
           /\ imp.manifest \in Manifests \cup {NoImport} /\ imp.stage \in Copies
           /\ imp.print \in Fingerprints /\ imp.print.rows \subseteq Writes
           /\ Fingerprint \in Fingerprints
  BY DEF TypeOK, Importers, Fingerprint, Fingerprints, SourceStates

------------------------------------------------------------------------------
(* The steps of bots and other programs.                                      *)

(* A start that is admitted leaves what the receipt vouches for.              *)
LEMMA BotStartsStep == ASSUME CInv, NEW d \in Databases, BotStarts(d) PROVE CInv'
  <1>a. /\ bot' = d /\ owner' = "bot" /\ imp.at = "idle" /\ ValidCutover(d)
        /\ queue' = IF queue = Missing THEN EmptyQueue ELSE queue
        /\ UNCHANGED <<receipt, schemaLock, imp, written, slipped>>
    BY CutoverAssumption, NothingAssumption DEF BotStarts, ghosts, CInv, TypeOK, LockHolders
  <1>b. /\ target' \in [Targets -> SchemaStates]
        /\ \A t \in Targets : target'[t].rows = target[t].rows /\ target'[t].manifest = target[t].manifest
    BY CutoverAssumption DEF BotStarts, Databases, CInv, TypeOK, SchemaStates
  <1>c. d = Sqlite => receipt = NoReceipt
    BY <1>a DEF ValidCutover
  <1>d. /\ source' \in SourceStates /\ source'.rows = source.rows
        /\ source.there => source'.there
        /\ receipt # NoReceipt => source' = source
        /\ d = Sqlite => source'.there
    BY <1>c DEF BotStarts, CInv, TypeOK, SourceStates
  <1>e. queue' \in Queues /\ queue' # Missing
    BY <1>a, QueueFacts, NothingAssumption DEF CInv, TypeOK
  <1>1. TypeOK'
    BY <1>a, <1>b, <1>d, <1>e DEF CInv, TypeOK
  <1>2. d \in Targets => Vouched(d) \/ Native(d)
    BY <1>a, CutoverAssumption DEF ValidCutover, CutoverHolds, Vouched, Native
  <1>4. LockHolders'
    BY <1>a, <1>b, <1>c, <1>d, <1>e, <1>2, CutoverAssumption, NothingAssumption
    DEF Databases, CInv, LockHolders, Vouched, Native
  <1>5. ImportsDiffer' /\ RecordsArePast' /\ SourceIsWhole'
    BY <1>a, <1>b, <1>d DEF CInv, ImportsDiffer, RecordsArePast, SourceIsWhole, Acknowledged
  <1>6. ReceiptHolds'
    BY <1>a, <1>b, <1>d DEF CInv, ReceiptHolds, SchemaIsWhole, Vouched, Acknowledged, Fingerprint
  <1>7. ImporterReads' /\ ImporterStates' /\ ImportIsWhole'
    BY <1>a DEF ImporterReads, ImporterStates, ImportIsWhole, Reading, Stated, Done
  <1> QED BY <1>b, <1>1, <1>4, <1>5, <1>6, <1>7 DEF CInv

(* A stop, clean or not; on PostgreSQL it does not touch the file.            *)
LEMMA BotEndsStep == ASSUME CInv, BotEnds PROVE CInv'
  <1>a. /\ bot # Nobody /\ bot' = Nobody /\ owner' = Nobody /\ imp.at = "idle"
        /\ source' = [source EXCEPT !.wal = @ /\ bot # Sqlite] \/ source' = source
        /\ UNCHANGED <<queue, receipt, target, schemaLock, imp, written, slipped>>
    BY CutoverAssumption, NothingAssumption DEF BotEnds, ghosts, CInv, LockHolders
  <1>b. /\ source' \in SourceStates
        /\ source'.there = source.there /\ source'.rows = source.rows
    BY <1>a DEF CInv, TypeOK, SourceStates
  <1>d. bot # Sqlite => source' = source
    <2>1. source.wal \in BOOLEAN
      BY DEF CInv, TypeOK, SourceStates
    <2>2. bot # Sqlite => (source.wal /\ bot # Sqlite) = source.wal
      BY <2>1
    <2>3. [source EXCEPT !.wal = source.wal] = source
      BY DEF CInv, TypeOK, SourceStates
    <2> QED BY <1>a, <2>2, <2>3
  <1>c. receipt # NoReceipt => source' = source
    BY <1>d DEF CInv, LockHolders
  <1>1. TypeOK' /\ LockHolders'
    BY <1>a, <1>b, CutoverAssumption, NothingAssumption DEF CInv, TypeOK, LockHolders
  <1>2. ImportsDiffer' /\ RecordsArePast' /\ SourceIsWhole'
    BY <1>a, <1>b DEF CInv, ImportsDiffer, RecordsArePast, SourceIsWhole, Acknowledged
  <1>3. ReceiptHolds'
    BY <1>a, <1>c DEF CInv, ReceiptHolds, SchemaIsWhole, Vouched, Acknowledged, Fingerprint
  <1>4. ImporterReads' /\ ImporterStates' /\ ImportIsWhole'
    BY <1>a DEF ImporterReads, ImporterStates, ImportIsWhole, Reading, Stated, Done
  <1> QED BY <1>a, <1>1, <1>2, <1>3, <1>4 DEF CInv

(* Another deployment's tables are not rows of this one.                      *)
LEMMA StrangerCreatesStep == ASSUME CInv, NEW s \in Targets, StrangerCreates(s) PROVE CInv'
  <1>a. /\ UNCHANGED <<source, queue, receipt, owner, schemaLock, bot, imp, written, slipped>>
        /\ target' = [target EXCEPT ![s].tables = TRUE]
    BY DEF StrangerCreates, disk, ghosts
  <1>b. /\ target' \in [Targets -> SchemaStates]
        /\ \A t \in Targets : target'[t].rows = target[t].rows /\ target'[t].manifest = target[t].manifest
    BY <1>a DEF CInv, TypeOK, SchemaStates
  <1>1. TypeOK' /\ LockHolders'
    BY <1>a, <1>b DEF CInv, TypeOK, LockHolders, Vouched, Native
  <1>2. ImportsDiffer' /\ RecordsArePast' /\ SourceIsWhole'
    BY <1>a, <1>b DEF CInv, ImportsDiffer, RecordsArePast, SourceIsWhole, Acknowledged
  <1>3. ReceiptHolds'
    BY <1>a, <1>b DEF CInv, ReceiptHolds, SchemaIsWhole, Vouched, Acknowledged, Fingerprint
  <1>4. ImporterReads' /\ ImportIsWhole'
    BY <1>a DEF CInv, ImporterReads, ImportIsWhole, Acknowledged, Fingerprint
  <1>5. ImporterStates'
    <2>1. imp.at # "idle" => imp.into \in Targets
      BY DEF CInv, ImporterReads
    <2> QED BY <1>a, <1>b, <2>1 DEF CInv, ImporterStates, Stated, Done, Vouched, FreshId
  <1> QED BY <1>b, <1>1, <1>2, <1>3, <1>4, <1>5 DEF CInv

(* A row that another program writes makes the file one that no record        *)
(* describes.                                                                 *)
LEMMA OtherWritesStep == ASSUME CInv, NEW w \in Writes, OtherWrites(w) PROVE CInv'
  <1>a. /\ ~Fenced /\ w \notin written /\ written' = written \cup {w}
        /\ source' = [source EXCEPT !.there = TRUE, !.rows = @ \cup {w}, !.wal = TRUE]
        /\ slipped' = IF imp.at = "unfenced" THEN slipped \cup {w} ELSE slipped
        /\ UNCHANGED <<queue, receipt, target, owner, schemaLock, bot, imp>>
    BY DEF OtherWrites
  <1>b. /\ source' \in SourceStates
        /\ source'.there /\ source'.rows = source.rows \cup {w}
    BY <1>a DEF CInv, TypeOK, SourceStates
  <1>c. imp.at \in {"idle", "unfenced", "printed"}
    BY <1>a, ImporterFields DEF Fenced, CInv
  <1>d. RecordsArePast
    BY DEF CInv
  <1>1. TypeOK' /\ LockHolders' /\ ImportsDiffer' /\ RecordsArePast' /\ SourceIsWhole'
    BY <1>a, <1>b
    DEF CInv, TypeOK, LockHolders, Vouched, Native, ImportsDiffer, RecordsArePast, SourceIsWhole, Acknowledged
  <1>2. ReceiptHolds'
    <2>1. ASSUME NEW t \in Targets, Vouched(t), SchemaIsWhole(t)
          PROVE  SchemaIsWhole(t)'
      BY <2>1, <1>a, <1>b, <1>d DEF RecordsArePast, Vouched, SchemaIsWhole, Acknowledged
    <2> QED BY <1>a, <2>1 DEF CInv, ReceiptHolds, Vouched
  <1>3. ImporterReads'
    BY <1>a, <1>b, <1>c DEF CInv, ImporterReads, Reading
  <1>4. ImporterStates'
    BY <1>a DEF CInv, ImporterStates, Vouched, FreshId
  <1>5. ImportIsWhole'
    BY <1>a, <1>b, <1>c, <1>d DEF CInv, RecordsArePast, ImportIsWhole, Acknowledged
  <1> QED BY <1>a, <1>1, <1>2, <1>3, <1>4, <1>5 DEF CInv

(* The media have no part in it.                                              *)
LEMMA OtherMediaStep == ASSUME CInv, OtherMedia PROVE CInv'
  <1>a. /\ queue # Missing /\ queue.media < MaxMedia /\ queue' = [queue EXCEPT !.media = @ + 1]
        /\ UNCHANGED <<source, receipt, target, owner, schemaLock, bot, imp, written, slipped>>
    BY DEF OtherMedia, ghosts
  <1>b. queue' \in Queues /\ queue' # Missing
    BY <1>a, CutoverAssumption, NothingAssumption DEF CInv, TypeOK, Queues
  <1>1. TypeOK' /\ LockHolders'
    BY <1>a, <1>b DEF CInv, TypeOK, LockHolders, Vouched, Native
  <1>2. ImportsDiffer' /\ RecordsArePast' /\ SourceIsWhole' /\ ReceiptHolds'
    BY <1>a DEF CInv, ImportsDiffer, RecordsArePast, SourceIsWhole, ReceiptHolds, SchemaIsWhole,
                Vouched, Acknowledged, Fingerprint
  <1>3. ImporterReads' /\ ImporterStates' /\ ImportIsWhole'
    BY <1>a DEF CInv, ImporterReads, ImporterStates, Vouched, FreshId, ImportIsWhole,
                Acknowledged, Fingerprint
  <1> QED BY <1>a, <1>1, <1>2, <1>3 DEF CInv

(* Only a file that the receipt describes is put away, so its rows are in the *)
(* schema.                                                                    *)
LEMMA SourceRetiredStep == ASSUME CInv, SourceRetired PROVE CInv'
  <1>a. /\ imp.at = "idle" /\ receipt # NoReceipt /\ receipt.print.rows = source.rows
        /\ source' = [source EXCEPT !.there = FALSE, !.rows = {}]
        /\ UNCHANGED <<queue, receipt, target, owner, schemaLock, bot, imp, written, slipped>>
    BY DEF SourceRetired, Fingerprint, ghosts
  <1>b. /\ source' \in SourceStates
        /\ ~source'.there /\ source'.rows = {}
    BY <1>a DEF CInv, TypeOK, SourceStates
  <1>1. TypeOK' /\ LockHolders'
    BY <1>a, <1>b DEF CInv, TypeOK, LockHolders, Vouched, Native
  <1>2. ImportsDiffer' /\ RecordsArePast' /\ SourceIsWhole'
    BY <1>a, <1>b DEF CInv, ImportsDiffer, RecordsArePast, SourceIsWhole, Acknowledged
  <1>3. ReceiptHolds'
    BY <1>a, <1>b DEF CInv, ReceiptHolds, SchemaIsWhole, Vouched, Acknowledged
  <1>4. ImporterReads' /\ ImporterStates' /\ ImportIsWhole'
    BY <1>a DEF ImporterReads, ImporterStates, ImportIsWhole, Reading, Stated, Done
  <1> QED BY <1>a, <1>1, <1>2, <1>3, <1>4 DEF CInv

(* Without a queue the receipt refuses, which loses nothing.                  *)
LEMMA QueueLostStep == ASSUME CInv, QueueLost PROVE CInv'
  <1>a. /\ bot = Nobody /\ queue' = Missing
        /\ UNCHANGED <<source, receipt, target, owner, schemaLock, bot, imp, written, slipped>>
    BY DEF QueueLost, ghosts
  <1>1. TypeOK' /\ LockHolders'
    BY <1>a DEF CInv, TypeOK, LockHolders, Vouched, Native
  <1>2. ImportsDiffer' /\ RecordsArePast' /\ SourceIsWhole' /\ ReceiptHolds'
    BY <1>a DEF CInv, ImportsDiffer, RecordsArePast, SourceIsWhole, ReceiptHolds, SchemaIsWhole,
                Vouched, Acknowledged, Fingerprint
  <1>3. ImporterReads' /\ ImporterStates' /\ ImportIsWhole'
    BY <1>a DEF CInv, ImporterReads, ImporterStates, Vouched, FreshId, ImportIsWhole,
                Acknowledged, Fingerprint
  <1> QED BY <1>a, <1>1, <1>2, <1>3 DEF CInv

(* Nor does what comes back with it touch any row.                            *)
LEMMA QueueRestoredStep == ASSUME CInv, QueueRestored PROVE CInv'
  <1>a. /\ bot = Nobody
        /\ UNCHANGED <<source, receipt, target, owner, schemaLock, bot, imp, written, slipped>>
    BY DEF QueueRestored, ghosts
  <1>b. queue' \in Queues \cup {Missing}
    <2>1. PICK t \in Targets : target[t].manifest # NoImport /\ queue' = target[t].manifest.backup
      BY DEF QueueRestored
    <2>2. target[t].manifest \in Manifests
      BY <2>1 DEF CInv, TypeOK, SchemaStates
    <2> QED BY <2>1, <2>2 DEF Manifests
  <1>1. TypeOK' /\ LockHolders'
    BY <1>a, <1>b DEF CInv, TypeOK, LockHolders, Vouched, Native
  <1>2. ImportsDiffer' /\ RecordsArePast' /\ SourceIsWhole' /\ ReceiptHolds'
    BY <1>a DEF CInv, ImportsDiffer, RecordsArePast, SourceIsWhole, ReceiptHolds, SchemaIsWhole,
                Vouched, Acknowledged, Fingerprint
  <1>3. ImporterReads' /\ ImporterStates' /\ ImportIsWhole'
    BY <1>a DEF CInv, ImporterReads, ImporterStates, Vouched, FreshId, ImportIsWhole,
                Acknowledged, Fingerprint
  <1> QED BY <1>a, <1>1, <1>2, <1>3 DEF CInv

------------------------------------------------------------------------------
(* The steps of the importer.                                                 *)

(* A step that changes the importer's locals only.                            *)
LEMMA LocalStep ==
    ASSUME CInv, UNCHANGED <<source, queue, receipt, target, bot, written, slipped>>,
           imp' \in Importers, owner' \in {Nobody, "importer", "bot"},
           schemaLock' \in Targets \cup {Nobody},
           imp'.rows \subseteq written, imp'.print.rows \subseteq written, LockHolders'
    PROVE  /\ TypeOK' /\ ImportsDiffer' /\ RecordsArePast' /\ SourceIsWhole' /\ ReceiptHolds'
           /\ \A t \in Targets : target'[t].rows \in [Writes -> 0 .. 1]
  <1>1. TypeOK'
    BY DEF CInv, TypeOK
  <1>2. ImportsDiffer' /\ RecordsArePast' /\ SourceIsWhole'
    BY DEF CInv, ImportsDiffer, RecordsArePast, SourceIsWhole, Acknowledged
  <1>3. ReceiptHolds'
    BY DEF CInv, ReceiptHolds, SchemaIsWhole, Vouched, Acknowledged, Fingerprint
  <1> QED BY <1>1, <1>2, <1>3 DEF CInv

(* The importer takes the directory's lock and the fences.                    *)
LEMMA TakeStep == ASSUME CInv, NEW s \in Targets, Take(s) PROVE CInv'
  <1>a. /\ owner = Nobody /\ source.there /\ owner' = "importer"
        /\ imp' = [IdleImporter EXCEPT !.at = "fenced", !.into = s]
        /\ UNCHANGED <<source, queue, receipt, target, schemaLock, bot, written, slipped>>
    BY DEF Take, disk, ghosts
  <1>b. /\ imp' \in Importers /\ imp'.at = "fenced" /\ imp'.into = s
        /\ imp'.rows = {} /\ imp'.print.rows = {}
    BY <1>a, IdleFacts DEF Importers
  <1>1. LockHolders'
    BY <1>a, <1>b, NothingAssumption DEF CInv, LockHolders, Vouched, Native
  <1>2. ImporterReads' /\ ImporterStates' /\ ImportIsWhole'
    BY <1>a, <1>b DEF ImporterReads, ImporterStates, ImportIsWhole, Reading, Stated, Done
  <1>3. schemaLock' \in Targets \cup {Nobody}
    BY <1>a DEF CInv, TypeOK
  <1> QED BY <1>a, <1>b, <1>1, <1>2, <1>3, LocalStep DEF CInv

(* The snapshot of the source; nothing writes it before the fences go.        *)
LEMMA BackupBeginsStep == ASSUME CInv, BackupBegins PROVE CInv'
  <1>a. /\ imp.at = "fenced"
        /\ imp' = [imp EXCEPT !.at = "copying", !.rows = source.rows, !.before = queue]
        /\ UNCHANGED <<source, queue, receipt, target, owner, schemaLock, bot, written, slipped>>
    BY DEF BackupBegins, disk, ghosts
  <1>b. /\ imp' \in Importers /\ imp'.at = "copying" /\ imp'.into = imp.into
        /\ imp'.rows = source.rows /\ imp'.print = imp.print
    BY <1>a DEF CInv, TypeOK, Importers, SourceStates
  <1>1. LockHolders'
    BY <1>a, <1>b DEF CInv, LockHolders, Vouched, Native
  <1>2. ImporterReads' /\ ImporterStates' /\ ImportIsWhole'
    BY <1>a, <1>b DEF CInv, ImporterReads, ImporterStates, ImportIsWhole, Reading, Stated, Done
  <1>3. /\ imp'.rows \subseteq written /\ imp'.print.rows \subseteq written
        /\ owner' \in {Nobody, "importer", "bot"} /\ schemaLock' \in Targets \cup {Nobody}
    BY <1>a, <1>b DEF CInv, TypeOK, RecordsArePast
  <1> QED BY <1>a, <1>b, <1>1, <1>2, <1>3, LocalStep DEF CInv

(* The copies of the files, which may have changed meanwhile.                 *)
LEMMA CopyMediaStep == ASSUME CInv, CopyMedia PROVE CInv'
  <1>a. /\ imp.at = "copying" /\ imp' = [imp EXCEPT !.at = "copied", !.archive = Relocated(queue)]
        /\ UNCHANGED <<source, queue, receipt, target, owner, schemaLock, bot, written, slipped>>
    BY DEF CopyMedia, disk, ghosts
  <1>b. /\ imp' \in Importers /\ imp'.at = "copied" /\ imp'.into = imp.into
        /\ imp'.rows = imp.rows /\ imp'.print = imp.print
    BY <1>a, QueueFacts DEF CInv, TypeOK, Importers
  <1>1. LockHolders'
    BY <1>a, <1>b DEF CInv, LockHolders, Vouched, Native
  <1>2. ImporterReads' /\ ImporterStates' /\ ImportIsWhole'
    BY <1>a, <1>b DEF CInv, ImporterReads, ImporterStates, ImportIsWhole, Reading, Stated, Done
  <1>3. /\ imp'.rows \subseteq written /\ imp'.print.rows \subseteq written
        /\ owner' \in {Nobody, "importer", "bot"} /\ schemaLock' \in Targets \cup {Nobody}
    BY <1>a, <1>b DEF CInv, TypeOK, RecordsArePast
  <1> QED BY <1>a, <1>b, <1>1, <1>2, <1>3, LocalStep DEF CInv

(* An exception leaves what any death leaves, and it may fold the WAL.        *)
LEMMA AbortStep ==
    ASSUME CInv, imp.at # "idle", Abort, UNCHANGED <<queue, receipt, target, bot, written, slipped>>
    PROVE  CInv'
  <1>a. imp'.at = "idle" /\ imp'.rows = {} /\ imp'.print.rows = {} /\ imp' \in Importers
    BY IdleFacts DEF Abort
  <1>b. /\ owner' = Nobody /\ source' \in SourceStates
        /\ source'.there = source.there /\ source'.rows = source.rows
        /\ ~source.wal => source' = source
    BY DEF Abort, CInv, TypeOK, SourceStates
  <1>c. bot = Nobody
    BY DEF CInv, LockHolders
  <1>1. TypeOK'
    BY <1>a, <1>b DEF CInv, TypeOK, Abort
  <1>2. LockHolders'
    BY <1>a, <1>b, <1>c, CutoverAssumption, NothingAssumption DEF CInv, LockHolders, Vouched, Native
  <1>3. ReceiptHolds'
    <2>1. ASSUME NEW t \in Targets, SchemaIsWhole(t)
          PROVE  SchemaIsWhole(t)'
      BY <2>1, <1>b DEF SchemaIsWhole, Acknowledged, Fingerprint
    <2> QED BY <2>1 DEF CInv, ReceiptHolds, Vouched
  <1>4. ImportsDiffer' /\ RecordsArePast' /\ SourceIsWhole'
    BY <1>a, <1>b DEF CInv, ImportsDiffer, RecordsArePast, SourceIsWhole, Acknowledged
  <1>5. ImporterReads' /\ ImporterStates' /\ ImportIsWhole'
    BY <1>a DEF ImporterReads, ImporterStates, ImportIsWhole, Reading, Stated, Done
  <1> QED BY <1>1, <1>2, <1>3, <1>4, <1>5 DEF CInv

(* Only an archive that holds what the digest says goes on.                   *)
LEMMA BackupEndsStep == ASSUME CInv, BackupEnds PROVE CInv'
  <1> USE DEF disk, ghosts
  <1>1. CASE BackupHolds
    <2>a. /\ imp' = [imp EXCEPT !.at = "archived"] /\ imp.at = "copied"
          /\ UNCHANGED <<source, owner, schemaLock, queue, receipt, target, bot, written, slipped>>
      BY <1>1 DEF BackupEnds
    <2>b. imp' \in Importers /\ imp'.at = "archived" /\ imp'.into = imp.into /\ imp'.rows = imp.rows
          /\ imp'.before = imp.before /\ imp'.archive = imp.archive /\ imp'.print = imp.print
      BY <2>a DEF CInv, TypeOK, Importers
    <2>1. TypeOK' /\ LockHolders' /\ ImportsDiffer' /\ SourceIsWhole'
      BY <2>a, <2>b DEF CInv, TypeOK, LockHolders, Native, ImportsDiffer, SourceIsWhole, Acknowledged, Vouched
    <2>2. RecordsArePast'
      BY <2>a, <2>b DEF CInv, RecordsArePast
    <2>3. ReceiptHolds'
      BY <2>a DEF CInv, ReceiptHolds, SchemaIsWhole, Vouched, Acknowledged, Fingerprint
    <2>4. ImporterReads'
      BY <1>1, <2>a, <2>b DEF CInv, ImporterReads, Reading, BackupHolds
    <2>5. ImporterStates' /\ ImportIsWhole'
      BY <2>b DEF ImporterStates, ImportIsWhole, Stated, Done
    <2> QED BY <2>a, <2>1, <2>2, <2>3, <2>4, <2>5 DEF CInv
  <1>2. CASE ~BackupHolds
    BY <1>2, AbortStep DEF BackupEnds
  <1> QED BY <1>1, <1>2

(* A bot's row joins what the receipt's schema holds, or the source.          *)
LEMMA BotWritesStep == ASSUME CInv, NEW w \in Writes, BotWrites(w) PROVE CInv'
  <1>a. /\ owner = "bot" /\ imp.at = "idle" /\ queue \in Queues /\ queue # Missing
        /\ bot \in Databases /\ w \notin written /\ written' = written \cup {w}
        /\ slipped' = IF bot # Sqlite /\ receipt = NoReceipt THEN slipped \cup {w} ELSE slipped
        /\ UNCHANGED <<receipt, owner, schemaLock, bot, imp>>
    BY NothingAssumption DEF BotWrites, CInv, TypeOK, LockHolders
  <1>b. queue' \in Queues /\ queue' # Missing
    <2>1. \/ queue' = queue \/ queue' = [queue EXCEPT !.data = {}, !.external = FALSE]
          \/ \E e \in BOOLEAN : queue' = [queue EXCEPT !.data = @ \cup {w}, !.external = @ \/ e]
      BY DEF BotWrites
    <2>2. ASSUME NEW e \in BOOLEAN
          PROVE  [queue EXCEPT !.data = @ \cup {w}, !.external = @ \/ e] \in Queues
      <3>1. queue.external \in BOOLEAN
        BY <1>a DEF Queues
      <3>2. (queue.external \/ e) \in BOOLEAN
        BY <3>1
      <3>3. queue.data \cup {w} \in SUBSET Writes
        BY <1>a DEF Queues
      <3> QED BY <1>a, <3>2, <3>3 DEF Queues
    <2>3. [queue EXCEPT !.data = {}, !.external = FALSE] \in Queues
      BY <1>a DEF Queues
    <2> QED BY <1>a, <2>1, <2>2, <2>3, NothingAssumption
  <1>1. CASE bot = Sqlite
    <2>a. /\ source' = [source EXCEPT !.rows = @ \cup {w}, !.wal = TRUE] /\ target' = target
      BY <1>1 DEF BotWrites
    <2>b. /\ source' \in SourceStates
          /\ source'.there = source.there /\ source'.rows = source.rows \cup {w}
      BY <2>a DEF CInv, TypeOK, SourceStates
    <2>c. receipt = NoReceipt
      BY <1>1 DEF CInv, LockHolders
    <2>1. TypeOK'
      BY <1>a, <1>b, <2>a, <2>b DEF CInv, TypeOK
    <2>2. LockHolders'
      BY <1>a, <1>b, <1>1, <2>b, CutoverAssumption DEF CInv, LockHolders
    <2>3. ImportsDiffer' /\ (\A t \in Targets : target[t].rows \in [Writes -> 0 .. 1])'
      BY <2>a DEF CInv, ImportsDiffer
    <2>4. RecordsArePast'
      BY <1>a, <2>a, <2>b DEF CInv, RecordsArePast
    <2>5. SourceIsWhole' /\ ReceiptHolds'
      BY <1>1, <1>a, <2>a, <2>b, <2>c DEF CInv, LockHolders, SourceIsWhole, Acknowledged, ReceiptHolds
    <2>6. ImporterReads' /\ ImporterStates' /\ ImportIsWhole'
      BY <1>a DEF ImporterReads, ImporterStates, ImportIsWhole, Reading, Stated, Done
    <2> QED BY <2>1, <2>2, <2>3, <2>4, <2>5, <2>6 DEF CInv
  <1>2. CASE bot # Sqlite
    <2>a. /\ bot \in Targets /\ target' = [target EXCEPT ![bot].rows[w] = 1] /\ source' = source
      BY <1>a, <1>2 DEF BotWrites, Databases
    <2>b. Vouched(bot) \/ Native(bot)
      BY <2>a DEF CInv, LockHolders
    <2>c. /\ \A t \in Targets : target'[t].manifest = target[t].manifest
          /\ \A t \in Targets \ {bot} : target'[t] = target[t]
          /\ target'[bot].rows = [target[bot].rows EXCEPT ![w] = 1]
          /\ target' \in [Targets -> SchemaStates]
      <3>1. target[bot] \in SchemaStates /\ [target[bot].rows EXCEPT ![w] = 1] \in Copies
        BY <2>a DEF CInv, TypeOK, Copies, SchemaStates
      <3>2. [target[bot] EXCEPT !.rows[w] = 1] \in SchemaStates
        BY <3>1 DEF SchemaStates
      <3>3. target' = [target EXCEPT ![bot] = [target[bot] EXCEPT !.rows[w] = 1]]
        BY <2>a
      <3>4. \A t \in Targets : target'[t] = IF t = bot THEN [target[bot] EXCEPT !.rows[w] = 1]
                                              ELSE target[t]
        BY <2>a, <3>3 DEF CInv, TypeOK
      <3> QED BY <2>a, <3>1, <3>2, <3>3, <3>4 DEF CInv, TypeOK, SchemaStates
    <2>d. \A t \in Targets : target'[t].rows \in [Writes -> 0 .. 1]
      BY <2>c DEF CInv
    <2>e. RowsIn(target'[bot].rows) = RowsIn(target[bot].rows) \cup {w}
      BY <2>a, <2>c DEF CInv, RowsIn
    <2>1. TypeOK'
      BY <1>a, <1>b, <2>a, <2>c DEF CInv, TypeOK
    <2>2. LockHolders'
      BY <1>a, <1>b, <2>a, <2>b, <2>c DEF CInv, LockHolders, Vouched, Native
    <2>3. ImportsDiffer'
      BY <2>c DEF CInv, ImportsDiffer
    <2>4. RecordsArePast'
      BY <1>a, <2>a, <2>c DEF CInv, RecordsArePast
    <2>5. SourceIsWhole'
      BY <1>a, <1>2, <2>a, <2>b DEF CInv, Vouched, Native, SourceIsWhole, Acknowledged
    <2>6. ReceiptHolds'
      <3> SUFFICES ASSUME receipt # NoReceipt PROVE ReceiptHolds'
        BY <1>a DEF ReceiptHolds
      <3>b. Vouched(bot)
        BY <2>b DEF Native
      <3>1. ASSUME NEW t \in Targets, Vouched(t)'
            PROVE  t = bot
        BY <3>1, <1>a, <2>a, <3>b, <2>c DEF CInv, ImportsDiffer, Vouched
      <3>2. SchemaIsWhole(bot)
        BY <2>a, <3>b DEF CInv, ReceiptHolds, Vouched
      <3>3. SchemaIsWhole(bot)'
        BY <3>2, <1>a, <2>a, <2>c, <2>e DEF SchemaIsWhole, Acknowledged, Fingerprint
      <3>4. Vouched(bot)'
        BY <1>a, <2>a, <3>b, <2>c DEF Vouched
      <3> QED BY <3>1, <3>3, <3>4, <1>a, <2>a DEF ReceiptHolds
    <2>7. ImporterReads' /\ ImporterStates' /\ ImportIsWhole'
      BY <1>a DEF ImporterReads, ImporterStates, ImportIsWhole, Reading, Stated, Done
    <2> QED BY <2>1, <2>d, <2>2, <2>3, <2>4, <2>5, <2>6, <2>7 DEF CInv
  <1> QED BY <1>1, <1>2

(* A step keeps the rows of a schema and what identifies its import.          *)
SameImport(t) ==
    /\ target'[t].rows = target[t].rows
    /\ target'[t].manifest = NoImport <=> target[t].manifest = NoImport
    /\ target[t].manifest # NoImport => /\ target'[t].manifest.id = target[t].manifest.id
                                        /\ target'[t].manifest.rows = target[t].manifest.rows

(* A commit stores exactly the rows of the source; over a schema that the     *)
(* receipt names it stores what is there.                                     *)
LEMMA CommitEffect ==
    ASSUME CInv, imp.at = "staged", ContentVerified,
           target' = [target EXCEPT ![imp.into] = [tables |-> TRUE, rows |-> imp.stage,
                                                   manifest |-> imp.manifest]]
    PROVE  /\ imp.into \in Targets
           /\ \A t \in Targets \ {imp.into} : target'[t] = target[t]
           /\ target'[imp.into].rows = CopiesOf(imp.rows)
           /\ target'[imp.into].manifest = imp.manifest
           /\ target' \in [Targets -> SchemaStates]
           /\ \A t \in Targets : target'[t].rows \in [Writes -> 0 .. 1]
           /\ receipt # NoReceipt => \A t \in Targets : SameImport(t)
           /\ \A t \in Targets :
                 target'[t].manifest # NoImport => target'[t].manifest.rows \subseteq written
           /\ ImportsDiffer'
  <1>1. /\ imp.into \in Targets /\ imp.rows \subseteq Writes /\ imp.rows \subseteq written
        /\ imp.manifest \in Manifests /\ imp.manifest.rows = imp.rows
        /\ receipt # NoReceipt => target[imp.into].manifest # NoImport
    BY ImporterFields, NothingAssumption
    DEF CInv, ImporterReads, ImporterStates, RecordsArePast, Stated, Vouched
  <1>2. imp.stage = CopiesOf(imp.rows) /\ imp.stage \in Copies /\ imp.stage \in [Writes -> 0 .. 1]
    BY <1>1, CopiesFacts DEF ContentVerified
  <1>3. target'[imp.into] = [tables |-> TRUE, rows |-> imp.stage, manifest |-> imp.manifest]
        /\ \A t \in Targets \ {imp.into} : target'[t] = target[t]
    BY <1>1 DEF CInv, TypeOK
  <1>4. target' \in [Targets -> SchemaStates]
    BY <1>1, <1>2 DEF CInv, TypeOK, SchemaStates
  <1>5. \A t \in Targets : target'[t].rows \in [Writes -> 0 .. 1]
    BY <1>2, <1>3 DEF CInv
  <1>6. target[imp.into].manifest # NoImport =>
            /\ imp.manifest.id = target[imp.into].manifest.id
            /\ imp.manifest.rows = target[imp.into].manifest.rows
            /\ imp.stage = target[imp.into].rows
    BY DEF CInv, ImporterStates
  <1>7. receipt # NoReceipt => \A t \in Targets : SameImport(t)
    BY <1>1, <1>3, <1>6, NothingAssumption DEF SameImport
  <1>8. \A t \in Targets : target'[t].manifest # NoImport => target'[t].manifest.rows \subseteq written
    BY <1>1, <1>3 DEF CInv, RecordsArePast
  <1>9. \A t \in Targets \ {imp.into} :
            target[t].manifest # NoImport => target[t].manifest.id # imp.manifest.id
    BY <1>1, <1>6 DEF CInv, ImporterStates, ImportsDiffer, FreshId
  <1>10. ImportsDiffer'
    BY <1>3, <1>9 DEF CInv, ImportsDiffer
  <1> QED BY <1>1, <1>2, <1>3, <1>4, <1>5, <1>7, <1>8, <1>10

(* The commit makes the rows of the source those of the schema; its answer may *)
(* be lost, which looks like a failure.                                       *)
LEMMA CommitStep == ASSUME CInv, Commit PROVE CInv'
  <1>a. imp.at = "staged" /\ UNCHANGED <<queue, receipt, bot, written, slipped>> /\ bot = Nobody
    BY DEF Commit, ghosts, CInv, LockHolders
  <1>1. CASE ~(ContentVerified /\ QueueUnchanged)
    BY <1>1, <1>a, AbortStep DEF Commit
  <1>2. CASE ContentVerified /\ QueueUnchanged
    <2>a. target' = [target EXCEPT ![imp.into] = [tables |-> TRUE, rows |-> imp.stage,
                                                  manifest |-> imp.manifest]]
      BY <1>2 DEF Commit
    <2>b. /\ imp.into \in Targets
          /\ \A t \in Targets \ {imp.into} : target'[t] = target[t]
          /\ target'[imp.into].rows = CopiesOf(imp.rows)
          /\ target'[imp.into].manifest = imp.manifest
          /\ target' \in [Targets -> SchemaStates]
          /\ \A t \in Targets : target'[t].rows \in [Writes -> 0 .. 1]
          /\ receipt # NoReceipt => \A t \in Targets : SameImport(t)
          /\ \A t \in Targets :
                target'[t].manifest # NoImport => target'[t].manifest.rows \subseteq written
      BY <1>a, <1>2, <2>a, CommitEffect
    <2>c. ImportsDiffer'
      BY <1>a, <1>2, <2>a, CommitEffect
    <2>d. receipt # NoReceipt => \A t \in Targets : Vouched(t)' <=> Vouched(t)
      BY <1>a, <2>b DEF Vouched, SameImport
    <2>1. CASE UNCHANGED <<source, owner>> /\ schemaLock' = Nobody
               /\ imp' = [imp EXCEPT !.at = "committed"]
      <3>a. imp' \in Importers /\ imp'.at = "committed" /\ imp'.into = imp.into /\ imp'.rows = imp.rows
            /\ imp'.before = imp.before /\ imp'.archive = imp.archive /\ imp'.print = imp.print
            /\ imp'.manifest = imp.manifest
        BY <2>1 DEF CInv, TypeOK, Importers
      <3>1. TypeOK'
        BY <1>a, <2>1, <2>b, <3>a DEF CInv, TypeOK
      <3>2. LockHolders'
        BY <1>a, <2>1, <3>a, CutoverAssumption, NothingAssumption DEF CInv, LockHolders
      <3>3. RecordsArePast'
        BY <1>a, <2>1, <2>b, <3>a DEF CInv, RecordsArePast
      <3>4. SourceIsWhole'
        BY <1>a, <2>1 DEF CInv, SourceIsWhole, Acknowledged
      <3>5. ReceiptHolds'
        <4>1. ASSUME NEW t \in Targets, Vouched(t), SchemaIsWhole(t)
              PROVE  SchemaIsWhole(t)'
          BY <4>1, <1>a, <2>1, <2>b DEF SchemaIsWhole, Acknowledged, Fingerprint, SameImport, Vouched
        <4> QED BY <1>a, <2>d, <4>1 DEF CInv, ReceiptHolds
      <3>6. ImporterReads'
        BY <1>a, <2>1, <3>a DEF CInv, ImporterReads, Reading
      <3>7. ImporterStates'
        BY <1>a, <2>b, <2>d, <3>a DEF CInv, ImporterStates, Stated, Done
      <3>8. Acknowledged \subseteq imp.rows
        <4>1. CASE receipt = NoReceipt
          BY <1>a, <4>1 DEF CInv, SourceIsWhole, Acknowledged, ImporterReads, Reading
        <4>2. CASE receipt # NoReceipt
          <5>1. Vouched(imp.into) /\ imp.rows = source.rows /\ imp.rows \subseteq Writes
            BY <1>a, <4>2, ImporterFields DEF CInv, ImporterStates, Stated, ImporterReads, Reading
          <5>2. Acknowledged \subseteq RowsIn(target[imp.into].rows) \cup source.rows
            BY <2>b, <4>2, <5>1 DEF CInv, ReceiptHolds, SchemaIsWhole
          <5>3. RowsIn(target[imp.into].rows) = imp.rows
            BY <2>b, <4>2, <5>1, CopiesFacts DEF SameImport
          <5> QED BY <5>1, <5>2, <5>3
        <4> QED BY <4>1, <4>2
      <3>9. ImportIsWhole'
        BY <1>a, <3>a, <3>8 DEF ImportIsWhole, Acknowledged
      <3> QED BY <2>b, <2>c, <3>1, <3>2, <3>3, <3>4, <3>5, <3>6, <3>7, <3>9 DEF CInv
    <2>2. CASE Abort
      <3>a. imp'.at = "idle" /\ imp'.rows = {} /\ imp'.print.rows = {} /\ imp' \in Importers
        BY <2>2, IdleFacts DEF Abort
      <3>b. /\ owner' = Nobody /\ schemaLock' = Nobody
            /\ source' \in SourceStates
            /\ source'.there = source.there /\ source'.rows = source.rows
            /\ ~source.wal => source' = source
        BY <2>2 DEF Abort, CInv, TypeOK, SourceStates
      <3>1. TypeOK'
        BY <1>a, <2>b, <3>a, <3>b DEF CInv, TypeOK
      <3>2. LockHolders'
        BY <1>a, <3>a, <3>b, CutoverAssumption, NothingAssumption DEF CInv, LockHolders
      <3>3. RecordsArePast' /\ SourceIsWhole'
        BY <1>a, <2>b, <3>a, <3>b DEF CInv, RecordsArePast, SourceIsWhole, Acknowledged
      <3>4. ReceiptHolds'
        <4>1. ASSUME NEW t \in Targets, Vouched(t), SchemaIsWhole(t)
              PROVE  SchemaIsWhole(t)'
          BY <4>1, <1>a, <2>b, <3>b DEF SchemaIsWhole, Acknowledged, Fingerprint, SameImport, Vouched
        <4> QED BY <1>a, <2>d, <4>1 DEF CInv, ReceiptHolds
      <3>5. ImporterReads' /\ ImporterStates' /\ ImportIsWhole'
        BY <3>a DEF ImporterReads, ImporterStates, ImportIsWhole, Reading, Stated, Done
      <3> QED BY <2>b, <2>c, <3>1, <3>2, <3>3, <3>4, <3>5 DEF CInv
    <2> QED BY <1>2, <2>1, <2>2 DEF Commit
  <1> QED BY <1>1, <1>2

(* The transaction takes the importer from its archive to a manifest that     *)
(* states what it read.                                                       *)
Stages(t) ==
    /\ imp' \in Importers /\ imp'.at = "staged" /\ imp'.into = t /\ imp'.rows = imp.rows
    /\ imp'.before = imp.before /\ imp'.archive = imp.archive /\ imp'.print = imp.print
    /\ imp'.manifest # NoImport /\ imp'.manifest.rows = imp.rows
    /\ imp'.manifest.queue = imp.before /\ imp'.manifest.backup = imp.archive
    /\ IF target[t].manifest = NoImport THEN FreshId(imp'.manifest.id)
       ELSE /\ target[t].manifest.id = imp'.manifest.id
            /\ target[t].manifest.rows = imp'.manifest.rows
            /\ imp'.stage = target[t].rows

(* A retry takes over the identity and the rows of its target.                *)
LEMMA RecoverStages == ASSUME CInv, NEW t \in Targets, imp.into = t, Recover(t) PROVE Stages(t)
  <1> DEFINE m == [target[t].manifest EXCEPT !.queue = imp.before, !.backup = imp.archive]
  <1>1. /\ target[t].manifest \in Manifests /\ target[t].manifest # NoImport
        /\ target[t].rows \in Copies /\ target[t].manifest.rows = imp.rows
    BY DEF CInv, TypeOK, Recover, SameSource, SchemaStates
  <1>2. /\ m \in Manifests /\ m # NoImport /\ m.id = target[t].manifest.id /\ m.rows = imp.rows
        /\ m.queue = imp.before /\ m.backup = imp.archive
    BY <1>1, ImporterFields, NothingAssumption DEF CInv, Manifests
  <1>3. imp' = [imp EXCEPT !.at = "staged", !.stage = target[t].rows, !.manifest = m]
    BY DEF Recover
  <1> HIDE DEF m
  <1> QED BY <1>1, <1>2, <1>3 DEF CInv, TypeOK, Importers, Stages

(* A first import has a manifest of its own and adds each row once.           *)
LEMMA ImportStages ==
    ASSUME CInv, NEW t \in Targets, imp.into = t, NEW id \in ImportIds, ImportRows(t, id)
    PROVE  Stages(t)
  <1> DEFINE m == [id |-> id, rows |-> imp.rows, queue |-> imp.before,
                   backup |-> imp.archive]
             s == [w \in Writes |-> target[t].rows[w] + CopiesOf(imp.rows)[w]]
  <1>1. /\ m \in Manifests /\ m # NoImport /\ m.id = id /\ m.rows = imp.rows
        /\ m.queue = imp.before /\ m.backup = imp.archive
    BY ImporterFields, NothingAssumption DEF CInv, Manifests
  <1>2. s \in Copies
    <2>1. imp.rows \in SUBSET Writes /\ \A w \in Writes : target[t].rows[w] \in 0 .. 1
      BY ImporterFields DEF CInv
    <2>2. \A w \in Writes : target[t].rows[w] + CopiesOf(imp.rows)[w] \in 0 .. 2
      BY <2>1, CopiesFacts
    <2> QED BY <2>2 DEF Copies
  <1>3. target[t].manifest = NoImport /\ FreshId(id)
        /\ imp' = [imp EXCEPT !.at = "staged", !.stage = s, !.manifest = m]
    BY DEF ImportRows, Untouched
  <1> HIDE DEF m, s
  <1> QED BY <1>1, <1>2, <1>3 DEF CInv, TypeOK, Importers, Stages

(* A first import takes an identity that no schema has, the retry that of its *)
(* target; with a receipt only the retry is admitted.                         *)
LEMMA TransactStep == ASSUME CInv, Transact PROVE CInv'
  <1> DEFINE t == imp.into
  <1>a. /\ imp.at = "archived" /\ UNCHANGED <<queue, receipt, target, bot, written, slipped>>
        /\ imp.into \in Targets /\ imp.rows = source.rows
    BY DEF Transact, ghosts, CInv, ImporterReads, Reading
  <1>1. CASE ~Admitted(t)
    <2>1. Abort
      BY <1>1 DEF Transact
    <2> QED BY <1>a, <2>1, AbortStep
  <1>2. CASE Admitted(t)
    <2>a. /\ schemaLock' = t /\ UNCHANGED <<source, owner>>
          /\ (\E id \in ImportIds : ImportRows(t, id)) \/ Recover(t)
      BY <1>2 DEF Transact
    <2>b. Stages(t)
      BY <1>a, <2>a, ImportStages, RecoverStages
    <2>1. TypeOK' /\ LockHolders' /\ ImportsDiffer' /\ SourceIsWhole'
      BY <1>a, <2>a, <2>b
      DEF CInv, TypeOK, LockHolders, Native, ImportsDiffer, SourceIsWhole, Acknowledged, Vouched, Stages
    <2>2. RecordsArePast'
      BY <1>a, <2>a, <2>b DEF CInv, RecordsArePast, Stages
    <2>3. ReceiptHolds'
      BY <1>a, <2>a DEF CInv, ReceiptHolds, SchemaIsWhole, Vouched, Acknowledged, Fingerprint
    <2>4. ImporterReads'
      BY <1>a, <2>a, <2>b DEF CInv, ImporterReads, Reading, Stages
    <2>5. receipt # NoReceipt => Vouched(t)
      BY <1>2 DEF Admitted, ReceiptFits, Vouched
    <2>6. ImporterStates'
      BY <1>a, <2>b, <2>5 DEF ImporterStates, Stages, Stated, Done, Vouched, FreshId
    <2>7. ImportIsWhole'
      BY <2>b DEF ImportIsWhole, Stages
    <2> QED BY <1>a, <2>1, <2>2, <2>3, <2>4, <2>6, <2>7 DEF CInv
  <1> QED BY <1>1, <1>2

(* The receipt vouches for a schema whose rows are all that were              *)
(* acknowledged before the fingerprint.                                       *)
LEMMA WriteReceiptStep == ASSUME CInv, WriteReceipt PROVE CInv'
  <1>a. /\ imp.at = "printed" /\ owner' = Nobody /\ imp' = IdleImporter /\ bot = Nobody
        /\ UNCHANGED <<source, queue, target, schemaLock, bot, written, slipped>>
    BY DEF WriteReceipt, ghosts, CInv, LockHolders
  <1>b. imp'.at = "idle" /\ imp'.rows = {} /\ imp'.print.rows = {} /\ imp' \in Importers
    BY <1>a, IdleFacts
  <1>c. /\ imp.manifest \in Manifests /\ imp.manifest # NoImport /\ imp.print \in Fingerprints
        /\ imp.into \in Targets /\ source.there /\ imp.manifest.rows = imp.rows
        /\ target[imp.into].manifest = imp.manifest
        /\ target[imp.into].rows = CopiesOf(imp.rows)
        /\ RowsIn(target[imp.into].rows) = imp.rows
        /\ receipt # NoReceipt => receipt.id = imp.manifest.id
    BY <1>a, ImporterFields, CopiesFacts
    DEF CInv, ImporterReads, ImporterStates, Stated, Done, Vouched
  <1>d. /\ receipt' = [id |-> imp.manifest.id, print |-> imp.print]
        /\ receipt' \in Receipts /\ receipt' # NoReceipt
        /\ receipt'.id = imp.manifest.id /\ receipt'.print = imp.print
    BY <1>c, NothingAssumption DEF WriteReceipt, Receipts, Manifests
  <1>1. TypeOK'
    BY <1>a, <1>b, <1>d DEF CInv, TypeOK
  <1>2. LockHolders'
    BY <1>a, <1>b, CutoverAssumption, NothingAssumption DEF CInv, LockHolders
  <1>3. ImportsDiffer' /\ RecordsArePast' /\ SourceIsWhole'
    BY <1>a, <1>b, <1>d DEF CInv, ImportsDiffer, RecordsArePast, SourceIsWhole, Acknowledged
  <1>4. ReceiptHolds'
    <2>a. PICK t \in Targets : t = imp.into
      BY <1>c
    <2>1. Vouched(t)'
      BY <1>a, <1>c, <1>d, <2>a DEF Vouched
    <2>2. ASSUME NEW u \in Targets, Vouched(u)'
          PROVE  u = t
      BY <1>a, <1>c, <1>d, <2>a, <2>2 DEF CInv, ImportsDiffer, Vouched
    <2>3. /\ Acknowledged \subseteq imp.rows \cup source.rows
          /\ imp.print.rows = source.rows => Acknowledged \subseteq imp.rows
          /\ source.rows = imp.rows => imp.print = Fingerprint /\ ~source.wal
      BY <1>a DEF CInv, ImportIsWhole
    <2>4. SchemaIsWhole(t)'
      BY <1>a, <1>c, <1>d, <2>a, <2>3 DEF SchemaIsWhole, Acknowledged, Fingerprint
    <2> QED BY <2>1, <2>2, <2>4 DEF ReceiptHolds
  <1>5. ImporterReads' /\ ImporterStates' /\ ImportIsWhole'
    BY <1>b DEF ImporterReads, ImporterStates, ImportIsWhole, Reading, Stated, Done
  <1> QED BY <1>a, <1>1, <1>2, <1>3, <1>4, <1>5 DEF CInv

(* The fences go and the WAL is folded into the file.                         *)
LEMMA UnfenceStep == ASSUME CInv, Unfence PROVE CInv'
  <1>a. /\ imp.at = "committed" /\ imp' = [imp EXCEPT !.at = "unfenced"]
        /\ source' = [source EXCEPT !.wal = FALSE]
        /\ UNCHANGED <<queue, receipt, target, owner, schemaLock, bot, written, slipped>>
    BY DEF Unfence, ghosts
  <1>b. /\ imp' \in Importers /\ imp'.at = "unfenced" /\ imp'.into = imp.into
        /\ imp'.rows = imp.rows /\ imp'.print = imp.print /\ imp'.manifest = imp.manifest
    BY <1>a DEF CInv, TypeOK, Importers
  <1>c. /\ source' \in SourceStates
        /\ source'.there = source.there /\ source'.rows = source.rows /\ ~source'.wal
        /\ ~source.wal => source' = source
    BY <1>a DEF CInv, TypeOK, SourceStates
  <1>1. TypeOK' /\ LockHolders'
    BY <1>a, <1>b, <1>c DEF CInv, TypeOK, LockHolders, Vouched, Native
  <1>2. ImportsDiffer' /\ RecordsArePast' /\ SourceIsWhole'
    BY <1>a, <1>b, <1>c DEF CInv, ImportsDiffer, RecordsArePast, SourceIsWhole, Acknowledged
  <1>3. ReceiptHolds'
    BY <1>a, <1>c DEF CInv, ReceiptHolds, SchemaIsWhole, Vouched, Acknowledged, Fingerprint
  <1>4. ImporterReads' /\ ImportIsWhole'
    BY <1>a, <1>b, <1>c DEF CInv, ImporterReads, Reading, ImportIsWhole, Acknowledged
  <1>5. ImporterStates'
    BY <1>a, <1>b DEF CInv, ImporterStates, Stated, Done, Vouched
  <1> QED BY <1>a, <1>1, <1>2, <1>3, <1>4, <1>5 DEF CInv

(* The fingerprint may be that of a file somebody has written meanwhile; the  *)
(* rows that slipped in are then not acknowledged ones.                       *)
LEMMA TakeFingerprintStep == ASSUME CInv, TakeFingerprint PROVE CInv'
  <1>a. /\ imp.at = "unfenced" /\ imp' = [imp EXCEPT !.at = "printed", !.print = Fingerprint]
        /\ UNCHANGED <<source, queue, receipt, target, owner, schemaLock, bot, written, slipped>>
    BY DEF TakeFingerprint, disk, ghosts
  <1>b. /\ imp' \in Importers /\ imp'.at = "printed" /\ imp'.into = imp.into
        /\ imp'.rows = imp.rows /\ imp'.manifest = imp.manifest
        /\ imp'.print = Fingerprint /\ imp'.print.rows = source.rows
    BY <1>a, ImporterFields DEF CInv, TypeOK, Importers, Fingerprint
  <1>1. LockHolders'
    BY <1>a, <1>b DEF CInv, LockHolders, Vouched, Native
  <1>2. ImporterReads' /\ ImporterStates'
    BY <1>a, <1>b DEF CInv, ImporterReads, ImporterStates, Reading, Stated, Done, Vouched
  <1>3. ImportIsWhole'
    BY <1>a, <1>b DEF CInv, ImportIsWhole, Acknowledged, Fingerprint
  <1>4. /\ imp'.rows \subseteq written /\ imp'.print.rows \subseteq written
        /\ owner' \in {Nobody, "importer", "bot"} /\ schemaLock' \in Targets \cup {Nobody}
    BY <1>a, <1>b DEF CInv, TypeOK, RecordsArePast
  <1> QED BY <1>a, <1>b, <1>1, <1>2, <1>3, <1>4, LocalStep DEF CInv

(* The locks end with the process, what was committed stays.                  *)
LEMMA ImporterDiesStep == ASSUME CInv, ImporterDies PROVE CInv'
  <1>a. /\ imp.at # "idle" /\ imp' = IdleImporter /\ owner' = Nobody /\ schemaLock' = Nobody
        /\ UNCHANGED <<source, queue, receipt, target, bot, written, slipped>>
    BY DEF ImporterDies, disk, ghosts
  <1>b. imp'.at = "idle" /\ imp'.rows = {} /\ imp'.print.rows = {} /\ imp' \in Importers
    BY <1>a, IdleFacts
  <1>1. LockHolders'
    BY <1>a, <1>b, NothingAssumption DEF CInv, LockHolders, Vouched, Native
  <1>2. ImporterReads' /\ ImporterStates' /\ ImportIsWhole'
    BY <1>b DEF ImporterReads, ImporterStates, ImportIsWhole, Reading, Stated, Done
  <1> QED BY <1>a, <1>b, <1>1, <1>2, LocalStep DEF CInv

------------------------------------------------------------------------------
(* The theorems.                                                              *)

(* At the first start there is at most one database, the file, and it is empty. *)
LEMMA CutoverInit == Init => CInv
  <1> SUFFICES ASSUME Init PROVE CInv
    OBVIOUS
  <1> USE DEF Init
  <1>1. \A t \in Targets : target[t].rows = CopiesOf({}) /\ target[t].manifest = NoImport
    BY DEF EmptySchema
  <1>2. CopiesOf({}) \in Copies /\ CopiesOf({}) \in [Writes -> 0 .. 1]
    BY CopiesFacts
  <1>a. target \in [Targets -> SchemaStates]
    BY <1>2 DEF EmptySchema, SchemaStates
  <1>b. queue \in Queues \cup {Missing}
    BY QueueFacts
  <1>3. TypeOK
    BY <1>a, <1>b, IdleFacts DEF TypeOK, SourceStates
  <1>4. LockHolders /\ ImportsDiffer /\ RecordsArePast /\ SourceIsWhole /\ ReceiptHolds
    BY <1>1, IdleFacts, CutoverAssumption, NothingAssumption
    DEF LockHolders, ImportsDiffer, RecordsArePast, SourceIsWhole, ReceiptHolds, Acknowledged
  <1>5. ImporterReads /\ ImporterStates /\ ImportIsWhole
    BY IdleFacts DEF ImporterReads, ImporterStates, ImportIsWhole, Reading, Stated, Done
  <1> QED BY <1>1, <1>2, <1>3, <1>4, <1>5 DEF CInv

(* A step that changes nothing.                                               *)
LEMMA CutoverStutter == ASSUME CInv, UNCHANGED vars PROVE CInv'
  <1>1. UNCHANGED <<source, queue, receipt, target, owner, schemaLock, bot, imp, written, slipped>>
    BY DEF vars
  <1>2. TypeOK' /\ LockHolders' /\ ImportsDiffer' /\ RecordsArePast' /\ SourceIsWhole'
    BY <1>1 DEF CInv, TypeOK, LockHolders, Vouched, Native, ImportsDiffer, RecordsArePast, SourceIsWhole, Acknowledged
  <1>3. ReceiptHolds'
    BY <1>1 DEF CInv, ReceiptHolds, SchemaIsWhole, Vouched, Acknowledged, Fingerprint
  <1>4. ImporterReads' /\ ImporterStates' /\ ImportIsWhole'
    BY <1>1 DEF CInv, ImporterReads, ImporterStates, Vouched, FreshId, ImportIsWhole,
                Acknowledged, Fingerprint
  <1> QED BY <1>1, <1>2, <1>3, <1>4 DEF CInv

(* The invariant of the cutover: what the receipt vouches for, what the       *)
(* importer read and what it states stay true through every interleaving of   *)
(* importer, bots and other programs.                                         *)
THEOREM CutoverInductive == Spec => []CInv
  <1>1. ASSUME CInv, [Next]_vars PROVE CInv'
    <2> USE <1>1
    <2>1. ASSUME NEW d \in Databases, BotStarts(d) PROVE CInv'
      BY <2>1, BotStartsStep
    <2>2. ASSUME NEW w \in Writes, BotWrites(w) PROVE CInv'
      BY <2>2, BotWritesStep
    <2>3. ASSUME NEW w \in Writes, OtherWrites(w) PROVE CInv'
      BY <2>3, OtherWritesStep
    <2>4. CASE BotEnds
      BY <2>4, BotEndsStep
    <2>5. CASE OtherMedia
      BY <2>5, OtherMediaStep
    <2>6. CASE SourceRetired
      BY <2>6, SourceRetiredStep
    <2>7. CASE QueueLost
      BY <2>7, QueueLostStep
    <2>8. ASSUME NEW s \in Targets, StrangerCreates(s) PROVE CInv'
      BY <2>8, StrangerCreatesStep
    <2>9. ASSUME NEW s \in Targets, Take(s) PROVE CInv'
      BY <2>9, TakeStep
    <2>10. CASE BackupBegins
      BY <2>10, BackupBeginsStep
    <2>11. CASE CopyMedia
      BY <2>11, CopyMediaStep
    <2>12. CASE BackupEnds
      BY <2>12, BackupEndsStep
    <2>13. CASE Transact
      BY <2>13, TransactStep
    <2>14. CASE Commit
      BY <2>14, CommitStep
    <2>15. CASE Unfence
      BY <2>15, UnfenceStep
    <2>16. CASE TakeFingerprint
      BY <2>16, TakeFingerprintStep
    <2>17. CASE WriteReceipt
      BY <2>17, WriteReceiptStep
    <2>18. CASE ImporterDies
      BY <2>18, ImporterDiesStep
    <2>19. CASE UNCHANGED vars
      BY <2>19, CutoverStutter
    <2>20. CASE QueueRestored
      BY <2>20, QueueRestoredStep
    <2> QED
      BY <2>1, <2>2, <2>3, <2>4, <2>5, <2>6, <2>7, <2>8, <2>9, <2>10, <2>11, <2>12, <2>13,
         <2>14, <2>15, <2>16, <2>17, <2>18, <2>19, <2>20 DEF Next
  <1> QED BY <1>1, CutoverInit, PTL DEF Spec

(* What the importer vouches for is what the schema holds, row by row, and    *)
(* a retry after a lost commit or a crash puts no row in twice                *)
(* (migrate_db.py, the verification before the commit and the recovery).      *)
THEOREM ImportIsExactTheorem == Spec => []ImportIsExact
  <1>1. CInv => ImportIsExact
    BY DEF CInv, ImporterStates, Done, ImportIsExact
  <1> QED BY <1>1, CutoverInductive, PTL

(* Types; a finished import can be used; the snapshot to roll back to is      *)
(* whole.                                                                     *)
THEOREM CutoverTheorem == Spec => []CutoverInv
  <1>1. ASSUME CInv PROVE FinishedImportStarts
    <2> SUFFICES ASSUME receipt # NoReceipt PROVE FinishedImportStarts
      BY DEF FinishedImportStarts
    <2>1. PICK t \in Targets : Vouched(t)
      BY <1>1 DEF CInv, ReceiptHolds
    <2>2. SchemaIsWhole(t)
      BY <1>1, <2>1 DEF CInv, ReceiptHolds
    <2>3. t # Sqlite
      BY CutoverAssumption
    <2>4. ASSUME queue # Missing, source.there => source.rows = target[t].manifest.rows
          PROVE  ValidCutover(t)
      BY <2>1, <2>2, <2>3, <2>4 DEF ValidCutover, CutoverHolds, Vouched, SchemaIsWhole
    <2> QED BY <2>1, <2>4 DEF FinishedImportStarts, Vouched
  <1>2. ASSUME CInv PROVE ArchiveIsWhole
    BY <1>2 DEF CInv, ImporterReads, ArchiveIsWhole
  <1>3. CInv => CutoverInv
    BY <1>1, <1>2 DEF CInv, CutoverInv
  <1> QED BY <1>3, CutoverInductive, PTL

(* A start either refuses or finds every row that was ever acknowledged       *)
(* (validate_runtime_cutover): after any crash of the importer, any retry,    *)
(* any writes of other programs.                                              *)
THEOREM StartsCompleteTheorem == Spec => StartsComplete
  <1>1. ASSUME CInv, [Next]_vars, NEW d \in Databases, bot = Nobody, bot' = d
        PROVE  Acknowledged \subseteq HasRows(d)
    <2>1. d # Nobody
      BY CutoverAssumption, NothingAssumption DEF Databases
    <2>2. BotStarts(d)
      <3>1. \/ \E e \in Databases : BotStarts(e)
            \/ bot' = bot \/ bot' = Nobody
        BY <1>1 DEF Next, vars, BotWrites, OtherWrites, BotEnds, OtherMedia, SourceRetired, QueueLost,
                    QueueRestored, StrangerCreates, Take, BackupBegins, CopyMedia, BackupEnds, Transact, Commit,
                    Unfence, TakeFingerprint, WriteReceipt, ImporterDies
      <3>2. \A e \in Databases : BotStarts(e) => bot' = e
        BY DEF BotStarts
      <3> QED BY <1>1, <2>1, <3>1, <3>2
    <2>3. ValidCutover(d)
      BY <2>2 DEF BotStarts
    <2>4. CASE d = Sqlite
      BY <1>1, <2>3, <2>4 DEF ValidCutover, CInv, SourceIsWhole, HasRows, Acknowledged
    <2>5. CASE d # Sqlite
      <3>1. d \in Targets
        BY <2>5 DEF Databases
      <3> SUFFICES ASSUME receipt # NoReceipt PROVE Acknowledged \subseteq HasRows(d)
        BY <1>1, <2>3, <2>5 DEF ValidCutover, CutoverHolds, CInv, SourceIsWhole
      <3>2. Vouched(d) /\ (source.there => receipt.print = Fingerprint)
        BY <1>1, <2>3, <2>5 DEF ValidCutover, CutoverHolds, Vouched
      <3>3. SchemaIsWhole(d)
        BY <1>1, <3>1, <3>2 DEF CInv, ReceiptHolds, Vouched
      <3>4. ~source.there \/ receipt.print.rows = source.rows
        BY <3>2 DEF Fingerprint
      <3> QED BY <2>5, <3>3, <3>4 DEF SchemaIsWhole, HasRows
    <2> QED BY <2>4, <2>5
  <1>2. CInv /\ [Next]_vars =>
            [\A d \in Databases : bot = Nobody /\ bot' = d => written \ slipped \subseteq HasRows(d)]_vars
    BY <1>1 DEF Acknowledged
  <1> QED BY <1>2, CutoverInductive, PTL DEF Spec, StartsComplete
==============================================================================
