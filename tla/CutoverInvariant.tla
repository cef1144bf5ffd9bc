--------------------------- MODULE CutoverInvariant --------------------------
(* Why a start that is admitted finds everything: the inductive invariant     *)
(* that DatabaseCutover_proofs shows, as a state predicate that TLC checks    *)
(* too.                                                                       *)
EXTENDS DatabaseCutover

Acknowledged == written \ slipped

(* The schema that the receipt names.                                         *)
Vouched(t) ==
    /\ receipt # NoReceipt /\ target[t].manifest # NoImport
    /\ target[t].manifest.id = receipt.id

(* Phases of the importer in which it has read the source and the fences      *)
(* hold, in which it has a manifest, and in which its commit was answered.    *)
Reading == {"copying", "copied", "archived", "staged", "committed"}
Stated == {"staged", "committed", "unfenced", "printed"}
Done == {"committed", "unfenced", "printed"}

------------------------------------------------------------------------------
(* A bot on a schema that no import filled, in a directory without a receipt. *)
Native(t) == receipt = NoReceipt /\ target[t].manifest = NoImport

(* One process at a time, and a bot on PostgreSQL was admitted by a receipt,  *)
(* unless it is a native deployment.                                          *)
LockHolders ==
    /\ owner = "importer" <=> imp.at # "idle"
    /\ owner = "bot" <=> bot # Nobody
    /\ bot # Nobody => queue # Missing
    /\ bot \in Targets => Vouched(bot) \/ Native(bot)
    /\ bot = Sqlite => receipt = NoReceipt /\ source.there

(* An import has an identity of its own.                                      *)
ImportsDiffer ==
    \A t, u \in Targets :
        /\ target[t].manifest # NoImport /\ target[u].manifest # NoImport
        /\ target[t].manifest.id = target[u].manifest.id
        => t = u

(* No record is ahead of the rows: what is written next differs from it.      *)
RecordsArePast ==
    /\ source.rows \subseteq written
    /\ \A t \in Targets :
          target[t].manifest # NoImport => target[t].manifest.rows \subseteq written
    /\ receipt # NoReceipt => receipt.print.rows \subseteq written
    /\ imp.rows \subseteq written /\ imp.print.rows \subseteq written

(* Without a receipt the file is the only database that a start answers for.  *)
SourceIsWhole ==
    /\ receipt = NoReceipt => Acknowledged \subseteq source.rows
    /\ ~source.there => source.rows = {}

(* With one, a row is in its schema or still in the file; as long as the file *)
(* is the one that was imported, or is gone, it is in the schema.             *)
SchemaIsWhole(t) ==
    /\ Acknowledged \subseteq RowsIn(target[t].rows) \cup source.rows
    /\ ~source.there \/ receipt.print.rows = source.rows
          => Acknowledged \subseteq RowsIn(target[t].rows)
    /\ source.there /\ source.rows = target[t].manifest.rows
          => receipt.print = Fingerprint /\ ~source.wal

ReceiptHolds ==
    receipt # NoReceipt =>
        /\ \E t \in Targets : Vouched(t)
        /\ \A t \in Targets : Vouched(t) => SchemaIsWhole(t)

------------------------------------------------------------------------------
(* What the importer read is still so while it uses it.                       *)
ImporterReads ==
    /\ imp.at # "idle" => imp.into \in Targets /\ source.there
    /\ imp.at \in Reading => imp.rows = source.rows
    /\ imp.at \in {"archived", "staged", "committed"} => imp.archive = Relocated(imp.before)
    /\ imp.at \in {"staged", "committed"} =>
          imp.manifest.queue = imp.before /\ imp.manifest.backup = imp.archive

(* Its manifest is that of its target, except for a queue that was put back,  *)
(* or one that no target has.                                                 *)
ImporterStates ==
    /\ imp.at \in Stated =>
          /\ imp.manifest # NoImport /\ imp.manifest.rows = imp.rows
          /\ receipt # NoReceipt => Vouched(imp.into)
    /\ imp.at = "staged" =>
          IF target[imp.into].manifest = NoImport THEN FreshId(imp.manifest.id)
          ELSE /\ target[imp.into].manifest.id = imp.manifest.id
               /\ target[imp.into].manifest.rows = imp.manifest.rows
               /\ imp.stage = target[imp.into].rows
    /\ imp.at \in Done =>
          /\ target[imp.into].rows = CopiesOf(imp.rows)
          /\ target[imp.into].manifest = imp.manifest

(* Up to the fingerprint its rows are all that were acknowledged; a row that  *)
(* comes later makes the file another one.                                    *)
ImportIsWhole ==
    /\ imp.at \in {"committed", "unfenced"} => Acknowledged \subseteq imp.rows
    /\ imp.at = "unfenced" => (source.rows = imp.rows => ~source.wal)
    /\ imp.at = "printed" =>
          /\ Acknowledged \subseteq imp.rows \cup source.rows
          /\ imp.print.rows = source.rows => Acknowledged \subseteq imp.rows
          /\ source.rows = imp.rows => imp.print = Fingerprint /\ ~source.wal

CInv ==
    /\ TypeOK
    /\ LockHolders
    /\ ImportsDiffer
    /\ RecordsArePast
    /\ \A t \in Targets : target[t].rows \in [Writes -> 0 .. 1]
    /\ SourceIsWhole
    /\ ReceiptHolds
    /\ ImporterReads
    /\ ImporterStates
    /\ ImportIsWhole
==============================================================================
