---------------------------- MODULE BudgetInvariant ----------------------------
(* Why the files beside the outbound queue and its table agree: the inductive *)
(* invariant that ReplayBudget_proofs shows, as a state predicate that TLC    *)
(* checks too.                                                                *)
EXTENDS ReplayBudget

(* The rows whose files are still needed: those of the table, and those of    *)
(* the calls in flight and of delayed media edits, whose rows may be gone.    *)
Owner(i) == InTable(i) \/ i \in inFlight \union retries

(* Every file has one owner at most: a row, the transaction under way or the  *)
(* removal under way.                                                         *)
FilesOwned ==
    /\ trash \subseteq files
    /\ draft.new \subseteq files \ trash
    /\ \A i \in Ids : Owner(i) => rows[i].media \subseteq files \ (trash \union draft.new)
    /\ \A i, j \in Ids : i # j /\ Owner(i) /\ Owner(j) => rows[i].media \cap rows[j].media = {}

(* After a start that could look into every row it has one at least.          *)
NoOrphans ==
    life = "up" /\ swept =>
        \A f \in files : f \in trash \union draft.new \/ \E i \in Ids : Owner(i) /\ f \in rows[i].media

InlineOwnsNone == \A i \in Ids : rows[i].ver = 1 => rows[i].media = {}

(* A call in flight has a held row in the table, or none if it may not be     *)
(* repeated; it fits the budget by itself.                                    *)
CallsKept ==
    /\ \A i \in inFlight \union retries :
          rows[i].st = (IF rows[i].kept THEN "queued" ELSE "removed") /\ ~Oversized(i)
    /\ \A i \in retries : ~rows[i].kept
    /\ inFlight \cap retries = {}

(* What the worker still has to look at, and the row it has just converted.   *)
Submittable(i) == Queued(i) /\ i \notin inFlight \union retries /\ HasPermit
WorkAhead ==
    /\ pc = "retries" => todo \subseteq retries
    /\ pc = "heads" => \A i \in todo : Queued(i)
    /\ inHand # 0 => pc = "heads" /\ Unwritten /\ Submittable(inHand)

(* Who writes files: the worker that converts a row, or a caller for a row    *)
(* that is not there yet, while the worker has not the lock.                  *)
Drafted ==
    /\ ~Unwritten => draft.row \in Ids
    /\ ~Unwritten /\ life # "down" =>
          IF pc = "heads" THEN Submittable(draft.row)
          ELSE ~WorkerLocks /\ rows[draft.row].st = "absent"

(* Nothing of a process outlives it but the store.                            *)
DownIsEmpty == life = "down" => pc = "clear" /\ inFlight = {} /\ retries = {}

Control == CallsKept /\ WorkAhead /\ Drafted /\ DownIsEmpty
BInv == TypeOK /\ FilesOwned /\ NoOrphans /\ InlineOwnsNone /\ Control
==============================================================================
