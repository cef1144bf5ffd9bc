----------------------------- MODULE ReplayBudget -----------------------------
(* The loop of the send worker (bot_manager.py, _queued_send_worker, and      *)
(* OutboundQueueScheduler of outbound.py) seen from the sizes of the rows:    *)
(* the budget of bytes in flight, the quarantine of rows that are too large,  *)
(* the conversion of version 1 rows, the files each step leaves behind, and   *)
(* the event the worker sleeps on.  What a call means for Telegram, the       *)
(* message log and the caller is the matter of OutboundScheduler.             *)
EXTENDS PayloadStore

CONSTANTS
    Found,         \* tables an earlier run may have left, as sequences of rows
    Calls,         \* requests: [chat, prio, kept, opaque, meta, files]
    Workers,       \* permits of the scheduler
    MaxTroubles,   \* bound: refusals, retries, failed commits
    MaxStarts      \* bound: starts after the first

(* mkstemp gave the files of an earlier run their names, so no two rows share *)
(* one, and version 1 rows have none.                                         *)
Table(old) ==
    /\ \A i \in DOMAIN old : old[i] \in Row /\ (old[i].ver = 1 => old[i].media = {})
    /\ \A i, j \in DOMAIN old : i # j => old[i].media \cap old[j].media = {}

ASSUME ReplayAssumption ==
    /\ \A old \in Found : Table(old)
    /\ \A c \in Calls : c \in [chat : Chats, prio : {0, 1}, kept : BOOLEAN,
                               opaque : Sizes, meta : Sizes, files : Nat]
    /\ Workers \in Nat /\ MaxTroubles \in Nat /\ MaxStarts \in Nat

VARIABLES
    life,          \* "up", "stopping" or "down"
    pc,            \* where the worker is in its loop
    todo,          \* rows the current part of the loop has still to look at
    event,         \* wake_event
    deadline,      \* next_deadline is set
    inFlight,      \* submitted calls
    done,          \* those whose future is done
    retries,       \* blocking_media_retries
    later,         \* _row_not_before
    quarantined,   \* quarantined_rows
    inHand,        \* a row just converted, about to be submitted; else 0
    troubles, starts

loop == <<pc, todo, inHand>>
calls == <<inFlight, done, retries, later>>
vars == <<store, life, loop, event, deadline, calls, quarantined, troubles, starts>>

TypeOK ==
    /\ StoreTypeOK
    /\ life \in {"up", "stopping", "down"}
    /\ pc \in {"clear", "lock", "harvest", "sweep", "reconcile", "retries", "heads", "wait", "drain"}
    /\ todo \subseteq Ids /\ inHand \in 0 .. MaxRows
    /\ event \in BOOLEAN /\ deadline \in BOOLEAN
    /\ done \subseteq inFlight /\ inFlight \subseteq Ids
    /\ retries \subseteq Ids /\ later \subseteq Ids /\ quarantined \subseteq Ids
    /\ Cardinality(inFlight) <= Workers
    /\ troubles \in 0 .. MaxTroubles /\ starts \in 0 .. MaxStarts

Init ==
    /\ \E old \in Found :
          rows = [i \in Ids |-> IF i \in DOMAIN old THEN old[i] ELSE NoRow]
    /\ files = Referenced
    /\ draft = NoDraft /\ trash = {} /\ swept = CanSweep
    /\ life = "up" /\ pc = "clear" /\ todo = {} /\ inHand = 0
    /\ event = FALSE /\ deadline = FALSE
    /\ inFlight = {} /\ done = {} /\ retries = {} /\ later = {}
    /\ quarantined = {} /\ troubles = 0 /\ starts = 0

Trouble == troubles < MaxTroubles /\ troubles' = troubles + 1
(* The lock of the scheduler: the worker has it, or a caller who is writing.  *)
WorkerLocks == pc \in {"harvest", "reconcile", "retries", "heads", "drain"}
LockFree == ~WorkerLocks /\ Unwritten
(* The worker goes on once what it removed is unlinked.                       *)
At(place) == pc = place /\ life # "down" /\ trash = {}

Chat(i) == rows[i].chat
Busy == {Chat(i) : i \in inFlight}
RetryChats == {Chat(i) : i \in retries}
Bytes(S) == MapThenSumSet(LAMBDA i : StoredSize(rows[i]), S)
RetainedBytes == Bytes(inFlight \union retries)
HasPermit == Cardinality(inFlight) < Workers

------------------------------------------------------------------------------
(* Callers.  The event is set under the lock of the scheduler.                *)

EnqueueBegins(i, c) ==
    /\ life = "up" /\ LockFree
    /\ Prepare(i, c)
    /\ UNCHANGED <<life, loop, event, deadline, calls, quarantined, troubles, starts>>

EnqueueRequests(c) ==
    /\ life # "down" /\ ~WorkerLocks /\ ~Unwritten
    /\ EnqueueMany(c)
    /\ event' = TRUE
    /\ UNCHANGED <<life, loop, deadline, calls, quarantined, troubles, starts>>

EnqueueFails ==
    /\ life # "down" /\ ~WorkerLocks /\ ~Unwritten
    /\ CleanupCreatedMedia /\ Trouble
    /\ UNCHANGED <<life, loop, event, deadline, calls, quarantined, starts>>

------------------------------------------------------------------------------
(* Executor threads, the clock, and others who wake the worker.               *)

(* The callback that sets the event runs after the future is done; a worker   *)
(* that harvests the call before that is only woken once more.                *)
CallEnds(i) ==
    /\ i \in inFlight \ done
    /\ done' = done \union {i}
    /\ event' = TRUE
    /\ UNCHANGED <<store, life, loop, deadline, inFlight, retries, later,
                   quarantined, troubles, starts>>

NotBeforeComes(i) ==
    /\ i \in later
    /\ later' = later \ {i}
    /\ UNCHANGED <<store, life, loop, event, deadline, inFlight, done, retries,
                   quarantined, troubles, starts>>

(* A bot of the pool changed, a row was confirmed, another chat has traffic.  *)
OtherWake ==
    /\ life # "down" /\ event' = TRUE
    /\ UNCHANGED <<store, life, loop, deadline, calls, quarantined, troubles, starts>>

------------------------------------------------------------------------------
(* The loop.                                                                  *)

ClearEvent ==
    /\ At("clear") /\ life = "up"
    /\ event' = FALSE /\ pc' = "lock"
    /\ UNCHANGED <<store, life, todo, inHand, deadline, calls, quarantined, troubles, starts>>

HarvestBegins ==
    /\ At("lock") /\ Unwritten
    /\ todo' = done /\ pc' = "harvest"
    /\ UNCHANGED <<store, life, inHand, event, deadline, calls, quarantined, troubles, starts>>

Harvested(i) ==
    /\ At("harvest") \/ At("drain")
    /\ i \in done /\ (pc = "harvest" => i \in todo)
    /\ inFlight' = inFlight \ {i} /\ done' = done \ {i} /\ todo' = todo \ {i}
    /\ event' = TRUE
    /\ UNCHANGED <<life, pc, inHand, quarantined, starts>>

(* A success, or a failure that ends the call.  A logged call passes through  *)
(* its receipt first.                                                         *)
HarvestTerminal(i) ==
    /\ Harvested(i)
    /\ IF rows[i].kept THEN Delete(i) ELSE CleanupPayloadMedia({i})
    /\ UNCHANGED <<deadline, retries, later, troubles>>

HarvestRetry(i) ==
    /\ Harvested(i) /\ Trouble
    /\ rows[i].kept /\ rows[i].prio = 0
    /\ Hold(i, FALSE)
    /\ later' = IF life = "up" THEN later \union {i} ELSE later
    /\ deadline' = (deadline \/ life = "up")
    /\ UNCHANGED retries

HarvestUncertain(i) ==
    /\ Harvested(i) /\ Trouble
    /\ rows[i].kept
    /\ Hold(i, TRUE)
    /\ UNCHANGED <<deadline, retries, later>>

HarvestMediaRetry(i) ==
    /\ Harvested(i) /\ Trouble
    /\ ~rows[i].kept /\ life = "up"
    /\ retries' = retries \union {i}
    /\ deadline' = TRUE
    /\ UNCHANGED <<store, later>>

HarvestDone ==
    /\ At("harvest") /\ todo = {}
    /\ pc' = "sweep"
    /\ UNCHANGED <<store, life, todo, inHand, event, deadline, calls, quarantined, troubles, starts>>

DispatchBegins ==
    /\ At("sweep") /\ Unwritten
    /\ IF life = "up" THEN deadline' = FALSE /\ pc' = "reconcile"
                      ELSE pc' = "wait" /\ UNCHANGED deadline
    /\ UNCHANGED <<store, life, todo, inHand, event, calls, quarantined, troubles, starts>>

StopForPersistenceError ==
    /\ life' = "stopping" /\ pc' = "wait" /\ todo' = {} /\ later' = {} /\ event' = TRUE
    /\ UNCHANGED <<inHand, deadline, inFlight, done, retries, quarantined, starts>>

(* Receipts of earlier runs.                                                  *)
ReconcileReceipt(i) ==
    /\ At("reconcile")
    /\ rows[i].st = "sent_pending" /\ Fits(rows[i].meta)
    /\ Delete(i)
    /\ UNCHANGED <<life, loop, event, deadline, calls, quarantined, troubles, starts>>

ReceiptTooLarge(i) ==
    /\ At("reconcile")
    /\ rows[i].st = "sent_pending" /\ ~Fits(rows[i].meta)
    /\ StopForPersistenceError
    /\ UNCHANGED <<store, troubles>>

ReconcileEnds ==
    /\ At("reconcile")
    /\ \A i \in Ids : rows[i].st # "sent_pending"
    /\ pc' = "retries" /\ todo' = retries
    /\ UNCHANGED <<store, life, inHand, event, deadline, calls, quarantined, troubles, starts>>

------------------------------------------------------------------------------
(* Delayed media edits first.                                                 *)

RetryAgain(i) ==
    /\ At("retries") /\ i \in todo
    /\ Chat(i) \notin Busy /\ HasPermit
    /\ inFlight' = inFlight \union {i} /\ retries' = retries \ {i} /\ todo' = todo \ {i}
    /\ UNCHANGED <<store, life, pc, inHand, event, deadline, done, later,
                   quarantined, troubles, starts>>

RetryWaits(i) ==
    /\ At("retries") /\ i \in todo
    /\ IF Chat(i) \in Busy \/ ~HasPermit THEN UNCHANGED troubles ELSE Trouble
    /\ deadline' = TRUE /\ todo' = todo \ {i}
    /\ UNCHANGED <<store, life, pc, inHand, event, calls, quarantined, starts>>

FailBlockingRetry(i) ==
    /\ At("retries") /\ i \in todo /\ Trouble
    /\ CleanupPayloadMedia({i})
    /\ retries' = retries \ {i} /\ todo' = todo \ {i}
    /\ UNCHANGED <<life, pc, inHand, event, deadline, inFlight, done, later,
                   quarantined, starts>>

------------------------------------------------------------------------------
(* Then one head for each destination.                                        *)

Ready(ch, excluded) ==
    {i \in Ids \ excluded : Queued(i) /\ ~rows[i].held /\ Chat(i) = ch}
Heads(excluded) ==
    {i \in Ids :
        LET ready == Ready(Chat(i), excluded)
            blocking == {j \in ready : rows[j].prio = 1}
        IN  i \in ready /\ i = Min(IF blocking # {} THEN blocking ELSE ready)}

(* Rows that no longer need the quarantine leave it; so does every row of     *)
(* version 1, for one more attempt to convert it.                             *)
StillQuarantined == {i \in quarantined : Queued(i) /\ Oversized(i) /\ rows[i].ver # 1}

HeadsBegin ==
    /\ At("retries") /\ todo = {}
    /\ IF HasPermit
       THEN /\ quarantined' = StillQuarantined
            /\ todo' = Heads(StillQuarantined)
            /\ pc' = "heads"
       ELSE pc' = "wait" /\ UNCHANGED <<quarantined, todo>>
    /\ UNCHANGED <<store, life, inHand, event, deadline, calls, troubles, starts>>

Head(i) == At("heads") /\ i \in todo /\ Unwritten /\ inHand = 0
Free(i) == Chat(i) \notin Busy \union RetryChats
NeedsRecovery(i) == Oversized(i) /\ rows[i].ver = 1
AnyRoom(i) == NeedsRecovery(i) \/ ~Oversized(i)   \* mutant: each row is measured alone
RoomFor(i) == NeedsRecovery(i) \/ RetainedBytes + StoredSize(rows[i]) <= Budget
Admitted(i) == /\ Free(i)
               /\ NeedsRecovery(i) \/ ~Oversized(i)
               /\ RoomFor(i)
Passed(i) == todo' = todo \ {i} /\ UNCHANGED <<pc, inHand>>

(* Its destination is busy, or the bytes in flight leave no room for it.      *)
PassOver(i) ==
    /\ Head(i)
    /\ ~Free(i) \/ (~Oversized(i) /\ ~RoomFor(i)) \/ (Admitted(i) /\ i \notin later /\ ~HasPermit)
    /\ Passed(i)
    /\ UNCHANGED <<store, life, event, deadline, calls, quarantined, troubles, starts>>

(* Mutant: what cannot be replayed is discarded.                              *)
DiscardOversized(i) ==
    /\ Head(i) /\ Free(i)
    /\ Oversized(i) /\ rows[i].ver # 1
    /\ Delete(i) /\ Passed(i)
    /\ UNCHANGED <<life, event, deadline, calls, quarantined, troubles, starts>>
Quarantine(i) ==
    /\ Head(i) /\ Free(i)
    /\ Oversized(i) /\ rows[i].ver # 1
    /\ quarantined' = quarantined \union {i}
    /\ Passed(i)
    /\ UNCHANGED <<store, life, event, deadline, calls, troubles, starts>>

(* It is too early for it, or its sender is not known or has to rest.         *)
PutOff(i) ==
    /\ Head(i) /\ Admitted(i)
    /\ IF i \in later THEN UNCHANGED troubles ELSE HasPermit /\ Trouble
    /\ deadline' = TRUE
    /\ Passed(i)
    /\ UNCHANGED <<store, life, event, calls, quarantined, starts>>

Chosen(i) == Head(i) /\ Admitted(i) /\ i \notin later /\ HasPermit

(* The required sender is gone.  A row of the history is held.  Whether       *)
(* another is a supplement, and held too, is asked of its payload, and        *)
(* loading an oversized one stops the scheduler.                              *)
SenderGone(i) ==
    /\ Chosen(i) /\ Trouble
    /\ \/ /\ Hold(i, TRUE) \/ (~NeedsRecovery(i) /\ Delete(i))
          /\ Passed(i) /\ event' = TRUE
          /\ UNCHANGED <<life, deadline, calls, quarantined, starts>>
       \/ NeedsRecovery(i) /\ StopForPersistenceError /\ UNCHANGED store

Undecodable(i) ==
    /\ Chosen(i) /\ ~NeedsRecovery(i) /\ rows[i].ver = 0
    /\ Hold(i, TRUE)
    /\ Passed(i) /\ event' = TRUE
    /\ UNCHANGED <<life, deadline, calls, quarantined, troubles, starts>>

Submits(i) ==
    /\ IF rows[i].kept THEN Hold(i, TRUE) ELSE DeleteKeepingMedia(i)
    /\ inFlight' = inFlight \union {i}
    /\ todo' = todo \ {i} /\ inHand' = 0
    /\ UNCHANGED <<life, pc, event, deadline, done, retries, later, quarantined, troubles, starts>>

Dispatch(i) == /\ Chosen(i) /\ ~NeedsRecovery(i) /\ rows[i].ver # 0
               /\ Submits(i)

NotSubmitted(i) ==
    /\ Chosen(i) /\ ~NeedsRecovery(i) /\ rows[i].ver # 0 /\ Trouble
    /\ Passed(i)
    /\ IF rows[i].kept
       THEN deadline' = TRUE /\ UNCHANGED <<store, event>>
       ELSE Delete(i) /\ event' = TRUE /\ UNCHANGED deadline
    /\ UNCHANGED <<life, calls, quarantined, starts>>

RecoveryBegins(i) ==
    /\ Chosen(i) /\ NeedsRecovery(i)
    /\ StreamLegacyPickle(i)
    /\ UNCHANGED <<life, loop, event, deadline, calls, quarantined, troubles, starts>>

RecoveryCommits(i) ==
    /\ At("heads")
    /\ RecoverLegacyMediaPayload(i)
    /\ inHand' = i
    /\ UNCHANGED <<life, pc, todo, event, deadline, calls, quarantined, troubles, starts>>

(* What it weighs now is looked at again.                                     *)
DispatchRecovered == At("heads") /\ inHand # 0 /\ ~Oversized(inHand) /\ Submits(inHand)

QuarantineRecovered ==
    /\ At("heads") /\ inHand # 0 /\ Oversized(inHand)
    /\ quarantined' = quarantined \union {inHand}
    /\ todo' = todo \ {inHand} /\ inHand' = 0
    /\ UNCHANGED <<store, life, pc, event, deadline, calls, troubles, starts>>

(* What is not media does not fit: the row is left alone.  It is no pickle    *)
(* that can be converted: it is held.  A transaction or a file fails: the     *)
(* scheduler stops.                                                           *)
Converting(i) == At("heads") /\ draft.row = i /\ rows[i].ver = 1

RecoveryTooLarge(i) ==
    /\ Converting(i) /\ ~Streamable(rows[i])
    /\ CleanupCreatedMedia
    /\ quarantined' = quarantined \union {i}
    /\ Passed(i)
    /\ UNCHANGED <<life, event, deadline, calls, troubles, starts>>

RecoveryInvalid(i) ==
    /\ Converting(i) /\ Trouble
    /\ rows' = [rows EXCEPT ![i].held = TRUE]
    /\ files' = files \ draft.new /\ draft' = NoDraft
    /\ Passed(i) /\ event' = TRUE
    /\ UNCHANGED <<trash, swept, life, deadline, calls, quarantined, starts>>

RecoveryStops(i) ==
    /\ Converting(i) /\ Trouble
    /\ CleanupCreatedMedia
    /\ StopForPersistenceError

RecoveryFails(i) == RecoveryTooLarge(i) \/ RecoveryInvalid(i) \/ RecoveryStops(i)

(* Mutant: the event is cleared after the work, just before the wait.         *)
HeadsEndClearing ==
    /\ At("heads") /\ todo = {} /\ Unwritten /\ inHand = 0
    /\ pc' = "wait" /\ event' = FALSE
    /\ UNCHANGED <<store, life, todo, inHand, deadline, calls, quarantined, troubles, starts>>
HeadsEnd ==
    /\ At("heads") /\ todo = {} /\ Unwritten /\ inHand = 0
    /\ pc' = "wait"
    /\ UNCHANGED <<store, life, todo, inHand, event, deadline, calls, quarantined, troubles, starts>>

Wait ==
    /\ At("wait") /\ (event \/ deadline)
    /\ pc' = "clear"
    /\ UNCHANGED <<store, life, todo, inHand, event, deadline, calls, quarantined, troubles, starts>>

------------------------------------------------------------------------------
(* Stop, crash and start.                                                     *)

Stop ==
    /\ life = "up" /\ LockFree /\ starts < MaxStarts
    /\ life' = "stopping" /\ event' = TRUE /\ later' = {}
    /\ UNCHANGED <<store, loop, deadline, inFlight, done, retries, quarantined, troubles, starts>>

DrainBegins ==
    /\ At("clear") /\ life = "stopping" /\ Unwritten
    /\ CleanupPayloadMedia(retries)
    /\ retries' = {} /\ pc' = "drain"
    /\ UNCHANGED <<life, todo, inHand, event, deadline, inFlight, done, later,
                   quarantined, troubles, starts>>

ProcessGone ==
    /\ life' = "down" /\ pc' = "clear" /\ todo' = {} /\ inHand' = 0
    /\ event' = FALSE /\ deadline' = FALSE
    /\ inFlight' = {} /\ done' = {} /\ retries' = {} /\ later' = {}
    /\ quarantined' = {}
    /\ UNCHANGED <<store, troubles, starts>>

DrainEnds == At("drain") /\ ProcessGone
Crash == life # "down" /\ starts < MaxStarts /\ ProcessGone

Start ==
    /\ life = "down" /\ starts < MaxStarts
    /\ Open
    /\ life' = "up" /\ starts' = starts + 1
    /\ UNCHANGED <<loop, event, deadline, calls, quarantined, troubles>>

UnlinkRemoved ==
    /\ life # "down" /\ Unlink
    /\ UNCHANGED <<life, loop, event, deadline, calls, quarantined, troubles, starts>>
------------------------------------------------------------------------------
Caller == EnqueueFails \/ \E c \in Calls : EnqueueRequests(c)

HarvestRow(i) == HarvestTerminal(i) \/ HarvestRetry(i) \/ HarvestUncertain(i) \/ HarvestMediaRetry(i)
RetryRow(i) == RetryAgain(i) \/ RetryWaits(i) \/ FailBlockingRetry(i)
HeadRow(i) ==
    \/ PassOver(i) \/ Quarantine(i) \/ PutOff(i) \/ SenderGone(i) \/ Undecodable(i)
    \/ Dispatch(i) \/ NotSubmitted(i)
    \/ RecoveryBegins(i) \/ RecoveryCommits(i) \/ RecoveryFails(i)
Worker ==
    \/ ClearEvent \/ HarvestBegins \/ HarvestDone \/ DispatchBegins \/ ReconcileEnds
    \/ HeadsBegin \/ DispatchRecovered \/ QuarantineRecovered \/ HeadsEnd \/ Wait
    \/ DrainBegins \/ DrainEnds \/ UnlinkRemoved
    \/ \E i \in Ids : \/ HarvestRow(i) \/ ReconcileReceipt(i) \/ ReceiptTooLarge(i)
                      \/ RetryRow(i) \/ HeadRow(i)

Next ==
    \/ Worker \/ Caller \/ Stop \/ Crash \/ Start
    \/ \E i \in Ids : \/ CallEnds(i) \/ NotBeforeComes(i)
                      \/ \E c \in Calls : EnqueueBegins(i, c)

Spec == Init /\ [][Next]_vars

(* The worker and a caller inside the queue run on; each HTTP request ends,   *)
(* in an answer or a timeout, and its callback runs; time passes.  Nothing is *)
(* assumed of stops, crashes and starts.                                      *)
Fairness ==
    /\ WF_vars(Worker) /\ WF_vars(Caller)
    /\ WF_vars(\E i \in Ids : CallEnds(i))
    /\ WF_vars(\E i \in Ids : NotBeforeComes(i))
FairSpec == Spec /\ Fairness

(* The same when others wake the worker, too, again and again.                *)
BusySpec == Init /\ [][Next \/ OtherWake]_vars /\ Fairness /\ WF_vars(OtherWake)

------------------------------------------------------------------------------
(* Files.                                                                     *)

(* A row that may still be sent finds its media: whatever was rolled back,    *)
(* converted, cleaned up or interrupted, every file named by a row of the     *)
(* table, by a call in flight or by a delayed media edit is there.  Start     *)
(* refuses to open a queue that names a missing file (outbound.py:1178).      *)
RowHasItsFiles ==
    life # "down" => \A i \in Ids : InTable(i) \/ i \in inFlight \union retries
                        => rows[i].media \ trash \subseteq files

(* Files do not pile up: after a start that could look into every row, each   *)
(* file belongs to a row, to a call in flight or a delayed media edit, or is  *)
(* just being written or unlinked.                                            *)
NoFileLeaks ==
    life = "up" /\ swept => files \subseteq
        Referenced \union draft.new \union trash \union UNION {rows[i].media : i \in inFlight \union retries}

(* A file is unlinked only when no row and no call needs it any more: what is *)
(* waiting to be unlinked is nobody's.                                        *)
TrashIsGarbage ==
    life # "down" => trash \cap (Referenced \union UNION {rows[i].media : i \in inFlight \union retries}) = {}

(* Table and directory agree, at every step of every cleanup.                 *)
FilesAgree == TypeOK /\ RowHasItsFiles /\ NoFileLeaks /\ TrashIsGarbage

------------------------------------------------------------------------------
(* Sizes.                                                                     *)

(* Whenever a row is submitted that did not have to be converted, all calls   *)
(* in flight and all delayed media edits fit the budget together              *)
(* (dispatch_once, retained_bytes).                                           *)
BudgetKept ==
    [][\A i \in Ids : i \in inFlight' \ (inFlight \union retries) /\ i # inHand
          => RetainedBytes' <= Budget]_vars

(* A queued row that cannot be brought under the budget, and a receipt above  *)
(* it, stay in the table as they are, for recovery by hand; the most that     *)
(* happens to one is a hold, on a row of version 1.                           *)
OversizedRetained ==
    [][\A i \in Ids :
          \/ Queued(i) /\ Oversized(i) /\ ~Streamable(rows[i])
          \/ rows[i].st = "sent_pending" /\ ~Fits(rows[i].meta)
          => \/ rows'[i] = rows[i]
             \/ rows[i].ver = 1 /\ rows'[i] = [rows[i] EXCEPT !.held = TRUE]]_vars

------------------------------------------------------------------------------
(* Progress.                                                                  *)

Runnable(i) == life = "up" /\ Queued(i) /\ ~rows[i].held /\ rows[i].ver # 0 /\ ~Oversized(i)
BehindOversized(i) == \E j \in Ids : Queued(j) /\ ~rows[j].held /\ Oversized(j) /\ Chat(j) = Chat(i)

(* The worker never sleeps through work: a row that may be sent and that has  *)
(* no oversized row in its chat is dispatched, refused or held at last,       *)
(* without anything else having to wake the worker.                           *)
RowsMove == \A i \in Ids : Runnable(i) /\ ~BehindOversized(i)
                ~> (~Runnable(i) \/ BehindOversized(i))

(* One unreplayable row does not strand newer traffic of its destination      *)
(* (comment in OutboundQueue.heads, outbound.py:1452).                        *)
NewerRowsPass == \A i \in Ids : Runnable(i) ~> ~Runnable(i)
==============================================================================
