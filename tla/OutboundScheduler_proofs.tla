----------------------- MODULE OutboundScheduler_proofs ----------------------
(* Theorems about OutboundQueue and OutboundScheduler.  First, what each      *)
(* committed transaction does to the table: the table keeps its type, the     *)
(* rows the transaction is not about stay as they are, and the row it is      *)
(* about keeps its request.  Then, that the invariant of OutboundInvariant is *)
(* inductive for every number of rows and workers and every set of chats,     *)
(* calls and troubles.  Then every step of the scheduler is put in one of a   *)
(* few kinds by what it does to the rows; the books of the worker, the        *)
(* exactness of the table, the steps of DeliveryPromise and the order of a    *)
(* destination are shown kind by kind.                                        *)
EXTENDS OutboundInvariant, FiniteSetTheorems, TLAPS

------------------------------------------------------------------------------
(* Transactions of the table.                                                 *)

OthersKept(i) == \A j \in Ids \ {i} : queue'[j] = queue[j]

(* The fields of a row that decide whether it may be dispatched.              *)
RowBecomes(i, st, hold) ==
    /\ queue'[i].st = st
    /\ queue'[i].hold = hold
    /\ queue'[i].call = queue[i].call

(* A new row satisfies the row type.                                          *)
LEMMA NewRowType ==
    ASSUME NEW c \in Calls \union {Supplement}, NEW ch \in Chats
    PROVE  NewRow(c, ch) \in Row
BY DEF NewRow, Row, Statuses, Holds

(* The initial table satisfies the table type.                                *)
LEMMA QueueInitType == QueueInit => QueueTypeOK
<1>1. (CHOOSE ch \in Chats : TRUE) \in Chats
  BY BoundsAssumption
<1>2. NewRow(Supplement, CHOOSE ch \in Chats : TRUE) \in Row
  BY <1>1, NewRowType
<1>3. NoRow \in Row
  BY <1>2 DEF NoRow, Row, Statuses
<1> QED
  BY <1>3 DEF QueueInit, QueueTypeOK

(* enqueue_many inserts one runnable row at an id never used before.          *)
LEMMA EnqueueEffect ==
    ASSUME QueueTypeOK, NEW i \in Ids, NEW c \in Calls \union {Supplement}, NEW ch \in Chats,
           Enqueue(i, c, ch)
    PROVE  /\ QueueTypeOK'
           /\ OthersKept(i)
           /\ queue[i].st = "absent"
           /\ queue'[i].st = "queued" /\ queue'[i].hold = "none" /\ queue'[i].call = c
<1>1. NewRow(c, ch) \in Row
  BY NewRowType
<1>2. queue' = [queue EXCEPT ![i] = NewRow(c, ch)] /\ queue[i].st = "absent"
  BY DEF Enqueue, IsNextId
<1>3. QueueTypeOK' /\ OthersKept(i) /\ queue'[i] = NewRow(c, ch)
  BY <1>1, <1>2 DEF QueueTypeOK, OthersKept
<1> QED
  BY <1>2, <1>3 DEF NewRow

(* begin_delivery_attempt marks a runnable row.                               *)
LEMMA BeginEffect ==
    ASSUME QueueTypeOK, NEW i \in Ids, BeginDeliveryAttempt(i)
    PROVE  /\ QueueTypeOK'
           /\ OthersKept(i)
           /\ Queued(i) /\ queue[i].hold = "none"
           /\ RowBecomes(i, "queued", "in_flight")
BY DEF QueueTypeOK, BeginDeliveryAttempt, OthersKept, RowBecomes, Queued, Row, Holds

(* release_delivery_attempt lifts the mark of a row that is still queued.     *)
LEMMA ReleaseEffect ==
    ASSUME QueueTypeOK, NEW i \in Ids, ReleaseDeliveryAttempt(i)
    PROVE  /\ QueueTypeOK'
           /\ OthersKept(i)
           /\ \/ RowBecomes(i, queue[i].st, queue[i].hold)
              \/ RowBecomes(i, queue[i].st, "none")
BY DEF QueueTypeOK, ReleaseDeliveryAttempt, OthersKept, RowBecomes, Queued, Row, Holds

(* The holds: the row stays queued under the given reason.                    *)
LEMMA HoldEffect ==
    ASSUME QueueTypeOK, NEW i \in Ids, NEW reason \in Holds, HoldRow(i, reason)
    PROVE  /\ QueueTypeOK'
           /\ OthersKept(i)
           /\ Queued(i)
           /\ RowBecomes(i, "queued", reason)
BY DEF QueueTypeOK, HoldRow, OthersKept, RowBecomes, Queued, Row

(* defer_acquisition lifts the mark and puts the row off.                     *)
LEMMA DeferAcquisitionEffect ==
    ASSUME QueueTypeOK, NEW i \in Ids, DeferAcquisition(i)
    PROVE  /\ QueueTypeOK'
           /\ OthersKept(i)
           /\ RowBecomes(i, queue[i].st, "none")
BY DEF QueueTypeOK, DeferAcquisition, OthersKept, RowBecomes, Row, Holds

(* defer_reconciliation puts a receipt off and changes nothing else.          *)
LEMMA DeferReconciliationEffect ==
    ASSUME QueueTypeOK, NEW i \in Ids, DeferReconciliation(i)
    PROVE  /\ QueueTypeOK'
           /\ OthersKept(i)
           /\ RowBecomes(i, queue[i].st, queue[i].hold)
BY DEF QueueTypeOK, DeferReconciliation, OthersKept, RowBecomes, Row

(* record_history_fallback changes the fallback mark only.                    *)
LEMMA FallbackEffect ==
    ASSUME QueueTypeOK, NEW i \in Ids, NEW attempted \in BOOLEAN,
           RecordHistoryFallback(i, attempted)
    PROVE  /\ QueueTypeOK'
           /\ OthersKept(i)
           /\ RowBecomes(i, queue[i].st, queue[i].hold)
BY DEF QueueTypeOK, RecordHistoryFallback, OthersKept, RowBecomes, Row

(* retarget moves a row to another chat and leaves its state and hold.        *)
LEMMA RetargetEffect ==
    ASSUME QueueTypeOK, NEW i \in Ids, NEW ch \in Chats, NEW mark \in BOOLEAN,
           Retarget(i, ch, mark)
    PROVE  /\ QueueTypeOK'
           /\ OthersKept(i)
           /\ RowBecomes(i, queue[i].st, queue[i].hold)
BY DEF QueueTypeOK, Retarget, OthersKept, RowBecomes, Row

(* delete: the row is gone for good.                                          *)
LEMMA DeleteEffect ==
    ASSUME QueueTypeOK, NEW i \in Ids, Delete(i)
    PROVE  /\ QueueTypeOK'
           /\ OthersKept(i)
           /\ queue[i].st \in {"queued", "sent_pending"}
           /\ RowBecomes(i, "removed", "none")
<1>1. queue[i] \in Row
  BY DEF QueueTypeOK
<1>2. /\ RowRemoved(queue[i]) \in Row
      /\ RowRemoved(queue[i]).st = "removed" /\ RowRemoved(queue[i]).hold = "none"
      /\ RowRemoved(queue[i]).call = queue[i].call
  BY <1>1 DEF RowRemoved, Row, Statuses, Holds
<1> QED
  BY <1>2 DEF QueueTypeOK, Delete, OthersKept, RowBecomes

(* record_telegram_completion: the receipt, and in the same transaction the   *)
(* request for the attachment, at an id never used before.                    *)
LEMMA CompletionEffect ==
    ASSUME QueueTypeOK, NEW i \in Ids, NEW ch \in Chats, RecordTelegramCompletion(i, ch)
    PROVE  /\ QueueTypeOK'
           /\ Queued(i)
           /\ RowBecomes(i, "sent_pending", "none")
           /\ \/ OthersKept(i)
              \/ \E j \in Ids \ {i} :
                    /\ queue[j].st = "absent"
                    /\ queue'[j].st = "queued" /\ queue'[j].hold = "none"
                    /\ queue'[j].call = Supplement
                    /\ \A k \in Ids \ {i, j} : queue'[k] = queue[k]
<1> DEFINE receipted == [queue[i] EXCEPT !.st = "sent_pending", !.hold = "none", !.due = TRUE]
<1>1. /\ receipted \in Row
      /\ receipted.st = "sent_pending" /\ receipted.hold = "none"
      /\ receipted.call = queue[i].call
  BY DEF QueueTypeOK, Row, Statuses, Holds
<1>2. Queued(i)
  BY DEF RecordTelegramCompletion
<1>3. CASE queue[i].call.long
  <2>1. PICK j \in Ids : /\ IsNextId(j)
                         /\ queue' = [queue EXCEPT ![i] = receipted, ![j] = NewRow(Supplement, ch)]
    BY <1>3 DEF RecordTelegramCompletion
  <2>2. j # i /\ queue[j].st = "absent"
    BY <1>2, <2>1 DEF IsNextId, Queued
  <2>3. NewRow(Supplement, ch) \in Row
    BY NewRowType
  <2> HIDE DEF receipted
  <2>4. QueueTypeOK'
    BY <1>1, <2>1, <2>2, <2>3 DEF QueueTypeOK
  <2>5. queue'[i] = receipted /\ queue'[j] = NewRow(Supplement, ch)
        /\ \A k \in Ids \ {i, j} : queue'[k] = queue[k]
    BY <2>1, <2>2 DEF QueueTypeOK
  <2> QED
    BY <1>1, <1>2, <2>2, <2>4, <2>5 DEF RowBecomes, NewRow
<1>4. CASE ~queue[i].call.long
  <2>1. queue' = [queue EXCEPT ![i] = receipted]
    BY <1>4 DEF RecordTelegramCompletion
  <2> HIDE DEF receipted
  <2> QED
    BY <1>1, <1>2, <2>1 DEF QueueTypeOK, OthersKept, RowBecomes
<1> QED
  BY <1>3, <1>4

------------------------------------------------------------------------------
(* Permits.                                                                   *)

(* Sets of row ids are finite, so calls in flight can be counted.             *)
LEMMA IdsFinite == IsFiniteSet(Ids) /\ \A S \in SUBSET Ids : IsFiniteSet(S)
<1>1. 1 \in Int /\ MaxRows \in Int
  BY BoundsAssumption
<1>2. IsFiniteSet(Ids)
  BY <1>1, FS_Interval DEF Ids
<1> QED
  BY <1>2, FS_Subset

(* A call leaves the set of calls in flight and gives its permit back.        *)
LEMMA PermitReturned ==
    ASSUME NEW S \in SUBSET Ids, NEW i \in S, NEW p \in Nat, p + Cardinality(S) = Workers
    PROVE  /\ p + 1 \in 0 .. Workers
           /\ (p + 1) + Cardinality(S \ {i}) = Workers
<1>1. IsFiniteSet(S)
  BY IdsFinite
<1>2. Cardinality(S) \in Nat /\ Cardinality(S \ {i}) \in Nat
  BY <1>1, FS_CardinalityType, FS_RemoveElement
<1>3. Cardinality(S \ {i}) = Cardinality(S) - 1
  BY <1>1, FS_RemoveElement
<1> QED
  BY <1>2, <1>3, SchedulerAssumption

(* A call joins them and takes one.                                           *)
LEMMA PermitTaken ==
    ASSUME NEW S \in SUBSET Ids, NEW i \in Ids \ S, NEW p \in Nat, p > 0,
           p + Cardinality(S) = Workers
    PROVE  /\ p - 1 \in 0 .. Workers
           /\ (p - 1) + Cardinality(S \union {i}) = Workers
<1>1. IsFiniteSet(S)
  BY IdsFinite
<1>2. Cardinality(S) \in Nat /\ Cardinality(S \union {i}) = Cardinality(S) + 1
  BY <1>1, FS_CardinalityType, FS_AddElement
<1> QED
  BY <1>2, SchedulerAssumption

(* None in flight.                                                            *)
LEMMA AllPermits == Workers \in Nat /\ Workers + Cardinality({}) = Workers
BY FS_EmptySet, SchedulerAssumption

------------------------------------------------------------------------------
(* The pieces that actions share.                                             *)

Waiters == [Ids -> {"none", "waiting", "ok", "failed"}]

(* Failing or completing Futures keeps the type of the waiters.               *)
LEMMA WaiterTypes ==
    ASSUME NEW w \in Waiters, NEW i \in Ids
    PROVE  FailWaiter(w, i) \in Waiters /\ CompleteWaiter(w, i) \in Waiters
BY DEF Waiters, FailWaiter, CompleteWaiter

(* So does failing all of a set.                                              *)
LEMMA AllWaitersType ==
    ASSUME NEW w \in Waiters, NEW S
    PROVE  FailWaiters(w, S) \in Waiters
BY DEF Waiters, FailWaiters

(* The count of adverse events stays within its bound.                        *)
LEMMA TroubleType == ASSUME TypeOK, Trouble \/ NoTrouble PROVE troubles' \in 0 .. MaxTroubles
BY SchedulerAssumption DEF TypeOK, Trouble, NoTrouble

(* _stop_for_persistence_error keeps the types of what it assigns.            *)
LEMMA StopType ==
    ASSUME TypeOK, StopForPersistenceError
    PROVE  life' = "failed" /\ life' \in Lives /\ notBefore' \subseteq Ids /\ waiter' \in Waiters
BY AllWaitersType DEF TypeOK, StopForPersistenceError, Waiters, Lives

(* The initial values have their types.                                       *)
LEMMA IdleType == SomeChat \in Chats /\ Idle \in Thread /\ LockFree \in Recon
<1>1. SomeChat \in Chats
  BY BoundsAssumption DEF SomeChat
<1>2. 1 \in Ids
  BY BoundsAssumption DEF Ids
<1> QED
  BY <1>1, <1>2 DEF Idle, Thread, ThreadAt, LockFree, Recon

(* harvest_completed: the completed call leaves in_flight and its thread ends. *)
LEMMA LeaveEffect ==
    ASSUME TypeOK, PermitsAccounted, NEW i \in inFlight, Leave(i)
    PROVE  /\ inFlight' = inFlight \ {i} /\ inFlight' \subseteq Ids
           /\ busy' \subseteq Chats
           /\ permits' \in 0 .. Workers
           /\ PermitsAccounted'
           /\ thread' \in [Ids -> Thread]
           /\ thread'[i].at = "idle"
           /\ \A j \in Ids \ {i} : thread'[j] = thread[j]
<1>1. i \in Ids /\ permits \in Nat /\ inFlight \in SUBSET Ids
  BY SchedulerAssumption DEF TypeOK
<1>2. permits' \in 0 .. Workers /\ PermitsAccounted'
  BY <1>1, PermitReturned DEF Leave, PermitsAccounted
<1>3. Idle \in Thread /\ Idle.at = "idle"
  BY IdleType DEF Idle
<1>4. /\ thread' \in [Ids -> Thread]
      /\ thread'[i].at = "idle"
      /\ \A j \in Ids \ {i} : thread'[j] = thread[j]
  BY <1>1, <1>3 DEF TypeOK, Leave
<1> QED
  BY <1>1, <1>2, <1>4 DEF TypeOK, Leave

(* dispatch_once and the media retries: the call enters in_flight.            *)
LEMMA SubmitEffect ==
    ASSUME TypeOK, PermitsAccounted, NEW i \in Ids \ inFlight, NEW ch \in Chats,
           NEW mark \in BOOLEAN, permits > 0, Submit(i, ch, mark)
    PROVE  /\ inFlight' = inFlight \union {i} /\ inFlight' \subseteq Ids
           /\ busy' \subseteq Chats
           /\ sub' \in [Ids -> Chats]
           /\ permits' \in 0 .. Workers
           /\ PermitsAccounted'
           /\ thread' \in [Ids -> Thread]
           /\ thread'[i].at \in {"clearing", "calling"}
           /\ \A j \in Ids \ {i} : thread'[j] = thread[j]
<1>1. permits \in Nat /\ inFlight \in SUBSET Ids
  BY SchedulerAssumption DEF TypeOK
<1>2. permits' \in 0 .. Workers /\ PermitsAccounted'
  BY <1>1, PermitTaken DEF Submit, PermitsAccounted
<1> DEFINE at == IF mark THEN "clearing" ELSE "calling"
           new == [at |-> at, chat |-> ch, fallback |-> FALSE, mark |-> mark]
<1>3. new \in Thread /\ new.at \in {"clearing", "calling"}
  BY DEF Thread, ThreadAt
<1>4. thread' = [thread EXCEPT ![i] = new]
  BY DEF Submit
<1> HIDE DEF new
<1>5. /\ thread' \in [Ids -> Thread]
      /\ thread'[i].at \in {"clearing", "calling"}
      /\ \A j \in Ids \ {i} : thread'[j] = thread[j]
  BY <1>3, <1>4 DEF TypeOK
<1> QED
  BY <1>1, <1>2, <1>5 DEF TypeOK, Submit

(* The executor thread of one row gets a result.                              *)
LEMMA ReturnsEffect ==
    ASSUME TypeOK, NEW i \in Ids, NEW result \in ThreadAt, Returns(i, result)
    PROVE  /\ thread' \in [Ids -> Thread]
           /\ thread'[i].at = result
           /\ \A j \in Ids \ {i} : thread'[j] = thread[j]
BY DEF TypeOK, Thread, Returns

------------------------------------------------------------------------------
(* What the invariant says of one row, and when a step leaves that alone.     *)

RowGood(i) ==
    /\ RowSafe(i)
    /\ telegram[i].copies <= 1
    /\ telegram[i].copies > 0 /\ queue[i].call.log =>
           i \in msglog \/ queue[i].st = "sent_pending" \/ Held(i)

(* The invariant, row by row: RowGood collects what IInv says of one row.     *)
LEMMA InvariantByRow ==
    IInv <=> /\ TypeOK /\ PermitsAccounted /\ ThreadsOwned /\ SettlingReceipt
             /\ \A i \in Ids : RowGood(i)
BY DEF IInv, RowGood, AtMostOnce, AcceptedIsAccountedFor

(* The same for the next state.                                               *)
LEMMA InvariantByRowNext ==
    IInv' <=> /\ TypeOK' /\ PermitsAccounted' /\ ThreadsOwned' /\ SettlingReceipt'
              /\ \A i \in Ids : RowGood(i)'
BY DEF IInv, RowGood, AtMostOnce, AcceptedIsAccountedFor

(* A row that a step does not touch stays good.                               *)
LEMMA RowKept ==
    ASSUME NEW i \in Ids, RowGood(i),
           queue'[i].st = queue[i].st,
           queue'[i].hold = queue[i].hold,
           queue'[i].call = queue[i].call,
           telegram'[i].copies = telegram[i].copies,
           thread'[i].at = thread[i].at,
           i \in inFlight' => i \in inFlight,
           i \in retries' => i \in retries,
           i \in msglog => i \in msglog'
    PROVE  RowGood(i)'
BY DEF RowGood, RowSafe, AbsentUntouched, RunnableUntaken, CallingUntaken, SubmittedMarked,
       RetryInMemory, Queued, Held

(* A step about one row leaves the others as they are.                        *)
OthersUntouched(S) ==
    \A j \in Ids \ S :
        /\ queue'[j] = queue[j] /\ telegram'[j] = telegram[j] /\ thread'[j] = thread[j]
        /\ j \in inFlight' => j \in inFlight
        /\ j \in retries' => j \in retries
        /\ j \in msglog => j \in msglog'

(* A step on one row preserves the invariant if that row stays good and the   *)
(* parts about the whole scheduler hold.                                      *)
LEMMA OtherRowsKept ==
    ASSUME IInv, NEW S \in SUBSET Ids, OthersUntouched(S),
           TypeOK', PermitsAccounted', ThreadsOwned', SettlingReceipt',
           \A i \in S : RowGood(i)'
    PROVE  IInv'
<1> SUFFICES ASSUME NEW j \in Ids \ S PROVE RowGood(j)'
  BY InvariantByRowNext
<1> QED
  BY InvariantByRow, RowKept DEF OthersUntouched

------------------------------------------------------------------------------
(* The initial state.                                                         *)

(* An empty table and an idle scheduler satisfy the invariant.                *)
LEMMA InitInvariant == Init => IInv
<1> SUFFICES ASSUME Init PROVE IInv
  OBVIOUS
<1>1. QueueTypeOK
  BY QueueInitType DEF Init
<1>2. TypeOK
  BY <1>1, IdleType, SchedulerAssumption DEF Init, TypeOK, Lives, Delivery
<1>3. PermitsAccounted
  BY AllPermits DEF Init, PermitsAccounted
<1>4. \A i \in Ids : /\ queue[i].st = "absent" /\ telegram[i].copies = 0
                     /\ thread[i].at = "idle" /\ i \notin inFlight \union retries
  BY DEF Init, QueueInit, NoRow, NewRow, Idle
<1>5. ThreadsOwned /\ SettlingReceipt
  BY <1>4 DEF ThreadsOwned, SettlingReceipt, Locked, Init, LockFree
<1>6. \A i \in Ids : RowGood(i)
  BY <1>4 DEF RowGood, RowSafe, AbsentUntouched, RunnableUntaken, CallingUntaken,
              SubmittedMarked, RetryInMemory, Queued, Held, NotTaken, Refusals
<1> QED
  BY <1>2, <1>3, <1>5, <1>6, InvariantByRow

------------------------------------------------------------------------------
(* One lemma per action, or per group of actions of the same shape.           *)

(* _enqueue_requests inserts a row nobody has worked on.                      *)
LEMMA EnqueueRequestStep ==
    ASSUME IInv, NEW i \in Ids, NEW c \in Calls, NEW ch \in Chats, EnqueueRequest(i, c, ch)
    PROVE  IInv'
<1>0. TypeOK /\ QueueTypeOK /\ RowGood(i) /\ ~Locked
  BY InvariantByRow DEF TypeOK, EnqueueRequest
<1>1. /\ QueueTypeOK' /\ OthersKept(i) /\ queue[i].st = "absent"
      /\ queue'[i].st = "queued" /\ queue'[i].hold = "none" /\ queue'[i].call = c
  BY <1>0, EnqueueEffect DEF EnqueueRequest
<1>2. TypeOK'
  BY <1>0, <1>1 DEF TypeOK, EnqueueRequest
<1>3. PermitsAccounted' /\ ThreadsOwned' /\ SettlingReceipt'
  BY <1>0 DEF IInv, PermitsAccounted, ThreadsOwned, SettlingReceipt, Locked, Alive, EnqueueRequest
<1>4. OthersUntouched({i})
  BY <1>1 DEF OthersUntouched, OthersKept, EnqueueRequest
<1>5. RowGood(i)'
  BY <1>0, <1>1 DEF EnqueueRequest, RowGood, RowSafe, AbsentUntouched, RunnableUntaken,
     CallingUntaken, SubmittedMarked, RetryInMemory, Queued, Held, NotTaken, Refusals
<1> QED
  BY <1>2, <1>3, <1>4, <1>5, OtherRowsKept

(* What the guard of dispatch_once says of its row.                           *)
LEMMA DispatchableRow ==
    ASSUME IInv, NEW i \in Ids, Dispatchable(i)
    PROVE  /\ ~Locked /\ life = "running" /\ i \notin inFlight /\ permits > 0
           /\ Queued(i) /\ queue[i].hold = "none"
           /\ telegram[i].copies = 0 /\ thread[i].at = "idle" /\ i \notin retries
<1>1. ~Locked /\ life = "running" /\ i \notin inFlight /\ permits > 0
      /\ Queued(i) /\ queue[i].hold = "none"
  BY DEF Dispatchable, IsHead, Ready
<1>2. RowGood(i)
  BY InvariantByRow
<1> QED
  BY <1>1, <1>2 DEF RowGood, RowSafe, RunnableUntaken, RetryInMemory, Queued

(* dispatch_once marks or removes the row before the executor sees it.        *)
LEMMA DispatchStep ==
    ASSUME IInv, NEW i \in Ids, Dispatch(i)
    PROVE  IInv'
<1> DEFINE ch == queue[i].chat  mark == queue[i].fallback
<1>0. /\ TypeOK /\ QueueTypeOK /\ PermitsAccounted /\ ThreadsOwned /\ RowGood(i)
      /\ ch \in Chats /\ mark \in BOOLEAN
  BY InvariantByRow DEF TypeOK, QueueTypeOK, Row
<1>1. /\ ~Locked /\ life = "running" /\ i \notin inFlight /\ permits > 0
      /\ Queued(i) /\ queue[i].hold = "none"
      /\ telegram[i].copies = 0 /\ thread[i].at = "idle" /\ i \notin retries
  BY DispatchableRow DEF Dispatch
<1>2. /\ QueueTypeOK' /\ OthersKept(i) /\ queue'[i].call = queue[i].call
      /\ IF Retained(queue[i].call) THEN queue'[i].st = "queued" /\ queue'[i].hold = "in_flight"
                                    ELSE queue'[i].st = "removed"
  BY <1>0, BeginEffect, DeleteEffect DEF Dispatch, RowBecomes
<1>3. /\ inFlight' = inFlight \union {i} /\ inFlight' \subseteq Ids
      /\ busy' \subseteq Chats /\ sub' \in [Ids -> Chats]
      /\ permits' \in 0 .. Workers /\ PermitsAccounted'
      /\ thread' \in [Ids -> Thread]
      /\ thread'[i].at \in {"clearing", "calling"}
      /\ \A j \in Ids \ {i} : thread'[j] = thread[j]
  <2>1. Submit(i, ch, mark)
    BY DEF Dispatch
  <2> HIDE DEF ch, mark
  <2> QED
    BY <1>0, <1>1, <2>1, SubmitEffect
<1>4. TypeOK'
  BY <1>0, <1>2, <1>3 DEF TypeOK, Dispatch, NoTrouble
<1>5. ThreadsOwned' /\ SettlingReceipt'
  BY <1>0, <1>1, <1>3 DEF Dispatch, ThreadsOwned, SettlingReceipt, Locked, Alive
<1>6. OthersUntouched({i})
  BY <1>2, <1>3 DEF OthersUntouched, OthersKept, Dispatch
<1>7. RowGood(i)'
  BY <1>1, <1>2, <1>3 DEF Dispatch, RowGood, RowSafe, AbsentUntouched, RunnableUntaken,
     CallingUntaken, SubmittedMarked, RetryInMemory, Queued, Held
<1> QED
  BY <1>3, <1>4, <1>5, <1>6, <1>7, OtherRowsKept

(* The other outcomes of dispatch_once: the row is untouched, held or gone,   *)
(* and no thread has seen it.                                                 *)
LEMMA DispatchFailsStep ==
    ASSUME IInv, NEW i \in Ids,
           \/ DispatchNotSubmitted(i) \/ DispatchStopped(i)
           \/ DispatchUnavailable(i) \/ DispatchUndecodable(i)
    PROVE  IInv'
<1>0. /\ TypeOK /\ QueueTypeOK /\ PermitsAccounted /\ ThreadsOwned /\ RowGood(i)
      /\ waiter \in Waiters
  BY InvariantByRow DEF TypeOK, Waiters
<1>1. /\ ~Locked /\ life = "running" /\ i \notin inFlight
      /\ telegram[i].copies = 0 /\ thread[i].at = "idle" /\ i \notin retries
      /\ Queued(i)
  BY DispatchableRow
     DEF DispatchNotSubmitted, DispatchStopped, DispatchUnavailable, DispatchUndecodable
<1>2. /\ QueueTypeOK' /\ OthersKept(i) /\ queue'[i].call = queue[i].call
      /\ queue'[i].st \in {"queued", "removed"}
  <2>1. CASE UNCHANGED queue
    BY <1>0, <1>1, <2>1 DEF QueueTypeOK, OthersKept, Queued
  <2>2. CASE Delete(i)
    BY <1>0, <2>2, DeleteEffect DEF RowBecomes
  <2>3. ASSUME NEW reason \in {"history_failed", "supplement_failed", "invalid_payload"},
               HoldRow(i, reason)
        PROVE  <1>2
    BY <1>0, <2>3, HoldEffect DEF RowBecomes, Holds
  <2>4. CASE BeginDeliveryAttempt(i)
    BY <1>0, <2>4, BeginEffect DEF RowBecomes
  <2> QED
    BY <2>1, <2>2, <2>3, <2>4
       DEF DispatchNotSubmitted, DispatchStopped, DispatchUnavailable, DispatchUndecodable, FailedHold
<1>3. waiter' \in Waiters /\ notBefore' \subseteq Ids /\ life' \in {"running", "failed"}
      /\ troubles' \in 0 .. MaxTroubles
  BY <1>0, <1>1, WaiterTypes, StopType, TroubleType
     DEF DispatchNotSubmitted, DispatchStopped, DispatchUnavailable, DispatchUndecodable, TypeOK
<1>4. UNCHANGED <<msglog, inFlight, busy, permits, retries, sub, recon, thread, telegram, upgraded>>
  BY DEF DispatchNotSubmitted, DispatchStopped, DispatchUnavailable, DispatchUndecodable
<1>5. TypeOK'
  BY <1>0, <1>2, <1>3, <1>4 DEF TypeOK, Waiters, Lives
<1>6. PermitsAccounted' /\ ThreadsOwned' /\ SettlingReceipt'
  BY <1>0, <1>1, <1>3, <1>4 DEF PermitsAccounted, ThreadsOwned, SettlingReceipt, Locked, Alive
<1>7. OthersUntouched({i})
  BY <1>2, <1>4 DEF OthersUntouched, OthersKept
<1>8. RowGood(i)'
  BY <1>1, <1>2, <1>4 DEF RowGood, RowSafe, AbsentUntouched, RunnableUntaken,
     CallingUntaken, SubmittedMarked, RetryInMemory, Queued, Held, NotTaken, Refusals
<1> QED
  BY <1>5, <1>6, <1>7, <1>8, OtherRowsKept

(* A media edit leaves the delayed retries for the executor.                  *)
LEMMA RetryDispatchStep ==
    ASSUME IInv, NEW i \in Ids, RetryDispatch(i)
    PROVE  IInv'
<1>0. /\ TypeOK /\ PermitsAccounted /\ ThreadsOwned /\ RowGood(i)
      /\ ~Locked /\ life = "running" /\ i \in retries /\ permits > 0
      /\ sub[i] \in Chats
  BY InvariantByRow DEF TypeOK, RetryDispatch
<1>1. i \notin inFlight /\ queue[i].st = "removed" /\ telegram[i].copies = 0
      /\ ~Retained(queue[i].call)
  BY <1>0 DEF RowGood, RowSafe, RetryInMemory
<1>2. /\ inFlight' = inFlight \union {i} /\ inFlight' \subseteq Ids
      /\ busy' \subseteq Chats /\ sub' \in [Ids -> Chats]
      /\ permits' \in 0 .. Workers /\ PermitsAccounted'
      /\ thread' \in [Ids -> Thread]
      /\ thread'[i].at \in {"clearing", "calling"}
      /\ \A j \in Ids \ {i} : thread'[j] = thread[j]
  <2>1. Submit(i, sub[i], FALSE)
    BY DEF RetryDispatch
  <2> QED
    BY <1>0, <1>1, <2>1, SubmitEffect
<1>3. TypeOK'
  BY <1>0, <1>2 DEF TypeOK, QueueTypeOK, RetryDispatch, NoTrouble
<1>4. ThreadsOwned' /\ SettlingReceipt'
  BY <1>0, <1>2 DEF RetryDispatch, ThreadsOwned, SettlingReceipt, Locked, Alive
<1>5. OthersUntouched({i})
  BY <1>2 DEF OthersUntouched, RetryDispatch
<1>6. RowGood(i)'
  BY <1>1, <1>2 DEF RetryDispatch, RowGood, RowSafe, AbsentUntouched, RunnableUntaken,
     CallingUntaken, SubmittedMarked, RetryInMemory, Queued, Held
<1> QED
  BY <1>2, <1>3, <1>4, <1>5, <1>6, OtherRowsKept

(* Steps that touch neither a row's state nor a thread nor Telegram.          *)
LEMMA BookkeepingStep ==
    ASSUME IInv, NEW i \in Ids, NEW ch \in Chats,
           FailBlockingRetry(i) \/ NotBeforeComes(i) \/ BecomesDue(i) \/ GroupUpgrades(ch)
    PROVE  IInv'
<1>0. TypeOK /\ QueueTypeOK /\ waiter \in Waiters /\ upgraded \subseteq DOMAIN Supergroup
      /\ PermitsAccounted /\ ThreadsOwned /\ SettlingReceipt
  BY InvariantByRow DEF TypeOK, Waiters
<1>1. QueueTypeOK' /\ \A j \in Ids : queue'[j].st = queue[j].st /\ queue'[j].hold = queue[j].hold
                                     /\ queue'[j].call = queue[j].call
  <2>1. CASE UNCHANGED queue
    BY <1>0, <2>1 DEF QueueTypeOK
  <2>2. CASE BecomesDue(i)
    BY <1>0, <2>2 DEF BecomesDue, QueueTypeOK, Row
  <2> QED
    BY <2>1, <2>2 DEF FailBlockingRetry, NotBeforeComes, GroupUpgrades, durable
<1>2. /\ waiter' \in Waiters /\ notBefore' \subseteq Ids /\ upgraded' \subseteq DOMAIN Supergroup
      /\ retries' \subseteq retries
      /\ UNCHANGED <<msglog, life, inFlight, busy, permits, sub, recon, thread, telegram, troubles>>
  BY <1>0, WaiterTypes DEF FailBlockingRetry, NotBeforeComes, BecomesDue, GroupUpgrades, durable,
     scheduler, NoTrouble, TypeOK
<1>3. TypeOK'
  BY <1>0, <1>1, <1>2 DEF TypeOK, Waiters
<1>4. recon.row \in Ids
  BY <1>0 DEF TypeOK, Recon
<1>5. PermitsAccounted' /\ ThreadsOwned' /\ SettlingReceipt'
  BY <1>0, <1>1, <1>2, <1>4 DEF PermitsAccounted, ThreadsOwned, SettlingReceipt, Locked, Alive
<1>6. \A j \in Ids : RowGood(j)'
  <2> SUFFICES ASSUME NEW j \in Ids PROVE RowGood(j)'
    OBVIOUS
  <2>1. RowGood(j)
    BY InvariantByRow
  <2> QED
    BY <1>1, <1>2, <2>1, RowKept
<1> QED
  BY <1>3, <1>5, <1>6, InvariantByRowNext

------------------------------------------------------------------------------
(* The executor thread.                                                       *)

(* Only calls the table keeps carry a MsgLog context.                         *)
LEMMA LoggedRetained ==
    ASSUME QueueTypeOK, NEW i \in Ids
    PROVE  queue[i].call.log => Retained(queue[i].call)
<1>1. queue[i].call \in Calls \union {Supplement}
  BY DEF QueueTypeOK, Row
<1>2. Supplement.log = FALSE
  BY DEF Supplement
<1> QED
  BY <1>1, <1>2, CallsAssumption DEF Retained

(* What an executor step may do to its row's thread, judged by where the      *)
(* thread was: this is all that the invariant needs of it.                    *)
ThreadStep(i) ==
    /\ thread[i].at # "idle" /\ thread'[i].at \in ThreadAt \ {"idle"}
    /\ \/ thread[i].at \in NotTaken /\ telegram'[i].copies = telegram[i].copies
       \/ thread[i].at \in NotTaken /\ telegram'[i].copies = telegram[i].copies + 1
          /\ thread'[i].at \notin NotTaken
       \/ thread'[i].at \notin NotTaken /\ telegram'[i].copies = telegram[i].copies

(* A step of an executor thread that leaves its row held and takes nothing    *)
(* twice preserves the invariant.                                             *)
LEMMA ThreadStepSafe ==
    ASSUME IInv, NEW i \in Ids, ThreadStep(i),
           QueueTypeOK', OthersKept(i), RowBecomes(i, queue[i].st, queue[i].hold),
           thread' \in [Ids -> Thread], telegram' \in [Ids -> Delivery],
           \A j \in Ids \ {i} : thread'[j] = thread[j] /\ telegram'[j] = telegram[j],
           troubles' \in 0 .. MaxTroubles,
           UNCHANGED <<msglog, scheduler, upgraded>>
    PROVE  IInv'
<1>0. TypeOK /\ PermitsAccounted /\ ThreadsOwned /\ SettlingReceipt /\ RowGood(i)
  BY InvariantByRow
<1>1. TypeOK'
  BY <1>0 DEF TypeOK, scheduler
<1>2. PermitsAccounted'
  BY <1>0 DEF PermitsAccounted, scheduler
<1>3. ThreadsOwned'
  BY <1>0 DEF ThreadsOwned, Alive, ThreadStep, scheduler
<1>4. SettlingReceipt'
  <2>1. recon.row \in Ids
    BY <1>0 DEF TypeOK, Recon
  <2>2. queue'[recon.row].st = queue[recon.row].st /\ queue'[recon.row].call = queue[recon.row].call
    BY <2>1 DEF OthersKept, RowBecomes
  <2> QED
    BY <1>0, <2>2 DEF SettlingReceipt, Locked, Alive, scheduler
<1>5. OthersUntouched({i})
  BY DEF OthersUntouched, OthersKept, scheduler
<1>6. telegram[i].copies \in Nat /\ telegram'[i].copies \in Nat
  BY <1>0 DEF TypeOK, Delivery
<1>7. queue[i].call.log => Retained(queue[i].call)
  BY <1>0, LoggedRetained DEF TypeOK
<1>8. RowSafe(i)'
  BY <1>0, <1>6 DEF ThreadStep, RowBecomes, scheduler, RowGood, RowSafe, AbsentUntouched,
     RunnableUntaken, CallingUntaken, SubmittedMarked, RetryInMemory, Queued, Held
<1>9. telegram'[i].copies <= 1
  BY <1>0, <1>6 DEF ThreadStep, RowGood, RowSafe, CallingUntaken
<1>10. queue'[i].call.log => queue'[i].st = "sent_pending" \/ Held(i)'
  BY <1>0, <1>7 DEF ThreadStep, RowBecomes, RowGood, RowSafe, SubmittedMarked, Held, Queued
<1>11. RowGood(i)'
  BY <1>8, <1>9, <1>10 DEF RowGood
<1> QED
  BY <1>1, <1>2, <1>3, <1>4, <1>5, <1>11, OtherRowsKept

(* A step that leaves the table alone keeps its type and every row.           *)
LEMMA QueueStutter ==
    ASSUME QueueTypeOK, NEW i \in Ids, UNCHANGED queue
    PROVE  QueueTypeOK' /\ OthersKept(i) /\ RowBecomes(i, queue[i].st, queue[i].hold)
BY DEF QueueTypeOK, OthersKept, RowBecomes

(* Every step of execute_queued_call preserves the invariant.                 *)
LEMMA ExecutorStep ==
    ASSUME IInv, NEW i \in Ids, Executor(i)
    PROVE  IInv'
<1>0. /\ TypeOK /\ QueueTypeOK /\ thread[i] \in Thread /\ telegram[i] \in Delivery
      /\ UNCHANGED <<msglog, scheduler, upgraded>>
  BY InvariantByRow DEF TypeOK, Executor, ClearFallbackMark, TelegramAccepts, CallSucceeds, AnswerLost,
     CallRefused, ChatMigrated, CopyRefused, NeverMind
<1>1. ASSUME NEW result \in ThreadAt \ {"idle"}, Returns(i, result), thread[i].at \in NotTaken,
             Trouble \/ NoTrouble, UNCHANGED telegram, QueueTypeOK', OthersKept(i),
             RowBecomes(i, queue[i].st, queue[i].hold)
      PROVE  IInv'
  <2>1. ThreadStep(i)
    BY <1>0, <1>1, ReturnsEffect DEF ThreadStep, NotTaken, Refusals
  <2> QED
    BY <1>0, <1>1, <2>1, ReturnsEffect, TroubleType, ThreadStepSafe DEF TypeOK
<1>2. CASE ClearFallbackMark(i)
  <2>1. QueueTypeOK' /\ OthersKept(i) /\ RowBecomes(i, queue[i].st, queue[i].hold)
    BY <1>0, <1>2, FallbackEffect, QueueStutter DEF ClearFallbackMark
  <2> QED
    BY <1>1, <1>2, <2>1 DEF ClearFallbackMark, CommitFails, NotTaken, ThreadAt, Results
<1>3. CASE TelegramAccepts(i)
  <2> DEFINE taken == [copies |-> telegram[i].copies + 1, chat |-> thread[i].chat,
                       fallback |-> thread[i].fallback]
  <2>1. telegram[i].copies < 2 /\ telegram' = [telegram EXCEPT ![i] = taken]
        /\ Returns(i, "accepted") /\ UNCHANGED queue /\ NoTrouble /\ thread[i].at = "calling"
    BY <1>3 DEF TelegramAccepts, OpenCall, Calling
  <2>2. taken \in Delivery /\ taken.copies = telegram[i].copies + 1
    BY <1>0, <2>1 DEF Delivery, Thread
  <2> HIDE DEF taken
  <2>3. /\ telegram' \in [Ids -> Delivery] /\ telegram'[i].copies = telegram[i].copies + 1
        /\ \A j \in Ids \ {i} : telegram'[j] = telegram[j]
    BY <1>0, <2>1, <2>2 DEF TypeOK
  <2>4. ThreadStep(i) /\ thread' \in [Ids -> Thread] /\ \A j \in Ids \ {i} : thread'[j] = thread[j]
    BY <1>0, <2>1, <2>3, ReturnsEffect DEF ThreadStep, NotTaken, ThreadAt, Results, Refusals
  <2> QED
    BY <1>0, <2>1, <2>3, <2>4, TroubleType, QueueStutter, ThreadStepSafe
<1>4. CASE CallSucceeds(i) \/ AnswerLost(i) \/ CallRefused(i)
  <2>1. PICK result \in ThreadAt \ {"idle"} :
          /\ Returns(i, result)
          /\ (Trouble \/ NoTrouble)
          /\ UNCHANGED <<queue, telegram>>
          /\ \/ thread[i].at = "calling"
             \/ thread[i].at = "accepted" /\ result \in {"ok", "ambiguous", "unusable"}
    BY <1>4 DEF CallSucceeds, AnswerLost, CallRefused, OpenCall, Calling, ThreadAt, Results, Refusals
  <2>2. /\ thread' \in [Ids -> Thread] /\ thread'[i].at = result
        /\ \A j \in Ids \ {i} : thread'[j] = thread[j]
    BY <1>0, <2>1, ReturnsEffect
  <2>3. ThreadStep(i)
    BY <2>1, <2>2 DEF ThreadStep, NotTaken, Refusals
  <2> QED
    BY <1>0, <2>1, <2>2, <2>3, TroubleType, QueueStutter, ThreadStepSafe DEF TypeOK
<1>5. CASE ChatMigrated(i)
  <2> DEFINE old == thread[i].chat
  <2>1. thread[i].at = "calling" /\ old \in DOMAIN Supergroup /\ UNCHANGED telegram
    BY <1>0, <1>5 DEF ChatMigrated, Calling, TypeOK
  <2>2. Supergroup[old] \in Chats /\ thread[i].mark \in BOOLEAN
    BY <1>0, <2>1, SchedulerAssumption DEF Thread
  <2>3. ASSUME Retarget(i, Supergroup[old], thread[i].mark) \/ UNCHANGED queue
        PROVE  QueueTypeOK' /\ OthersKept(i) /\ RowBecomes(i, queue[i].st, queue[i].hold)
    BY <1>0, <2>2, <2>3, RetargetEffect, QueueStutter
  <2>4. CASE \E result \in {"migrated", "broken", "local"} :
                /\ Returns(i, result)
                /\ (Trouble \/ NoTrouble)
                /\ Retarget(i, Supergroup[old], thread[i].mark) \/ UNCHANGED queue
    <3> PICK result \in {"migrated", "broken", "local"} :
                /\ Returns(i, result)
                /\ (Trouble \/ NoTrouble)
                /\ Retarget(i, Supergroup[old], thread[i].mark) \/ UNCHANGED queue
      BY <2>4
    <3>1. result \in ThreadAt \ {"idle"}
      BY DEF ThreadAt, Results, Refusals
    <3> QED
      BY <1>1, <2>1, <2>3, <3>1 DEF NotTaken
  <2>5. CASE thread' = [thread EXCEPT ![i].chat = Supergroup[@]] /\ NoTrouble /\ UNCHANGED queue
    <3>1. thread' = [thread EXCEPT ![i] = [thread[i] EXCEPT !.chat = Supergroup[old]]]
      BY <1>0, <2>5 DEF TypeOK
    <3>2. /\ [thread[i] EXCEPT !.chat = Supergroup[old]] \in Thread
          /\ [thread[i] EXCEPT !.chat = Supergroup[old]].at = "calling"
      BY <1>0, <2>1, <2>2 DEF Thread
    <3>3. /\ thread' \in [Ids -> Thread] /\ thread'[i].at = "calling"
          /\ \A j \in Ids \ {i} : thread'[j] = thread[j]
      BY <1>0, <3>1, <3>2 DEF TypeOK
    <3>4. ThreadStep(i)
      BY <2>1, <3>3 DEF ThreadStep, NotTaken, ThreadAt
    <3> QED
      BY <1>0, <2>1, <2>5, <3>3, <3>4, TroubleType, QueueStutter, ThreadStepSafe DEF TypeOK
  <2> QED
    BY <1>5, <2>4, <2>5 DEF ChatMigrated, CommitFails
<1>6. CASE CopyRefused(i)
  <2>1. thread[i].at = "calling" /\ Trouble /\ UNCHANGED telegram
    BY <1>6 DEF CopyRefused, OpenCall, Calling
  <2>2. CASE \E result \in {"unacquired", "unobtainable", "broken"} : Returns(i, result) /\ UNCHANGED queue
    BY <1>0, <1>1, <2>1, <2>2, QueueStutter DEF NotTaken, ThreadAt, Results, Refusals
  <2>3. CASE RecordHistoryFallback(i, TRUE) /\ thread' = [thread EXCEPT ![i].fallback = TRUE]
    <3>1. /\ thread' \in [Ids -> Thread] /\ thread'[i].at = "calling"
          /\ \A j \in Ids \ {i} : thread'[j] = thread[j]
      BY <1>0, <2>1, <2>3 DEF TypeOK, Thread
    <3>2. ThreadStep(i)
      BY <2>1, <3>1 DEF ThreadStep, NotTaken, ThreadAt
    <3> QED
      BY <1>0, <2>1, <2>3, <3>1, <3>2, TroubleType, FallbackEffect, ThreadStepSafe DEF TypeOK
  <2> QED
    BY <1>6, <2>2, <2>3 DEF CopyRefused
<1> QED
  BY <1>2, <1>3, <1>4, <1>5, <1>6 DEF Executor

------------------------------------------------------------------------------
(* harvest_completed.                                                         *)

(* A call leaves in_flight, its thread ends, and every other row stays.  What *)
(* is left to show of a harvest is what becomes of its own row.               *)
LEMMA HarvestSafe ==
    ASSUME IInv, NEW i \in inFlight, Alive, ~Locked, Leave(i),
           QueueTypeOK', OthersKept(i), RowGood(i)',
           life' \in {life, "failed"}, notBefore' \subseteq Ids, waiter' \in Waiters,
           retries' \subseteq retries \union {i}, sub' \in [Ids -> Chats],
           UNCHANGED recon, troubles' \in 0 .. MaxTroubles,
           UNCHANGED <<msglog, telegram, upgraded>>
    PROVE  IInv'
<1>0. TypeOK /\ PermitsAccounted /\ ThreadsOwned /\ i \in Ids
  BY InvariantByRow DEF TypeOK
<1>1. /\ inFlight' = inFlight \ {i} /\ inFlight' \subseteq Ids
      /\ busy' \subseteq Chats
      /\ permits' \in 0 .. Workers
      /\ PermitsAccounted'
      /\ thread' \in [Ids -> Thread]
      /\ thread'[i].at = "idle"
      /\ \A j \in Ids \ {i} : thread'[j] = thread[j]
  BY <1>0, LeaveEffect
<1>2. TypeOK'
  BY <1>0, <1>1 DEF TypeOK, Waiters, Lives
<1>3. ThreadsOwned' /\ SettlingReceipt'
  BY <1>0, <1>1 DEF ThreadsOwned, SettlingReceipt, Alive, Locked
<1>4. OthersUntouched({i})
  BY <1>1 DEF OthersUntouched, OthersKept
<1> QED
  BY <1>0, <1>1, <1>2, <1>3, <1>4, OtherRowsKept

(* The row of a call in flight.                                               *)
LEMMA InFlightRow ==
    ASSUME IInv, NEW i \in inFlight, NEW result \in Results, Harvestable(i, result)
    PROVE  /\ i \in Ids /\ Alive /\ ~Locked
           /\ TypeOK /\ QueueTypeOK /\ waiter \in Waiters /\ PermitsAccounted
           /\ RowGood(i) /\ i \notin retries /\ thread[i].at # "idle"
           /\ telegram[i].copies \in Nat
           /\ Retained(queue[i].call) => Held(i)
           /\ ~Retained(queue[i].call) => queue[i].st = "removed"
           /\ queue[i].call.log => Retained(queue[i].call)
           /\ result \in Refusals => telegram[i].copies = 0
<1>1. /\ i \in Ids /\ Alive /\ ~Locked /\ TypeOK /\ PermitsAccounted /\ RowGood(i) /\ waiter \in Waiters
      /\ telegram[i].copies \in Nat /\ thread[i].at = result
  BY InvariantByRow DEF TypeOK, Harvestable, Delivery, Waiters
<1>2. thread[i].at # "idle"
  BY <1>1 DEF Results, Refusals
<1> QED
  BY <1>1, <1>2, LoggedRetained DEF TypeOK, RowGood, RowSafe, RetryInMemory, SubmittedMarked,
     CallingUntaken, NotTaken

(* A row whose thread has ended is good if it is held or gone, or if Telegram *)
(* took nothing.                                                              *)
LEMMA EndedRowGood ==
    ASSUME IInv, NEW i \in inFlight, NEW result \in Results, Harvestable(i, result), Leave(i),
           queue'[i].call = queue[i].call, UNCHANGED <<telegram, msglog>>,
           i \notin retries',
           \/ queue'[i].st = "sent_pending"
           \/ queue'[i].st = "queued" /\ (queue'[i].hold = "none" => telegram[i].copies = 0)
           \/ queue'[i].st = "removed" /\ (queue[i].call.log => telegram[i].copies = 0)
    PROVE  RowGood(i)'
<1>0. /\ i \in Ids /\ TypeOK /\ PermitsAccounted /\ RowGood(i)
      /\ telegram[i].copies \in Nat
  BY InFlightRow
<1>1. i \notin inFlight' /\ thread'[i].at = "idle"
  BY <1>0, LeaveEffect
<1> QED
  BY <1>0, <1>1 DEF RowGood, RowSafe, AbsentUntouched, RunnableUntaken, CallingUntaken,
     SubmittedMarked, RetryInMemory, Queued, Held, NotTaken, Refusals

(* harvest_completed commits a receipt and starts to settle it.               *)
LEMMA HarvestReceiptStep ==
    ASSUME IInv, NEW i \in Ids, HarvestReceipt(i)
    PROVE  IInv'
<1>0. i \in inFlight /\ Harvestable(i, "ok") /\ "ok" \in Results /\ Leave(i)
  BY DEF HarvestReceipt, Harvestable, Results
<1>1. /\ Alive /\ ~Locked /\ TypeOK /\ QueueTypeOK /\ PermitsAccounted /\ ThreadsOwned
      /\ i \notin retries /\ thread[i].chat \in Chats
  BY <1>0, InFlightRow, InvariantByRow DEF TypeOK, Thread
<1>2. /\ QueueTypeOK'
      /\ Queued(i)
      /\ RowBecomes(i, "sent_pending", "none")
      /\ \/ OthersKept(i)
         \/ \E j \in Ids \ {i} :
               /\ queue[j].st = "absent"
               /\ queue'[j].st = "queued" /\ queue'[j].hold = "none"
               /\ queue'[j].call = Supplement
               /\ \A k \in Ids \ {i, j} : queue'[k] = queue[k]
  BY <1>1, CompletionEffect DEF HarvestReceipt
<1>3. /\ inFlight' = inFlight \ {i} /\ inFlight' \subseteq Ids
      /\ busy' \subseteq Chats
      /\ permits' \in 0 .. Workers
      /\ PermitsAccounted'
      /\ thread' \in [Ids -> Thread]
      /\ thread'[i].at = "idle"
      /\ \A j \in Ids \ {i} : thread'[j] = thread[j]
  BY <1>0, <1>1, LeaveEffect
<1>4. recon' \in Recon /\ recon'.row = i /\ (queue[i].call.log => recon'.at = "write")
  BY DEF HarvestReceipt, Settling, Recon
<1>5. TypeOK'
  BY <1>1, <1>2, <1>3, <1>4 DEF TypeOK, HarvestReceipt
<1>6. ThreadsOwned' /\ SettlingReceipt'
  BY <1>1, <1>2, <1>3, <1>4 DEF HarvestReceipt, ThreadsOwned, SettlingReceipt, Locked, Alive, RowBecomes
<1>7. RowGood(i)'
  BY <1>0, <1>1, <1>2, EndedRowGood DEF HarvestReceipt, RowBecomes
<1>8. CASE OthersKept(i)
  <2>1. OthersUntouched({i})
    BY <1>3, <1>8 DEF OthersUntouched, OthersKept, HarvestReceipt
  <2> QED
    BY <1>3, <1>5, <1>6, <1>7, <2>1, OtherRowsKept
<1>9. ASSUME NEW j \in Ids \ {i}, queue[j].st = "absent",
             queue'[j].st = "queued", queue'[j].hold = "none", queue'[j].call = Supplement,
             \A k \in Ids \ {i, j} : queue'[k] = queue[k]
      PROVE  IInv'
  <2>1. RowGood(j)
    BY InvariantByRow
  <2>2. RowGood(j)'
    BY <1>3, <1>9, <2>1 DEF HarvestReceipt, RowGood, RowSafe, AbsentUntouched, RunnableUntaken,
       CallingUntaken, SubmittedMarked, RetryInMemory, Queued, Held, NotTaken, Refusals
  <2>3. OthersUntouched({i, j})
    BY <1>3, <1>9 DEF OthersUntouched, HarvestReceipt
  <2> QED
    BY <1>3, <1>5, <1>6, <1>7, <2>2, <2>3, OtherRowsKept
<1> QED
  BY <1>2, <1>8, <1>9

(* The receipt or a failed attempt's outcome could not be committed.          *)
LEMMA NotCommittedStep ==
    ASSUME IInv, NEW i \in Ids, NEW result \in Results,
           ReceiptNotCommitted(i) \/ HarvestStopped(i, result)
    PROVE  IInv'
<1>1. PICK r \in Results : /\ Harvestable(i, r)
                           /\ ReceiptNotCommitted(i) => r = "ok"
                           /\ r = "ok" => ReceiptNotCommitted(i) 
  BY DEF ReceiptNotCommitted, HarvestStopped, Results, Refusals
<1>2. /\ i \in inFlight /\ i \in Ids /\ Alive /\ ~Locked /\ TypeOK /\ QueueTypeOK
      /\ PermitsAccounted /\ ThreadsOwned /\ RowGood(i) /\ waiter \in Waiters /\ i \notin retries
      /\ (Retained(queue[i].call) => Held(i)) /\ (~Retained(queue[i].call) => queue[i].st = "removed")
      /\ (queue[i].call.log => Retained(queue[i].call))
      /\ UNCHANGED <<queue, msglog, retries, sub, recon, telegram, upgraded>>
  BY <1>1, InFlightRow, InvariantByRow DEF Harvestable, ReceiptNotCommitted, HarvestStopped, durable
<1>3. QueueTypeOK' /\ OthersKept(i) /\ queue'[i] = queue[i] /\ troubles' \in 0 .. MaxTroubles
  BY <1>2, TroubleType DEF QueueTypeOK, OthersKept, ReceiptNotCommitted, HarvestStopped
<1>4. CASE Leave(i) /\ StopForPersistenceError
  <2>1. life' = "failed" /\ notBefore' \subseteq Ids /\ waiter' \in Waiters
    BY <1>2, <1>4, StopType
  <2>2. RowGood(i)'
    BY <1>1, <1>2, <1>3, <1>4, EndedRowGood DEF Held, Queued
  <2>3. sub' \in [Ids -> Chats] /\ retries' \subseteq retries \union {i}
    BY <1>2 DEF TypeOK
  <2> QED
    BY <1>2, <1>3, <1>4, <2>1, <2>2, <2>3, HarvestSafe
<1>5. CASE UNCHANGED <<life, notBefore, waiter, inFlight, busy, permits, thread>>
  <2>1. TypeOK' /\ PermitsAccounted' /\ ThreadsOwned' /\ SettlingReceipt'
    BY <1>2, <1>3, <1>5 DEF TypeOK, PermitsAccounted, ThreadsOwned, SettlingReceipt, Alive, Locked
  <2>2. OthersUntouched({})
    BY <1>2, <1>5 DEF OthersUntouched
  <2> QED
    BY <2>1, <2>2, OtherRowsKept
<1> QED
  BY <1>4, <1>5 DEF ReceiptNotCommitted, HarvestStopped

(* A success without log context leaves the table at once.                    *)
LEMMA HarvestSuccessStep ==
    ASSUME IInv, NEW i \in Ids, HarvestSuccess(i)
    PROVE  IInv'
<1>0. i \in inFlight /\ Harvestable(i, "ok") /\ "ok" \in Results /\ Leave(i)
  BY DEF HarvestSuccess, Harvestable, Results
<1>1. /\ Alive /\ ~Locked /\ TypeOK /\ QueueTypeOK /\ waiter \in Waiters /\ i \notin retries
      /\ (Retained(queue[i].call) => Held(i)) /\ (~Retained(queue[i].call) => queue[i].st = "removed")
      /\ ~queue[i].call.log
      /\ UNCHANGED <<msglog, retries, sub, recon, telegram, upgraded>>
  BY <1>0, InFlightRow DEF HarvestSuccess
<1>2. /\ life' \in {life, "failed"} /\ notBefore' \subseteq Ids /\ waiter' \in Waiters
      /\ troubles' \in 0 .. MaxTroubles
      /\ sub' \in [Ids -> Chats] /\ retries' \subseteq retries \union {i}
  BY <1>1, StopType, TroubleType, WaiterTypes DEF HarvestSuccess, TypeOK
<1>3. /\ QueueTypeOK' /\ OthersKept(i) /\ queue'[i].call = queue[i].call
      /\ \/ queue'[i].st = "removed"
         \/ queue'[i] = queue[i] /\ Held(i)
  <2>1. CASE Delete(i)
    BY <1>1, <2>1, DeleteEffect DEF RowBecomes
  <2>2. CASE UNCHANGED queue
    BY <1>1, <2>2 DEF QueueTypeOK, OthersKept
  <2> QED
    BY <2>1, <2>2 DEF HarvestSuccess
<1>4. RowGood(i)'
  BY <1>0, <1>1, <1>3, EndedRowGood DEF Held, Queued
<1> QED
  BY <1>0, <1>1, <1>2, <1>3, <1>4, HarvestSafe

(* A rate-limited media edit moves from in_flight to the delayed retries.     *)
LEMMA HarvestMediaRetryStep ==
    ASSUME IInv, NEW i \in Ids, HarvestMediaRetry(i)
    PROVE  IInv'
<1>0. i \in inFlight /\ Harvestable(i, "limited") /\ "limited" \in Results /\ Leave(i)
  BY DEF HarvestMediaRetry, Harvestable, Results, Refusals
<1>1. /\ Alive /\ ~Locked /\ TypeOK /\ QueueTypeOK /\ PermitsAccounted /\ waiter \in Waiters
      /\ ~Retained(queue[i].call) /\ queue[i].st = "removed"
      /\ (queue[i].call.log => Retained(queue[i].call))
      /\ telegram[i].copies = 0
      /\ UNCHANGED <<queue, msglog, life, notBefore, waiter, recon, telegram, upgraded, troubles>>
  BY <1>0, InFlightRow DEF HarvestMediaRetry, KeepsForRetry, Retained, RetainedOperations,
     MessageCreatingOperations, Refusals, durable
<1>2. QueueTypeOK' /\ OthersKept(i)
  BY <1>1 DEF QueueTypeOK, OthersKept
<1>3. /\ retries' \subseteq retries \union {i} /\ sub' \in [Ids -> Chats]
      /\ notBefore' \subseteq Ids /\ troubles' \in 0 .. MaxTroubles
  BY <1>1 DEF HarvestMediaRetry, TypeOK, Thread
<1>4. i \notin inFlight' /\ thread'[i].at = "idle"
  BY <1>0, <1>1, LeaveEffect
<1>5. RowGood(i)'
  BY <1>1, <1>4 DEF RowGood, RowSafe, AbsentUntouched, RunnableUntaken, CallingUntaken,
     SubmittedMarked, RetryInMemory, Queued, Held, NotTaken, Refusals
<1> QED
  BY <1>0, <1>1, <1>2, <1>3, <1>5, HarvestSafe

(* A failed attempt makes its row runnable again only if Telegram took        *)
(* nothing, and discards it only if nothing that must be logged was taken.    *)
LEMMA HarvestFailureStep ==
    ASSUME IInv, NEW i \in Ids, NEW result \in Results, HarvestFailure(i, result)
    PROVE  IInv'
<1> DEFINE c == queue[i].call
           decision == Decision(c, result)
<1>0. i \in inFlight /\ Harvestable(i, result) /\ Leave(i)
  BY DEF HarvestFailure, Harvestable
<1>1. /\ Alive /\ ~Locked /\ TypeOK /\ QueueTypeOK /\ waiter \in Waiters /\ i \notin retries
      /\ (Retained(c) => Held(i)) /\ (~Retained(c) => queue[i].st = "removed")
      /\ (c.log => Retained(c))
      /\ (result \in Refusals => telegram[i].copies = 0)
      /\ UNCHANGED <<msglog, life, retries, sub, recon, telegram, upgraded, troubles>>
  BY <1>0, InFlightRow DEF HarvestFailure
<1>2. /\ c \in Calls \union {Supplement}
      /\ c.prio = 0 => Retained(c)
  <2>1. c \in Calls \union {Supplement}
    BY <1>1 DEF QueueTypeOK, Row
  <2>2. Retained(Supplement)
    BY DEF Retained, Supplement, RetainedOperations, MessageCreatingOperations
  <2> QED
    BY <2>1, <2>2, CallsAssumption DEF Retained, RetainedOperations
<1>3. /\ decision \in {"retry", "acquisition"} => result \in Refusals
      /\ decision = "terminal" /\ Retained(c) => result \in Refusals
  BY <1>2 DEF HarvestFailure, Decision, Unconfirmed, Refusals
<1>4. Settle(i, decision) /\ notBefore' \subseteq notBefore \union {i}
      /\ waiter' \in {waiter, FailWaiter(waiter, i)}
  BY DEF HarvestFailure
<1>5. notBefore' \subseteq Ids /\ waiter' \in Waiters
      /\ sub' \in [Ids -> Chats] /\ retries' \subseteq retries \union {i}
      /\ troubles' \in 0 .. MaxTroubles
  BY <1>1, <1>4, WaiterTypes DEF TypeOK
<1> HIDE DEF decision
<1>6. /\ QueueTypeOK' /\ OthersKept(i) /\ queue'[i].call = c
      /\ \/ queue'[i].st = "queued" /\ (queue'[i].hold = "none" => telegram[i].copies = 0)
         \/ queue'[i].st = "removed" /\ (c.log => telegram[i].copies = 0)
  <2>1. CASE UNCHANGED queue
    BY <1>1, <2>1 DEF QueueTypeOK, OthersKept, Held, Queued
  <2>2. CASE decision = "retry" /\ ReleaseDeliveryAttempt(i)
    BY <1>1, <1>3, <2>2, ReleaseEffect DEF RowBecomes, Held, Queued
  <2>3. CASE decision = "acquisition" /\ DeferAcquisition(i)
    BY <1>1, <1>3, <2>3, DeferAcquisitionEffect DEF RowBecomes, Held, Queued
  <2>4. ASSUME NEW reason \in Holds \ {"none"}, HoldRow(i, reason)
        PROVE  <1>6
    BY <1>1, <2>4, HoldEffect DEF RowBecomes
  <2>5. CASE decision = "terminal" /\ Retained(c) /\ Delete(i)
    BY <1>1, <1>3, <2>5, DeleteEffect DEF RowBecomes
  <2>6. decision \in {"retry", "acquisition", "uncertain", "terminal"}
    BY DEF decision, Decision, Unconfirmed
  <2> QED
    BY <1>4, <2>1, <2>2, <2>3, <2>4, <2>5, <2>6 DEF Settle, FailedHold, Holds
<1>7. RowGood(i)'
  BY <1>0, <1>1, <1>6, EndedRowGood
<1> QED
  BY <1>0, <1>1, <1>5, <1>6, <1>7, HarvestSafe

(* The body of the loop of harvest_completed, all its outcomes.               *)
LEMMA HarvestStep ==
    ASSUME IInv, NEW i \in Ids, Harvest(i)
    PROVE  IInv'
BY HarvestReceiptStep, NotCommittedStep, HarvestSuccessStep, HarvestMediaRetryStep,
   HarvestFailureStep DEF Harvest, Results

------------------------------------------------------------------------------
(* Settling receipts.                                                         *)

(* reconcile_sent_pending takes up a receipt that is due.                     *)
LEMMA StartReconciliationStep ==
    ASSUME IInv, NEW i \in Ids, StartReconciliation(i)
    PROVE  IInv'
<1>0. TypeOK /\ PermitsAccounted /\ ThreadsOwned /\ UNCHANGED durable
      /\ UNCHANGED <<life, inFlight, busy, permits, retries, notBefore, sub, waiter,
                     thread, telegram, upgraded, troubles>>
  BY InvariantByRow DEF StartReconciliation
<1>1. recon' \in Recon /\ recon'.row = i /\ (queue[i].call.log => recon'.at = "write")
      /\ queue[i].st = "sent_pending" /\ Alive
  BY DEF StartReconciliation, Settling, Recon, Alive
<1>2. TypeOK'
  BY <1>0, <1>1 DEF TypeOK, QueueTypeOK, durable
<1>3. PermitsAccounted' /\ ThreadsOwned' /\ SettlingReceipt'
  BY <1>0, <1>1 DEF PermitsAccounted, ThreadsOwned, SettlingReceipt, Alive, Locked, durable
<1>4. OthersUntouched({})
  BY <1>0 DEF OthersUntouched, durable
<1> QED
  BY <1>2, <1>3, <1>4, OtherRowsKept

(* The MsgLog entry is written before the removal of the row.                 *)
LEMMA WriteMsgLogStep ==
    ASSUME IInv, WriteMsgLog
    PROVE  IInv'
<1>0. TypeOK /\ PermitsAccounted /\ ThreadsOwned /\ SettlingReceipt /\ recon \in Recon
      /\ UNCHANGED <<queue, life, inFlight, busy, permits, retries, notBefore, sub, waiter,
                     thread, telegram, upgraded, troubles>>
  BY InvariantByRow DEF WriteMsgLog, TypeOK
<1>1. recon' \in Recon /\ recon'.row = recon.row /\ recon.row \in Ids /\ Locked
      /\ msglog' = msglog \union {recon.row}
  BY <1>0 DEF WriteMsgLog, Recon, Locked
<1>2. TypeOK'
  BY <1>0, <1>1 DEF TypeOK, QueueTypeOK
<1>3. PermitsAccounted' /\ ThreadsOwned' /\ SettlingReceipt'
  BY <1>0, <1>1 DEF PermitsAccounted, ThreadsOwned, SettlingReceipt, Alive, Locked
<1>4. OthersUntouched({})
  BY <1>0, <1>1 DEF OthersUntouched
<1> QED
  BY <1>2, <1>3, <1>4, OtherRowsKept

(* The steps that end a settlement, with or without the row's removal.        *)
LEMMA SettlementEnds ==
    ASSUME IInv, Locked, recon' = LockFree, QueueTypeOK',
           OthersKept(recon.row), queue'[recon.row].call = queue[recon.row].call,
           \/ queue'[recon.row].st = queue[recon.row].st
              /\ queue'[recon.row].hold = queue[recon.row].hold
           \/ queue'[recon.row].st = "removed"
              /\ (queue[recon.row].call.log => recon.row \in msglog),
           life' \in {life, "failed"}, notBefore' \subseteq Ids, waiter' \in Waiters,
           troubles' \in 0 .. MaxTroubles,
           UNCHANGED <<msglog, inFlight, busy, permits, retries, sub, thread, telegram, upgraded>>
    PROVE  IInv'
<1>0. PICK i \in Ids : i = recon.row
  BY DEF IInv, TypeOK, Recon
<1>a. TypeOK /\ PermitsAccounted /\ ThreadsOwned /\ SettlingReceipt /\ RowGood(i)
  BY InvariantByRow
<1>1. queue[i].st = "sent_pending"
  BY <1>0, <1>a DEF SettlingReceipt
<1>2. TypeOK'
  BY <1>a, IdleType DEF TypeOK, Waiters, Lives
<1>3. PermitsAccounted' /\ ThreadsOwned' /\ SettlingReceipt'
  BY <1>a DEF PermitsAccounted, ThreadsOwned, SettlingReceipt, Alive, Locked, LockFree
<1>4. OthersUntouched({i})
  BY <1>0 DEF OthersUntouched, OthersKept
<1>5. RowGood(i)'
  BY <1>0, <1>a, <1>1 DEF RowGood, RowSafe, AbsentUntouched, RunnableUntaken, CallingUntaken,
     SubmittedMarked, RetryInMemory, Queued, Held
<1> QED
  BY <1>0, <1>2, <1>3, <1>4, <1>5, OtherRowsKept

(* Every way a settlement goes on or ends.                                    *)
LEMMA ReconcileStepStep ==
    ASSUME IInv, ReconcileStep
    PROVE  IInv'
<1>1. CASE WriteMsgLog
  BY <1>1, WriteMsgLogStep
<1>2. CASE DropReceipt \/ ReceiptDeferred \/ ReconciliationStopped
  <2>0. /\ TypeOK /\ QueueTypeOK /\ recon.row \in Ids /\ SettlingReceipt /\ waiter \in Waiters
    BY InvariantByRow DEF TypeOK, Recon, Waiters
  <2>1. Locked /\ recon' = LockFree
        /\ UNCHANGED <<msglog, inFlight, busy, permits, retries, sub, thread, telegram, upgraded>>
    BY <1>2 DEF DropReceipt, ReceiptDeferred, ReconciliationStopped, Locked, durable
  <2>2. life' \in {life, "failed"} /\ notBefore' \subseteq Ids /\ waiter' \in Waiters
        /\ troubles' \in 0 .. MaxTroubles
    BY <1>2, <2>0, StopType, TroubleType, WaiterTypes
       DEF DropReceipt, ReceiptDeferred, ReconciliationStopped, Resume, TypeOK
  <2>3. CASE DropReceipt
    <3>1. /\ QueueTypeOK' /\ OthersKept(recon.row)
          /\ queue'[recon.row].call = queue[recon.row].call
          /\ queue'[recon.row].st = "removed"
      BY <2>0, <2>3, DeleteEffect DEF DropReceipt, RowBecomes
    <3>2. queue[recon.row].call.log => recon.row \in msglog
      BY <2>0, <2>1, <2>3 DEF SettlingReceipt, DropReceipt
    <3> QED
      BY <2>1, <2>2, <3>1, <3>2, SettlementEnds
  <2>4. CASE ReceiptDeferred \/ ReconciliationStopped
    <3>1. CASE DeferReconciliation(recon.row)
      BY <2>0, <2>1, <2>2, <3>1, DeferReconciliationEffect, SettlementEnds DEF RowBecomes
    <3>2. CASE UNCHANGED queue
      BY <2>0, <2>1, <2>2, <3>2, QueueStutter, SettlementEnds DEF RowBecomes
    <3> QED
      BY <2>4, <3>1, <3>2 DEF ReceiptDeferred, ReconciliationStopped, durable
  <2> QED
    BY <1>2, <2>3, <2>4
<1> QED
  BY <1>1, <1>2 DEF ReconcileStep

------------------------------------------------------------------------------
(* The operator, stopping, crashing and starting.                             *)

(* A confirmed row has no thread: its attempt ended before.                   *)
LEMMA ConfirmStep ==
    ASSUME IInv, NEW i \in Ids, ConfirmQueuedDelivery(i)
    PROVE  IInv'
<1>0. /\ TypeOK /\ QueueTypeOK /\ PermitsAccounted /\ ThreadsOwned /\ RowGood(i)
      /\ Alive /\ ~Locked /\ i \notin inFlight /\ Held(i) /\ thread[i].at = "idle"
      /\ queue[i].chat \in Chats
      /\ UNCHANGED <<msglog, life, inFlight, busy, permits, retries, notBefore, sub, waiter,
                     thread, telegram, upgraded, troubles>>
  BY InvariantByRow DEF TypeOK, QueueTypeOK, Row, ThreadsOwned, ConfirmQueuedDelivery
<1>1. /\ QueueTypeOK'
      /\ RowBecomes(i, "sent_pending", "none")
      /\ \/ OthersKept(i)
         \/ \E j \in Ids \ {i} :
               /\ queue[j].st = "absent"
               /\ queue'[j].st = "queued" /\ queue'[j].hold = "none"
               /\ queue'[j].call = Supplement
               /\ \A k \in Ids \ {i, j} : queue'[k] = queue[k]
  BY <1>0, CompletionEffect DEF ConfirmQueuedDelivery
<1>2. recon' \in Recon /\ recon'.row = i /\ (queue[i].call.log => recon'.at = "write")
  BY DEF ConfirmQueuedDelivery, Settling, Recon
<1>3. TypeOK'
  BY <1>0, <1>1, <1>2 DEF TypeOK
<1>4. PermitsAccounted' /\ ThreadsOwned' /\ SettlingReceipt'
  BY <1>0, <1>1, <1>2 DEF PermitsAccounted, ThreadsOwned, SettlingReceipt, Locked, Alive, RowBecomes
<1>5. RowGood(i)'
  BY <1>0, <1>1 DEF RowBecomes, RowGood, RowSafe, AbsentUntouched, RunnableUntaken, CallingUntaken,
     SubmittedMarked, RetryInMemory, Queued, Held, NotTaken, Refusals
<1>6. CASE OthersKept(i)
  <2>1. OthersUntouched({i})
    BY <1>0, <1>6 DEF OthersUntouched, OthersKept
  <2> QED
    BY <1>3, <1>4, <1>5, <2>1, OtherRowsKept
<1>7. ASSUME NEW j \in Ids \ {i}, queue[j].st = "absent",
             queue'[j].st = "queued", queue'[j].hold = "none", queue'[j].call = Supplement,
             \A k \in Ids \ {i, j} : queue'[k] = queue[k]
      PROVE  IInv'
  <2>1. RowGood(j)
    BY InvariantByRow
  <2>2. RowGood(j)'
    BY <1>0, <1>7, <2>1 DEF RowGood, RowSafe, AbsentUntouched, RunnableUntaken,
       CallingUntaken, SubmittedMarked, RetryInMemory, Queued, Held, NotTaken, Refusals
  <2>3. OthersUntouched({i, j})
    BY <1>0, <1>7 DEF OthersUntouched
  <2> QED
    BY <1>3, <1>4, <1>5, <2>2, <2>3, OtherRowsKept
<1> QED
  BY <1>1, <1>6, <1>7

(* hold_send.hold changes the hold of a queued row while the process is       *)
(* down.                                                                      *)
LEMMA OperatorHoldStep ==
    ASSUME IInv, NEW i \in Ids, OperatorHold(i)
    PROVE  IInv'
<1>0. /\ TypeOK /\ QueueTypeOK /\ PermitsAccounted /\ ThreadsOwned /\ SettlingReceipt /\ RowGood(i)
      /\ life = "down" /\ HoldRow(i, "operator") /\ troubles' \in 0 .. MaxTroubles
      /\ UNCHANGED <<msglog, scheduler, thread, telegram, upgraded>>
  BY InvariantByRow, TroubleType DEF TypeOK, OperatorHold
<1>1. QueueTypeOK' /\ OthersKept(i) /\ RowBecomes(i, "queued", "operator") /\ Queued(i)
  BY <1>0, HoldEffect DEF Holds
<1>2. TypeOK'
  BY <1>0, <1>1 DEF TypeOK, scheduler
<1>3. PermitsAccounted' /\ ThreadsOwned' /\ SettlingReceipt'
  BY <1>0 DEF PermitsAccounted, ThreadsOwned, SettlingReceipt, Locked, Alive, scheduler
<1>4. OthersUntouched({i})
  BY <1>0, <1>1 DEF OthersUntouched, OthersKept, scheduler
<1>5. RowGood(i)'
  BY <1>0, <1>1 DEF RowBecomes, scheduler, RowGood, RowSafe, AbsentUntouched, RunnableUntaken,
     CallingUntaken, SubmittedMarked, RetryInMemory, Queued, Held
<1> QED
  BY <1>2, <1>3, <1>4, <1>5, OtherRowsKept

(* stop_and_drain, the stop boundary.                                         *)
LEMMA StopStep ==
    ASSUME IInv, StopAndDrain
    PROVE  IInv'
<1>0. /\ TypeOK /\ QueueTypeOK /\ PermitsAccounted /\ ThreadsOwned /\ ~Locked /\ Alive /\ Alive'
      /\ waiter \in Waiters /\ troubles' \in 0 .. MaxTroubles /\ life' \in Lives
      /\ UNCHANGED <<durable, inFlight, busy, permits, sub, recon, thread, telegram, upgraded>>
  BY InvariantByRow, TroubleType DEF TypeOK, StopAndDrain, Waiters, Alive, Lives
<1>1. waiter' \in Waiters /\ notBefore' = {} /\ retries' = {}
  BY <1>0, AllWaitersType DEF StopAndDrain
<1>2. TypeOK'
  BY <1>0, <1>1 DEF TypeOK, QueueTypeOK, Waiters, durable
<1>3. PermitsAccounted' /\ ThreadsOwned' /\ SettlingReceipt'
  BY <1>0 DEF PermitsAccounted, ThreadsOwned, SettlingReceipt, Locked, Alive, durable
<1>4. OthersUntouched({})
  BY <1>0, <1>1 DEF OthersUntouched, durable
<1> QED
  BY <1>2, <1>3, <1>4, OtherRowsKept

(* Abandoned calls give their permits back all at once.                       *)
LEMMA DrainEndsStep ==
    ASSUME IInv, DrainEnds
    PROVE  IInv'
<1>0. /\ TypeOK /\ QueueTypeOK /\ PermitsAccounted /\ ~Locked /\ waiter \in Waiters
      /\ life' = "closed" /\ inFlight' = {} /\ retries = {}
      /\ permits' = permits + Cardinality(inFlight)
      /\ busy' \subseteq Chats
      /\ UNCHANGED <<durable, retries, notBefore, sub, recon, thread, telegram, upgraded, troubles>>
  BY InvariantByRow DEF TypeOK, DrainEnds, Waiters
<1>1. permits' = Workers /\ PermitsAccounted'
  BY <1>0, AllPermits DEF PermitsAccounted
<1>2. waiter' \in Waiters
  BY <1>0, AllWaitersType DEF DrainEnds
<1>3. TypeOK'
  BY <1>0, <1>1, <1>2, SchedulerAssumption DEF TypeOK, QueueTypeOK, Waiters, Lives, durable
<1>4. ThreadsOwned' /\ SettlingReceipt'
  BY <1>0 DEF ThreadsOwned, SettlingReceipt, Locked, Alive
<1>5. OthersUntouched({})
  BY <1>0 DEF OthersUntouched, durable
<1> QED
  BY <1>1, <1>3, <1>4, <1>5, OtherRowsKept

(* A crash or an exit ends every thread; the table is what it was.            *)
LEMMA ProcessGoneStep ==
    ASSUME IInv, Crash \/ Exit
    PROVE  IInv'
<1>0. TypeOK /\ QueueTypeOK /\ ProcessGone /\ troubles' \in 0 .. MaxTroubles
  BY InvariantByRow, TroubleType DEF TypeOK, Crash, Exit
<1>1. /\ \A i \in Ids : thread'[i].at = "idle"
      /\ inFlight' = {} /\ retries' = {} /\ permits' = Workers /\ recon' = LockFree /\ life' = "down"
      /\ UNCHANGED <<queue, msglog, telegram, upgraded>>
  BY <1>0 DEF ProcessGone, Idle
<1>2. TypeOK'
  BY <1>0, <1>1, IdleType, SchedulerAssumption DEF TypeOK, QueueTypeOK, ProcessGone, Lives
<1>3. PermitsAccounted' /\ ThreadsOwned' /\ SettlingReceipt'
  BY <1>1, AllPermits DEF PermitsAccounted, ThreadsOwned, SettlingReceipt, Locked, Alive, LockFree
<1>4. ASSUME NEW i \in Ids PROVE RowGood(i)'
  <2>1. RowGood(i)
    BY InvariantByRow
  <2> QED
    BY <1>1, <2>1 DEF RowGood, RowSafe, AbsentUntouched, RunnableUntaken, CallingUntaken,
       SubmittedMarked, RetryInMemory, Queued, Held, NotTaken, Refusals
<1> QED
  BY <1>2, <1>3, <1>4, InvariantByRowNext

(* A start reads the table as it is and runs nothing of its own accord.       *)
LEMMA RestartStep ==
    ASSUME IInv, Restart
    PROVE  IInv'
<1>0. /\ TypeOK /\ QueueTypeOK /\ PermitsAccounted /\ ThreadsOwned /\ SettlingReceipt
      /\ life = "down" /\ life' = "running"
      /\ UNCHANGED <<durable, inFlight, busy, permits, retries, notBefore, sub, waiter, recon,
                     thread, telegram, upgraded, troubles>>
  BY InvariantByRow DEF TypeOK, Restart
<1>1. TypeOK'
  BY <1>0 DEF TypeOK, QueueTypeOK, Lives, durable
<1>2. PermitsAccounted' /\ ThreadsOwned' /\ SettlingReceipt'
  BY <1>0 DEF PermitsAccounted, ThreadsOwned, SettlingReceipt, Locked, Alive
<1>3. OthersUntouched({})
  BY <1>0 DEF OthersUntouched, durable
<1> QED
  BY <1>1, <1>2, <1>3, OtherRowsKept

------------------------------------------------------------------------------
(* Put together.                                                              *)

(* Every step of the system preserves the inductive invariant.                *)
LEMMA NextInvariant == IInv /\ [Next]_vars => IInv'
<1> SUFFICES ASSUME IInv, [Next]_vars PROVE IInv'
  OBVIOUS
<1>1. CASE UNCHANGED vars
  <2>1. UNCHANGED <<queue, msglog, life, inFlight, busy, permits, retries, notBefore, sub,
                    waiter, recon, thread, telegram, upgraded, troubles>>
    BY <1>1 DEF vars
  <2>2. TypeOK' /\ PermitsAccounted' /\ ThreadsOwned' /\ SettlingReceipt'
    BY <2>1 DEF IInv, TypeOK, QueueTypeOK, PermitsAccounted, ThreadsOwned, SettlingReceipt, Locked, Alive
  <2>3. OthersUntouched({})
    BY <2>1 DEF OthersUntouched
  <2> QED
    BY <2>2, <2>3, OtherRowsKept
<1>2. ASSUME NEW i \in Ids, NEW c \in Calls, NEW ch \in Chats, EnqueueRequest(i, c, ch)
      PROVE  IInv'
  BY <1>2, EnqueueRequestStep
<1>3. ASSUME NEW i \in Ids, Executor(i) PROVE IInv'
  BY <1>3, ExecutorStep
<1>4. ASSUME NEW i \in Ids, Harvest(i) PROVE IInv'
  BY <1>4, HarvestStep
<1>5. ASSUME NEW i \in Ids, DispatchOnce(i) PROVE IInv'
  BY <1>5, DispatchStep, DispatchFailsStep DEF DispatchOnce
<1>6. ASSUME NEW i \in Ids, Retry(i) \/ Clock(i) PROVE IInv'
  <2>1. PICK ch \in Chats : TRUE
    BY BoundsAssumption
  <2> QED
    BY <1>6, <2>1, RetryDispatchStep, BookkeepingStep DEF Retry, Clock
<1>7. ASSUME NEW i \in Ids, Reconcile(i) PROVE IInv'
  BY <1>7, StartReconciliationStep DEF Reconcile
<1>8. ASSUME NEW i \in Ids, Operator(i) PROVE IInv'
  BY <1>8, ConfirmStep, OperatorHoldStep DEF Operator
<1>9. ASSUME NEW ch \in Chats, GroupUpgrades(ch) PROVE IInv'
  <2>1. PICK i \in Ids : TRUE
    BY BoundsAssumption DEF Ids
  <2> QED
    BY <1>9, <2>1, BookkeepingStep
<1> QED
  BY <1>1, <1>2, <1>3, <1>4, <1>5, <1>6, <1>7, <1>8, <1>9, ReconcileStepStep, StopStep,
     DrainEndsStep, ProcessGoneStep, RestartStep DEF Next

(* The state of the table, the scheduler, the threads and Telegram keeps its  *)
(* type, and the worker semaphore never loses or gains a permit: whatever     *)
(* interleaving of dispatch, harvest, drain, crash and restart.               *)
THEOREM SchedulerTypes == Spec => []TypeOK
<1>1. IInv => TypeOK
  BY DEF IInv
<1> QED
  BY <1>1, InitInvariant, NextInvariant, PTL DEF Spec

(* The inductive invariant holds in every reachable state: durable row,       *)
(* memory of the scheduler and executor thread agree on every attempt,        *)
(* whatever begin_delivery_attempt, harvest_completed, crashes and restarts   *)
(* interleave to.                                                             *)
THEOREM SchedulerInvariant == Spec => []IInv
BY InitInvariant, NextInvariant, PTL DEF Spec

(* begin_delivery_attempt and record_queued_failure together: Telegram takes  *)
(* at most one message for a row.                                             *)
THEOREM AtMostOnceTheorem == Spec => []AtMostOnce
<1>1. IInv => AtMostOnce
  BY DEF IInv
<1> QED
  BY <1>1, InitInvariant, NextInvariant, PTL DEF Spec

(* harvest_completed and reconcile_sent_pending: what Telegram took and must  *)
(* be logged is logged, or the table still knows of it.                       *)
THEOREM AcceptedTheorem == Spec => []AcceptedIsAccountedFor
<1>1. IInv => AcceptedIsAccountedFor
  BY DEF IInv
<1> QED
  BY <1>1, InitInvariant, NextInvariant, PTL DEF Spec

------------------------------------------------------------------------------
(* Transactions, with every field of the row they are about.                  *)

RowNow(i, st, hold, chat, fallback) ==
    /\ RowBecomes(i, st, hold)
    /\ queue'[i].chat = chat
    /\ queue'[i].fallback = fallback

RowSame(i) == RowNow(i, queue[i].st, queue[i].hold, queue[i].chat, queue[i].fallback)

(* begin_delivery_attempt and the holds change the hold of a queued row.      *)
LEMMA HoldRowEffect ==
    ASSUME QueueTypeOK, NEW i \in Ids, NEW reason \in Holds, HoldRow(i, reason)
    PROVE  /\ Queued(i) /\ OthersKept(i)
           /\ RowNow(i, "queued", reason, queue[i].chat, queue[i].fallback)
BY DEF QueueTypeOK, HoldRow, OthersKept, RowNow, RowBecomes, Queued, Row

(* begin_delivery_attempt marks the row it is given and no other.             *)
LEMMA BeginRowEffect ==
    ASSUME QueueTypeOK, NEW i \in Ids, BeginDeliveryAttempt(i)
    PROVE  /\ Queued(i) /\ OthersKept(i)
           /\ RowNow(i, "queued", "in_flight", queue[i].chat, queue[i].fallback)
BY DEF QueueTypeOK, BeginDeliveryAttempt, OthersKept, RowNow, RowBecomes, Queued, Row

(* release_delivery_attempt and defer_acquisition lift it.                    *)
LEMMA ReleaseRowEffect ==
    ASSUME QueueTypeOK, NEW i \in Ids, Queued(i), ReleaseDeliveryAttempt(i) \/ DeferAcquisition(i)
    PROVE  /\ OthersKept(i)
           /\ RowNow(i, "queued", "none", queue[i].chat, queue[i].fallback)
BY DEF QueueTypeOK, ReleaseDeliveryAttempt, DeferAcquisition, OthersKept, RowNow, RowBecomes, Queued, Row

(* record_history_fallback and retarget change one field.                     *)
LEMMA FallbackRowEffect ==
    ASSUME QueueTypeOK, NEW i \in Ids, NEW attempted \in BOOLEAN,
           RecordHistoryFallback(i, attempted)
    PROVE  /\ Queued(i) /\ OthersKept(i)
           /\ RowNow(i, queue[i].st, queue[i].hold, queue[i].chat, attempted)
BY DEF QueueTypeOK, RecordHistoryFallback, OthersKept, RowNow, RowBecomes, Queued, Row

(* A deadline that comes or is set changes none of the fields that matter.    *)
LEMMA DueRowEffect ==
    ASSUME QueueTypeOK, NEW i \in Ids, DeferReconciliation(i) \/ BecomesDue(i) \/ UNCHANGED queue
    PROVE  \A j \in Ids : RowSame(j)
BY DEF QueueTypeOK, DeferReconciliation, BecomesDue, RowSame, RowNow, RowBecomes, Row

(* The receipt of a row, and what else the table gets with it.                *)
Receipted(i) ==
    /\ Queued(i)
    /\ RowNow(i, "sent_pending", "none", queue[i].chat, queue[i].fallback)
    /\ IF queue[i].call.long
       THEN \E j \in Ids \ {i} : /\ IsNextId(j)
                                 /\ queue'[j].st = "queued" /\ queue'[j].hold = "none"
                                 /\ queue'[j].call = Supplement /\ ~queue'[j].fallback
                                 /\ \A k \in Ids \ {i, j} : queue'[k] = queue[k]
       ELSE OthersKept(i)

(* record_telegram_completion commits the receipt and, for a long message,    *)
(* the request for its attachment.                                            *)
LEMMA ReceiptRowEffect ==
    ASSUME QueueTypeOK, NEW i \in Ids, NEW ch \in Chats, RecordTelegramCompletion(i, ch)
    PROVE  Receipted(i)
<1> DEFINE receipted == [queue[i] EXCEPT !.st = "sent_pending", !.hold = "none", !.due = TRUE]
<1>1. /\ receipted.st = "sent_pending" /\ receipted.hold = "none"
      /\ receipted.call = queue[i].call /\ receipted.chat = queue[i].chat
      /\ receipted.fallback = queue[i].fallback
  BY DEF QueueTypeOK, Row
<1>2. Queued(i)
  BY DEF RecordTelegramCompletion
<1>3. CASE queue[i].call.long
  <2>1. PICK j \in Ids : /\ IsNextId(j)
                         /\ queue' = [queue EXCEPT ![i] = receipted, ![j] = NewRow(Supplement, ch)]
    BY <1>3 DEF RecordTelegramCompletion
  <2>2. j # i
    BY <1>2, <2>1 DEF IsNextId, Queued
  <2> HIDE DEF receipted
  <2>3. queue'[i] = receipted /\ queue'[j] = NewRow(Supplement, ch)
        /\ \A k \in Ids \ {i, j} : queue'[k] = queue[k]
    BY <2>1, <2>2 DEF QueueTypeOK
  <2>4. RowNow(i, "sent_pending", "none", queue[i].chat, queue[i].fallback)
    BY <1>1, <2>3 DEF RowNow, RowBecomes
  <2>5. /\ queue'[j].st = "queued" /\ queue'[j].hold = "none"
        /\ queue'[j].call = Supplement /\ ~queue'[j].fallback
    BY <2>3 DEF NewRow
  <2> QED
    BY <1>2, <1>3, <2>1, <2>2, <2>3, <2>4, <2>5 DEF Receipted
<1>4. CASE ~queue[i].call.long
  <2>1. queue' = [queue EXCEPT ![i] = receipted]
    BY <1>4 DEF RecordTelegramCompletion
  <2> HIDE DEF receipted
  <2> QED
    BY <1>1, <1>2, <1>4, <2>1 DEF QueueTypeOK, OthersKept, Receipted, RowNow, RowBecomes
<1> QED
  BY <1>3, <1>4

------------------------------------------------------------------------------
(* The kinds of steps.                                                        *)

OthersSame(S) ==
    \A j \in Ids \ S : RowSame(j) /\ thread'[j] = thread[j] /\ telegram'[j] = telegram[j]
NoNewWaiters(S) == \A j \in Ids \ S : waiter'[j] = "waiting" => waiter[j] = "waiting"
Answered(i) == NoNewWaiters({i}) /\ waiter'[i] # "waiting"
MemorySame == UNCHANGED <<inFlight, busy, permits, retries, sub>>
LifeGoesOn == life' = life \/ (Alive /\ life' \in {"stopping", "failed"})

(* Deadlines, failures that change no row, a group that is upgraded.          *)
Quiet ==
    /\ OthersSame({}) /\ MemorySame /\ UNCHANGED <<msglog, recon>>
    /\ NoNewWaiters({}) /\ LifeGoesOn

Restarted ==
    /\ life = "down" /\ life' = "running"
    /\ OthersSame({}) /\ MemorySame /\ UNCHANGED <<msglog, recon, waiter>>

(* A request enters the table.                                                *)
Inserted(i) ==
    /\ life = "running" /\ IsNextId(i)
    /\ queue'[i].st = "queued" /\ queue'[i].hold = "none" /\ ~queue'[i].fallback
    /\ queue'[i].call \in Calls
    /\ OthersSame({i}) /\ UNCHANGED <<thread, telegram>>
    /\ MemorySame /\ UNCHANGED <<msglog, recon, life>>
    /\ NoNewWaiters({i})

(* A row is taken for the executor, or taken and given up or put aside.       *)
Dispatched(i) ==
    /\ Dispatchable(i)
    /\ IF Retained(queue[i].call)
       THEN RowNow(i, "queued", "in_flight", queue[i].chat, queue[i].fallback)
       ELSE RowNow(i, "removed", "none", queue[i].chat, FALSE)
    /\ Submit(i, queue[i].chat, queue[i].fallback)
    /\ OthersSame({i})
    /\ UNCHANGED <<telegram, msglog, retries, waiter, recon, life>>

Undispatched(i) ==
    /\ Dispatchable(i)
    /\ \/ RowNow(i, "removed", "none", queue[i].chat, FALSE)
       \/ \E h \in Holds \ {"none"} : RowNow(i, "queued", h, queue[i].chat, queue[i].fallback)
    /\ OthersSame({i}) /\ UNCHANGED <<thread, telegram>>
    /\ MemorySame /\ UNCHANGED <<msglog, recon>>
    /\ Answered(i) /\ LifeGoesOn

(* A media edit that waited for its rate limit is sent again or given up.     *)
Redispatched(i) ==
    /\ ~Locked /\ life = "running"
    /\ i \in retries /\ sub[i] \notin busy /\ permits > 0
    /\ retries' = retries \ {i}
    /\ Submit(i, sub[i], FALSE)
    /\ RowSame(i) /\ OthersSame({i})
    /\ UNCHANGED <<telegram, msglog, waiter, recon, life>>

RetryFailed(i) ==
    /\ i \in retries /\ retries' = retries \ {i}
    /\ OthersSame({})
    /\ UNCHANGED <<inFlight, busy, permits, sub, msglog, recon, life>>
    /\ Answered(i)

(* The executor thread of a row goes on.                                      *)
ThreadMoved(i) ==
    /\ OthersSame({i}) /\ UNCHANGED <<msglog, scheduler>>
    /\ RowBecomes(i, queue[i].st, queue[i].hold)
    /\ thread[i].chat \in upgraded \/ (queue'[i].chat = queue[i].chat /\ thread'[i].chat = thread[i].chat)
    /\ \/ /\ thread[i].at = "clearing" /\ thread'[i].at = "calling"
          /\ thread'[i].fallback = thread[i].fallback /\ queue'[i].fallback = FALSE
          /\ telegram'[i] = telegram[i]
       \/ /\ thread[i].at = "calling" /\ thread'[i].at = "accepted"
          /\ thread'[i].fallback = thread[i].fallback /\ RowSame(i)
          /\ telegram'[i].copies = telegram[i].copies + 1
          /\ telegram'[i].fallback = thread[i].fallback
       \/ /\ thread[i].at = "calling" /\ thread'[i].at = "calling"
          /\ thread'[i].fallback = queue'[i].fallback \/ (RowSame(i) /\ thread'[i].fallback = thread[i].fallback)
          /\ telegram'[i] = telegram[i]
       \/ /\ thread[i].at \in {"clearing", "calling"} /\ thread'[i].at \in Results \ {"ok"}
          /\ thread'[i].at \in {"migrated", "unacquired"} => Retained(queue[i].call)
          /\ telegram'[i] = telegram[i]
       \/ /\ thread[i].at = "accepted" /\ thread'[i].at \in {"ok", "ambiguous", "unusable"}
          /\ RowSame(i) /\ telegram'[i] = telegram[i]

(* A finished call is harvested: its row stays as it is, held or not, is put  *)
(* back, or is gone.                                                          *)
Harvested(i) ==
    /\ ~Locked /\ Alive /\ i \in inFlight
    /\ Leave(i)
    /\ OthersSame({i}) /\ UNCHANGED <<telegram, msglog, recon>> /\ LifeGoesOn
    /\ \/ /\ RowSame(i) \/ (Queued(i) /\ RowNow(i, "removed", "none", queue[i].chat, FALSE)
                             /\ \/ telegram[i].copies = 0
                                \/ thread[i].at = "ok" /\ ~queue[i].call.log /\ ~queue[i].call.long)
                        \/ (Queued(i) /\ \E h \in Holds \ {"none"} :
                               RowNow(i, "queued", h, queue[i].chat, queue[i].fallback))
          /\ Answered(i) /\ UNCHANGED <<retries, sub>>
       \/ /\ Queued(i) /\ RowNow(i, "queued", "none", queue[i].chat, queue[i].fallback)
          /\ telegram[i].copies = 0
          /\ NoNewWaiters({}) /\ UNCHANGED <<retries, sub>>
       \/ /\ RowSame(i) /\ ~Retained(queue[i].call) /\ telegram[i].copies = 0
          /\ retries' = retries \union {i} /\ sub' = [sub EXCEPT ![i] = thread[i].chat]
          /\ UNCHANGED waiter

HarvestedReceipt(i) ==
    /\ ~Locked /\ Alive /\ i \in inFlight /\ thread[i].at = "ok"
    /\ Leave(i) /\ Receipted(i)
    /\ \A j \in Ids \ {i} : thread'[j] = thread[j]
    /\ recon' = Settling(i, "harvest")
    /\ UNCHANGED <<telegram, msglog, retries, sub, waiter, life>>

(* The operator's receipt and hold.                                           *)
Confirmed(i) ==
    /\ ~Locked /\ Alive /\ i \notin inFlight
    /\ Held(i) /\ telegram[i].copies > 0
    /\ Receipted(i)
    /\ recon' = Settling(i, "confirm")
    /\ MemorySame /\ UNCHANGED <<thread, telegram, msglog, waiter, life>>

OperatorHeld(i) ==
    /\ life = "down" /\ Queued(i)
    /\ RowNow(i, "queued", "operator", queue[i].chat, queue[i].fallback)
    /\ OthersSame({i}) /\ UNCHANGED <<thread, telegram, msglog, scheduler>>

(* Receipts are settled.                                                      *)
SettlementStarted(i) ==
    /\ ~Locked /\ queue[i].st = "sent_pending"
    /\ recon' = Settling(i, "batch")
    /\ OthersSame({}) /\ MemorySame /\ UNCHANGED <<msglog, waiter, life>>

Logged ==
    /\ recon.at = "write"
    /\ msglog' = msglog \union {recon.row}
    /\ recon'.at = "drop" /\ recon'.row = recon.row /\ recon'.by = recon.by
    /\ OthersSame({}) /\ MemorySame /\ UNCHANGED <<waiter, life>>

Dropped ==
    /\ recon.at = "drop"
    /\ RowNow(recon.row, "removed", "none", queue[recon.row].chat, FALSE)
    /\ OthersSame({recon.row}) /\ UNCHANGED <<thread, telegram>>
    /\ recon' = LockFree
    /\ NoNewWaiters({}) /\ (recon.by = "harvest" => Answered(recon.row))
    /\ MemorySame /\ UNCHANGED <<msglog, life>>

SettlementEnded ==
    /\ Locked /\ recon' = LockFree
    /\ OthersSame({}) /\ MemorySame /\ UNCHANGED msglog
    /\ NoNewWaiters({}) /\ (recon.by = "harvest" => Answered(recon.row))
    /\ LifeGoesOn

(* Stops and crashes.                                                         *)
Stopped ==
    /\ ~Locked /\ Alive /\ life' \in {"stopping", "failed"}
    /\ retries' = {}
    /\ \A j \in Ids : waiter'[j] = "waiting" => waiter[j] = "waiting" /\ j \in inFlight
    /\ OthersSame({}) /\ UNCHANGED <<inFlight, busy, permits, sub, msglog, recon>>

Drained ==
    /\ ~Locked /\ Alive /\ life' = "closed"
    /\ retries = {} /\ retries' = {}
    /\ inFlight' = {} /\ busy' = busy \ {sub[i] : i \in inFlight}
    /\ OthersSame({}) /\ UNCHANGED <<sub, msglog, recon>>

Gone ==
    /\ life' = "down"
    /\ inFlight' = {} /\ retries' = {} /\ busy' = {}
    /\ recon' = LockFree
    /\ \A j \in Ids : /\ RowSame(j) /\ telegram'[j] = telegram[j]
                      /\ thread'[j].at = "idle" /\ waiter'[j] = "none"
    /\ UNCHANGED msglog

Kind(i) ==
    \/ Inserted(i) \/ Dispatched(i) \/ Undispatched(i) \/ Redispatched(i) \/ RetryFailed(i)
    \/ ThreadMoved(i) \/ Harvested(i) \/ HarvestedReceipt(i)
    \/ Confirmed(i) \/ OperatorHeld(i) \/ SettlementStarted(i)

SomeKind ==
    \/ Quiet \/ Restarted \/ Logged \/ Dropped \/ SettlementEnded
    \/ Stopped \/ Drained \/ Gone
    \/ \E i \in Ids : Kind(i)

------------------------------------------------------------------------------
(* Every step is of one of the kinds.                                         *)

(* A deleted row leaves neither hold nor fallback behind.                     *)
LEMMA DeleteRowEffect ==
    ASSUME QueueTypeOK, NEW i \in Ids, Delete(i)
    PROVE  /\ queue[i].st \in {"queued", "sent_pending"} /\ OthersKept(i)
           /\ RowNow(i, "removed", "none", queue[i].chat, FALSE)
<1>1. queue[i] \in Row
  BY DEF QueueTypeOK
<1>2. /\ RowRemoved(queue[i]).st = "removed" /\ RowRemoved(queue[i]).hold = "none"
      /\ RowRemoved(queue[i]).call = queue[i].call /\ RowRemoved(queue[i]).chat = queue[i].chat
      /\ RowRemoved(queue[i]).fallback = FALSE
  BY <1>1 DEF RowRemoved, Row
<1> QED
  BY <1>2 DEF QueueTypeOK, Delete, OthersKept, RowNow, RowBecomes

(* Rows a transaction leaves alone are the same rows.                         *)
LEMMA KeptIsSame ==
    ASSUME NEW i \in Ids, OthersKept(i),
           \A j \in Ids \ {i} : thread'[j] = thread[j] /\ telegram'[j] = telegram[j]
    PROVE  OthersSame({i})
BY DEF OthersKept, OthersSame, RowSame, RowNow, RowBecomes

(* Where no row, thread or message changes, nothing concerns any row.         *)
LEMMA AllSame ==
    ASSUME \A j \in Ids : RowSame(j), UNCHANGED <<thread, telegram>>
    PROVE  OthersSame({})
BY DEF OthersSame

(* An untouched table has the same rows.                                      *)
LEMMA StutterSame == ASSUME UNCHANGED queue PROVE \A j \in Ids : RowSame(j)
BY DEF RowSame, RowNow, RowBecomes

(* What becomes of the Futures.                                               *)
LEMMA WaiterEffect ==
    ASSUME TypeOK, NEW i \in Ids
    PROVE  /\ waiter' = FailWaiter(waiter, i) => Answered(i) /\ NoNewWaiters({})
           /\ waiter' = CompleteWaiter(waiter, i) => Answered(i) /\ NoNewWaiters({})
           /\ UNCHANGED waiter => NoNewWaiters({})
           /\ StopForPersistenceError => Answered(i) /\ NoNewWaiters({})
BY DEF TypeOK, FailWaiter, CompleteWaiter, StopForPersistenceError, FailWaiters, Answered, NoNewWaiters

(* _enqueue_requests.                                                         *)
LEMMA EnqueueKind ==
    ASSUME IInv, NEW i \in Ids, NEW c \in Calls, NEW ch \in Chats, EnqueueRequest(i, c, ch)
    PROVE  Inserted(i)
<1>1. TypeOK /\ QueueTypeOK
  BY DEF IInv, TypeOK
<1>2. /\ IsNextId(i) /\ OthersKept(i)
      /\ queue'[i].st = "queued" /\ queue'[i].hold = "none" /\ queue'[i].call = c
  BY <1>1, EnqueueEffect DEF EnqueueRequest, Enqueue
<1>3. ~queue'[i].fallback
  BY <1>1 DEF EnqueueRequest, Enqueue, NewRow, QueueTypeOK
<1>4. OthersSame({i})
  BY <1>2, KeptIsSame DEF EnqueueRequest
<1>5. NoNewWaiters({i})
  BY <1>1 DEF EnqueueRequest, NoNewWaiters, TypeOK
<1> QED
  BY <1>2, <1>3, <1>4, <1>5 DEF Inserted, MemorySame, EnqueueRequest

(* dispatch_once.                                                             *)
LEMMA DispatchKind ==
    ASSUME IInv, NEW i \in Ids, Dispatch(i)
    PROVE  Dispatched(i)
<1>1. TypeOK /\ QueueTypeOK
  BY DEF IInv, TypeOK
<1>2. /\ OthersKept(i)
      /\ IF Retained(queue[i].call)
         THEN RowNow(i, "queued", "in_flight", queue[i].chat, queue[i].fallback)
         ELSE RowNow(i, "removed", "none", queue[i].chat, FALSE)
  BY <1>1, BeginRowEffect, DeleteRowEffect DEF Dispatch
<1>3. OthersSame({i})
  <2>1. \A j \in Ids \ {i} : thread'[j] = thread[j] /\ telegram'[j] = telegram[j]
    BY <1>1 DEF Dispatch, Submit, TypeOK
  <2> QED
    BY <1>2, <2>1, KeptIsSame
<1> QED
  BY <1>2, <1>3 DEF Dispatch, Dispatched

(* A row whose dispatch fails is gone, or stays as it was, and is not in flight. *)
LEMMA DispatchFailsKind ==
    ASSUME IInv, NEW i \in Ids,
           \/ DispatchNotSubmitted(i) \/ DispatchStopped(i)
           \/ DispatchUnavailable(i) \/ DispatchUndecodable(i)
    PROVE  Quiet \/ Undispatched(i)
<1>1. TypeOK /\ QueueTypeOK /\ Dispatchable(i) /\ Alive
      /\ UNCHANGED <<msglog, inFlight, busy, permits, retries, sub, recon, thread, telegram>>
  BY DEF IInv, TypeOK, Dispatchable, Alive,
         DispatchNotSubmitted, DispatchStopped, DispatchUnavailable, DispatchUndecodable
<1>2. LifeGoesOn
  BY <1>1 DEF LifeGoesOn, StopForPersistenceError,
              DispatchNotSubmitted, DispatchStopped, DispatchUnavailable, DispatchUndecodable
<1>3. NoNewWaiters({}) /\ (UNCHANGED queue \/ Answered(i))
  BY <1>1, WaiterEffect
     DEF DispatchNotSubmitted, DispatchStopped, DispatchUnavailable, DispatchUndecodable
<1>4. CASE UNCHANGED queue
  BY <1>1, <1>2, <1>3, <1>4, StutterSame, AllSame DEF Quiet, MemorySame
<1>5. CASE ~UNCHANGED queue
  <2>1. \/ Delete(i)
        \/ BeginDeliveryAttempt(i)
        \/ \E h \in {"history_failed", "supplement_failed", "invalid_payload"} : HoldRow(i, h)
    BY <1>5 DEF FailedHold,
       DispatchNotSubmitted, DispatchStopped, DispatchUnavailable, DispatchUndecodable
  <2>2. /\ OthersKept(i)
        /\ \/ RowNow(i, "removed", "none", queue[i].chat, FALSE)
           \/ \E h \in Holds \ {"none"} : RowNow(i, "queued", h, queue[i].chat, queue[i].fallback)
    BY <1>1, <2>1, DeleteRowEffect, BeginRowEffect, HoldRowEffect DEF Holds
  <2>3. OthersSame({i})
    BY <1>1, <2>2, KeptIsSame
  <2> QED
    BY <1>1, <1>2, <1>3, <1>5, <2>2, <2>3 DEF Undispatched, MemorySame
<1> QED
  BY <1>4, <1>5

(* _dispatch_blocking_media_retries.                                          *)
LEMMA RetryKind ==
    ASSUME IInv, NEW i \in Ids, Retry(i)
    PROVE  Redispatched(i) \/ RetryFailed(i)
<1>1. TypeOK
  BY DEF IInv
<1>2. CASE RetryDispatch(i)
  <2>1. \A j \in Ids \ {i} : thread'[j] = thread[j]
    BY <1>1, <1>2 DEF RetryDispatch, Submit, TypeOK
  <2>2. OthersSame({i}) /\ RowSame(i)
    BY <1>2, <2>1, StutterSame DEF RetryDispatch, OthersSame
  <2> QED
    BY <1>2, <2>2 DEF RetryDispatch, Redispatched
<1>3. CASE FailBlockingRetry(i)
  BY <1>1, <1>3, WaiterEffect, StutterSame, AllSame DEF FailBlockingRetry, RetryFailed
<1> QED
  BY <1>2, <1>3 DEF Retry

(* Clocks and groups.                                                         *)
LEMMA ClockKind ==
    ASSUME IInv, NEW i \in Ids, NEW ch \in Chats, Clock(i) \/ GroupUpgrades(ch)
    PROVE  Quiet
<1>1. TypeOK /\ QueueTypeOK
  BY DEF IInv, TypeOK
<1>2. \A j \in Ids : RowSame(j)
  BY <1>1, DueRowEffect DEF Clock, NotBeforeComes, GroupUpgrades, durable
<1>3. UNCHANGED <<msglog, life, inFlight, busy, permits, retries, sub, waiter, recon, thread, telegram>>
  BY DEF Clock, NotBeforeComes, BecomesDue, GroupUpgrades, durable, scheduler
<1> QED
  BY <1>2, <1>3, AllSame DEF Quiet, MemorySame, NoNewWaiters, LifeGoesOn

(* A thread that gets a result keeps its chat and what it sends.              *)
LEMMA ReturnsThread ==
    ASSUME TypeOK, NEW i \in Ids, NEW result, Returns(i, result)
    PROVE  /\ thread'[i].at = result
           /\ thread'[i].chat = thread[i].chat /\ thread'[i].fallback = thread[i].fallback
           /\ \A j \in Ids \ {i} : thread'[j] = thread[j]
BY DEF TypeOK, Thread, Returns

(* Eventual calls and copies of the history are kept by the table.            *)
LEMMA KeptCalls ==
    ASSUME QueueTypeOK, NEW i \in Ids
    PROVE  /\ queue[i].call.prio = 0 => Retained(queue[i].call)
           /\ queue[i].call.op = "copy_message" => Retained(queue[i].call)
           /\ queue[i].call.log => Retained(queue[i].call)
           /\ queue[i].call.long => Retained(queue[i].call)
<1>1. queue[i].call \in Calls \union {Supplement}
  BY DEF QueueTypeOK, Row
<1>2. Retained(Supplement) /\ ~Supplement.long /\ ~Supplement.log
  BY DEF Supplement, Retained, RetainedOperations, MessageCreatingOperations
<1> QED
  BY <1>1, <1>2, CallsAssumption DEF Retained, RetainedOperations, MessageCreatingOperations

(* record_history_fallback(False), before a copy is attempted again.          *)
LEMMA ClearKind ==
    ASSUME IInv, NEW i \in Ids, ClearFallbackMark(i)
    PROVE  ThreadMoved(i)
<1>1. TypeOK /\ QueueTypeOK /\ UNCHANGED <<msglog, scheduler, telegram>> /\ thread[i].at = "clearing"
  BY DEF IInv, TypeOK, ClearFallbackMark, NeverMind
<1>2. CASE RecordHistoryFallback(i, FALSE) /\ Returns(i, "calling")
  <2>1. /\ OthersKept(i)
        /\ RowNow(i, queue[i].st, queue[i].hold, queue[i].chat, FALSE)
    BY <1>1, <1>2, FallbackRowEffect
  <2>2. OthersSame({i})
    BY <1>1, <1>2, <2>1, ReturnsThread, KeptIsSame
  <2> QED
    BY <1>1, <1>2, <2>1, <2>2, ReturnsThread DEF ThreadMoved, RowNow
<1>3. CASE Returns(i, "broken") /\ UNCHANGED queue
  <2>1. OthersSame({i}) /\ RowSame(i)
    BY <1>1, <1>3, StutterSame, ReturnsThread DEF OthersSame
  <2> QED
    BY <1>1, <1>3, <2>1, ReturnsThread DEF ThreadMoved, RowSame, RowNow, Results
<1> QED
  BY <1>2, <1>3 DEF ClearFallbackMark

(* Telegram takes the call, answers it, refuses it, or its answer is lost.    *)
LEMMA AnswerKind ==
    ASSUME IInv, NEW i \in Ids,
           TelegramAccepts(i) \/ CallSucceeds(i) \/ AnswerLost(i) \/ CallRefused(i)
    PROVE  ThreadMoved(i)
<1>1. TypeOK /\ QueueTypeOK /\ UNCHANGED <<queue, msglog, scheduler>>
  BY DEF IInv, TypeOK, TelegramAccepts, CallSucceeds, AnswerLost, CallRefused, NeverMind
<1>2. \A j \in Ids : RowSame(j)
  BY <1>1, StutterSame
<1>3. CASE TelegramAccepts(i)
  <2> DEFINE taken == [copies |-> telegram[i].copies + 1, chat |-> thread[i].chat,
                       fallback |-> thread[i].fallback]
  <2>1. telegram' = [telegram EXCEPT ![i] = taken]
    BY <1>3 DEF TelegramAccepts
  <2>2. taken.copies = telegram[i].copies + 1 /\ taken.fallback = thread[i].fallback
    OBVIOUS
  <2> HIDE DEF taken
  <2>3. /\ telegram'[i] = taken /\ \A j \in Ids \ {i} : telegram'[j] = telegram[j]
    BY <1>1, <2>1 DEF TypeOK
  <2>4. OthersSame({i})
    BY <1>1, <1>2, <1>3, <2>3, ReturnsThread DEF OthersSame, TelegramAccepts
  <2> QED
    BY <1>1, <1>2, <1>3, <2>2, <2>3, <2>4, ReturnsThread
       DEF ThreadMoved, TelegramAccepts, OpenCall, Calling, RowSame, RowNow
<1>4. CASE CallSucceeds(i) \/ AnswerLost(i) \/ CallRefused(i)
  <2>1. PICK result \in Results :
          /\ Returns(i, result) /\ UNCHANGED telegram
          /\ \/ thread[i].at = "calling" /\ result \in {"ambiguous", "limited", "unsent", "rejected"}
             \/ thread[i].at = "accepted" /\ result \in {"ok", "ambiguous", "unusable"}
    BY <1>4 DEF CallSucceeds, AnswerLost, CallRefused, OpenCall, Calling, Results, Refusals
  <2>2. OthersSame({i})
    BY <1>1, <1>2, <2>1, ReturnsThread DEF OthersSame
  <2> QED
    BY <1>1, <1>2, <2>1, <2>2, ReturnsThread DEF ThreadMoved, RowSame, RowNow
<1> QED
  BY <1>3, <1>4

(* Telegram answers that the chat has moved.                                  *)
LEMMA MigratedKind ==
    ASSUME IInv, NEW i \in Ids, ChatMigrated(i)
    PROVE  ThreadMoved(i)
<1>1. /\ TypeOK /\ QueueTypeOK /\ thread[i] \in Thread
      /\ UNCHANGED <<msglog, scheduler, telegram>>
      /\ thread[i].at = "calling" /\ thread[i].chat \in upgraded
  BY DEF IInv, TypeOK, ChatMigrated, NeverMind, Calling
<1>2. ASSUME NEW result \in {"migrated", "broken", "local"}, Returns(i, result),
             RowBecomes(i, queue[i].st, queue[i].hold), OthersKept(i),
             result = "migrated" => queue[i].call.prio = 0
      PROVE  ThreadMoved(i)
  <2>1. OthersSame({i})
    BY <1>1, <1>2, ReturnsThread, KeptIsSame
  <2> QED
    BY <1>1, <1>2, <2>1, ReturnsThread, KeptCalls DEF ThreadMoved, Results, Refusals
<1>3. QueueTypeOK /\ UNCHANGED queue => RowBecomes(i, queue[i].st, queue[i].hold) /\ OthersKept(i)
  BY QueueStutter
<1>4. CASE /\ queue[i].call.prio = 0
           /\ Retarget(i, Supergroup[thread[i].chat], thread[i].mark) /\ Returns(i, "migrated")
  <2>1. Supergroup[thread[i].chat] \in Chats /\ thread[i].mark \in BOOLEAN
    BY <1>1, SchedulerAssumption DEF TypeOK, Thread
  <2> QED
    BY <1>1, <1>2, <1>4, <2>1, RetargetEffect
<1>5. CASE /\ queue[i].call.prio = 0 /\ UNCHANGED queue
           /\ Returns(i, "migrated") \/ Returns(i, "broken")
  BY <1>1, <1>2, <1>3, <1>5
<1>6. CASE Returns(i, "local") /\ UNCHANGED queue
  BY <1>1, <1>2, <1>3, <1>6
<1>7. CASE thread' = [thread EXCEPT ![i].chat = Supergroup[@]] /\ UNCHANGED queue
  <2>1. /\ thread'[i].at = "calling" /\ thread'[i].fallback = thread[i].fallback
        /\ \A j \in Ids \ {i} : thread'[j] = thread[j]
    BY <1>1, <1>7 DEF TypeOK, Thread
  <2>2. OthersSame({i}) /\ RowSame(i)
    BY <1>1, <1>7, <2>1, StutterSame DEF OthersSame
  <2> QED
    BY <1>1, <1>7, <2>1, <2>2 DEF ThreadMoved, RowSame, RowNow
<1> QED
  BY <1>4, <1>5, <1>6, <1>7 DEF ChatMigrated

(* Telegram refuses to copy a message of the history.                         *)
LEMMA CopyRefusedKind ==
    ASSUME IInv, NEW i \in Ids, CopyRefused(i)
    PROVE  ThreadMoved(i)
<1>1. /\ TypeOK /\ QueueTypeOK /\ thread[i] \in Thread
      /\ UNCHANGED <<msglog, scheduler, telegram>>
      /\ thread[i].at = "calling" /\ Retained(queue[i].call)
  BY KeptCalls DEF IInv, TypeOK, CopyRefused, NeverMind, OpenCall, Calling
<1>2. CASE RecordHistoryFallback(i, TRUE) /\ thread' = [thread EXCEPT ![i].fallback = TRUE]
  <2>1. /\ OthersKept(i)
        /\ RowNow(i, queue[i].st, queue[i].hold, queue[i].chat, TRUE)
    BY <1>1, <1>2, FallbackRowEffect
  <2>2. /\ thread'[i].at = "calling" /\ thread'[i].fallback = TRUE
        /\ thread'[i].chat = thread[i].chat
        /\ \A j \in Ids \ {i} : thread'[j] = thread[j]
    BY <1>1, <1>2 DEF TypeOK, Thread
  <2>3. OthersSame({i})
    BY <1>1, <2>1, <2>2, KeptIsSame
  <2> QED
    BY <1>1, <2>1, <2>2, <2>3 DEF ThreadMoved, RowNow
<1>3. ASSUME NEW result \in {"unacquired", "unobtainable", "broken"},
             Returns(i, result), UNCHANGED queue
      PROVE  ThreadMoved(i)
  <2>1. OthersSame({i}) /\ RowSame(i)
    BY <1>1, <1>3, StutterSame, ReturnsThread DEF OthersSame
  <2> QED
    BY <1>1, <1>3, <2>1, ReturnsThread DEF ThreadMoved, RowSame, RowNow, Results, Refusals
<1> QED
  BY <1>2, <1>3 DEF CopyRefused

(* execute_queued_call.                                                       *)
LEMMA ExecutorKind == ASSUME IInv, NEW i \in Ids, Executor(i) PROVE ThreadMoved(i)
BY ClearKind, AnswerKind, MigratedKind, CopyRefusedKind DEF Executor

(* A call that leaves in_flight touches no other row's thread.                *)
LEMMA LeaveSame ==
    ASSUME IInv, NEW i \in inFlight, Leave(i), OthersKept(i), UNCHANGED telegram
    PROVE  OthersSame({i})
<1>1. TypeOK /\ PermitsAccounted /\ i \in Ids
  BY DEF IInv, TypeOK
<1> QED
  BY <1>1, LeaveEffect, KeptIsSame

(* harvest_completed, a success: with a receipt to settle, without, or with   *)
(* one that could not be committed.                                           *)
LEMMA HarvestSuccessKind ==
    ASSUME IInv, NEW i \in Ids,
           HarvestReceipt(i) \/ ReceiptNotCommitted(i) \/ HarvestSuccess(i)
    PROVE  Harvested(i) \/ HarvestedReceipt(i) \/ Quiet
<1>0. /\ i \in inFlight /\ Harvestable(i, "ok") /\ "ok" \in Results /\ thread[i].at = "ok"
      /\ UNCHANGED <<telegram, msglog>>
  BY DEF HarvestReceipt, ReceiptNotCommitted, HarvestSuccess, Harvestable, Results, durable
<1>1. /\ Alive /\ ~Locked /\ TypeOK /\ QueueTypeOK /\ PermitsAccounted
      /\ (Retained(queue[i].call) => Held(i)) /\ thread[i].chat \in Chats
  BY <1>0, InFlightRow DEF TypeOK, Thread
<1>2. CASE HarvestReceipt(i)
  <2>1. Receipted(i)
    BY <1>1, <1>2, ReceiptRowEffect DEF HarvestReceipt
  <2>2. \A j \in Ids \ {i} : thread'[j] = thread[j]
    BY <1>0, <1>1, <1>2, LeaveEffect DEF HarvestReceipt
  <2> QED
    BY <1>0, <1>1, <1>2, <2>1, <2>2 DEF HarvestReceipt, HarvestedReceipt
<1>3. CASE ReceiptNotCommitted(i)
  <2>1. CASE UNCHANGED <<queue, msglog, life, notBefore, waiter, inFlight, busy, permits, thread>>
    BY <1>1, <1>3, <2>1, StutterSame, AllSame
       DEF ReceiptNotCommitted, Quiet, MemorySame, NoNewWaiters, LifeGoesOn
  <2>2. CASE Leave(i) /\ StopForPersistenceError
    <3>1. OthersSame({i}) /\ RowSame(i)
      BY <1>0, <1>1, <1>3, <2>2, LeaveSame, QueueStutter, StutterSame DEF ReceiptNotCommitted, durable
    <3>2. Answered(i) /\ LifeGoesOn
      BY <1>1, <2>2, WaiterEffect DEF LifeGoesOn, StopForPersistenceError
    <3> QED
      BY <1>0, <1>1, <1>3, <2>2, <3>1, <3>2 DEF ReceiptNotCommitted, Harvested
  <2> QED
    BY <1>3, <2>1, <2>2 DEF ReceiptNotCommitted, durable
<1>4. CASE HarvestSuccess(i)
  <2>1. CASE Retained(queue[i].call) /\ Delete(i) /\ waiter' = CompleteWaiter(waiter, i) /\ UNCHANGED life
    <3>1. /\ OthersSame({i}) /\ Queued(i)
          /\ RowNow(i, "removed", "none", queue[i].chat, FALSE)
      BY <1>0, <1>1, <1>4, <2>1, LeaveSame, DeleteRowEffect DEF HarvestSuccess, Held
    <3> QED
      BY <1>0, <1>1, <1>4, <2>1, <3>1, WaiterEffect DEF HarvestSuccess, Harvested, LifeGoesOn
  <2>2. CASE /\ UNCHANGED queue
             /\ StopForPersistenceError \/ (waiter' = CompleteWaiter(waiter, i) /\ UNCHANGED life)
    <3>1. OthersSame({i}) /\ RowSame(i)
      BY <1>0, <1>1, <1>4, <2>2, LeaveSame, QueueStutter, StutterSame DEF HarvestSuccess
    <3>2. Answered(i) /\ LifeGoesOn
      BY <1>1, <2>2, WaiterEffect DEF LifeGoesOn, StopForPersistenceError
    <3> QED
      BY <1>0, <1>1, <1>4, <3>1, <3>2 DEF HarvestSuccess, Harvested
  <2> QED
    BY <1>4, <2>1, <2>2 DEF HarvestSuccess
<1> QED
  BY <1>2, <1>3, <1>4

(* harvest_completed, a failed attempt: its row is put back only if Telegram  *)
(* took nothing, and whoever is not answered has a row that is put back.      *)
LEMMA HarvestFailureKind ==
    ASSUME IInv, BooksInv, NEW i \in Ids, NEW result \in Results, HarvestFailure(i, result)
    PROVE  Harvested(i)
<1> DEFINE c == queue[i].call
           decision == Decision(c, result)
<1>0. i \in inFlight /\ Harvestable(i, result) /\ Leave(i) /\ thread[i].at = result
      /\ UNCHANGED <<msglog, life, retries, sub, recon, telegram>>
  BY DEF HarvestFailure, Harvestable
<1>1. /\ Alive /\ ~Locked /\ TypeOK /\ QueueTypeOK
      /\ (Retained(c) => Held(i))
      /\ (result \in Refusals => telegram[i].copies = 0)
  BY <1>0, InFlightRow DEF HarvestFailure
<1>2. result \in {"migrated", "unacquired"} \/ c.prio = 0 => Retained(c)
  BY <1>0, <1>1, KeptCalls DEF BooksInv, RowBooked, RetriedIsRetained
<1>3. /\ decision \in {"retry", "acquisition", "uncertain", "terminal"}
      /\ decision \in {"retry", "acquisition"} => result \in Refusals /\ Retained(c)
      /\ decision = "terminal" /\ Retained(c) => result \in Refusals
  BY <1>2 DEF HarvestFailure, Decision, Unconfirmed, Refusals
<1>4. /\ Settle(i, decision)
      /\ waiter' = IF Answers(decision) THEN FailWaiter(waiter, i) ELSE waiter
  BY DEF HarvestFailure
<1> HIDE DEF decision
<1>5. /\ decision \in {"uncertain", "terminal"} => Answered(i)
      /\ NoNewWaiters({})
      /\ LifeGoesOn
  BY <1>0, <1>1, <1>4, WaiterEffect DEF Answers, LifeGoesOn
<1>6. CASE decision \in {"retry", "acquisition"}
  <2>1. Queued(i) /\ (ReleaseDeliveryAttempt(i) \/ DeferAcquisition(i))
    BY <1>1, <1>3, <1>4, <1>6 DEF Settle, Held
  <2>2. OthersKept(i) /\ RowNow(i, "queued", "none", queue[i].chat, queue[i].fallback)
    BY <1>1, <2>1, ReleaseRowEffect
  <2>3. OthersSame({i})
    BY <1>0, <2>2, LeaveSame
  <2> QED
    BY <1>0, <1>1, <1>3, <1>5, <1>6, <2>1, <2>2, <2>3 DEF Harvested
<1>7. CASE decision \in {"uncertain", "terminal"}
  <2>1. /\ OthersKept(i)
        /\ \/ RowSame(i)
           \/ /\ Queued(i) /\ telegram[i].copies = 0
              /\ RowNow(i, "removed", "none", queue[i].chat, FALSE)
           \/ /\ Queued(i)
              /\ \E h \in Holds \ {"none"} : RowNow(i, "queued", h, queue[i].chat, queue[i].fallback)
    <3>1. CASE UNCHANGED queue
      BY <1>1, <3>1, QueueStutter, StutterSame
    <3>2. ASSUME NEW h \in Holds \ {"none"}, HoldRow(i, h) PROVE <2>1
      BY <1>1, <3>2, HoldRowEffect
    <3>3. CASE Retained(c) /\ decision = "terminal" /\ Delete(i)
      BY <1>1, <1>3, <3>3, DeleteRowEffect DEF Held
    <3> QED
      BY <1>4, <1>7, <3>1, <3>2, <3>3 DEF Settle, FailedHold, Holds
  <2>2. OthersSame({i})
    BY <1>0, <2>1, LeaveSame
  <2> QED
    BY <1>0, <1>1, <1>5, <1>7, <2>1, <2>2 DEF Harvested
<1> QED
  BY <1>3, <1>6, <1>7

(* harvest_completed, all its outcomes.                                       *)
LEMMA HarvestKind ==
    ASSUME IInv, BooksInv, NEW i \in Ids, Harvest(i)
    PROVE  Harvested(i) \/ HarvestedReceipt(i) \/ Quiet
<1>1. CASE HarvestMediaRetry(i)
  <2>1. i \in inFlight /\ Harvestable(i, "limited") /\ "limited" \in Results /\ Leave(i)
        /\ UNCHANGED <<queue, msglog, telegram, waiter, recon, life>>
    BY <1>1 DEF HarvestMediaRetry, Harvestable, Results, Refusals, durable
  <2>2. /\ Alive /\ ~Locked /\ QueueTypeOK /\ telegram[i].copies = 0
    BY <2>1, InFlightRow DEF Refusals
  <2>3. ~Retained(queue[i].call)
    BY <1>1 DEF HarvestMediaRetry, KeepsForRetry, Retained, RetainedOperations, MessageCreatingOperations
  <2>4. OthersSame({i}) /\ RowSame(i)
    BY <2>1, <2>2, LeaveSame, QueueStutter, StutterSame
  <2> QED
    BY <1>1, <2>1, <2>2, <2>3, <2>4 DEF HarvestMediaRetry, Harvested, LifeGoesOn
<1>2. ASSUME NEW result \in Results, HarvestStopped(i, result) PROVE Harvested(i)
  <2>1. i \in inFlight /\ Harvestable(i, result) /\ Leave(i) /\ StopForPersistenceError
        /\ UNCHANGED <<queue, msglog, telegram, recon, retries, sub>>
    BY <1>2 DEF HarvestStopped, Harvestable, durable
  <2>2. /\ Alive /\ ~Locked /\ QueueTypeOK /\ TypeOK
    BY <2>1, InFlightRow
  <2>3. OthersSame({i}) /\ RowSame(i)
    BY <2>1, <2>2, LeaveSame, QueueStutter, StutterSame
  <2>4. Answered(i) /\ LifeGoesOn
    BY <2>1, <2>2, WaiterEffect DEF StopForPersistenceError, LifeGoesOn
  <2> QED
    BY <2>1, <2>2, <2>3, <2>4 DEF Harvested
<1> QED
  BY <1>1, <1>2, HarvestSuccessKind, HarvestFailureKind DEF Harvest

------------------------------------------------------------------------------
(* reconcile_sent_pending.                                                    *)
LEMMA ReconcileKind == ASSUME IInv, NEW i \in Ids, Reconcile(i) PROVE SettlementStarted(i)
BY StutterSame, AllSame DEF Reconcile, StartReconciliation, SettlementStarted, MemorySame, durable

(* The steps of the lock holder that settles a receipt.                       *)
LEMMA ReconcileStepKind ==
    ASSUME IInv, ReconcileStep
    PROVE  Logged \/ Dropped \/ SettlementEnded
<1>1. /\ TypeOK /\ QueueTypeOK /\ recon \in Recon /\ recon.row \in Ids
      /\ UNCHANGED <<thread, telegram>> /\ MemorySame
  BY DEF IInv, TypeOK, Recon, MemorySame,
         ReconcileStep, WriteMsgLog, DropReceipt, ReceiptDeferred, ReconciliationStopped
<1>2. CASE WriteMsgLog
  <2>1. recon'.at = "drop" /\ recon'.row = recon.row /\ recon'.by = recon.by
    BY <1>1, <1>2 DEF WriteMsgLog, Recon
  <2> QED
    BY <1>1, <1>2, <2>1, StutterSame, AllSame DEF WriteMsgLog, Logged
<1>3. Resume => NoNewWaiters({}) /\ (recon.by = "harvest" => Answered(recon.row))
  BY <1>1, WaiterEffect DEF Resume
<1>4. CASE DropReceipt
  <2>1. /\ OthersKept(recon.row)
        /\ RowNow(recon.row, "removed", "none", queue[recon.row].chat, FALSE)
    BY <1>1, <1>4, DeleteRowEffect DEF DropReceipt
  <2>2. OthersSame({recon.row})
    BY <1>1, <2>1, KeptIsSame
  <2> QED
    BY <1>1, <1>3, <1>4, <2>1, <2>2 DEF DropReceipt, Dropped
<1>5. CASE ReceiptDeferred \/ ReconciliationStopped
  <2>1. OthersSame({})
    BY <1>1, <1>5, DueRowEffect, AllSame DEF ReceiptDeferred, ReconciliationStopped, durable
  <2>2. Locked /\ recon' = LockFree /\ UNCHANGED msglog
    BY <1>5 DEF ReceiptDeferred, ReconciliationStopped, durable
  <2>3. Alive
    BY <2>2 DEF IInv, SettlingReceipt
  <2>4. LifeGoesOn
    BY <1>5, <2>3 DEF ReceiptDeferred, ReconciliationStopped, LifeGoesOn, StopForPersistenceError
  <2>5. \/ Resume \/ StopForPersistenceError \/ (UNCHANGED waiter /\ recon.by # "harvest")
    BY <1>5 DEF ReceiptDeferred, ReconciliationStopped
  <2>6. NoNewWaiters({}) /\ (recon.by = "harvest" => Answered(recon.row))
    BY <1>1, <1>3, <2>5, WaiterEffect
  <2> QED
    BY <1>1, <2>1, <2>2, <2>4, <2>6 DEF SettlementEnded
<1> QED
  BY <1>2, <1>4, <1>5 DEF ReconcileStep

(* confirm_queued_delivery and hold_send.hold.                                *)
LEMMA OperatorKind ==
    ASSUME IInv, NEW i \in Ids, Operator(i)
    PROVE  Confirmed(i) \/ OperatorHeld(i)
<1>1. TypeOK /\ QueueTypeOK /\ queue[i].chat \in Chats
  BY DEF IInv, TypeOK, QueueTypeOK, Row
<1>2. CASE ConfirmQueuedDelivery(i)
  BY <1>1, <1>2, ReceiptRowEffect DEF ConfirmQueuedDelivery, Confirmed, MemorySame
<1>3. CASE OperatorHold(i)
  <2>1. /\ Queued(i) /\ OthersKept(i)
        /\ RowNow(i, "queued", "operator", queue[i].chat, queue[i].fallback)
    BY <1>1, <1>3, HoldRowEffect DEF OperatorHold, Holds
  <2> QED
    BY <1>3, <2>1, KeptIsSame DEF OperatorHold, OperatorHeld
<1> QED
  BY <1>2, <1>3 DEF Operator

(* stop_and_drain, its first part and the end of the drain.                   *)
LEMMA StopKind ==
    ASSUME IInv, StopAndDrain \/ DrainEnds
    PROVE  Stopped \/ Drained
<1>1. TypeOK /\ OthersSame({})
  BY StutterSame, AllSame DEF IInv, StopAndDrain, DrainEnds, durable
<1>2. CASE StopAndDrain
  <2>1. \A j \in Ids : waiter'[j] = "waiting" => waiter[j] = "waiting" /\ j \in inFlight
    BY <1>1, <1>2 DEF StopAndDrain, FailWaiters, TypeOK
  <2> QED
    BY <1>1, <1>2, <2>1 DEF StopAndDrain, Stopped, Alive, durable
<1>3. CASE DrainEnds
  BY <1>1, <1>3 DEF DrainEnds, Drained, Alive, durable
<1> QED
  BY <1>2, <1>3

(* A crash or an exit, and the start after it.                                *)
LEMMA ProcessKind ==
    ASSUME IInv, Crash \/ Exit \/ Restart
    PROVE  Gone \/ Restarted
<1>1. CASE ProcessGone
  BY <1>1, StutterSame DEF ProcessGone, Gone, Idle
<1>2. CASE Restart
  BY <1>2, StutterSame, AllSame DEF Restart, Restarted, MemorySame, durable
<1> QED
  BY <1>1, <1>2 DEF Crash, Exit

(* Every step of the system is of one of the kinds.                           *)
LEMMA EveryStep ==
    ASSUME IInv, BooksInv, [Next]_vars
    PROVE  SomeKind
<1>1. CASE UNCHANGED vars
  BY <1>1, StutterSame, AllSame DEF vars, SomeKind, Quiet, MemorySame, NoNewWaiters, LifeGoesOn
<1>2. ASSUME NEW i \in Ids, NEW c \in Calls, NEW ch \in Chats, EnqueueRequest(i, c, ch)
      PROVE  SomeKind
  BY <1>2, EnqueueKind DEF SomeKind, Kind
<1>3. ASSUME NEW i \in Ids, Executor(i) PROVE SomeKind
  BY <1>3, ExecutorKind DEF SomeKind, Kind
<1>4. ASSUME NEW i \in Ids, Harvest(i) PROVE SomeKind
  BY <1>4, HarvestKind DEF SomeKind, Kind
<1>5. ASSUME NEW i \in Ids, DispatchOnce(i) PROVE SomeKind
  BY <1>5, DispatchKind, DispatchFailsKind DEF DispatchOnce, SomeKind, Kind
<1>6. ASSUME NEW i \in Ids, Retry(i) PROVE SomeKind
  BY <1>6, RetryKind DEF SomeKind, Kind
<1>7. ASSUME NEW i \in Ids, NEW ch \in Chats, Clock(i) \/ GroupUpgrades(ch) PROVE SomeKind
  BY <1>7, ClockKind DEF SomeKind
<1>8. ASSUME NEW i \in Ids, Reconcile(i) PROVE SomeKind
  BY <1>8, ReconcileKind DEF SomeKind, Kind
<1>9. ASSUME NEW i \in Ids, Operator(i) PROVE SomeKind
  BY <1>9, OperatorKind DEF SomeKind, Kind
<1>10. CASE ReconcileStep \/ StopAndDrain \/ DrainEnds \/ Crash \/ Exit \/ Restart
  BY <1>10, ReconcileStepKind, StopKind, ProcessKind DEF SomeKind
<1>11. Ids # {} /\ Chats # {}
  BY BoundsAssumption DEF Ids
<1> QED
  BY <1>1, <1>2, <1>3, <1>4, <1>5, <1>6, <1>7, <1>8, <1>9, <1>10, <1>11 DEF Next

------------------------------------------------------------------------------
(* What the books say of one row, kind by kind.                               *)

RowExact(i) ==
    /\ RowBooked(i)
    /\ telegram[i].copies > 0 /\ Queued(i) => queue[i].fallback = telegram[i].fallback

(* What is known of a row before a step.                                      *)
LEMMA RowFacts ==
    ASSUME IInv, BooksInv, NEW i \in Ids
    PROVE  RowExact(i) /\ RowSafe(i) /\ telegram[i].copies \in Nat /\ TypeOK
BY DEF IInv, BooksInv, FallbackRecorded, RowExact, TypeOK, Delivery

(* A row that a step leaves as it is keeps its books.                         *)
LEMMA ExactKept ==
    ASSUME NEW j \in Ids, RowExact(j), RowSame(j),
           thread'[j] = thread[j], telegram'[j] = telegram[j],
           j \in inFlight' => j \in inFlight,
           j \in msglog' => j \in msglog
    PROVE  RowExact(j)'
BY DEF RowExact, RowBooked, RowSame, RowNow, RowBecomes, InFlightServed, RetriedIsRetained,
       AnswerIsTaken, CallingAsRecorded, LoggedIsTaken, Queued

(* So do all rows that a step is not about.                                   *)
LEMMA OthersExact ==
    ASSUME IInv, BooksInv, NEW S \in SUBSET Ids, OthersSame(S),
           \A j \in Ids \ S : /\ j \in inFlight' => j \in inFlight
                              /\ j \in msglog' => j \in msglog
    PROVE  \A j \in Ids \ S : RowExact(j)'
BY RowFacts, ExactKept DEF OthersSame

(* A row that may be dispatched: Telegram has nothing of it.                  *)
LEMMA DispatchableFacts ==
    ASSUME IInv, BooksInv, NEW i \in Ids, Dispatchable(i)
    PROVE  /\ Queued(i) /\ telegram[i].copies = 0 /\ thread[i].at = "idle"
           /\ i \notin inFlight \union retries /\ i \notin msglog
<1>1. Queued(i) /\ queue[i].hold = "none" /\ i \notin inFlight
  BY DEF Dispatchable, IsHead, Ready
<1> QED
  BY <1>1, RowFacts DEF RowSafe, RunnableUntaken, RetryInMemory, RowExact, RowBooked, LoggedIsTaken, Queued

(* Requests that enter the table or leave it for the executor.                *)
LEMMA ExactEntry ==
    ASSUME IInv, BooksInv, NEW i \in Ids,
           Inserted(i) \/ Dispatched(i) \/ Undispatched(i) \/ Redispatched(i)
    PROVE  \A j \in Ids : RowExact(j)'
<1>1. OthersSame({i}) /\ RowExact(i) /\ RowSafe(i) /\ TypeOK /\ telegram[i].copies \in Nat
  BY RowFacts DEF Inserted, Dispatched, Undispatched, Redispatched
<1>2. \A j \in Ids \ {i} : RowExact(j)'
  BY <1>1, OthersExact DEF Inserted, Dispatched, Undispatched, Redispatched, MemorySame, Submit
<1> SUFFICES RowExact(i)'
  BY <1>2
<1>3. CASE Inserted(i)
  <2>1. telegram[i].copies = 0 /\ thread[i].at = "idle" /\ i \notin inFlight /\ i \notin msglog
    BY <1>1, <1>3 DEF Inserted, IsNextId, RowSafe, AbsentUntouched, RowExact, RowBooked, LoggedIsTaken
  <2> QED
    BY <1>3, <2>1 DEF Inserted, MemorySame, RowExact, RowBooked, InFlightServed, RetriedIsRetained,
       AnswerIsTaken, CallingAsRecorded, LoggedIsTaken
<1>4. CASE Dispatched(i)
  <2>1. telegram[i].copies = 0 /\ i \notin msglog
    BY <1>4, DispatchableFacts DEF Dispatched
  <2> DEFINE mark == queue[i].fallback
             new == [at |-> IF mark THEN "clearing" ELSE "calling", chat |-> queue[i].chat,
                     fallback |-> FALSE, mark |-> mark]
  <2>2. thread'[i] = new
    BY <1>1, <1>4 DEF Dispatched, Submit, TypeOK
  <2>3. mark \in BOOLEAN
    BY <1>1 DEF TypeOK, QueueTypeOK, Row
  <2>4. /\ thread'[i].fallback = FALSE
        /\ thread'[i].at \in {"clearing", "calling"}
        /\ thread'[i].at = "calling" => queue[i].fallback = FALSE
    BY <2>2, <2>3
  <2>5. /\ telegram'[i] = telegram[i] /\ i \notin msglog'
        /\ queue'[i].fallback = queue[i].fallback \/ queue'[i].st = "removed"
        /\ queue'[i].st # "sent_pending"
    BY <1>4, <2>1 DEF Dispatched, RowNow, RowBecomes
  <2>6. CallingAsRecorded(i)'
    BY <2>4, <2>5 DEF CallingAsRecorded, Queued
  <2> QED
    BY <2>1, <2>4, <2>5, <2>6
       DEF RowExact, RowBooked, InFlightServed, RetriedIsRetained, AnswerIsTaken, LoggedIsTaken, Queued
<1>5. CASE Undispatched(i)
  <2>1. telegram[i].copies = 0 /\ thread[i].at = "idle" /\ i \notin inFlight /\ i \notin msglog
    BY <1>5, DispatchableFacts DEF Undispatched
  <2> QED
    BY <1>5, <2>1 DEF Undispatched, MemorySame, RowNow, RowBecomes, RowExact, RowBooked,
       InFlightServed, RetriedIsRetained, AnswerIsTaken, CallingAsRecorded, LoggedIsTaken
<1>6. CASE Redispatched(i)
  <2>1. telegram[i].copies = 0 /\ queue[i].st = "removed" /\ i \notin msglog
    BY <1>1, <1>6 DEF Redispatched, RowSafe, RetryInMemory, RowExact, RowBooked, LoggedIsTaken
  <2>2. thread'[i].at = "calling" /\ ~thread'[i].fallback
    BY <1>1, <1>6 DEF Redispatched, Submit, TypeOK
  <2> QED
    BY <1>6, <2>1, <2>2 DEF Redispatched, RowSame, RowNow, RowBecomes, RowExact, RowBooked,
       InFlightServed, RetriedIsRetained, AnswerIsTaken, CallingAsRecorded, LoggedIsTaken, Queued
<1> QED
  BY <1>3, <1>4, <1>5, <1>6

(* The executor thread's steps: the fallback is on record before it is sent.  *)
LEMMA ExactThread ==
    ASSUME IInv, BooksInv, NEW i \in Ids, ThreadMoved(i)
    PROVE  \A j \in Ids : RowExact(j)'
<1>1. OthersSame({i}) /\ RowExact(i) /\ RowSafe(i) /\ TypeOK /\ telegram[i].copies \in Nat
      /\ UNCHANGED <<msglog, scheduler>> /\ RowBecomes(i, queue[i].st, queue[i].hold)
  BY RowFacts DEF ThreadMoved
<1>2. \A j \in Ids \ {i} : RowExact(j)'
  BY <1>1, OthersExact DEF scheduler
<1> SUFFICES RowExact(i)'
  BY <1>2
<1>3. CASE /\ thread[i].at \in {"clearing", "calling"} /\ telegram'[i] = telegram[i]
           /\ thread'[i].at # "idle"
           /\ thread'[i].at \notin {"accepted", "ok"}
           /\ thread'[i].at \in {"migrated", "unacquired"} => Retained(queue[i].call)
           /\ thread'[i].at = "calling" =>
                 \/ thread'[i].fallback = queue'[i].fallback
                 \/ RowSame(i) /\ thread'[i].fallback = thread[i].fallback /\ thread[i].at = "calling"
           /\ thread'[i].at # "clearing"
  <2>1. telegram[i].copies = 0
    BY <1>1, <1>3 DEF RowSafe, CallingUntaken, NotTaken
  <2> QED
    BY <1>1, <1>3, <2>1 DEF RowSame, RowNow, RowBecomes, RowExact, RowBooked,
       InFlightServed, RetriedIsRetained, AnswerIsTaken, CallingAsRecorded, LoggedIsTaken, Queued
<1>4. CASE /\ thread[i].at = "calling" /\ thread'[i].at = "accepted"
           /\ RowSame(i)
           /\ telegram'[i].copies = telegram[i].copies + 1
           /\ telegram'[i].fallback = thread[i].fallback
  <2>1. telegram'[i].copies > 0
    BY <1>1, <1>4
  <2> QED
    BY <1>1, <1>4, <2>1 DEF RowSame, RowNow, RowBecomes, RowExact, RowBooked,
       InFlightServed, RetriedIsRetained, AnswerIsTaken, CallingAsRecorded, LoggedIsTaken, Queued
<1>5. CASE /\ thread[i].at = "accepted" /\ thread'[i].at \in {"ok", "ambiguous", "unusable"}
           /\ RowSame(i) /\ telegram'[i] = telegram[i]
  BY <1>1, <1>5 DEF RowSame, RowNow, RowBecomes, RowExact, RowBooked,
     InFlightServed, RetriedIsRetained, AnswerIsTaken, CallingAsRecorded, LoggedIsTaken, Queued
<1>6. CASE thread[i].at = "clearing" /\ thread'[i].at = "calling"
  <2>1. thread[i].fallback = FALSE
    BY <1>1, <1>6 DEF TypeOK, Thread, RowExact, RowBooked, CallingAsRecorded
  <2>2. thread'[i].fallback = thread[i].fallback /\ queue'[i].fallback = FALSE /\ telegram'[i] = telegram[i]
    BY <1>6 DEF ThreadMoved, Results, Refusals
  <2>3. telegram[i].copies = 0
    BY <1>1, <1>6 DEF RowSafe, CallingUntaken, NotTaken
  <2>4. CallingAsRecorded(i)'
    BY <1>6, <2>1, <2>2 DEF CallingAsRecorded
  <2>5. InFlightServed(i)' /\ RetriedIsRetained(i)'
    BY <1>6 DEF InFlightServed, RetriedIsRetained
  <2>6. AnswerIsTaken(i)' /\ LoggedIsTaken(i)'
    BY <1>1, <1>6, <2>2, <2>3 DEF RowBecomes, RowExact, RowBooked, AnswerIsTaken, LoggedIsTaken
  <2> QED
    BY <2>2, <2>3, <2>4, <2>5, <2>6 DEF RowExact, RowBooked
<1> QED
  BY <1>3, <1>4, <1>5, <1>6 DEF ThreadMoved, Results, Refusals

(* Harvests and receipts.                                                     *)
LEMMA ExactHarvest ==
    ASSUME IInv, BooksInv, NEW i \in Ids, Harvested(i)
    PROVE  \A j \in Ids : RowExact(j)'
<1>1. /\ TypeOK /\ PermitsAccounted /\ RowExact(i) /\ RowSafe(i) /\ telegram[i].copies \in Nat
      /\ i \in inFlight /\ OthersSame({i}) /\ UNCHANGED <<telegram, msglog>>
  BY RowFacts DEF IInv, Harvested
<1>2. inFlight' = inFlight \ {i} /\ thread'[i].at = "idle"
  BY <1>1, LeaveEffect DEF Harvested
<1>3. \A j \in Ids \ {i} : RowExact(j)'
  BY <1>1, <1>2, OthersExact
<1>4. \/ RowSame(i)
      \/ \E h \in Holds : Queued(i) /\ RowNow(i, "queued", h, queue[i].chat, queue[i].fallback)
      \/ Queued(i) /\ RowNow(i, "removed", "none", queue[i].chat, FALSE)
  BY DEF Harvested, Holds
<1>5. RowExact(i)'
  BY <1>1, <1>2, <1>4 DEF RowSame, RowNow, RowBecomes, RowExact, RowBooked,
     InFlightServed, RetriedIsRetained, AnswerIsTaken, CallingAsRecorded, LoggedIsTaken, Queued
<1> QED
  BY <1>3, <1>5

(* A receipt, harvested or confirmed by an administrator, is recorded for a   *)
(* message that Telegram has.                                                 *)
LEMMA ExactReceipt ==
    ASSUME IInv, BooksInv, NEW i \in Ids, HarvestedReceipt(i) \/ Confirmed(i)
    PROVE  \A j \in Ids : RowExact(j)'
<1>1. /\ TypeOK /\ PermitsAccounted /\ RowExact(i) /\ RowSafe(i) /\ telegram[i].copies \in Nat
      /\ Receipted(i) /\ UNCHANGED <<telegram, msglog>>
      /\ \A j \in Ids \ {i} : thread'[j] = thread[j]
  BY RowFacts DEF IInv, HarvestedReceipt, Confirmed
<1>2. /\ inFlight' = inFlight \ {i}
      /\ thread'[i].at = "idle" /\ telegram[i].copies > 0
  <2>1. CASE HarvestedReceipt(i)
    BY <1>1, <2>1, LeaveEffect DEF HarvestedReceipt, RowExact, RowBooked, AnswerIsTaken
  <2>2. CASE Confirmed(i)
    BY <1>1, <2>2 DEF Confirmed, MemorySame, IInv, ThreadsOwned
  <2> QED
    BY <2>1, <2>2
<1>3. RowExact(i)'
  BY <1>1, <1>2 DEF Receipted, RowNow, RowBecomes, RowExact, RowBooked,
     InFlightServed, RetriedIsRetained, AnswerIsTaken, CallingAsRecorded, LoggedIsTaken, Queued
<1>4. ASSUME NEW j \in Ids \ {i} PROVE RowExact(j)'
  <2>1. RowExact(j) /\ RowSafe(j) /\ telegram[j].copies \in Nat
    BY RowFacts
  <2>2. CASE queue'[j] = queue[j]
    BY <1>1, <1>2, <2>1, <2>2, ExactKept DEF RowSame, RowNow, RowBecomes
  <2>3. CASE queue[j].st = "absent" /\ queue'[j].st = "queued" /\ ~queue'[j].fallback
    <3>1. telegram[j].copies = 0 /\ thread[j].at = "idle" /\ j \notin inFlight /\ j \notin msglog
      BY <2>1, <2>3 DEF RowSafe, AbsentUntouched, RowExact, RowBooked, LoggedIsTaken
    <3> QED
      BY <1>1, <1>2, <2>3, <3>1 DEF RowExact, RowBooked, InFlightServed, RetriedIsRetained,
         AnswerIsTaken, CallingAsRecorded, LoggedIsTaken
  <2> QED
    BY <1>1, <2>2, <2>3 DEF Receipted, OthersKept, IsNextId
<1> QED
  BY <1>3, <1>4

(* Settlements, stops, crashes and the operator's hold.                       *)
LEMMA ExactRest ==
    ASSUME IInv, BooksInv,
           \/ Quiet \/ Restarted \/ Logged \/ Dropped \/ SettlementEnded
           \/ Stopped \/ Drained \/ Gone
           \/ \E i \in Ids : RetryFailed(i) \/ OperatorHeld(i) \/ SettlementStarted(i)
    PROVE  \A j \in Ids : RowExact(j)'
<1>0. {} \in SUBSET Ids /\ TypeOK /\ SettlingReceipt
  BY DEF IInv
<1>1. CASE \/ Quiet \/ Restarted \/ SettlementEnded \/ Stopped \/ Drained
           \/ \E i \in Ids : RetryFailed(i) \/ SettlementStarted(i)
  <2>1. OthersSame({}) /\ UNCHANGED msglog /\ inFlight' \subseteq inFlight
    BY <1>1 DEF Quiet, Restarted, SettlementEnded, Stopped, Drained, RetryFailed, SettlementStarted, MemorySame
  <2> QED
    BY <1>0, <2>1, OthersExact
<1>2. CASE Logged
  <2>1. PICK i \in Ids : i = recon.row
    BY <1>0 DEF TypeOK, Recon
  <2>2. /\ OthersSame({}) /\ OthersSame({i}) /\ UNCHANGED inFlight
        /\ \A j \in Ids \ {i} : j \in msglog' => j \in msglog
    BY <1>2, <2>1 DEF Logged, MemorySame, OthersSame
  <2>3. \A j \in Ids \ {i} : RowExact(j)'
    BY <2>2, OthersExact
  <2>4. queue[i].st = "sent_pending" /\ queue[i].call.log
    BY <1>0, <1>2, <2>1 DEF Logged, SettlingReceipt, Locked, BooksInv, LogWrittenWhenWanted
  <2>5. RowExact(i)'
    BY <2>2, <2>4, RowFacts DEF OthersSame, RowSame, RowNow, RowBecomes, RowExact, RowBooked,
       InFlightServed, RetriedIsRetained, AnswerIsTaken, CallingAsRecorded, LoggedIsTaken, Queued
  <2> QED
    BY <2>3, <2>5
<1>3. CASE Dropped \/ \E i \in Ids : OperatorHeld(i)
  <2>1. PICK i \in Ids :
           /\ OthersSame({i}) /\ UNCHANGED <<thread, telegram, inFlight, msglog>>
           /\ \/ RowNow(i, "removed", "none", queue[i].chat, FALSE) /\ queue[i].st # "absent"
              \/ Queued(i) /\ RowNow(i, "queued", "operator", queue[i].chat, queue[i].fallback)
    <3>1. CASE Dropped
      BY <1>0, <3>1 DEF Dropped, TypeOK, Recon, MemorySame, SettlingReceipt, Locked
    <3> QED
      BY <1>3, <3>1 DEF OperatorHeld, scheduler
  <2>2. \A j \in Ids \ {i} : RowExact(j)'
    BY <2>1, OthersExact
  <2>3. RowExact(i)'
    BY <2>1, RowFacts DEF RowNow, RowBecomes, RowExact, RowBooked,
       InFlightServed, RetriedIsRetained, AnswerIsTaken, CallingAsRecorded, LoggedIsTaken, Queued
  <2> QED
    BY <2>2, <2>3
<1>4. CASE Gone
  <2> SUFFICES ASSUME NEW j \in Ids PROVE RowExact(j)'
    OBVIOUS
  <2>1. RowExact(j)
    BY RowFacts
  <2> QED
    BY <1>4, <2>1 DEF Gone, RowSame, RowNow, RowBecomes, RowExact, RowBooked,
       InFlightServed, RetriedIsRetained, AnswerIsTaken, CallingAsRecorded, LoggedIsTaken, Queued
<1> QED
  BY <1>1, <1>2, <1>3, <1>4

(* Every row keeps its books.                                                 *)
LEMMA ExactNext ==
    ASSUME IInv, BooksInv, SomeKind
    PROVE  (\A i \in Ids : RowBooked(i)') /\ FallbackRecorded'
<1>1. \A j \in Ids : RowExact(j)'
  BY ExactEntry, ExactThread, ExactHarvest, ExactReceipt, ExactRest DEF SomeKind, Kind
<1> QED
  BY <1>1 DEF RowExact, FallbackRecorded

------------------------------------------------------------------------------
(* in_flight, in_flight_destinations and the semaphore.                       *)

(* A call is submitted for a destination that is not busy.                    *)
LEMMA SubmitOwns ==
    ASSUME TypeOK, OneCallPerDestination, PermitsAccounted', NEW i \in Ids \ inFlight,
           NEW ch \in Chats \ busy, NEW mark, Submit(i, ch, mark),
           inFlight' \cap retries' = {}
    PROVE  OneCallPerDestination'
<1>1. sub'[i] = ch /\ \A j \in inFlight : sub'[j] = sub[j]
  BY DEF TypeOK, Submit
<1>2. inFlight' = inFlight \union {i} /\ busy' = busy \union {ch}
  BY DEF Submit
<1>3. busy' = {sub'[j] : j \in inFlight'}
  BY <1>1, <1>2 DEF OneCallPerDestination
<1>4. \A j, k \in inFlight' : sub'[j] = sub'[k] => j = k
  BY <1>1, <1>2 DEF OneCallPerDestination
<1> QED
  BY <1>3, <1>4 DEF OneCallPerDestination, PermitsAccounted

(* A completed call gives its destination back, and only its own.             *)
LEMMA LeaveOwns ==
    ASSUME TypeOK, OneCallPerDestination, PermitsAccounted', NEW i \in inFlight, Leave(i),
           \A j \in Ids \ {i} : sub'[j] = sub[j],
           retries' \subseteq retries \union {i}
    PROVE  OneCallPerDestination'
<1>1. inFlight' = inFlight \ {i} /\ busy' = busy \ {sub[i]} /\ inFlight \subseteq Ids
  BY DEF TypeOK, Leave
<1>2. busy' = {sub'[j] : j \in inFlight'}
  BY <1>1 DEF OneCallPerDestination
<1>3. \A j, k \in inFlight' : sub'[j] = sub'[k] => j = k
  BY <1>1 DEF OneCallPerDestination
<1>4. inFlight' \cap retries' = {}
  BY <1>1 DEF OneCallPerDestination
<1> QED
  BY <1>2, <1>3, <1>4 DEF OneCallPerDestination, PermitsAccounted

(* The books of the destinations, through every kind of step.                 *)
LEMMA OneCallNext ==
    ASSUME IInv, BooksInv, SomeKind, PermitsAccounted'
    PROVE  OneCallPerDestination'
<1>0. TypeOK /\ OneCallPerDestination
  BY DEF IInv, BooksInv
<1>1. CASE UNCHANGED <<inFlight, busy, sub>> /\ retries' \subseteq retries
  BY <1>0, <1>1 DEF OneCallPerDestination, PermitsAccounted
<1>2. CASE inFlight' = {} /\ busy' = {}
  BY <1>2 DEF OneCallPerDestination, PermitsAccounted
<1>3. ASSUME NEW i \in Ids, Dispatched(i) PROVE OneCallPerDestination'
  <2>1. i \notin inFlight \union retries
    BY <1>3, DispatchableFacts DEF Dispatched
  <2>2. /\ queue[i].chat \in Chats \ busy
        /\ inFlight' \cap retries' = {}
    BY <1>0, <1>3, <2>1
       DEF Dispatched, Dispatchable, Submit, TypeOK, QueueTypeOK, Row, OneCallPerDestination
  <2> QED
    BY <1>0, <1>3, <2>1, <2>2, SubmitOwns DEF Dispatched
<1>4. ASSUME NEW i \in Ids, Redispatched(i) PROVE OneCallPerDestination'
  <2>1. /\ i \notin inFlight /\ sub[i] \in Chats \ busy
        /\ inFlight' \cap retries' = {}
    BY <1>0, <1>4 DEF Redispatched, Submit, TypeOK, OneCallPerDestination
  <2> QED
    BY <1>0, <1>4, <2>1, SubmitOwns DEF Redispatched
<1>5. ASSUME NEW i \in Ids, Harvested(i) \/ HarvestedReceipt(i) PROVE OneCallPerDestination'
  <2>1. i \in inFlight /\ Leave(i) /\ retries' \subseteq retries \union {i}
        /\ sub' \in {sub, [sub EXCEPT ![i] = thread[i].chat]}
    BY <1>5 DEF Harvested, HarvestedReceipt
  <2>2. \A j \in Ids \ {i} : sub'[j] = sub[j]
    BY <1>0, <2>1 DEF TypeOK
  <2> QED
    BY <1>0, <2>1, <2>2, LeaveOwns
<1>6. CASE Drained
  BY <1>0, <1>2, <1>6 DEF Drained, OneCallPerDestination
<1>7. CASE Gone
  BY <1>2, <1>7 DEF Gone
<1>8. CASE \/ Quiet \/ Restarted \/ Logged \/ Dropped \/ SettlementEnded \/ Stopped
           \/ \E i \in Ids : \/ Inserted(i) \/ Undispatched(i) \/ RetryFailed(i) \/ ThreadMoved(i)
                             \/ Confirmed(i) \/ OperatorHeld(i) \/ SettlementStarted(i)
  BY <1>1, <1>8 DEF Quiet, Restarted, Logged, Dropped, SettlementEnded, Stopped, Inserted,
     Undispatched, RetryFailed, ThreadMoved, Confirmed, OperatorHeld, SettlementStarted,
     MemorySame, scheduler
<1> QED
  BY <1>3, <1>4, <1>5, <1>6, <1>7, <1>8 DEF SomeKind, Kind

------------------------------------------------------------------------------
(* Who waits, and for what.                                                   *)

(* The parts of WaiterHasSource, for one row.                                 *)
Source(i) ==
    \/ i \in inFlight \union retries
    \/ Queued(i) /\ queue[i].hold = "none"
    \/ Locked /\ recon.row = i /\ recon.by = "harvest"

(* A row that stays as it is keeps its source while the memory does.          *)
LEMMA SourceKept ==
    ASSUME NEW j \in Ids, Source(j), RowBecomes(j, queue[j].st, queue[j].hold),
           j \in inFlight \union retries => j \in inFlight' \union retries',
           UNCHANGED recon \/ (Locked' /\ recon'.row = recon.row /\ recon'.by = recon.by) \/ ~Locked
    PROVE  Source(j)'
BY DEF Source, RowBecomes, Queued, Locked

(* What holds when a caller of an untouched row is looked at.                 *)
LEMMA OtherSources ==
    ASSUME IInv, BooksInv, Alive, NEW S \in SUBSET Ids, OthersSame(S), NoNewWaiters(S),
           \A j \in Ids \ S : j \in inFlight \union retries => j \in inFlight' \union retries',
           UNCHANGED recon \/ (Locked' /\ recon'.row = recon.row /\ recon'.by = recon.by) \/ ~Locked
    PROVE  \A j \in Ids \ S : waiter'[j] = "waiting" => Source(j)'
<1> SUFFICES ASSUME NEW j \in Ids \ S, waiter'[j] = "waiting" PROVE Source(j)'
  OBVIOUS
<1>1. waiter[j] = "waiting" /\ RowBecomes(j, queue[j].st, queue[j].hold)
  BY DEF NoNewWaiters, OthersSame, RowSame, RowNow
<1>2. Source(j)
  BY <1>1 DEF BooksInv, WaiterHasSource, Source
<1> QED
  BY <1>1, <1>2, SourceKept

(* No failure path forgets the Future.                                        *)
LEMMA WaiterNext ==
    ASSUME IInv, BooksInv, SomeKind
    PROVE  WaiterHasSource'
<1> SUFFICES ASSUME Alive' PROVE \A j \in Ids : waiter'[j] = "waiting" => Source(j)'
  BY DEF WaiterHasSource, Source
<1>0. TypeOK /\ SettlingReceipt /\ {} \in SUBSET Ids
  BY DEF IInv
<1>1. CASE Quiet
  <2>1. Alive
    BY <1>1 DEF Quiet, LifeGoesOn, Alive
  <2> QED
    BY <1>0, <1>1, <2>1, OtherSources DEF Quiet, MemorySame
<1>2. CASE Restarted
  BY <1>2 DEF Restarted, BooksInv, NobodyWaitsWhenDown
<1>3. CASE Logged
  <2>1. Alive /\ NoNewWaiters({})
    BY <1>0, <1>3 DEF Logged, SettlingReceipt, Locked, NoNewWaiters
  <2> QED
    BY <1>0, <1>3, <2>1, OtherSources DEF Logged, MemorySame, Locked
<1>4. CASE Dropped \/ SettlementEnded
  <2>1. Alive /\ Locked /\ MemorySame /\ recon' = LockFree /\ NoNewWaiters({})
        /\ recon.row \in Ids /\ queue[recon.row].st = "sent_pending"
        /\ OthersSame({recon.row})
        /\ (recon.by = "harvest" => Answered(recon.row))
    BY <1>0, <1>4
       DEF Dropped, SettlementEnded, SettlingReceipt, Locked, TypeOK, Recon, OthersSame
  <2> SUFFICES ASSUME NEW j \in Ids, waiter'[j] = "waiting" PROVE Source(j)'
    OBVIOUS
  <2>2. waiter[j] = "waiting" /\ Source(j)
    BY <2>1 DEF NoNewWaiters, BooksInv, WaiterHasSource, Source
  <2>3. CASE j = recon.row
    BY <2>1, <2>2, <2>3 DEF Source, Queued, MemorySame, Answered
  <2>4. CASE j # recon.row
    BY <2>1, <2>2, <2>4 DEF Source, Queued, MemorySame, OthersSame, RowSame, RowNow, RowBecomes
  <2> QED
    BY <2>3, <2>4
<1>5. CASE Stopped
  BY <1>5 DEF Stopped, Source
<1>6. CASE Drained \/ Gone
  BY <1>6 DEF Drained, Gone, Alive
<1>7. ASSUME NEW i \in Ids, Inserted(i) PROVE \A j \in Ids : waiter'[j] = "waiting" => Source(j)'
  <2>1. \A j \in Ids \ {i} : waiter'[j] = "waiting" => Source(j)'
    BY <1>7, OtherSources DEF Inserted, MemorySame, Alive
  <2>2. Source(i)'
    BY <1>7 DEF Inserted, Source, Queued
  <2> QED
    BY <2>1, <2>2
<1>8. ASSUME NEW i \in Ids, Dispatched(i) \/ Redispatched(i)
      PROVE  \A j \in Ids : waiter'[j] = "waiting" => Source(j)'
  <2>1. Alive /\ OthersSame({i}) /\ UNCHANGED <<waiter, recon>> /\ i \in inFlight'
        /\ inFlight \subseteq inFlight' /\ retries \subseteq retries' \union {i}
    BY <1>8 DEF Dispatched, Redispatched, Dispatchable, Submit, Alive
  <2>2. \A j \in Ids \ {i} : waiter'[j] = "waiting" => Source(j)'
    BY <2>1, OtherSources DEF NoNewWaiters
  <2> QED
    BY <2>1, <2>2 DEF Source
<1>9. ASSUME NEW i \in Ids, Undispatched(i) \/ RetryFailed(i)
      PROVE  \A j \in Ids : waiter'[j] = "waiting" => Source(j)'
  <2>1. Alive /\ OthersSame({i}) /\ Answered(i) /\ UNCHANGED <<recon, inFlight>>
        /\ retries \subseteq retries' \union {i}
    BY <1>9 DEF Undispatched, RetryFailed, Dispatchable, Alive, MemorySame, OthersSame
  <2>2. \A j \in Ids \ {i} : waiter'[j] = "waiting" => Source(j)'
    BY <2>1, OtherSources DEF Answered
  <2> QED
    BY <2>1, <2>2 DEF Answered
<1>10. ASSUME NEW i \in Ids, ThreadMoved(i)
       PROVE  \A j \in Ids : waiter'[j] = "waiting" => Source(j)'
  <2>1. Alive /\ OthersSame({i}) /\ UNCHANGED <<recon, inFlight, retries, waiter>>
        /\ RowBecomes(i, queue[i].st, queue[i].hold)
    BY <1>10 DEF ThreadMoved, scheduler, Alive
  <2>2. \A j \in Ids \ {i} : waiter'[j] = "waiting" => Source(j)'
    BY <2>1, OtherSources DEF NoNewWaiters
  <2>3. waiter[i] = "waiting" => Source(i)
    BY <2>1 DEF BooksInv, WaiterHasSource, Source
  <2> QED
    BY <2>1, <2>2, <2>3, SourceKept
<1>11. ASSUME NEW i \in Ids, Harvested(i)
       PROVE  \A j \in Ids : waiter'[j] = "waiting" => Source(j)'
  <2>1. /\ Alive /\ ~Locked /\ OthersSame({i}) /\ UNCHANGED recon /\ NoNewWaiters({i})
        /\ inFlight \subseteq inFlight' \union {i} /\ retries \subseteq retries'
    BY <1>11 DEF Harvested, Leave, Answered, NoNewWaiters
  <2>2. \A j \in Ids \ {i} : waiter'[j] = "waiting" => Source(j)'
    BY <2>1, OtherSources
  <2>3. \/ Answered(i)
        \/ queue'[i].st = "queued" /\ queue'[i].hold = "none"
        \/ i \in retries'
    BY <1>11 DEF Harvested, RowNow, RowBecomes
  <2> QED
    BY <2>2, <2>3 DEF Source, Queued, Answered
<1>12. ASSUME NEW i \in Ids, HarvestedReceipt(i) \/ Confirmed(i)
       PROVE  \A j \in Ids : waiter'[j] = "waiting" => Source(j)'
  <2>1. /\ Alive /\ ~Locked /\ UNCHANGED waiter /\ Receipted(i) /\ RowSafe(i)
        /\ \A j \in Ids \ {i} : j \in inFlight \union retries => j \in inFlight' \union retries'
    BY <1>12 DEF HarvestedReceipt, Confirmed, MemorySame, Leave, IInv
  <2> SUFFICES ASSUME NEW j \in Ids, waiter'[j] = "waiting" PROVE Source(j)'
    OBVIOUS
  <2>2. waiter[j] = "waiting" /\ Source(j) /\ RowSafe(j)
    BY <2>1 DEF BooksInv, WaiterHasSource, Source, IInv
  <2>3. CASE j = i
    <3>1. CASE HarvestedReceipt(i)
      BY <2>3, <3>1 DEF HarvestedReceipt, Settling, Source, Locked
    <3>2. CASE Confirmed(i)
      BY <2>1, <2>2, <2>3, <3>2 DEF Confirmed, Source, RowSafe, RetryInMemory, Held, Queued
    <3> QED
      BY <1>12, <3>1, <3>2
  <2>4. CASE j # i /\ queue'[j] = queue[j]
    BY <2>1, <2>2, <2>4, SourceKept DEF RowBecomes
  <2>5. CASE queue[j].st = "absent"
    BY <2>1, <2>2, <2>5 DEF Source, RowSafe, AbsentUntouched, Queued
  <2> QED
    BY <2>1, <2>3, <2>4, <2>5 DEF Receipted, OthersKept, IsNextId
<1>13. ASSUME NEW i \in Ids, OperatorHeld(i) PROVE FALSE
  BY <1>13 DEF OperatorHeld, scheduler, Alive
<1>14. ASSUME NEW i \in Ids, SettlementStarted(i)
       PROVE  \A j \in Ids : waiter'[j] = "waiting" => Source(j)'
  <2>1. Alive /\ NoNewWaiters({}) /\ ~Locked
    BY <1>14 DEF SettlementStarted, NoNewWaiters, Alive
  <2> QED
    BY <1>0, <1>14, <2>1, OtherSources DEF SettlementStarted, MemorySame
<1> QED
  BY <1>1, <1>2, <1>3, <1>4, <1>5, <1>6, <1>7, <1>8, <1>9, <1>10, <1>11, <1>12, <1>13, <1>14
     DEF SomeKind, Kind

(* A process that is gone left no caller behind, and nobody calls it.         *)
LEMMA DownNext ==
    ASSUME IInv, BooksInv, SomeKind
    PROVE  NobodyWaitsWhenDown'
<1> SUFFICES ASSUME life' = "down", NEW j \in Ids, waiter'[j] = "waiting" PROVE FALSE
  BY DEF NobodyWaitsWhenDown
<1>1. CASE life = "down"
  <2>1. waiter[j] # "waiting" /\ ~Alive
    BY <1>1 DEF BooksInv, NobodyWaitsWhenDown, Alive
  <2> QED
    BY <1>1, <2>1 DEF SomeKind, Kind, Quiet, Restarted, Logged, Dropped, SettlementEnded, Stopped,
       Drained, Gone, Inserted, Dispatched, Dispatchable, Undispatched, Redispatched, RetryFailed,
       ThreadMoved, Harvested, HarvestedReceipt, Confirmed, OperatorHeld, SettlementStarted,
       NoNewWaiters, Answered, scheduler
<1>2. CASE life # "down"
  <2>1. Gone
    BY <1>2 DEF SomeKind, Kind, Quiet, Restarted, Logged, Dropped, SettlementEnded, Stopped,
       Drained, Inserted, Dispatched, Undispatched, Redispatched, RetryFailed,
       ThreadMoved, Harvested, HarvestedReceipt, Confirmed, OperatorHeld, SettlementStarted,
       LifeGoesOn, scheduler
  <2> QED
    BY <2>1 DEF Gone
<1> QED
  BY <1>1, <1>2

(* The MsgLog entry is only written for a row that has a MsgLog context.      *)
LEMMA WriteNext ==
    ASSUME IInv, BooksInv, SomeKind
    PROVE  LogWrittenWhenWanted'
<1>0. recon.row \in Ids /\ SettlingReceipt /\ LogWrittenWhenWanted
  BY DEF IInv, TypeOK, Recon, BooksInv
<1>1. ASSUME NEW i \in Ids, recon' = Settling(i, "harvest") \/ recon' = Settling(i, "confirm")
                            \/ recon' = Settling(i, "batch"),
             queue'[i].call = queue[i].call
      PROVE  LogWrittenWhenWanted'
  BY <1>1 DEF Settling, LogWrittenWhenWanted
<1>2. CASE recon'.at # "write"
  BY <1>2 DEF LogWrittenWhenWanted
<1>3. CASE UNCHANGED recon /\ (recon.at = "write" => queue'[recon.row].call = queue[recon.row].call)
  BY <1>0, <1>3 DEF LogWrittenWhenWanted
<1>4. ASSUME NEW i \in Ids, HarvestedReceipt(i) \/ Confirmed(i) \/ SettlementStarted(i)
      PROVE  LogWrittenWhenWanted'
  BY <1>1, <1>4 DEF HarvestedReceipt, Confirmed, SettlementStarted, Receipted, OthersSame,
     RowSame, RowNow, RowBecomes
<1>5. CASE Quiet \/ Restarted \/ Stopped \/ Drained \/ \E i \in Ids : RetryFailed(i)
  BY <1>0, <1>3, <1>5 DEF Quiet, Restarted, Stopped, Drained, RetryFailed, OthersSame,
     RowSame, RowNow, RowBecomes
<1>6. CASE Logged \/ Dropped \/ SettlementEnded \/ Gone
  <2>1. recon'.at \in {"drop", "free"}
    <3>1. LockFree.at = "free"
      BY DEF LockFree
    <3>2. recon' = LockFree \/ recon'.at = "drop"
      BY <1>6 DEF Logged, Dropped, SettlementEnded, Gone
    <3> QED
      BY <3>1, <3>2
  <2> QED
    BY <1>2, <2>1
<1>7. ASSUME NEW i \in Ids, \/ Inserted(i) \/ Dispatched(i) \/ Undispatched(i) \/ Redispatched(i)
                            \/ ThreadMoved(i) \/ Harvested(i) \/ OperatorHeld(i)
      PROVE  LogWrittenWhenWanted'
  <2>1. UNCHANGED recon /\ OthersSame({i})
    BY <1>7 DEF Inserted, Dispatched, Undispatched, Redispatched, ThreadMoved, Harvested,
       OperatorHeld, scheduler
  <2>2. Inserted(i) \/ queue'[i].call = queue[i].call
    BY <1>7 DEF Dispatched, Undispatched, Redispatched, ThreadMoved, Harvested,
       OperatorHeld, RowSame, RowNow, RowBecomes
  <2>3. recon.at = "write" /\ Inserted(i) => recon.row # i
    BY <1>0 DEF SettlingReceipt, Locked, Inserted, IsNextId
  <2> QED
    BY <1>0, <1>3, <2>1, <2>2, <2>3 DEF OthersSame, RowSame, RowNow, RowBecomes
<1> QED
  BY <1>4, <1>5, <1>6, <1>7 DEF SomeKind, Kind

------------------------------------------------------------------------------
(* Attachments of long messages.                                              *)

SupplementRow(j) == queue[j].st # "absent" /\ queue[j].call = Supplement
LongReceipt(i) ==
    /\ queue[i].call.long
    /\ \/ queue[i].st = "sent_pending"
       \/ queue[i].st = "removed" /\ telegram[i].copies > 0
SupplementRows == {j \in Ids : SupplementRow(j)}
LongReceipts == {i \in Ids : LongReceipt(i)}

(* A step that makes no row one or the other keeps both numbers.              *)
LEMMA CountsKept ==
    ASSUME SupplementPerReceipt,
           \A j \in Ids : /\ SupplementRow(j)' <=> SupplementRow(j)
                          /\ LongReceipt(j)' <=> LongReceipt(j)
    PROVE  SupplementPerReceipt'
<1>1. SupplementRows' = SupplementRows /\ LongReceipts' = LongReceipts
  BY DEF SupplementRows, LongReceipts
<1> QED
  BY <1>1 DEF SupplementPerReceipt, SupplementRows, LongReceipts, SupplementRow, LongReceipt

(* A receipt and its supplement count as one each.                            *)
LEMMA CountsGrow ==
    ASSUME SupplementPerReceipt, NEW i \in Ids, NEW j \in Ids,
           ~SupplementRow(j), SupplementRow(j)', ~LongReceipt(i), LongReceipt(i)',
           \A k \in Ids \ {j} : SupplementRow(k)' <=> SupplementRow(k),
           \A k \in Ids \ {i} : LongReceipt(k)' <=> LongReceipt(k)
    PROVE  SupplementPerReceipt'
<1>1. /\ SupplementRows' = SupplementRows \union {j} /\ j \notin SupplementRows
      /\ LongReceipts' = LongReceipts \union {i} /\ i \notin LongReceipts
  BY DEF SupplementRows, LongReceipts
<1>2. IsFiniteSet(SupplementRows) /\ IsFiniteSet(LongReceipts)
  BY IdsFinite DEF SupplementRows, LongReceipts
<1>3. /\ Cardinality(SupplementRows') = Cardinality(SupplementRows) + 1
      /\ Cardinality(LongReceipts') = Cardinality(LongReceipts) + 1
  BY <1>1, <1>2, FS_AddElement
<1>4. Cardinality(SupplementRows) = Cardinality(LongReceipts)
  BY DEF SupplementPerReceipt, SupplementRows, LongReceipts, SupplementRow, LongReceipt
<1>5. Cardinality(SupplementRows') = Cardinality(LongReceipts')
  BY <1>3, <1>4
<1> QED
  BY <1>5 DEF SupplementPerReceipt, SupplementRows, LongReceipts, SupplementRow, LongReceipt

(* Rows a step leaves alone count as before.                                  *)
LEMMA CountsSame ==
    ASSUME NEW S \in SUBSET Ids, OthersSame(S)
    PROVE  \A j \in Ids \ S : /\ SupplementRow(j)' <=> SupplementRow(j)
                              /\ LongReceipt(j)' <=> LongReceipt(j)
BY DEF OthersSame, RowSame, RowNow, RowBecomes, SupplementRow, LongReceipt

(* record_telegram_completion adds a receipt of a long message and a          *)
(* supplement together, or neither.                                           *)
LEMMA CountsReceipt ==
    ASSUME IInv, BooksInv, NEW i \in Ids, Receipted(i), UNCHANGED telegram
    PROVE  SupplementPerReceipt'
<1>0. SupplementPerReceipt /\ QueueTypeOK /\ Supplement.long = FALSE
  BY DEF IInv, BooksInv, TypeOK, Supplement
<1>1. /\ Queued(i) /\ queue'[i].st = "sent_pending" /\ queue'[i].call = queue[i].call
  BY DEF Receipted, RowNow, RowBecomes
<1>2. CASE queue[i].call.long
  <2>1. PICK j \in Ids \ {i} : /\ queue[j].st = "absent"
                               /\ queue'[j].st = "queued" /\ queue'[j].call = Supplement
                               /\ \A k \in Ids \ {i, j} : queue'[k] = queue[k]
    BY <1>2 DEF Receipted, IsNextId
  <2>2. ~SupplementRow(j) /\ SupplementRow(j)' /\ ~LongReceipt(i) /\ LongReceipt(i)'
    BY <1>1, <1>2, <2>1 DEF SupplementRow, LongReceipt, Queued
  <2>3. /\ SupplementRow(i)' <=> SupplementRow(i)
        /\ LongReceipt(j)' <=> LongReceipt(j)
    BY <1>1, <2>1 DEF SupplementRow, LongReceipt, Queued
  <2>4. \A k \in Ids \ {i, j} : /\ SupplementRow(k)' <=> SupplementRow(k)
                                /\ LongReceipt(k)' <=> LongReceipt(k)
    BY <2>1 DEF SupplementRow, LongReceipt
  <2> QED
    BY <1>0, <2>2, <2>3, <2>4, CountsGrow
<1>3. CASE ~queue[i].call.long
  <2>1. \A k \in Ids : /\ SupplementRow(k)' <=> SupplementRow(k)
                       /\ LongReceipt(k)' <=> LongReceipt(k)
    BY <1>1, <1>3 DEF Receipted, OthersKept, SupplementRow, LongReceipt, Queued
  <2> QED
    BY <1>0, <2>1, CountsKept
<1> QED
  BY <1>2, <1>3

(* No other step adds one without the other.                                  *)
LEMMA CountsNext ==
    ASSUME IInv, BooksInv, SomeKind
    PROVE  SupplementPerReceipt'
<1>0. SupplementPerReceipt /\ QueueTypeOK /\ TypeOK /\ SettlingReceipt
  BY DEF IInv, BooksInv, TypeOK
<1>1. ASSUME NEW i \in Ids, OthersSame({i}),
             SupplementRow(i)' <=> SupplementRow(i), LongReceipt(i)' <=> LongReceipt(i)
      PROVE  SupplementPerReceipt'
  BY <1>0, <1>1, CountsSame, CountsKept
<1>2. CASE OthersSame({})
  BY <1>0, <1>2, CountsSame, CountsKept
<1>3. ASSUME NEW i \in Ids, Inserted(i) PROVE SupplementPerReceipt'
  <2>1. ~SupplementRow(i) /\ ~LongReceipt(i) /\ ~LongReceipt(i)'
    BY <1>3 DEF Inserted, IsNextId, SupplementRow, LongReceipt
  <2>2. queue'[i].call # Supplement
    BY <1>3, CallsAssumption DEF Inserted, Supplement
  <2> QED
    BY <1>1, <1>3, <2>1, <2>2 DEF Inserted, SupplementRow
<1>4. ASSUME NEW i \in Ids, \/ Dispatched(i) \/ Undispatched(i) \/ Redispatched(i)
                            \/ Harvested(i) \/ OperatorHeld(i)
      PROVE  SupplementPerReceipt'
  <2>1. OthersSame({i}) /\ telegram'[i] = telegram[i]
    BY <1>4 DEF Dispatched, Undispatched, Redispatched, Harvested, OperatorHeld
  <2>2. \/ RowSame(i)
        \/ /\ Queued(i) /\ RowBecomes(i, "queued", queue'[i].hold)
        \/ /\ Queued(i) /\ RowBecomes(i, "removed", "none")
           /\ telegram[i].copies = 0 \/ ~queue[i].call.long
    <3>1. Dispatched(i) \/ Undispatched(i) => Queued(i) /\ telegram[i].copies = 0
      BY DispatchableFacts DEF Dispatched, Undispatched
    <3> QED
      BY <1>4, <3>1 DEF Dispatched, Undispatched, Redispatched, Harvested, OperatorHeld,
         RowNow, RowBecomes
  <2> QED
    BY <1>1, <2>1, <2>2 DEF RowSame, RowNow, RowBecomes, SupplementRow, LongReceipt, Queued
<1>5. ASSUME NEW i \in Ids, ThreadMoved(i) PROVE SupplementPerReceipt'
  <2>1. OthersSame({i}) /\ RowBecomes(i, queue[i].st, queue[i].hold) /\ thread[i].at # "idle"
    BY <1>5 DEF ThreadMoved
  <2>2. queue[i].call.long => queue[i].st = "queued"
    BY <1>0, <2>1, RowFacts, KeptCalls DEF RowSafe, SubmittedMarked, Held, Queued
  <2> QED
    BY <1>1, <2>1, <2>2 DEF RowBecomes, SupplementRow, LongReceipt
<1>6. CASE Dropped
  <2>1. PICK i \in Ids : i = recon.row
    BY <1>0 DEF TypeOK, Recon
  <2>2. /\ OthersSame({i}) /\ RowBecomes(i, "removed", "none") /\ UNCHANGED telegram
        /\ queue[i].st = "sent_pending"
    BY <1>0, <1>6, <2>1 DEF Dropped, RowNow, SettlingReceipt, Locked
  <2>3. telegram[i].copies > 0
    BY <2>2, RowFacts DEF RowExact, RowBooked, AnswerIsTaken
  <2> QED
    BY <1>1, <2>2, <2>3 DEF RowBecomes, SupplementRow, LongReceipt
<1>7. CASE Gone
  <2>1. OthersSame({}) \/ \A j \in Ids : RowSame(j) /\ telegram'[j] = telegram[j]
    BY <1>7 DEF Gone
  <2>2. \A j \in Ids : /\ SupplementRow(j)' <=> SupplementRow(j)
                       /\ LongReceipt(j)' <=> LongReceipt(j)
    BY <1>7 DEF Gone, RowSame, RowNow, RowBecomes, SupplementRow, LongReceipt
  <2> QED
    BY <1>0, <2>2, CountsKept
<1>8. CASE \/ Quiet \/ Restarted \/ Logged \/ SettlementEnded \/ Stopped \/ Drained
           \/ \E i \in Ids : RetryFailed(i) \/ SettlementStarted(i)
  BY <1>2, <1>8 DEF Quiet, Restarted, Logged, SettlementEnded, Stopped, Drained,
     RetryFailed, SettlementStarted
<1>9. ASSUME NEW i \in Ids, HarvestedReceipt(i) \/ Confirmed(i) PROVE SupplementPerReceipt'
  BY <1>9, CountsReceipt DEF HarvestedReceipt, Confirmed
<1> QED
  BY <1>3, <1>4, <1>5, <1>6, <1>7, <1>8, <1>9 DEF SomeKind, Kind

------------------------------------------------------------------------------
(* Put together.                                                              *)

(* An empty table and an idle scheduler have their books in order.            *)
LEMMA InitBooks == Init => BooksInv
<1> SUFFICES ASSUME Init PROVE BooksInv
  OBVIOUS
<1>1. \A i \in Ids : /\ queue[i].st = "absent" /\ telegram[i].copies = 0
                     /\ thread[i].at = "idle" /\ waiter[i] = "none"
  BY DEF Init, QueueInit, NoRow, NewRow, Idle
<1>2. /\ inFlight = {} /\ busy = {} /\ retries = {} /\ msglog = {} /\ permits = Workers
      /\ recon.at = "free"
  BY DEF Init, LockFree
<1>3. \A i \in Ids : RowBooked(i)
  BY <1>1, <1>2 DEF RowBooked, InFlightServed, RetriedIsRetained, AnswerIsTaken, CallingAsRecorded,
     LoggedIsTaken
<1>4. OneCallPerDestination
  BY <1>2, AllPermits DEF OneCallPerDestination
<1>5. WaiterHasSource /\ FallbackRecorded /\ NobodyWaitsWhenDown /\ LogWrittenWhenWanted
  BY <1>1, <1>2 DEF WaiterHasSource, FallbackRecorded, NobodyWaitsWhenDown, LogWrittenWhenWanted
<1>6. SupplementRows = {} /\ LongReceipts = {}
  BY <1>1 DEF SupplementRows, LongReceipts, SupplementRow, LongReceipt
<1>7. SupplementPerReceipt
  BY <1>6 DEF SupplementPerReceipt, SupplementRows, LongReceipts, SupplementRow, LongReceipt
<1> QED
  BY <1>3, <1>4, <1>5, <1>7 DEF BooksInv

(* Every step keeps them in order.                                            *)
LEMMA NextBooks == IInv /\ BooksInv /\ [Next]_vars => BooksInv'
<1> SUFFICES ASSUME IInv, BooksInv, [Next]_vars PROVE BooksInv'
  OBVIOUS
<1>1. SomeKind
  BY EveryStep
<1>2. PermitsAccounted'
  BY NextInvariant DEF IInv
<1> QED
  BY <1>1, <1>2, ExactNext, OneCallNext, WaiterNext, DownNext, WriteNext, CountsNext DEF BooksInv

(* Both inductive invariants, in every reachable state.                       *)
LEMMA BooksInvariant == Spec => [](IInv /\ BooksInv)
<1>1. Init => IInv /\ BooksInv
  BY InitInvariant, InitBooks
<1>2. (IInv /\ BooksInv) /\ [Next]_vars => (IInv /\ BooksInv)'
  BY NextInvariant, NextBooks
<1> QED
  BY <1>1, <1>2, PTL DEF Spec

(* in_flight, in_flight_destinations, blocking_media_retries and the worker   *)
(* semaphore agree in every reachable state, a row in flight stays in the     *)
(* table, held, and no failure path of dispatch, harvest, settlement or stop  *)
(* forgets the Future of a caller that waits.                                 *)
THEOREM BooksTheorem == Spec => []BooksAgree
<1>1. IInv /\ BooksInv => BooksAgree
  <2>1. IInv /\ BooksInv => AttemptsKeepTheirRow
    BY DEF IInv, TypeOK, RowSafe, SubmittedMarked, BooksInv, RowBooked, InFlightServed,
           AttemptsKeepTheirRow
  <2> QED
    BY <2>1 DEF IInv, BooksInv, BooksAgree
<1> QED
  BY <1>1, BooksInvariant, PTL

(* record_history_fallback and record_telegram_completion: what the table     *)
(* says of an accepted message is what was sent, and every long message with  *)
(* a receipt has exactly one attachment request, whatever commit failed or    *)
(* crash came in between.                                                     *)
THEOREM TableTheorem == Spec => []TableIsExact
<1>1. BooksInv => TableIsExact
  BY DEF BooksInv, TableIsExact
<1> QED
  BY <1>1, BooksInvariant, PTL

(* A row held without a running attempt is not deleted, not released, and a   *)
(* restart changes nothing: it leaves its hold only through a receipt.        *)
THEOREM HeldTheorem == Spec => HeldStaysHeld
<1> DEFINE Kept == \A i \in Ids : Held(i) /\ i \notin inFlight =>
                       Held(i)' \/ queue'[i].st = "sent_pending"
<1>1. IInv /\ BooksInv /\ [Next]_vars => [Kept]_vars
  <2> SUFFICES ASSUME IInv, BooksInv, SomeKind, NEW i \in Ids, Held(i), i \notin inFlight
               PROVE  Held(i)' \/ queue'[i].st = "sent_pending"
    BY EveryStep
  <2>1. CASE RowBecomes(i, queue[i].st, queue[i].hold)
    BY <2>1 DEF RowBecomes, Held, Queued
  <2>2. \A S \in SUBSET Ids : OthersSame(S) /\ i \notin S => RowBecomes(i, queue[i].st, queue[i].hold)
    BY DEF OthersSame, RowSame, RowNow
  <2>3. ASSUME NEW j \in Ids, Kind(j) PROVE Held(i)' \/ queue'[i].st = "sent_pending"
    <3>1. CASE OthersSame({j}) /\ i # j
      BY <2>1, <2>2, <3>1
    <3>2. CASE OthersSame({})
      BY <2>1, <2>2, <3>2
    <3>3. CASE HarvestedReceipt(j) \/ Confirmed(j)
      <4>1. Receipted(j)
        BY <3>3 DEF HarvestedReceipt, Confirmed
      <4>2. i = j \/ queue'[i] = queue[i]
        BY <4>1 DEF Receipted, OthersKept, IsNextId, Held, Queued
      <4> QED
        BY <4>1, <4>2 DEF Receipted, RowNow, RowBecomes, Held, Queued
    <3>4. CASE j = i /\ (Inserted(i) \/ Dispatched(i) \/ Undispatched(i))
      BY <3>4 DEF Inserted, Dispatched, Undispatched, Dispatchable, IsHead, Ready, IsNextId, Held, Queued
    <3>5. CASE j = i /\ (Redispatched(i) \/ ThreadMoved(i) \/ OperatorHeld(i))
      BY <2>1, <3>5 DEF Redispatched, ThreadMoved, OperatorHeld, RowSame, RowNow, RowBecomes, Held, Queued
    <3>6. CASE j = i /\ Harvested(i)
      BY <3>6 DEF Harvested
    <3> QED
      BY <2>3, <3>1, <3>2, <3>3, <3>4, <3>5, <3>6
         DEF Kind, Inserted, Dispatched, Undispatched, Redispatched, RetryFailed, ThreadMoved,
             Harvested, OperatorHeld, SettlementStarted
  <2>4. CASE Quiet \/ Restarted \/ Logged \/ SettlementEnded \/ Stopped \/ Drained \/ Gone
    BY <2>1, <2>2, <2>4 DEF Quiet, Restarted, Logged, SettlementEnded, Stopped, Drained, Gone, RowSame, RowNow
  <2>5. CASE Dropped
    <3>1. queue[recon.row].st = "sent_pending" /\ recon.row \in Ids /\ OthersSame({recon.row})
      BY <2>5 DEF IInv, SettlingReceipt, Locked, Dropped, TypeOK, Recon
    <3> QED
      BY <2>1, <2>2, <3>1 DEF Held, Queued
  <2> QED
    BY <2>3, <2>4, <2>5 DEF SomeKind
<1> QED
  BY <1>1, BooksInvariant, PTL DEF Spec, HeldStaysHeld

------------------------------------------------------------------------------
(* The abstract variables.                                                    *)

Status == [i \in Ids |-> Progress(i)]
Wanted(i) == queue[i].st # "absent" /\ queue[i].call.log
Wants == {i \in Ids : Wanted(i)}

(* Nothing happens, as far as the promise can tell.                           *)
Unmoved(S) == \A j \in Ids \ S : Progress(j)' = Progress(j) /\ (Wanted(j)' <=> Wanted(j))

(* A row that a step leaves alone makes no progress.                          *)
LEMMA RowUnmoved ==
    ASSUME NEW j \in Ids, RowSame(j), telegram'[j] = telegram[j], thread'[j] = thread[j],
           j \in inFlight' \union retries' <=> j \in inFlight \union retries,
           j \in msglog' <=> j \in msglog
    PROVE  Progress(j)' = Progress(j) /\ (Wanted(j)' <=> Wanted(j))
<1>1. Outstanding(j)' <=> Outstanding(j)
  BY DEF Outstanding, RowSame, RowNow, RowBecomes, Queued
<1> QED
  BY <1>1 DEF Progress, Wanted, RowSame, RowNow, RowBecomes

(* Nor do the rows that a step is not about.                                  *)
LEMMA OthersUnmoved ==
    ASSUME NEW S \in SUBSET Ids, OthersSame(S),
           \A j \in Ids \ S : /\ j \in inFlight' \union retries' <=> j \in inFlight \union retries
                              /\ j \in msglog' <=> j \in msglog
    PROVE  Unmoved(S)
BY RowUnmoved DEF OthersSame, Unmoved

(* What a step may do to the one request it is about.                         *)
Moves(i) ==
    \/ Progress(i)' = Progress(i) /\ (Wanted(i)' <=> Wanted(i))
    \/ Progress(i) = "new" /\ Progress(i)' = "owed" /\ ~Wanted(i)
    \/ /\ Wanted(i)' <=> Wanted(i)
       /\ \/ Progress(i) = "owed" /\ Progress(i)' = "posted"
          \/ Progress(i) = "owed" /\ Progress(i)' = "closed" /\ ~Wanted(i)
          \/ Progress(i) = "posted" /\ Progress(i)' = "logged" /\ Wanted(i)
          \/ Progress(i) = "logged" /\ Progress(i)' = "closed" /\ Wanted(i)
          \/ Progress(i) = "posted" /\ Progress(i)' = "closed" /\ ~Wanted(i)
          \/ Progress(i) = "owed" /\ Progress(i)' = "given_up"

(* A move of one request is a step of the promise.                            *)
LEMMA OneMoves ==
    ASSUME NEW i \in Ids, Unmoved({i}), Moves(i)
    PROVE  [Promise!PromiseNext]_(Promise!promise)
<1>1. ASSUME NEW to, Progress(i)' = to PROVE Status' = [Status EXCEPT ![i] = to]
  BY <1>1 DEF Status, Unmoved
<1>2. (Wanted(i)' <=> Wanted(i)) => Wants' = Wants
  BY DEF Wants, Unmoved
<1>3. ~Wanted(i) => Wants' \in {Wants, Wants \union {i}}
  BY DEF Wants, Unmoved
<1>4. Status[i] = Progress(i) /\ (i \in Wants <=> Wanted(i))
  BY DEF Status, Wants
<1>5. CASE Progress(i)' = Progress(i) /\ (Wanted(i)' <=> Wanted(i))
  <2>1. Status' = Status /\ Wants' = Wants
    BY <1>2, <1>5 DEF Status, Unmoved
  <2> QED
    BY <2>1 DEF Promise!promise, Status, Wants, Wanted
<1>6. CASE Progress(i) = "new" /\ Progress(i)' = "owed" /\ ~Wanted(i)
  <2>1. Promise!Accept(i)
    BY <1>1, <1>3, <1>4, <1>6 DEF Promise!Accept, Promise!Move, Status, Wants, Wanted
  <2> QED
    BY <2>1 DEF Promise!PromiseNext
<1>7. ASSUME Wants' = Wants, Progress(i) = "owed",
             Progress(i)' = "posted" \/ (Progress(i)' = "closed" /\ ~Wanted(i))
      PROVE  Promise!Post(i)
  BY <1>1, <1>4, <1>7 DEF Promise!Post, Promise!Move, Status, Wants, Wanted
<1>8. ASSUME Wants' = Wants, Progress(i) = "posted", Progress(i)' = "logged", Wanted(i)
      PROVE  Promise!Log(i)
  BY <1>1, <1>4, <1>8 DEF Promise!Log, Promise!Move, Status, Wants, Wanted
<1>9. ASSUME Wants' = Wants, Progress(i) = IF Wanted(i) THEN "logged" ELSE "posted",
             Progress(i)' = "closed"
      PROVE  Promise!Close(i)
  BY <1>1, <1>4, <1>9 DEF Promise!Close, Promise!Move, Status, Wants, Wanted
<1>10. ASSUME Wants' = Wants, Progress(i) = "owed", Progress(i)' = "given_up"
       PROVE  Promise!GiveUp(i)
  BY <1>1, <1>4, <1>10 DEF Promise!GiveUp, Promise!Move, Status, Wants, Wanted
<1> QED
  BY <1>2, <1>5, <1>6, <1>7, <1>8, <1>9, <1>10 DEF Moves, Promise!PromiseNext

(* A row whose request is outstanding only in memory is not to be logged.     *)
LEMMA MemoryOnly ==
    ASSUME IInv, BooksInv, NEW j \in Ids, Outstanding(j), ~Queued(j)
    PROVE  ~Wanted(j)
<1>1. RowSafe(j) /\ RowExact(j) /\ TypeOK /\ QueueTypeOK
  BY RowFacts DEF TypeOK
<1>2. ~Retained(queue[j].call)
  BY <1>1 DEF Outstanding, RowSafe, SubmittedMarked, RetryInMemory, RowExact, RowBooked,
     InFlightServed, Held
<1> QED
  BY <1>1, <1>2, KeptCalls DEF Wanted

(* Steps that only take away what is outstanding give up requests that were   *)
(* in memory only, all at once.                                               *)
LEMMA ManyGivenUp ==
    ASSUME IInv, BooksInv, UNCHANGED msglog,
           \A j \in Ids : /\ RowSame(j) /\ telegram'[j] = telegram[j]
                          /\ Outstanding(j)' => Outstanding(j)
    PROVE  [Promise!PromiseNext]_(Promise!promise)
<1> DEFINE S == {j \in Ids : Progress(j) = "owed" /\ ~Outstanding(j)'}
<1>1. ASSUME NEW j \in Ids PROVE /\ Wanted(j)' <=> Wanted(j)
                                 /\ j \in S => Progress(j)' = "given_up" /\ ~Wanted(j)
                                 /\ j \notin S => Progress(j)' = Progress(j)
  <2>1. /\ queue'[j].st = queue[j].st /\ queue'[j].call = queue[j].call
        /\ telegram'[j] = telegram[j] /\ (Queued(j)' <=> Queued(j))
        /\ Outstanding(j)' => Outstanding(j)
    BY DEF RowSame, RowNow, RowBecomes, Queued
  <2>2. CASE j \in S
    <3>1. queue[j].st # "absent" /\ telegram[j].copies = 0 /\ Outstanding(j)
      BY <2>2 DEF Progress
    <3>2. ~Queued(j)
      BY <2>1, <2>2 DEF Outstanding
    <3> QED
      BY <2>1, <2>2, <3>1, <3>2, MemoryOnly DEF Progress, Wanted
  <2>3. CASE j \notin S
    BY <2>1, <2>3 DEF Progress, Wanted
  <2> QED
    BY <2>2, <2>3
<1>2. Wants' = Wants
  BY <1>1 DEF Wants
<1>3. Status' = [j \in Ids |-> IF j \in S THEN "given_up" ELSE Status[j]]
  BY <1>1 DEF Status
<1>4. \A j \in S : Status[j] = "owed" /\ j \notin Wants
  BY <1>1 DEF Status, Wants
<1> HIDE DEF S
<1>5. Promise!GiveUpAll(S)
  BY <1>2, <1>3, <1>4 DEF Promise!GiveUpAll, Status, Wants, Wanted
<1>6. S \in SUBSET Ids
  BY DEF S
<1> QED
  BY <1>5, <1>6 DEF Promise!PromiseNext

------------------------------------------------------------------------------
(* Kind by kind.                                                              *)

(* A receipt is committed for a message that Telegram has; its supplement is  *)
(* a request of its own.                                                      *)
LEMMA ReceiptKeepsPromise ==
    ASSUME IInv, BooksInv, NEW i \in Ids, HarvestedReceipt(i) \/ Confirmed(i)
    PROVE  [Promise!PromiseNext]_(Promise!promise)
<1>1. /\ Receipted(i) /\ UNCHANGED <<telegram, msglog>> /\ RowExact(i)
      /\ \A j \in Ids \ {i} : /\ thread'[j] = thread[j]
                              /\ j \in inFlight' \union retries' <=> j \in inFlight \union retries
  BY RowFacts DEF HarvestedReceipt, Confirmed, Leave, MemorySame
<1>2. telegram[i].copies > 0
  BY <1>1 DEF HarvestedReceipt, Confirmed, RowExact, RowBooked, AnswerIsTaken
<1>3. Progress(i)' = Progress(i) /\ (Wanted(i)' <=> Wanted(i))
  BY <1>1, <1>2 DEF Receipted, RowNow, RowBecomes, Progress, Wanted, Queued
<1>4. ASSUME NEW j \in Ids \ {i}, queue'[j] = queue[j]
      PROVE  Progress(j)' = Progress(j) /\ (Wanted(j)' <=> Wanted(j))
  BY <1>1, <1>4, RowUnmoved DEF RowSame, RowNow, RowBecomes
<1>5. CASE OthersKept(i)
  <2>1. Unmoved({i})
    BY <1>4, <1>5 DEF OthersKept, Unmoved
  <2> QED
    BY <1>3, <2>1, OneMoves DEF Moves
<1>6. ASSUME NEW j \in Ids \ {i}, IsNextId(j), queue'[j].st = "queued", queue'[j].call = Supplement,
             \A k \in Ids \ {i, j} : queue'[k] = queue[k]
      PROVE  [Promise!PromiseNext]_(Promise!promise)
  <2>1. Unmoved({j})
    BY <1>3, <1>4, <1>6 DEF Unmoved
  <2>2. queue[j].st = "absent" /\ telegram[j].copies = 0
    BY <1>6, RowFacts DEF IsNextId, RowSafe, AbsentUntouched
  <2>3. Progress(j) = "new" /\ Progress(j)' = "owed" /\ ~Wanted(j)
    BY <1>1, <1>6, <2>2 DEF Progress, Wanted, Outstanding, Queued
  <2> QED
    BY <2>1, <2>3, OneMoves DEF Moves
<1> QED
  BY <1>1, <1>5, <1>6 DEF Receipted

(* A request is accepted, taken up, put back or given up.                     *)
LEMMA EntryKeepsPromise ==
    ASSUME IInv, BooksInv, NEW i \in Ids,
           Inserted(i) \/ Dispatched(i) \/ Undispatched(i) \/ Redispatched(i) \/ OperatorHeld(i)
    PROVE  [Promise!PromiseNext]_(Promise!promise)
<1>1. /\ OthersSame({i}) /\ UNCHANGED <<telegram, msglog>> /\ RowExact(i) /\ RowSafe(i)
      /\ \A j \in Ids \ {i} : j \in inFlight' \union retries' <=> j \in inFlight \union retries
  BY RowFacts DEF Inserted, Dispatched, Undispatched, Redispatched, OperatorHeld, Submit,
     MemorySame, scheduler
<1>2. Unmoved({i})
  BY <1>1, OthersUnmoved
<1> SUFFICES Moves(i)
  BY <1>2, OneMoves
<1>3. CASE Inserted(i)
  <2>1. queue[i].st = "absent" /\ queue'[i].st = "queued" /\ telegram[i].copies = 0
    BY <1>1, <1>3 DEF Inserted, IsNextId, RowSafe, AbsentUntouched
  <2> QED
    BY <1>1, <2>1 DEF Moves, Progress, Wanted, Outstanding, Queued
<1>4. CASE Dispatched(i)
  <2>1. Queued(i) /\ telegram[i].copies = 0
    BY <1>4, DispatchableFacts DEF Dispatched
  <2>2. queue'[i].st # "absent" /\ queue'[i].call = queue[i].call /\ i \in inFlight'
    BY <1>4 DEF Dispatched, Submit, RowNow, RowBecomes
  <2> QED
    BY <1>1, <2>1, <2>2 DEF Moves, Progress, Wanted, Outstanding, Queued
<1>5. CASE Undispatched(i)
  <2>1. Queued(i) /\ telegram[i].copies = 0
    BY <1>5, DispatchableFacts DEF Undispatched
  <2>2. queue'[i].st \in {"queued", "removed"} /\ queue'[i].call = queue[i].call
    BY <1>5 DEF Undispatched, RowNow, RowBecomes
  <2> QED
    BY <1>1, <2>1, <2>2 DEF Moves, Progress, Wanted, Outstanding, Queued
<1>6. CASE Redispatched(i)
  <2>1. queue[i].st = "removed" /\ telegram[i].copies = 0
    BY <1>1, <1>6 DEF Redispatched, RowSafe, RetryInMemory
  <2>2. queue'[i].st = "removed" /\ queue'[i].call = queue[i].call /\ i \in inFlight' /\ i \in retries
    BY <1>6, <2>1 DEF Redispatched, Submit, RowSame, RowNow, RowBecomes
  <2> QED
    BY <1>1, <2>1, <2>2 DEF Moves, Progress, Wanted, Outstanding, Queued
<1>7. CASE OperatorHeld(i)
  <2>1. Queued(i) /\ queue'[i].st = "queued" /\ queue'[i].call = queue[i].call
    BY <1>7 DEF OperatorHeld, RowNow, RowBecomes
  <2> QED
    BY <1>1, <2>1 DEF Moves, Progress, Wanted, Outstanding, Queued
<1> QED
  BY <1>3, <1>4, <1>5, <1>6, <1>7

(* An executor thread's step posts its message or ends the last attempt of a  *)
(* request that only the thread still knew of.                                *)
LEMMA ThreadKeepsPromise ==
    ASSUME IInv, BooksInv, NEW i \in Ids, ThreadMoved(i)
    PROVE  [Promise!PromiseNext]_(Promise!promise)
<1>1. /\ OthersSame({i}) /\ UNCHANGED <<msglog, inFlight, retries>>
      /\ RowExact(i) /\ RowSafe(i) /\ TypeOK /\ QueueTypeOK /\ telegram[i].copies \in Nat
      /\ queue'[i].st = queue[i].st /\ queue'[i].call = queue[i].call
      /\ thread[i].at \in {"clearing", "calling", "accepted"}
  BY RowFacts DEF ThreadMoved, scheduler, RowBecomes, TypeOK
<1>2. Unmoved({i})
  BY <1>1, OthersUnmoved
<1> SUFFICES Moves(i)
  BY <1>2, OneMoves
<1>3. queue[i].st # "absent" /\ (Wanted(i)' <=> Wanted(i))
  BY <1>1 DEF RowSafe, AbsentUntouched, Wanted
<1>4. CASE thread[i].at = "accepted"
  <2>1. telegram'[i] = telegram[i] /\ telegram[i].copies > 0
    BY <1>1, <1>4 DEF ThreadMoved, RowExact, RowBooked, AnswerIsTaken
  <2> QED
    BY <1>1, <1>3, <2>1 DEF Moves, Progress
<1>5. CASE thread[i].at # "accepted"
  <2>1. telegram[i].copies = 0 /\ i \notin msglog
    BY <1>1, <1>5 DEF RowSafe, CallingUntaken, NotTaken, RowExact, RowBooked, LoggedIsTaken
  <2>2. Progress(i) = "owed"
    BY <1>1, <1>3, <1>5, <2>1 DEF Progress, Outstanding
  <2>3. CASE telegram'[i] = telegram[i]
    BY <1>1, <1>3, <2>1, <2>2, <2>3 DEF Moves, Progress
  <2>4. CASE telegram'[i].copies = telegram[i].copies + 1
    <3>1. telegram'[i].copies # 0
      BY <2>1, <2>4
    <3>2. queue[i].st = "removed" => ~Wanted(i)
      BY <1>1, <1>5, KeptCalls DEF RowSafe, SubmittedMarked, Held, Queued, Wanted
    <3> QED
      BY <1>1, <1>3, <2>1, <2>2, <3>1, <3>2 DEF Moves, Progress
  <2> QED
    BY <1>5, <2>3, <2>4 DEF ThreadMoved
<1> QED
  BY <1>4, <1>5

(* A harvest closes what was posted and needs no log, and gives up only what  *)
(* Telegram does not have.                                                    *)
LEMMA HarvestKeepsPromise ==
    ASSUME IInv, BooksInv, NEW i \in Ids, Harvested(i)
    PROVE  [Promise!PromiseNext]_(Promise!promise)
<1>1. /\ OthersSame({i}) /\ UNCHANGED <<telegram, msglog>>
      /\ RowExact(i) /\ RowSafe(i) /\ TypeOK /\ telegram[i].copies \in Nat /\ i \in inFlight
      /\ retries' \in {retries, retries \union {i}}
  BY RowFacts DEF Harvested
<1>2. inFlight' = inFlight \ {i}
  BY DEF Harvested, Leave
<1>3. Unmoved({i})
  BY <1>1, <1>2, OthersUnmoved
<1> SUFFICES Moves(i)
  BY <1>3, OneMoves
<1>4. /\ queue[i].st # "absent" /\ queue'[i].call = queue[i].call
      /\ \/ queue'[i].st = queue[i].st
         \/ Queued(i) /\ queue'[i].st = "removed" /\ (telegram[i].copies = 0 \/ ~queue[i].call.log)
  BY <1>1 DEF Harvested, RowSafe, AbsentUntouched, RowSame, RowNow, RowBecomes, Queued
<1>5. Wanted(i)' <=> Wanted(i)
  BY <1>4 DEF Wanted, Queued
<1>6. CASE telegram[i].copies = 0
  BY <1>1, <1>4, <1>5, <1>6 DEF Moves, Progress, Outstanding, Queued
<1>7. CASE telegram[i].copies # 0
  <2>1. i \in msglog => queue[i].call.log
    BY <1>1 DEF RowExact, RowBooked, LoggedIsTaken
  <2> QED
    BY <1>1, <1>4, <1>5, <1>7, <2>1 DEF Moves, Progress, Wanted, Queued
<1> QED
  BY <1>6, <1>7

(* A settlement logs first and closes then.                                   *)
LEMMA SettlementKeepsPromise ==
    ASSUME IInv, BooksInv, Logged \/ Dropped
    PROVE  [Promise!PromiseNext]_(Promise!promise)
<1>1. PICK i \in Ids : i = recon.row
  BY DEF IInv, TypeOK, Recon
<1>2. /\ queue[i].st = "sent_pending" /\ RowExact(i)
      /\ Logged => queue[i].call.log
      /\ Dropped /\ queue[i].call.log => i \in msglog
  BY <1>1, RowFacts
     DEF IInv, SettlingReceipt, Locked, Logged, Dropped, BooksInv, LogWrittenWhenWanted
<1>3. telegram[i].copies > 0 /\ (i \in msglog => queue[i].call.log)
  BY <1>2 DEF RowExact, RowBooked, AnswerIsTaken, LoggedIsTaken
<1>4. /\ OthersSame({i}) /\ telegram'[i] = telegram[i] /\ queue'[i].call = queue[i].call
      /\ UNCHANGED <<inFlight, retries>> /\ \A j \in Ids \ {i} : j \in msglog' <=> j \in msglog
      /\ Logged => queue'[i].st = "sent_pending" /\ i \in msglog'
      /\ Dropped => queue'[i].st = "removed"
  BY <1>1, <1>2 DEF Logged, Dropped, OthersSame, RowSame, RowNow, RowBecomes, MemorySame
<1>5. Unmoved({i})
  BY <1>4, OthersUnmoved
<1>6. Moves(i)
  BY <1>2, <1>3, <1>4 DEF Moves, Progress, Wanted
<1> QED
  BY <1>5, <1>6, OneMoves

(* Stops, crashes and restarts do not show, except that what was in memory    *)
(* only is given up.                                                          *)
LEMMA RestKeepsPromise ==
    ASSUME IInv, BooksInv,
           \/ Quiet \/ Restarted \/ SettlementEnded \/ Stopped \/ Drained \/ Gone
           \/ \E i \in Ids : RetryFailed(i) \/ SettlementStarted(i)
    PROVE  [Promise!PromiseNext]_(Promise!promise)
<1>1. /\ UNCHANGED msglog
      /\ \A j \in Ids : RowSame(j) /\ telegram'[j] = telegram[j]
      /\ inFlight' \subseteq inFlight /\ retries' \subseteq retries
      /\ \A j \in Ids : thread'[j] = thread[j] \/ thread'[j].at = "idle"
  BY DEF Quiet, Restarted, SettlementEnded, Stopped, Drained, Gone, RetryFailed,
     SettlementStarted, OthersSame, MemorySame
<1>2. \A j \in Ids : Outstanding(j)' => Outstanding(j)
  BY <1>1 DEF Outstanding, RowSame, RowNow, RowBecomes, Queued
<1> QED
  BY <1>1, <1>2, ManyGivenUp

(* The promise of DeliveryPromise holds of the scheduler: a request that was  *)
(* committed stays owed until Telegram has its message or it is given up,     *)
(* Telegram gets it at most once, it is given up only while Telegram does not *)
(* have it, and it is logged before it is closed - whatever dispatch,         *)
(* harvest, settlement, stop, crash and restart interleave to.                *)
THEOREM PromiseTheorem == Spec => KeepsPromise
<1>1. Init => Promise!PromiseInit
  <2> SUFFICES ASSUME Init PROVE Promise!PromiseInit
    OBVIOUS
  <2>1. \A i \in Ids : queue[i].st = "absent"
    BY DEF Init, QueueInit, NoRow, NewRow
  <2>2. \A i \in Ids : Progress(i) = "new" /\ ~Wanted(i)
    BY <2>1 DEF Progress, Wanted
  <2> QED
    BY <2>2 DEF Promise!PromiseInit, Wanted
<1>2. IInv /\ BooksInv /\ [Next]_vars => [Promise!PromiseNext]_(Promise!promise)
  BY EveryStep, ReceiptKeepsPromise, EntryKeepsPromise, ThreadKeepsPromise, HarvestKeepsPromise,
     SettlementKeepsPromise, RestKeepsPromise DEF SomeKind, Kind
<1> QED
  BY <1>1, <1>2, BooksInvariant, PTL DEF Spec, KeepsPromise, Promise!PromiseSpec

------------------------------------------------------------------------------
(* The order of a destination, where chats keep their ids.                    *)

(* What a step may change of a row, for the order.                            *)
Framed(j) ==
    /\ queue[j].st # "absent" =>
           /\ queue'[j].st # "absent"
           /\ queue'[j].chat = queue[j].chat /\ queue'[j].call = queue[j].call
    /\ queue[j].st = "absent" /\ queue'[j].st # "absent" => IsNextId(j)
    /\ Queued(j)' /\ ~Held(j)' =>
           (Queued(j) /\ ~Held(j)) \/ queue[j].st = "absent" \/ (Alive /\ j \in inFlight)
    /\ telegram'[j].copies > telegram[j].copies => thread[j].at = "calling"
    /\ thread'[j].at \in {"clearing", "calling"} =>
           \/ thread[j].at \in {"clearing", "calling"}
           \/ Dispatched(j) \/ Redispatched(j)

(* A row that stays as it is.                                                 *)
LEMMA SameFramed ==
    ASSUME IInv, NEW j \in Ids, RowSame(j), telegram'[j] = telegram[j],
           thread'[j] = thread[j] \/ thread'[j].at = "idle"
    PROVE  Framed(j)
<1>1. telegram[j].copies \in Nat
  BY DEF IInv, TypeOK, Delivery
<1> QED
  BY <1>1 DEF RowSame, RowNow, RowBecomes, Framed, Queued, Held

(* The row that a step is about.                                              *)
LEMMA KindFramed ==
    ASSUME IInv, BooksInv, upgraded = {}, NEW i \in Ids,
           \/ Inserted(i) \/ Dispatched(i) \/ Undispatched(i) \/ Redispatched(i)
           \/ ThreadMoved(i) \/ Harvested(i) \/ OperatorHeld(i)
    PROVE  Framed(i)
<1>1. telegram[i].copies \in Nat /\ TypeOK /\ PermitsAccounted /\ RowSafe(i)
  BY RowFacts DEF IInv
<1>2. CASE Inserted(i)
  <2>1. telegram'[i].copies = telegram[i].copies /\ thread'[i] = thread[i] /\ queue[i].st = "absent"
    BY <1>2 DEF Inserted, IsNextId
  <2> QED
    BY <1>1, <1>2, <2>1 DEF Inserted, Framed, Queued
<1>3. CASE Dispatched(i)
  <2>1. Queued(i) /\ telegram'[i].copies = telegram[i].copies
    BY <1>3, DispatchableFacts DEF Dispatched
  <2>2. /\ queue'[i].chat = queue[i].chat /\ queue'[i].call = queue[i].call
        /\ \/ queue'[i].st = "queued" /\ queue'[i].hold = "in_flight"
           \/ queue'[i].st = "removed"
    BY <1>3 DEF Dispatched, RowNow, RowBecomes
  <2> QED
    BY <1>1, <1>3, <2>1, <2>2 DEF Framed, Queued, Held
<1>4. CASE Undispatched(i)
  <2>1. Queued(i) /\ telegram'[i].copies = telegram[i].copies /\ thread'[i] = thread[i]
    BY <1>4, DispatchableFacts DEF Undispatched
  <2>2. /\ queue'[i].chat = queue[i].chat /\ queue'[i].call = queue[i].call
        /\ \/ queue'[i].st = "queued" /\ queue'[i].hold # "none"
           \/ queue'[i].st = "removed"
    BY <1>4 DEF Undispatched, RowNow, RowBecomes
  <2> QED
    BY <1>1, <2>1, <2>2 DEF Framed, Queued, Held
<1>5. CASE Redispatched(i)
  <2>1. RowSame(i) /\ telegram'[i].copies = telegram[i].copies
    BY <1>5 DEF Redispatched
  <2> QED
    BY <1>1, <1>5, <2>1 DEF Framed, Queued, Held, RowSame, RowNow, RowBecomes
<1>6. CASE ThreadMoved(i)
  <2>1. RowBecomes(i, queue[i].st, queue[i].hold) /\ queue'[i].chat = queue[i].chat
    BY <1>6 DEF ThreadMoved
  <2>2. /\ telegram'[i].copies > telegram[i].copies => thread[i].at = "calling"
        /\ thread'[i].at \in {"clearing", "calling"} => thread[i].at \in {"clearing", "calling"}
    BY <1>1, <1>6 DEF ThreadMoved, Results, Refusals
  <2> QED
    BY <2>1, <2>2 DEF Framed, Queued, Held, RowBecomes
<1>7. CASE Harvested(i)
  <2>1. /\ thread'[i].at = "idle" /\ telegram'[i].copies = telegram[i].copies
        /\ Alive /\ i \in inFlight
    BY <1>1, <1>7, LeaveEffect DEF Harvested
  <2>2. queue[i].st # "absent"
    BY <1>1, <2>1 DEF RowSafe, AbsentUntouched
  <2>3. /\ queue'[i].chat = queue[i].chat /\ queue'[i].call = queue[i].call
        /\ queue'[i].st # "absent"
    BY <1>7, <2>2 DEF Harvested, RowSame, RowNow, RowBecomes
  <2> QED
    BY <1>1, <2>1, <2>2, <2>3 DEF Framed
<1>8. CASE OperatorHeld(i)
  <2>1. Queued(i) /\ telegram'[i].copies = telegram[i].copies /\ thread'[i] = thread[i]
    BY <1>8 DEF OperatorHeld
  <2>2. /\ queue'[i].chat = queue[i].chat /\ queue'[i].call = queue[i].call
        /\ queue'[i].st = "queued" /\ queue'[i].hold # "none"
    BY <1>8 DEF OperatorHeld, RowNow, RowBecomes
  <2> QED
    BY <1>1, <2>1, <2>2 DEF Framed, Queued, Held
<1> QED
  BY <1>2, <1>3, <1>4, <1>5, <1>6, <1>7, <1>8

(* Every step changes every row only so.                                      *)
LEMMA AllFramed ==
    ASSUME IInv, BooksInv, upgraded = {}, SomeKind
    PROVE  \A j \in Ids : Framed(j)
<1> SUFFICES ASSUME NEW j \in Ids PROVE Framed(j)
  OBVIOUS
<1>1. ASSUME NEW i \in Ids, \/ Inserted(i) \/ Dispatched(i) \/ Undispatched(i) \/ Redispatched(i)
                            \/ ThreadMoved(i) \/ Harvested(i) \/ OperatorHeld(i)
      PROVE  Framed(j)
  <2>1. OthersSame({i})
    BY <1>1 DEF Inserted, Dispatched, Undispatched, Redispatched, ThreadMoved, Harvested, OperatorHeld
  <2> QED
    BY <1>1, <2>1, KindFramed, SameFramed DEF OthersSame
<1>2. ASSUME NEW i \in Ids, HarvestedReceipt(i) \/ Confirmed(i) PROVE Framed(j)
  <2>1. /\ Receipted(i) /\ UNCHANGED telegram /\ \A k \in Ids \ {i} : thread'[k] = thread[k]
        /\ thread'[i] = thread[i] \/ thread'[i].at = "idle"
        /\ telegram[j].copies \in Nat /\ TypeOK /\ PermitsAccounted
    BY <1>2, RowFacts, LeaveEffect DEF IInv, HarvestedReceipt, Confirmed
  <2>2. CASE j = i
    BY <2>1, <2>2 DEF Receipted, RowNow, RowBecomes, Framed, Queued
  <2>3. CASE j # i /\ queue'[j] = queue[j]
    BY <2>1, <2>3, SameFramed DEF RowSame, RowNow, RowBecomes
  <2>4. CASE j # i /\ IsNextId(j)
    BY <2>1, <2>4 DEF IsNextId, Framed
  <2> QED
    BY <2>1, <2>2, <2>3, <2>4 DEF Receipted, OthersKept
<1>3. CASE \/ Quiet \/ Restarted \/ Logged \/ SettlementEnded \/ Stopped \/ Drained \/ Gone
           \/ \E i \in Ids : RetryFailed(i) \/ SettlementStarted(i)
  <2>1. RowSame(j) /\ telegram'[j] = telegram[j] /\ (thread'[j] = thread[j] \/ thread'[j].at = "idle")
    BY <1>3 DEF Quiet, Restarted, Logged, SettlementEnded, Stopped, Drained, Gone, RetryFailed,
       SettlementStarted, OthersSame
  <2> QED
    BY <2>1, SameFramed
<1>4. CASE Dropped
  <2>1. /\ OthersSame({recon.row}) /\ UNCHANGED <<thread, telegram>> /\ telegram[j].copies \in Nat
        /\ RowNow(recon.row, "removed", "none", queue[recon.row].chat, FALSE)
        /\ queue[recon.row].st = "sent_pending"
    BY <1>4, RowFacts DEF Dropped, IInv, SettlingReceipt, Locked
  <2>2. CASE j = recon.row
    BY <2>1, <2>2 DEF RowNow, RowBecomes, Framed, Queued
  <2> QED
    BY <2>1, <2>2, SameFramed DEF OthersSame
<1> QED
  BY <1>1, <1>2, <1>3, <1>4 DEF SomeKind, Kind

(* Ids are given out in order.                                                *)
LEMMA IdsInOrderNext ==
    ASSUME IdsInOrder, \A j \in Ids : Framed(j)
    PROVE  IdsInOrder'
<1> SUFFICES ASSUME NEW i \in Ids, NEW j \in Ids, j < i, queue'[i].st # "absent"
             PROVE  queue'[j].st # "absent"
  BY DEF IdsInOrder
<1>1. queue[j].st # "absent"
  BY DEF IdsInOrder, Framed, IsNextId
<1> QED
  BY <1>1 DEF Framed

(* Calls are taken from destinations of their own, and address them.          *)
LEMMA OwnedNext ==
    ASSUME IInv, BooksInv, upgraded = {}, DestinationsOwned, SomeKind, \A j \in Ids : Framed(j)
    PROVE  DestinationsOwned'
<1>0. TypeOK /\ PermitsAccounted /\ OneCallPerDestination /\ inFlight \subseteq Ids /\ retries \subseteq Ids
  BY DEF IInv, TypeOK, BooksInv
<1>1. \A j \in Submitted : queue'[j].chat = queue[j].chat
  <2> SUFFICES ASSUME NEW j \in Submitted PROVE queue[j].st # "absent"
    BY <1>0 DEF Framed, Submitted
  <2> QED
    BY <1>0, RowFacts DEF Submitted, RowSafe, AbsentUntouched
<1>2. ASSUME Submitted' \subseteq Submitted, \A j \in Submitted' : sub'[j] = sub[j],
             \A j \in inFlight' : thread'[j].chat = thread[j].chat /\ j \in inFlight
      PROVE  DestinationsOwned'
  <2>1. inFlight' \subseteq Submitted'
    BY DEF Submitted
  <2> QED
    BY <1>1, <1>2, <2>1 DEF DestinationsOwned
<1>3. CASE \/ Quiet \/ Restarted \/ Logged \/ Dropped \/ SettlementEnded \/ Stopped \/ Drained
           \/ \E i \in Ids : \/ Undispatched(i) \/ RetryFailed(i) \/ OperatorHeld(i)
                             \/ SettlementStarted(i) \/ Confirmed(i) \/ Inserted(i)
  <2>1. /\ inFlight' \subseteq inFlight /\ retries' \subseteq retries /\ UNCHANGED sub
        /\ \A j \in Ids : thread'[j] = thread[j]
    BY <1>3 DEF Quiet, Restarted, Logged, Dropped, SettlementEnded, Stopped, Drained, Undispatched,
       RetryFailed, OperatorHeld, SettlementStarted, Confirmed, Inserted, MemorySame, scheduler, OthersSame
  <2> QED
    BY <1>0, <1>2, <2>1 DEF Submitted
<1>4. CASE Gone
  BY <1>4 DEF Gone, DestinationsOwned, Submitted
<1>5. ASSUME NEW i \in Ids, ThreadMoved(i) PROVE DestinationsOwned'
  <2>1. /\ UNCHANGED <<inFlight, retries, sub>>
        /\ \A j \in Ids : thread'[j].chat = thread[j].chat
    BY <1>5 DEF ThreadMoved, scheduler, OthersSame
  <2> QED
    BY <1>0, <1>2, <2>1 DEF Submitted
<1>6. ASSUME NEW i \in Ids, Dispatched(i) \/ Redispatched(i) PROVE DestinationsOwned'
  <2> DEFINE ch == IF Dispatched(i) THEN queue[i].chat ELSE sub[i]
  <2>1. /\ inFlight' = inFlight \union {i} /\ sub' = [sub EXCEPT ![i] = ch]
        /\ \A j \in Ids \ {i} : thread'[j] = thread[j]
        /\ thread'[i].chat = ch
        /\ retries' \subseteq retries
    <3>1. PICK mark : Submit(i, ch, mark)
      BY <1>6 DEF Dispatched, Redispatched
    <3>2. retries' \subseteq retries
      BY <1>6 DEF Dispatched, Redispatched
    <3> HIDE DEF ch
    <3> QED
      BY <1>0, <3>1, <3>2 DEF Submit, TypeOK
  <2>2. ch = queue[i].chat
    BY <1>6 DEF Redispatched, DestinationsOwned, Submitted
  <2>3. ASSUME NEW j \in Submitted, j # i PROVE sub[j] # ch
    <3>1. CASE Dispatched(i)
      BY <1>0, <2>3, <3>1 DEF Dispatched, Dispatchable, OneCallPerDestination, Submitted
    <3>2. CASE ~Dispatched(i)
      BY <1>6, <2>3, <3>2 DEF Redispatched, DestinationsOwned, Submitted
    <3> QED
      BY <3>1, <3>2
  <2> HIDE DEF ch
  <2>4. sub'[i] = ch /\ \A j \in Ids \ {i} : sub'[j] = sub[j]
    BY <1>0, <2>1 DEF TypeOK
  <2>5. Submitted' \subseteq Submitted \union {i} /\ Submitted \subseteq Ids
    BY <1>0, <2>1 DEF Submitted
  <2>6. queue'[i].chat = queue[i].chat
    BY <1>6, DispatchableFacts DEF Dispatched, Redispatched, RowSame, RowNow
  <2>7. \A j \in Submitted' : sub'[j] = queue'[j].chat
    BY <1>1, <2>2, <2>4, <2>5, <2>6 DEF DestinationsOwned
  <2>8. \A j \in inFlight' : thread'[j].chat = sub'[j]
    BY <1>0, <2>1, <2>4 DEF DestinationsOwned
  <2>9. \A j, k \in Submitted' : sub'[j] = sub'[k] => j = k
    BY <2>3, <2>4, <2>5 DEF DestinationsOwned
  <2> QED
    BY <2>7, <2>8, <2>9 DEF DestinationsOwned
<1>7. ASSUME NEW i \in Ids, Harvested(i) \/ HarvestedReceipt(i) PROVE DestinationsOwned'
  <2>1. /\ inFlight' = inFlight \ {i} /\ i \in inFlight
        /\ \A j \in Ids \ {i} : thread'[j] = thread[j]
        /\ retries' \subseteq retries \union {i}
        /\ sub' \in {sub, [sub EXCEPT ![i] = thread[i].chat]}
    BY <1>0, <1>7, LeaveEffect DEF Harvested, HarvestedReceipt
  <2>2. sub' = sub
    BY <1>0, <2>1 DEF DestinationsOwned, TypeOK
  <2> QED
    BY <1>0, <1>2, <2>1, <2>2 DEF Submitted
<1> QED
  BY <1>3, <1>4, <1>5, <1>6, <1>7 DEF SomeKind, Kind

(* The oldest runnable row of a priority is the one that is taken.            *)
LEMMA HeadIsOldest ==
    ASSUME TypeOK, NEW i \in Ids, NEW j \in Ids, IsHead(i), j < i, Queued(j),
           queue[j].chat = queue[i].chat, queue[j].call.prio = queue[i].call.prio
    PROVE  Held(j)
<1> SUFFICES ASSUME queue[j].hold = "none" PROVE FALSE
  BY DEF Held
<1>1. j \in Ready(queue[i].chat) /\ i \in Int /\ j \in Int
  BY DEF Ready, Ids
<1> QED
  BY <1>1 DEF IsHead

(* Rows under way before and after a step.                                    *)
LEMMA UnderwayBefore ==
    ASSUME IInv, BooksInv, SomeKind, NEW i \in Ids, Framed(i), Underway(i)'
    PROVE  Underway(i) \/ Dispatched(i)
<1>1. CASE i \in Submitted'
  <2>1. CASE inFlight' \subseteq inFlight /\ retries' \subseteq retries
    BY <1>1, <2>1 DEF Submitted, Underway
  <2>2. ASSUME NEW k \in Ids, Kind(k) PROVE Underway(i) \/ Dispatched(i)
    <3>1. CASE Dispatched(k) \/ Redispatched(k)
      BY <1>1, <3>1 DEF Dispatched, Redispatched, Submit, Submitted, Underway
    <3>2. CASE Harvested(k) \/ HarvestedReceipt(k)
      BY <1>1, <3>2 DEF Harvested, HarvestedReceipt, Leave, Submitted, Underway
    <3> QED
      BY <2>1, <2>2, <3>1, <3>2 DEF Kind, Inserted, Undispatched, RetryFailed, ThreadMoved,
         Confirmed, OperatorHeld, SettlementStarted, MemorySame, scheduler
  <2>3. CASE Quiet \/ Restarted \/ Logged \/ Dropped \/ SettlementEnded \/ Stopped \/ Drained \/ Gone
    BY <2>1, <2>3 DEF Quiet, Restarted, Logged, Dropped, SettlementEnded, Stopped, Drained, Gone, MemorySame
  <2> QED
    BY <2>2, <2>3 DEF SomeKind
<1>2. CASE thread'[i].at \in {"clearing", "calling"}
  BY <1>2 DEF Framed, Underway, Submitted, Redispatched
<1> QED
  BY <1>1, <1>2 DEF Underway

(* No older row of the destination becomes runnable behind a call that is     *)
(* under way, and none is runnable when a call is submitted.                  *)
LEMMA OlderNext ==
    ASSUME IInv, BooksInv, OrderInv, SomeKind, \A j \in Ids : Framed(j)
    PROVE  OlderAreHeld'
<1> SUFFICES ASSUME NEW i \in Ids, NEW j \in Ids, Underway(i)', j < i, Queued(j)',
                    queue'[j].chat = queue'[i].chat, queue'[j].call.prio = queue'[i].call.prio,
                    ~Held(j)'
             PROVE  FALSE
  BY DEF OlderAreHeld
<1>0. TypeOK /\ ThreadsOwned
  BY DEF IInv
<1>1. queue[i].st # "absent"
  <2>1. CASE Underway(i)
    BY <2>1, RowFacts DEF Underway, Submitted, RowSafe, AbsentUntouched
  <2>2. CASE Dispatched(i)
    BY <2>2, DispatchableFacts DEF Dispatched, Queued
  <2> QED
    BY <2>1, <2>2, UnderwayBefore
<1>2. queue[j].st # "absent"
  BY <1>1 DEF OrderInv, IdsInOrder
<1>3. queue[j].chat = queue[i].chat /\ queue[j].call.prio = queue[i].call.prio
  BY <1>1, <1>2 DEF Framed
<1>4. CASE Queued(j) /\ ~Held(j)
  <2>1. Dispatched(i)
    BY <1>3, <1>4, UnderwayBefore DEF OrderInv, OlderAreHeld
  <2> QED
    BY <1>0, <1>3, <1>4, <2>1, HeadIsOldest DEF Dispatched, Dispatchable
<1>5. CASE Alive /\ j \in inFlight
  <2>1. CASE Dispatched(i)
    BY <1>3, <1>5, <2>1
       DEF Dispatched, Dispatchable, BooksInv, OneCallPerDestination, OrderInv, DestinationsOwned, Submitted
  <2>2. CASE Underway(i)
    <3>1. i \in Submitted
      BY <1>0, <1>5, <2>2 DEF Underway, Submitted, ThreadsOwned
    <3>2. i = j
      BY <1>3, <1>5, <3>1 DEF OrderInv, DestinationsOwned, Submitted
    <3> QED
      BY <3>2 DEF Ids
  <2> QED
    BY <2>1, <2>2, UnderwayBefore
<1> QED
  BY <1>2, <1>4, <1>5 DEF Framed

(* The invariant of the order, where no chat changes its id.                  *)
LEMMA OrderNext ==
    ASSUME DOMAIN Supergroup = {}
    PROVE  IInv /\ BooksInv /\ OrderInv /\ [Next]_vars => OrderInv'
<1> SUFFICES ASSUME IInv, BooksInv, OrderInv, [Next]_vars PROVE OrderInv'
  OBVIOUS
<1>1. upgraded = {} /\ SomeKind
  BY EveryStep DEF IInv, TypeOK
<1>2. \A j \in Ids : Framed(j)
  BY <1>1, AllFramed
<1> QED
  BY <1>1, <1>2, IdsInOrderNext, OwnedNext, OlderNext DEF OrderInv

(* Where chats keep their ids, Telegram accepts the messages for one          *)
(* destination and priority in the order they were enqueued, whatever is      *)
(* refused, retried, held, abandoned or interrupted in between.  (A group     *)
(* that turns into a supergroup joins a queue that may hold newer rows.)      *)
THEOREM OrderTheorem ==
    ASSUME DOMAIN Supergroup = {}
    PROVE  Spec => AcceptedInOrder
<1> DEFINE Ordered == \A i, j \in Ids :
                         /\ j < i
                         /\ telegram'[i].copies > telegram[i].copies
                         /\ Queued(j)
                         /\ queue[j].chat = queue[i].chat /\ queue[j].call.prio = queue[i].call.prio
                         => Held(j)
<1>1. Init => OrderInv
  <2> SUFFICES ASSUME Init PROVE OrderInv
    OBVIOUS
  <2>1. \A i \in Ids : queue[i].st = "absent" /\ thread[i].at = "idle"
    BY DEF Init, QueueInit, NoRow, NewRow, Idle
  <2> QED
    BY <2>1 DEF Init, OrderInv, IdsInOrder, DestinationsOwned, OlderAreHeld, Underway, Submitted
<1>2. IInv /\ BooksInv /\ OrderInv /\ [Next]_vars => [Ordered]_vars
  <2> SUFFICES ASSUME IInv, BooksInv, OrderInv, [Next]_vars PROVE Ordered
    OBVIOUS
  <2>1. \A j \in Ids : Framed(j)
    BY EveryStep, AllFramed DEF IInv, TypeOK
  <2> QED
    BY <2>1 DEF OrderInv, OlderAreHeld, Framed, Underway
<1>3. IInv /\ BooksInv /\ OrderInv /\ [Next]_vars => OrderInv'
  BY OrderNext
<1> QED
  BY <1>1, <1>2, <1>3, BooksInvariant, PTL DEF Spec, AcceptedInOrder
==============================================================================
