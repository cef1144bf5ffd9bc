-------------------------- MODULE OutboundScheduler --------------------------
(* The scheduler of efb_telegram_master/outbound.py with the adapter methods  *)
(* of bot_manager.py it calls, the executor threads that talk to Telegram,    *)
(* Telegram and the message log as far as the queue sees them, the operator's *)
(* two repair tools, and crashes.                                             *)
(*                                                                            *)
(* The scheduler's methods run under one re-entrant lock.  The bodies of the  *)
(* loops of harvest_completed and dispatch_once are one action per row; what  *)
(* a loop body commits before the last of several transactions is a step of   *)
(* its own, so that a crash can fall between them.  The lock is then held, as *)
(* `recon' says, and only executor threads and the outside world move.        *)
EXTENDS OutboundQueue

CONSTANTS
    Workers,       \* permits of the worker semaphore (send worker count)
    Supergroup,    \* a function: the chat that an upgraded group turns into
    MaxTroubles    \* bound: adverse events in one behaviour (see Trouble)

ASSUME SchedulerAssumption ==
    /\ Workers \in Nat \ {0}
    /\ MaxTroubles \in Nat
    /\ DOMAIN Supergroup \subseteq Chats
    /\ \A ch \in DOMAIN Supergroup : Supergroup[ch] \in Chats \ DOMAIN Supergroup

------------------------------------------------------------------------------
VARIABLES
    msglog,      \* ids whose Telegram message is in MsgLog (the main database)
    life,        \* where the process is
    inFlight,    \* keys of in_flight
    busy,        \* in_flight_destinations
    permits,     \* free permits of the worker semaphore
    retries,     \* keys of blocking_media_retries
    notBefore,   \* keys of _row_not_before whose deadline has not come
    sub,         \* the chat of the row object held in memory for an id
    waiter,      \* the Future a caller got for an id
    recon,       \* the multi-transaction step the lock holder is in
    thread,      \* what the executor thread serving an id is doing
    telegram,    \* what Telegram did for an id
    upgraded,    \* groups that have become supergroups
    troubles     \* adverse events so far

durable == <<queue, msglog>>
scheduler == <<life, inFlight, busy, permits, retries, notBefore, sub, waiter, recon>>
vars == <<queue, msglog, life, inFlight, busy, permits, retries, notBefore, sub,
          waiter, recon, thread, telegram, upgraded, troubles>>

(* "failed" is stopping with a recorded failure; "closed" is after            *)
(* _finalize_outbound_resources, with the process still there.                *)
Lives == {"running", "stopping", "failed", "closed", "down"}

(* Where an executor thread is.  "clearing" is the write that drops an old    *)
(* fallback mark; "calling" has a request out that Telegram has not taken;    *)
(* "accepted" has one it has taken.  The others are results of the Future.    *)
Refusals == {"limited", "unsent", "rejected", "migrated", "unacquired", "unobtainable"}
Results == {"ok", "ambiguous", "unusable", "local", "broken"} \union Refusals
ThreadAt == {"idle", "clearing", "calling", "accepted"} \union Results

Thread == [at : ThreadAt,
           chat : Chats,          \* the chat the call addresses now
           fallback : BOOLEAN,    \* it issues the fallback of copy_message
           mark : BOOLEAN]        \* attempted_fallback in the payload it read

Delivery == [copies : 0 .. 2, chat : Chats, fallback : BOOLEAN]

Recon == [at : {"free", "write", "drop"}, row : Ids, by : {"harvest", "batch", "confirm"}]

TypeOK ==
    /\ QueueTypeOK
    /\ msglog \subseteq Ids
    /\ life \in Lives
    /\ inFlight \subseteq Ids
    /\ busy \subseteq Chats
    /\ permits \in 0 .. Workers
    /\ retries \subseteq Ids
    /\ notBefore \subseteq Ids
    /\ sub \in [Ids -> Chats]
    /\ waiter \in [Ids -> {"none", "waiting", "ok", "failed"}]
    /\ recon \in Recon
    /\ thread \in [Ids -> Thread]
    /\ telegram \in [Ids -> Delivery]
    /\ upgraded \subseteq DOMAIN Supergroup
    /\ troubles \in 0 .. MaxTroubles

SomeChat == CHOOSE ch \in Chats : TRUE
Idle == [at |-> "idle", chat |-> SomeChat, fallback |-> FALSE, mark |-> FALSE]
LockFree == [at |-> "free", row |-> 1, by |-> "batch"]

Init ==
    /\ QueueInit
    /\ msglog = {}
    /\ life = "running"
    /\ inFlight = {} /\ busy = {} /\ permits = Workers
    /\ retries = {} /\ notBefore = {}
    /\ sub = [i \in Ids |-> SomeChat]
    /\ waiter = [i \in Ids |-> "none"]
    /\ recon = LockFree
    /\ thread = [i \in Ids |-> Idle]
    /\ telegram = [i \in Ids |-> [copies |-> 0, chat |-> SomeChat, fallback |-> FALSE]]
    /\ upgraded = {}
    /\ troubles = 0

------------------------------------------------------------------------------
(* Shared pieces.                                                             *)

Alive == life \in {"running", "stopping", "failed"}
Locked == recon.at # "free"
Stopping == life # "running"

(* One adverse event: a transaction that fails, a refusal, a lost answer, a   *)
(* crash, a stop.  Only their number is bounded, never their order.           *)
Trouble == troubles < MaxTroubles /\ troubles' = troubles + 1
NoTrouble == UNCHANGED troubles

FailWaiter(w, i) == IF w[i] = "waiting" THEN [w EXCEPT ![i] = "failed"] ELSE w
CompleteWaiter(w, i) == IF w[i] = "waiting" THEN [w EXCEPT ![i] = "ok"] ELSE w
FailWaiters(w, S) == [i \in Ids |-> IF i \in S /\ w[i] = "waiting" THEN "failed" ELSE w[i]]

StopForPersistenceError ==
    /\ life' = "failed"
    /\ notBefore' = {}
    /\ waiter' = FailWaiters(waiter, Ids)

(* Mutant of Leave: the destination is not given back.                        *)
LeaveKeepingDestination(i) ==
    /\ inFlight' = inFlight \ {i}
    /\ permits' = permits + 1
    /\ thread' = [thread EXCEPT ![i] = Idle]
    /\ UNCHANGED busy

(* harvest_completed: the completed call leaves in_flight.                    *)
Leave(i) ==
    /\ inFlight' = inFlight \ {i}
    /\ busy' = busy \ {sub[i]}
    /\ permits' = permits + 1
    /\ thread' = [thread EXCEPT ![i] = Idle]

(* A committed receipt is settled in order: MsgLog, then the row's removal.   *)
(* Mutant: a crash after the removal loses the log entry.                     *)
RemovalFirst(i, by) == [at |-> "drop", row |-> i, by |-> by]
Settling(i, by) == [at |-> IF queue[i].call.log THEN "write" ELSE "drop", row |-> i, by |-> by]

(* Rows that are kept when Telegram rejects them for good.                    *)
RetainFailed(c) == c.origin \in {"history", "supplement"}
FailedHold(c) == IF c.origin = "history" THEN "history_failed" ELSE "supplement_failed"

(* record_queued_failure: what a failed attempt means for its row.  A lost    *)
(* answer is no refusal; only a definite one allows an eventual row to be     *)
(* sent again.  Mutant: a lost answer is retried like a refused connection.   *)
Unconfirmed(c, result) ==
    result = "unusable" \/ (result \in {"ambiguous", "local"} /\ Retained(c))

Decision(c, result) ==
    CASE result = "migrated" -> "retry"
      [] result = "unacquired" -> "acquisition"
      [] Unconfirmed(c, result) -> "uncertain"
      [] result \in {"limited", "unsent"} /\ c.prio = 0 -> "retry"
      [] OTHER -> "terminal"

------------------------------------------------------------------------------
(* Callers.                                                                   *)

(* _enqueue_requests, for one request: refused once the scheduler is stopping. *)
EnqueueRequest(i, c, ch) ==
    /\ ~Locked /\ life = "running"
    /\ RoomFor(c)
    /\ Enqueue(i, c, ch)
    /\ waiter' = [waiter EXCEPT ![i] = "waiting"]
    /\ UNCHANGED <<msglog, life, inFlight, busy, permits, retries, notBefore, sub, recon,
                   thread, telegram, upgraded, troubles>>

------------------------------------------------------------------------------
(* dispatch_once, the body of its loop over the heads.                        *)

(* Mutant: a destination with a call in flight is not passed over.            *)
DispatchableWhileBusy(i) ==
    /\ ~Locked /\ life = "running"
    /\ IsHead(i)
    /\ i \notin inFlight
    /\ queue[i].due
    /\ i \notin notBefore
    /\ permits > 0

Dispatchable(i) ==
    /\ ~Locked /\ life = "running"
    /\ IsHead(i)
    /\ i \notin inFlight
    /\ queue[i].chat \notin busy
    /\ queue[i].chat \notin {sub[j] : j \in retries}
    /\ queue[i].due
    /\ i \notin notBefore
    /\ permits > 0

Submit(i, ch, mark) ==
    /\ inFlight' = inFlight \union {i}
    /\ busy' = busy \union {ch}
    /\ permits' = permits - 1
    /\ sub' = [sub EXCEPT ![i] = ch]
    /\ thread' = [thread EXCEPT ![i] =
           [at |-> IF mark THEN "clearing" ELSE "calling",
            chat |-> ch, fallback |-> FALSE, mark |-> mark]]

(* Blocking calls that are not retained leave the table before submission;    *)
(* the others get their durable attempt mark before the executor sees them.   *)
Dispatch(i) ==
    /\ Dispatchable(i)
    /\ IF Retained(queue[i].call) THEN BeginDeliveryAttempt(i) ELSE Delete(i)
    /\ Submit(i, queue[i].chat, queue[i].fallback)
    /\ NoTrouble
    /\ UNCHANGED <<msglog, life, retries, notBefore, waiter, recon, telegram, upgraded>>

(* The executor refuses the call.                                             *)
DispatchNotSubmitted(i) ==
    /\ Dispatchable(i)
    /\ IF Retained(queue[i].call)
       THEN UNCHANGED <<queue, waiter>>
       ELSE Delete(i) /\ waiter' = FailWaiter(waiter, i)
    /\ Trouble
    /\ UNCHANGED <<msglog, life, inFlight, busy, permits, retries, notBefore, sub, recon,
                   thread, telegram, upgraded>>

(* Loading the row, its attempt mark or its removal cannot be committed; or   *)
(* the executor refuses the call and the mark cannot be taken back.           *)
DispatchStopped(i) ==
    /\ Dispatchable(i)
    /\ UNCHANGED queue \/ (Retained(queue[i].call) /\ BeginDeliveryAttempt(i))
    /\ StopForPersistenceError
    /\ Trouble
    /\ UNCHANGED <<msglog, inFlight, busy, permits, retries, sub, recon, thread,
                   telegram, upgraded>>

(* The bot that must edit this message is gone.                               *)
DispatchUnavailable(i) ==
    /\ Dispatchable(i)
    /\ queue[i].call.op \in RequiredSenderOperations
    /\ IF RetainFailed(queue[i].call) THEN HoldRow(i, FailedHold(queue[i].call)) ELSE Delete(i)
    /\ waiter' = FailWaiter(waiter, i)
    /\ Trouble
    /\ UNCHANGED <<msglog, life, inFlight, busy, permits, retries, notBefore, sub, recon,
                   thread, telegram, upgraded>>

(* The stored payload does not decode, or names media that is gone.           *)
DispatchUndecodable(i) ==
    /\ Dispatchable(i)
    /\ HoldRow(i, "invalid_payload") \/ Delete(i)
    /\ waiter' = FailWaiter(waiter, i)
    /\ Trouble
    /\ UNCHANGED <<msglog, life, inFlight, busy, permits, retries, notBefore, sub, recon,
                   thread, telegram, upgraded>>

------------------------------------------------------------------------------
(* _dispatch_blocking_media_retries.  When the rate limit of a media edit has *)
(* passed is up to the environment.                                           *)

RetryDispatch(i) ==
    /\ ~Locked /\ life = "running"
    /\ i \in retries
    /\ sub[i] \notin busy
    /\ permits > 0
    /\ retries' = retries \ {i}
    /\ Submit(i, sub[i], FALSE)
    /\ NoTrouble
    /\ UNCHANGED <<queue, msglog, life, notBefore, waiter, recon, telegram, upgraded>>

(* The caller's 300 seconds are over, the sender changed or went away, or the *)
(* retry cannot be submitted.                                                 *)
FailBlockingRetry(i) ==
    /\ ~Locked /\ life = "running"
    /\ i \in retries
    /\ retries' = retries \ {i}
    /\ waiter' = FailWaiter(waiter, i)
    /\ NoTrouble
    /\ UNCHANGED <<queue, msglog, life, inFlight, busy, permits, notBefore, sub, recon,
                   thread, telegram, upgraded>>

(* A deadline in _row_not_before, or the persisted one of a row, comes.       *)
NotBeforeComes(i) ==
    /\ i \in notBefore
    /\ notBefore' = notBefore \ {i}
    /\ UNCHANGED <<durable, life, inFlight, busy, permits, retries, sub, waiter, recon,
                   thread, telegram, upgraded, troubles>>

(* Mutant: a deferred receipt is never looked at again.                       *)
BecomesDueIfQueued(i) ==
    /\ queue[i].st = "queued" /\ ~queue[i].due
    /\ queue' = [queue EXCEPT ![i].due = TRUE]
    /\ UNCHANGED <<msglog, scheduler, thread, telegram, upgraded, troubles>>

BecomesDue(i) ==
    /\ queue[i].st \in {"queued", "sent_pending"} /\ ~queue[i].due
    /\ queue' = [queue EXCEPT ![i].due = TRUE]
    /\ UNCHANGED <<msglog, scheduler, thread, telegram, upgraded, troubles>>

------------------------------------------------------------------------------
(* execute_queued_call, on an executor thread.  A thread is not stopped by    *)
(* the end of the drain: it can finish after its row has left in_flight.      *)

Calling(i) == thread[i].at = "calling"
OpenCall(i) == Calling(i) /\ thread[i].chat \notin upgraded
NeverMind == UNCHANGED <<msglog, scheduler, upgraded>>
CommitFails == IF Alive THEN Trouble ELSE NoTrouble    \* it is closed otherwise
Returns(i, result) == thread' = [thread EXCEPT ![i].at = result]

(* A second copy attempt first drops the mark of the last attempt's fallback. *)
ClearFallbackMark(i) ==
    /\ thread[i].at = "clearing"
    /\ \/ /\ Alive
          /\ RecordHistoryFallback(i, FALSE)
          /\ Returns(i, "calling")
          /\ NoTrouble
       \/ /\ Returns(i, "broken")
          /\ CommitFails
          /\ UNCHANGED queue
    /\ NeverMind /\ UNCHANGED telegram

(* Telegram takes the call: from here the message exists.                     *)
TelegramAccepts(i) ==
    /\ OpenCall(i)
    /\ telegram[i].copies < 2
    /\ telegram' = [telegram EXCEPT ![i] = [copies   |-> @.copies + 1,
                                            chat     |-> thread[i].chat,
                                            fallback |-> thread[i].fallback]]
    /\ Returns(i, "accepted")
    /\ NoTrouble
    /\ NeverMind /\ UNCHANGED queue

CallSucceeds(i) ==
    /\ thread[i].at = "accepted"
    /\ Returns(i, "ok")
    /\ NoTrouble
    /\ NeverMind /\ UNCHANGED <<queue, telegram>>

(* The answer is lost, or is not one the manager can use as a receipt.        *)
AnswerLost(i) ==
    /\ \/ thread[i].at \in {"calling", "accepted"} /\ Returns(i, "ambiguous")
       \/ thread[i].at = "accepted" /\ queue[i].call.long /\ Returns(i, "unusable")
    /\ Trouble
    /\ NeverMind /\ UNCHANGED <<queue, telegram>>

(* A definite refusal: RetryAfter, a connection that was never made, or a     *)
(* rejection.                                                                 *)
CallRefused(i) ==
    /\ OpenCall(i)
    /\ \E result \in {"limited", "unsent", "rejected"} : Returns(i, result)
    /\ Trouble
    /\ NeverMind /\ UNCHANGED <<queue, telegram>>

(* Telegram answers ChatMigrated.  An eventual row is retargeted and retried  *)
(* by the scheduler; a blocking call is repeated at once on the new chat.     *)
ChatMigrated(i) ==
    /\ Calling(i) /\ thread[i].chat \in upgraded
    /\ IF queue[i].call.prio = 0
       THEN \/ /\ Alive
               /\ Retarget(i, Supergroup[thread[i].chat], thread[i].mark)
               /\ Returns(i, "migrated")
               /\ NoTrouble
            \/ \* moving the chat's bindings failed
               /\ Returns(i, "migrated") /\ CommitFails /\ UNCHANGED queue
            \/ \* the retarget could not be committed
               /\ Returns(i, "broken") /\ CommitFails /\ UNCHANGED queue
       ELSE /\ \/ thread' = [thread EXCEPT ![i].chat = Supergroup[@]] /\ NoTrouble
               \/ Returns(i, "local") /\ Trouble
            /\ UNCHANGED queue
    /\ NeverMind /\ UNCHANGED telegram

(* Telegram refuses to copy a message of the history: the saved media is      *)
(* fetched, the fallback is recorded, and only then is it sent instead.       *)
CopyRefused(i) ==
    /\ OpenCall(i) /\ ~thread[i].fallback
    /\ queue[i].call.op = "copy_message" /\ queue[i].call.origin = "history"
    /\ \/ /\ Alive
          /\ RecordHistoryFallback(i, TRUE)
          /\ thread' = [thread EXCEPT ![i].fallback = TRUE]
       \/ /\ \E result \in {"unacquired", "unobtainable", "broken"} : Returns(i, result)
          /\ UNCHANGED queue
    /\ Trouble
    /\ NeverMind /\ UNCHANGED telegram

------------------------------------------------------------------------------
(* harvest_completed, the body of its loop over in_flight.                    *)

Harvestable(i, result) ==
    /\ ~Locked /\ Alive
    /\ i \in inFlight
    /\ thread[i].at = result

(* Success.  With a log context or an attachment to come, the receipt is      *)
(* committed first and the row removed in later transactions.                 *)
HarvestReceipt(i) ==
    /\ Harvestable(i, "ok")
    /\ queue[i].call.log \/ queue[i].call.long
    /\ RecordTelegramCompletion(i, thread[i].chat)
    /\ Leave(i)
    /\ notBefore' = notBefore \ {i}
    /\ recon' = Settling(i, "harvest")
    /\ UNCHANGED <<msglog, life, retries, sub, waiter, telegram, upgraded, troubles>>

(* The receipt cannot be committed: a plain one stops the scheduler; one with *)
(* an attachment stays in flight and its commit is tried again.               *)
ReceiptNotCommitted(i) ==
    /\ Harvestable(i, "ok")
    /\ queue[i].call.log \/ queue[i].call.long
    /\ IF queue[i].call.long
       THEN UNCHANGED <<life, notBefore, waiter, inFlight, busy, permits, thread>>
       ELSE Leave(i) /\ StopForPersistenceError
    /\ Trouble
    /\ UNCHANGED <<durable, retries, sub, recon, telegram, upgraded>>

HarvestSuccess(i) ==
    /\ Harvestable(i, "ok")
    /\ ~queue[i].call.log /\ ~queue[i].call.long
    /\ Leave(i)
    /\ \/ /\ IF Retained(queue[i].call) THEN Delete(i) ELSE UNCHANGED queue
          /\ waiter' = CompleteWaiter(waiter, i)
          /\ notBefore' = notBefore \ {i}
          /\ NoTrouble
          /\ UNCHANGED life
       \/ /\ Retained(queue[i].call)
          /\ StopForPersistenceError
          /\ Trouble
          /\ UNCHANGED queue
    /\ UNCHANGED <<msglog, retries, sub, recon, telegram, upgraded>>

(* A media edit that ran into the rate limit waits in memory for its caller.  *)
KeepsForRetry(i, result) ==
    result = "limited" /\ queue[i].call.op = "edit_message_media" /\ queue[i].call.prio = 1

HarvestMediaRetry(i) ==
    /\ Harvestable(i, "limited") /\ KeepsForRetry(i, "limited")
    /\ life = "running"
    /\ Leave(i)
    /\ retries' = retries \union {i}
    /\ sub' = [sub EXCEPT ![i] = thread[i].chat]
    /\ UNCHANGED <<durable, life, notBefore, waiter, recon, telegram, upgraded, troubles>>

(* The durable part of settling a failed attempt, by record_queued_failure's  *)
(* decision.                                                                  *)
SettleDroppingUncertain(i, decision) ==   \* mutant: an uncertain row is discarded
    IF decision = "uncertain" THEN Delete(i)
    ELSE IF ~Retained(queue[i].call) THEN UNCHANGED queue
    ELSE CASE decision = "retry" -> ReleaseDeliveryAttempt(i)
           [] decision = "acquisition" -> DeferAcquisition(i)
           [] OTHER -> HoldRow(i, "history_failed") \/ Delete(i)

Settle(i, decision) ==
    LET c == queue[i].call IN
    CASE decision = "retry" -> IF Retained(c) THEN ReleaseDeliveryAttempt(i) ELSE UNCHANGED queue
      [] decision = "acquisition" -> DeferAcquisition(i)
      [] decision = "uncertain" -> HoldRow(i, "uncertain")
      [] OTHER -> IF ~Retained(c) THEN UNCHANGED queue
                  ELSE IF RetainFailed(c) THEN HoldRow(i, FailedHold(c))
                  ELSE Delete(i)

(* Decisions that answer the caller; a retry or a deferral keeps it waiting.  *)
Answers(decision) == decision \in {"uncertain", "terminal"} \/ (decision = "retry" /\ Stopping)

HarvestFailure(i, result) ==
    /\ Harvestable(i, result)
    /\ result \in Refusals \union {"ambiguous", "unusable", "local"}
    /\ LET decision == Decision(queue[i].call, result) IN
       /\ Leave(i)
       /\ Settle(i, decision)
       /\ notBefore' = IF decision = "retry" /\ ~Stopping THEN notBefore \union {i}
                       ELSE IF decision = "terminal" THEN notBefore \ {i}
                       ELSE notBefore
       /\ waiter' = IF Answers(decision) THEN FailWaiter(waiter, i) ELSE waiter
    /\ UNCHANGED <<msglog, life, retries, sub, recon, telegram, upgraded, troubles>>

(* The outcome of a failed attempt on a retained row cannot be committed, or  *)
(* the thread itself met a failed commit: the row keeps its attempt mark.     *)
HarvestStopped(i, result) ==
    /\ Harvestable(i, result)
    /\ \/ result = "broken" /\ NoTrouble
       \/ /\ result \in Refusals \union {"ambiguous", "unusable", "local"}
          /\ Retained(queue[i].call)
          /\ Trouble
    /\ Leave(i)
    /\ StopForPersistenceError
    /\ UNCHANGED <<durable, retries, sub, recon, telegram, upgraded>>

------------------------------------------------------------------------------
(* reconcile_sent_pending for one receipt: MsgLog, then the row's removal.    *)

StartReconciliation(i) ==
    /\ ~Locked /\ life = "running"
    /\ queue[i].st = "sent_pending" /\ queue[i].due
    /\ recon' = Settling(i, "batch")
    /\ UNCHANGED <<durable, life, inFlight, busy, permits, retries, notBefore, sub, waiter,
                   thread, telegram, upgraded, troubles>>

WriteMsgLog ==
    /\ recon.at = "write"
    /\ msglog' = msglog \union {recon.row}
    /\ recon' = [recon EXCEPT !.at = "drop"]
    /\ UNCHANGED <<queue, life, inFlight, busy, permits, retries, notBefore, sub, waiter,
                   thread, telegram, upgraded, troubles>>

(* harvest_completed resumes after its nested reconciliation.  Mutant: a      *)
(* receipt that is put off leaves the caller unanswered.                      *)
ResumeSilently == UNCHANGED waiter
Resume == waiter' = IF recon.by = "harvest" THEN CompleteWaiter(waiter, recon.row) ELSE waiter

DropReceipt ==
    /\ recon.at = "drop"
    /\ Delete(recon.row)
    /\ notBefore' = notBefore \ {recon.row}
    /\ recon' = LockFree
    /\ Resume
    /\ UNCHANGED <<msglog, life, inFlight, busy, permits, retries, sub, thread, telegram,
                   upgraded, troubles>>

(* MsgLog or the removal fails: the receipt is put off.  A row without log    *)
(* context is not reconciled by harvest_completed or confirm_queued_delivery  *)
(* but deleted by them: the former stops, the latter reports the error.       *)
ReceiptDeferred ==
    /\ Locked
    /\ Trouble
    /\ recon' = LockFree
    /\ IF queue[recon.row].call.log \/ recon.by = "batch"
       THEN /\ DeferReconciliation(recon.row)
            /\ Resume
            /\ UNCHANGED <<life, notBefore>>
       ELSE /\ UNCHANGED queue
            /\ IF recon.by = "harvest" THEN StopForPersistenceError
               ELSE UNCHANGED <<life, notBefore, waiter>>
    /\ UNCHANGED <<msglog, inFlight, busy, permits, retries, sub, thread, telegram, upgraded>>

(* Putting it off fails as well.                                              *)
ReconciliationStopped ==
    /\ Locked
    /\ queue[recon.row].call.log \/ recon.by = "batch"
    /\ Trouble
    /\ recon' = LockFree
    /\ StopForPersistenceError
    /\ UNCHANGED <<durable, inFlight, busy, permits, retries, sub, thread, telegram, upgraded>>

------------------------------------------------------------------------------
(* confirm_queued_delivery: an administrator replies to the message that a    *)
(* held row already produced.                                                 *)

ConfirmQueuedDelivery(i) ==
    /\ ~Locked /\ Alive
    /\ i \notin inFlight
    /\ Held(i) /\ queue[i].hold # "invalid_payload"
    /\ telegram[i].copies > 0 /\ telegram[i].chat = queue[i].chat
    /\ RecordTelegramCompletion(i, queue[i].chat)
    /\ recon' = Settling(i, "confirm")
    /\ UNCHANGED <<msglog, life, inFlight, busy, permits, retries, notBefore, sub, waiter,
                   thread, telegram, upgraded, troubles>>

(* hold_send.hold, run by the operator while the process is down.             *)
OperatorHold(i) ==
    /\ life = "down"
    /\ HoldRow(i, "operator")
    /\ Trouble
    /\ UNCHANGED <<msglog, scheduler, thread, telegram, upgraded>>

------------------------------------------------------------------------------
(* Stopping, crashing, starting.                                              *)

(* stop_and_drain, its first part: the stop boundary.  Both the thread that   *)
(* stops the worker and the worker itself, on its way out, run it.            *)
StopAndDrain ==
    /\ ~Locked
    /\ \/ life = "running" /\ life' = "stopping" /\ Trouble
       \/ /\ life \in {"stopping", "failed"}
          /\ retries # {} \/ \E i \in Ids \ inFlight : waiter[i] = "waiting"
          /\ UNCHANGED life /\ NoTrouble
    /\ notBefore' = {}
    /\ retries' = {}
    /\ waiter' = FailWaiters(waiter, Ids \ inFlight)
    /\ UNCHANGED <<durable, inFlight, busy, permits, sub, recon, thread, telegram, upgraded>>

(* The drain is over: what is still in flight is abandoned, and its resources *)
(* are closed.  Finished calls were harvested before, unless their receipt    *)
(* could not be committed or a failure cut the harvest short.                 *)
DrainEnds ==
    /\ ~Locked
    /\ life \in {"stopping", "failed"} /\ retries = {}
    /\ life = "stopping" => \A i \in inFlight :
           \/ thread[i].at \in {"clearing", "calling", "accepted"}
           \/ thread[i].at = "ok" /\ queue[i].call.long
    /\ life' = "closed"
    /\ inFlight' = {}
    /\ busy' = busy \ {sub[i] : i \in inFlight}
    /\ permits' = permits + Cardinality(inFlight)
    /\ waiter' = FailWaiters(waiter, inFlight)
    /\ UNCHANGED <<durable, retries, notBefore, sub, recon, thread, telegram, upgraded, troubles>>

ProcessGone ==
    /\ life' = "down"
    /\ inFlight' = {} /\ busy' = {} /\ permits' = Workers
    /\ retries' = {} /\ notBefore' = {}
    /\ sub' = [i \in Ids |-> SomeChat]
    /\ waiter' = [i \in Ids |-> "none"]
    /\ recon' = LockFree
    /\ thread' = [i \in Ids |-> Idle]
    /\ UNCHANGED <<queue, msglog, telegram, upgraded>>

Crash == life # "down" /\ ProcessGone /\ Trouble

Exit == /\ life = "closed"
        /\ \A i \in Ids : thread[i].at \notin {"clearing", "calling", "accepted"}
        /\ ProcessGone /\ NoTrouble

(* Mutant: attempts marked before the crash are made runnable again.          *)
RestartReleasing ==
    /\ life = "down"
    /\ life' = "running"
    /\ queue' = [i \in Ids |-> IF queue[i].hold = "in_flight"
                              THEN [queue[i] EXCEPT !.hold = "none"] ELSE queue[i]]
    /\ UNCHANGED <<msglog, inFlight, busy, permits, retries, notBefore, sub, waiter, recon,
                   thread, telegram, upgraded, troubles>>

Restart ==
    /\ life = "down"
    /\ life' = "running"
    /\ UNCHANGED <<durable, inFlight, busy, permits, retries, notBefore, sub, waiter, recon,
                   thread, telegram, upgraded, troubles>>

(* Telegram turns a group into a supergroup with a new chat id.               *)
GroupUpgrades(ch) ==
    /\ ch \in DOMAIN Supergroup \ upgraded
    /\ upgraded' = upgraded \union {ch}
    /\ UNCHANGED <<durable, scheduler, thread, telegram, troubles>>

------------------------------------------------------------------------------
Executor(i) ==
    \/ ClearFallbackMark(i)
    \/ TelegramAccepts(i)
    \/ CallSucceeds(i)
    \/ AnswerLost(i)
    \/ CallRefused(i)
    \/ ChatMigrated(i)
    \/ CopyRefused(i)

Harvest(i) ==
    \/ HarvestReceipt(i)
    \/ ReceiptNotCommitted(i)
    \/ HarvestSuccess(i)
    \/ HarvestMediaRetry(i)
    \/ \E result \in Results : HarvestFailure(i, result)
    \/ \E result \in Results : HarvestStopped(i, result)

DispatchOnce(i) ==
    \/ Dispatch(i)
    \/ DispatchNotSubmitted(i)
    \/ DispatchStopped(i)
    \/ DispatchUnavailable(i)
    \/ DispatchUndecodable(i)

Retry(i) == RetryDispatch(i) \/ FailBlockingRetry(i)

Reconcile(i) == StartReconciliation(i)
ReconcileStep == WriteMsgLog \/ DropReceipt \/ ReceiptDeferred \/ ReconciliationStopped

Clock(i) == NotBeforeComes(i) \/ BecomesDue(i)

Operator(i) == ConfirmQueuedDelivery(i) \/ OperatorHold(i)

Next ==
    \/ \E i \in Ids, c \in Calls, ch \in Chats : EnqueueRequest(i, c, ch)
    \/ \E i \in Ids : Executor(i)
    \/ \E i \in Ids : Harvest(i)
    \/ \E i \in Ids : DispatchOnce(i)
    \/ \E i \in Ids : Retry(i)
    \/ \E i \in Ids : Reconcile(i)
    \/ ReconcileStep
    \/ \E i \in Ids : Clock(i)
    \/ \E i \in Ids : Operator(i)
    \/ StopAndDrain
    \/ DrainEnds
    \/ Crash
    \/ Exit
    \/ Restart
    \/ \E ch \in Chats : GroupUpgrades(ch)

Spec == Init /\ [][Next]_vars

------------------------------------------------------------------------------
(* Safety.                                                                    *)

(* Telegram accepts at most one message for a queue row, whatever was lost,   *)
(* refused, retried, held, confirmed, migrated or interrupted by a crash: the *)
(* durable attempt mark does what RETAINED_OPERATIONS and                     *)
(* begin_delivery_attempt promise.                                            *)
AtMostOnce == \A i \in Ids : telegram[i].copies <= 1

(* A row with a MsgLog context that Telegram has accepted is never forgotten: *)
(* until MsgLog has it, the table has it, as a receipt or under a hold that   *)
(* keeps it from being sent again.                                            *)
AcceptedIsAccountedFor ==
    \A i \in Ids : telegram[i].copies > 0 /\ queue[i].call.log =>
        i \in msglog \/ queue[i].st = "sent_pending" \/ Held(i)

(* in_flight, in_flight_destinations, blocking_media_retries and the worker   *)
(* semaphore agree: no two submitted calls were taken from one destination,   *)
(* none waits for a retry as well, and each owns exactly one permit.          *)
OneCallPerDestination ==
    /\ busy = {sub[i] : i \in inFlight}
    /\ \A i, j \in inFlight : sub[i] = sub[j] => i = j
    /\ inFlight \cap retries = {}
    /\ permits + Cardinality(inFlight) = Workers

(* The row of an attempt in flight stays in the table, held, until the call   *)
(* is harvested: no confirmation, settlement or repair takes it meanwhile.    *)
AttemptsKeepTheirRow == \A i \in inFlight : Retained(queue[i].call) => Held(i)

(* A held row whose copy or fallback reached Telegram records which of the    *)
(* two it was, so that a confirmation after a crash rebuilds the right one.   *)
FallbackRecorded ==
    \A i \in Ids : telegram[i].copies > 0 /\ Queued(i) =>
        queue[i].fallback = telegram[i].fallback

(* While the scheduler lives, whoever waits for a row waits for something     *)
(* that can still answer: a runnable row, a call in flight, a delayed retry   *)
(* or the receipt being settled.  No failure path forgets the Future.         *)
WaiterHasSource ==
    Alive => \A i \in Ids : waiter[i] = "waiting" =>
        \/ i \in inFlight \union retries
        \/ Queued(i) /\ queue[i].hold = "none"
        \/ Locked /\ recon.row = i /\ recon.by = "harvest"

(* Every long message with a receipt has its attachment request in the table: *)
(* one supplement per receipt, none twice and none without.                   *)
SupplementPerReceipt ==
    Cardinality({j \in Ids : queue[j].st # "absent" /\ queue[j].call = Supplement}) =
    Cardinality({i \in Ids : /\ queue[i].call.long
                             /\ \/ queue[i].st = "sent_pending"
                                \/ queue[i].st = "removed" /\ telegram[i].copies > 0})

(* What the table says of an accepted message is what happened: which of the  *)
(* two requests of a history copy it was, and that a long text has its        *)
(* attachment in the queue, whatever crash or failed commit came in between.  *)
TableIsExact == FallbackRecorded /\ SupplementPerReceipt

(* The books that the worker keeps in memory agree with each other, with the  *)
(* table and with the callers that wait.                                      *)
BooksAgree == TypeOK /\ OneCallPerDestination /\ AttemptsKeepTheirRow /\ WaiterHasSource

(* Once the resources are closed, no caller waits for a result any more.      *)
NoWaiterLeftBehind == life = "closed" => \A i \in Ids : waiter[i] # "waiting"

(* "Schedule one in-flight call per chat": Telegram is never asked two things *)
(* for one chat at the same time.                                             *)
OneRemoteCallPerChat ==
    \A i, j \in inFlight :
        /\ thread[i].at \in {"calling", "accepted"} /\ thread[j].at \in {"calling", "accepted"}
        /\ thread[i].chat = thread[j].chat
        => i = j

------------------------------------------------------------------------------
(* Steps.                                                                     *)

(* A held row without a running attempt leaves its hold only through a        *)
(* receipt: it is not deleted, not released, and a restart changes nothing.   *)
HeldStaysHeld ==
    [][\A i \in Ids : Held(i) /\ i \notin inFlight => Held(i)' \/ queue'[i].st = "sent_pending"]_vars

(* Telegram accepts the messages for one destination and priority in the      *)
(* order they were enqueued: when it takes a row, every older row still       *)
(* queued there is held.  (For groups that keep their chat id: a row that     *)
(* moves to a supergroup's queue can find newer rows ahead of it.)            *)
AcceptedInOrder ==
    [][\A i, j \in Ids :
         /\ j < i
         /\ telegram'[i].copies > telegram[i].copies
         /\ Queued(j)
         /\ queue[j].chat = queue[i].chat /\ queue[j].call.prio = queue[i].call.prio
         => Held(j)]_vars

------------------------------------------------------------------------------
(* What a request's caller may count on: the abstract specification, with the *)
(* progress of a request read off the table, the executor and the message log *)
Outstanding(i) == Queued(i) \/ i \in inFlight \union retries \/ thread[i].at \in {"clearing", "calling"}

Progress(i) ==
    IF queue[i].st = "absent" THEN "new"
    ELSE IF telegram[i].copies = 0
         THEN IF Outstanding(i) THEN "owed" ELSE "given_up"
    ELSE IF queue[i].st = "removed" THEN "closed"
    ELSE IF i \in msglog THEN "logged" ELSE "posted"

Promise == INSTANCE DeliveryPromise WITH
    status <- [i \in Ids |-> Progress(i)],
    wantsLog <- {i \in Ids : queue[i].st # "absent" /\ queue[i].call.log}

KeepsPromise == Promise!PromiseSpec

------------------------------------------------------------------------------
(* Progress.  The worker thread loops for as long as it lives, executor calls *)
(* end, deadlines come, and a process that stopped is started again; none of  *)
(* the adverse steps is fair.                                                 *)

FairSpec ==
    /\ Spec
    /\ \A i \in Ids :
          /\ WF_vars(Executor(i))
          /\ WF_vars(Harvest(i))
          /\ WF_vars(Dispatch(i))
          /\ WF_vars(Retry(i))
          /\ WF_vars(Reconcile(i))
          /\ WF_vars(Clock(i))
    /\ WF_vars(ReconcileStep)
    /\ WF_vars(StopAndDrain /\ life # "running")
    /\ WF_vars(DrainEnds)
    /\ WF_vars(Exit)
    /\ WF_vars(Restart)

(* Rows are finitely many, so what each of them comes to, all come to.        *)

(* A receipt is turned into a MsgLog entry and leaves the table, however      *)
(* often MsgLog or the removal fails or the process dies in between.          *)
Unsettled(i) == queue[i].st = "sent_pending"
ReceiptsSettle == (\E i \in Ids : Unsettled(i)) ~> (\A i \in Ids : ~Unsettled(i))

(* A runnable row does not stay runnable for ever: it is sent, given up or    *)
(* held, behind any mix of blocking calls, delays and media retries.          *)
Runnable(i) == Queued(i) /\ ~(Held(i) /\ i \notin inFlight)
RunnableRowsMove ==
    (\E i \in Ids : Runnable(i) /\ queue[i].hold = "none") ~> (\A i \in Ids : ~Runnable(i))

(* Every caller is answered while the scheduler lives or dies with it.        *)
CallersAnswered ==
    (\E i \in Ids : waiter[i] = "waiting") ~> (\A i \in Ids : waiter[i] # "waiting")
==============================================================================
