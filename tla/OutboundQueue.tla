---------------------------- MODULE OutboundQueue ----------------------------
(* The durable outbound queue of efb_telegram_master/outbound.py, class       *)
(* OutboundQueue: one SQLite table, one row per Telegram call that callers    *)
(* asked for.  The table is the only state here; every operator below that    *)
(* primes `queue' is one committed transaction of the class.  The scheduler   *)
(* that drives the table is the module OutboundScheduler.                     *)
(*                                                                            *)
(* A row is identified by its AUTOINCREMENT id.  Ids are never reused, so a   *)
(* row that was deleted keeps its id with the status "removed".               *)
EXTENDS Naturals, FiniteSets

CONSTANTS
    MaxRows,     \* bound: how many rows one behaviour may ever insert
    Chats,       \* Telegram chat ids (destinations)
    Calls        \* the requests callers may enqueue, a set of Call records

Ids == 1 .. MaxRows

------------------------------------------------------------------------------
(* Operations.  Each name stands for its class in QUEUED_OPERATIONS.          *)

\* Calls that create a remote object, or may: a lost answer forbids a resend.
MessageCreatingOperations == {"send_message", "copy_message"}
RetainedOperations == MessageCreatingOperations \union {"edit_message_text"}
\* Calls bound to the bot that authored the message they edit.
RequiredSenderOperations == {"edit_message_text", "edit_message_media"}
Operations == RetainedOperations \union {"edit_message_media", "pin_chat_message"}

(* A request: its operation, priority (1 blocking, 0 eventual), whether it    *)
(* carries a MsgLog context, whether its text or caption reaches Telegram's   *)
(* limit and so needs a full-content attachment, and who asked for it.        *)
Call == [op     : Operations,
         prio   : {0, 1},
         log    : BOOLEAN,
         long   : BOOLEAN,
         origin : {"live", "history", "supplement"}]

(* The request for the full-content attachment of a long message.             *)
Supplement == [op |-> "send_message", prio |-> 0, log |-> FALSE,
               long |-> FALSE, origin |-> "supplement"]

(* What the entry points in bot_manager.py can build: only message-creating   *)
(* calls are eventual, only retained calls carry a MsgLog context or long     *)
(* content, and replayed history is eventual and never logged again.          *)
ASSUME CallsAssumption ==
    /\ Calls \subseteq Call
    /\ \A c \in Calls :
          /\ c.prio = 0 => c.op \in MessageCreatingOperations
          /\ c.log => c.op \in RetainedOperations
          /\ c.long => c.op \in RetainedOperations \ {"copy_message"}
          /\ c.origin = "history" => c.prio = 0 /\ ~c.log
          /\ c.origin # "supplement"

ASSUME BoundsAssumption == MaxRows \in Nat \ {0} /\ Chats # {}

Retained(c) == c.op \in RetainedOperations

------------------------------------------------------------------------------
VARIABLE
    queue        \* [Ids -> Row], the table

Statuses == {"absent", "queued", "sent_pending", "removed"}
Holds == {"none", "in_flight", "uncertain", "invalid_payload",
          "history_failed", "supplement_failed", "operator"}

Row == [st       : Statuses,                  \* delivery_state
        call     : Calls \union {Supplement}, \* operation, priority, payload
        chat     : Chats,                     \* telegram_chat_id
        hold     : Holds,                     \* delivery_hold, "none" is NULL
        due      : BOOLEAN,                   \* reconcile_after has passed
        fallback : BOOLEAN]                   \* attempted_fallback is recorded

NewRow(c, ch) == [st |-> "queued", call |-> c, chat |-> ch, hold |-> "none",
                  due |-> TRUE, fallback |-> FALSE]

NoRow == [NewRow(Supplement, CHOOSE ch \in Chats : TRUE) EXCEPT !.st = "absent"]

QueueTypeOK == queue \in [Ids -> Row]
QueueInit == queue = [i \in Ids |-> NoRow]

Queued(i) == queue[i].st = "queued"
Held(i) == Queued(i) /\ queue[i].hold # "none"
IsNextId(i) == /\ queue[i].st = "absent"
               /\ \A j \in Ids : j < i => queue[j].st # "absent"

(* Ids that supplements of rows still in the table may need.  New requests    *)
(* leave them free, so that the bound MaxRows never blocks a completion.      *)
Reserved == {i \in Ids : queue[i].st = "queued" /\ queue[i].call.long}
Free == {i \in Ids : queue[i].st = "absent"}
RoomFor(c) == Cardinality(Free) > Cardinality(Reserved) + (IF c.long THEN 1 ELSE 0)

(* The row a destination's next call is taken from: the oldest blocking one,  *)
(* else the oldest; held rows are passed over.                                *)
Ready(ch) == {i \in Ids : Queued(i) /\ queue[i].hold = "none" /\ queue[i].chat = ch}
IsAnyReady(i) == i \in Ready(queue[i].chat)    \* mutant: no order within a destination
IsHead(i) ==
    /\ i \in Ready(queue[i].chat)
    /\ LET ready == Ready(queue[i].chat)
           blocking == {j \in ready : queue[j].call.prio = 1}
       IN  IF blocking # {} THEN i \in blocking /\ \A j \in blocking : i <= j
                            ELSE \A j \in ready : i <= j

------------------------------------------------------------------------------
(* Committed transactions.                                                    *)

Enqueue(i, c, ch) ==
    /\ IsNextId(i)
    /\ queue' = [queue EXCEPT ![i] = NewRow(c, ch)]

(* Mutant: the attempt leaves no durable mark.                                *)
BeginWithoutMark(i) == Queued(i) /\ queue[i].hold = "none" /\ UNCHANGED queue
BeginDeliveryAttempt(i) ==
    /\ Queued(i) /\ queue[i].hold = "none"
    /\ queue' = [queue EXCEPT ![i].hold = "in_flight"]

ReleaseDeliveryAttempt(i) ==
    queue' = IF Queued(i) THEN [queue EXCEPT ![i].hold = "none"] ELSE queue

(* hold_uncertain_delivery, hold_invalid_payload and hold_failed_history      *)
HoldRow(i, reason) ==
    /\ Queued(i)
    /\ queue' = [queue EXCEPT ![i].hold = reason]

DeferAcquisition(i) ==
    queue' = [queue EXCEPT ![i].hold = "none", ![i].due = FALSE]

DeferReconciliation(i) ==
    /\ queue[i].st = "sent_pending"
    /\ queue' = [queue EXCEPT ![i].due = FALSE]

(* The primary receipt and the request for its attachment commit together.    *)
RecordTelegramCompletion(i, ch) ==
    LET receipted == [queue[i] EXCEPT !.st = "sent_pending", !.hold = "none", !.due = TRUE]
    IN  /\ Queued(i)
        /\ IF queue[i].call.long
           THEN \E j \in Ids :
                   /\ IsNextId(j)
                   /\ queue' = [queue EXCEPT ![i] = receipted, ![j] = NewRow(Supplement, ch)]
           ELSE queue' = [queue EXCEPT ![i] = receipted]

(* Mutant: the fallback is sent without a durable trace.                      *)
RecordNothing(i, attempted) == Queued(i) /\ UNCHANGED queue
RecordHistoryFallback(i, attempted) ==
    /\ Queued(i)
    /\ queue' = [queue EXCEPT ![i].fallback = attempted]

(* The payload written back is the one read at submission, with whatever      *)
(* attempted_fallback mark it carried then.                                   *)
Retarget(i, ch, mark) ==
    /\ Queued(i)
    /\ queue' = [queue EXCEPT ![i].chat = ch, ![i].fallback = mark]

RowRemoved(row) == [row EXCEPT !.st = "removed", !.hold = "none",
                               !.due = TRUE, !.fallback = FALSE]
Delete(i) ==
    /\ queue[i].st \in {"queued", "sent_pending"}
    /\ queue' = [queue EXCEPT ![i] = RowRemoved(queue[i])]
==============================================================================
