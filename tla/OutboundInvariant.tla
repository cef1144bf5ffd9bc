-------------------------- MODULE OutboundInvariant --------------------------
(* Why the scheduler's safety properties hold: the inductive invariants IInv, *)
(* BooksInv and OrderInv (proved so in OutboundScheduler_proofs), as state    *)
(* predicates that TLC checks too.  They tie the three places that know about *)
(* an attempt together: the durable row, the scheduler's memory and the       *)
(* executor thread.                                                           *)
EXTENDS OutboundScheduler

(* Results of a thread whose call Telegram did not take.                      *)
NotTaken == {"clearing", "calling"} \union Refusals

(* The worker semaphore: each call in flight holds one permit.                *)
PermitsAccounted == permits + Cardinality(inFlight) = Workers

(* While the scheduler lives, a busy thread serves a call in flight; after    *)
(* the process is gone there is none.                                         *)
ThreadsOwned ==
    /\ Alive => \A i \in Ids : thread[i].at # "idle" => i \in inFlight
    /\ life = "down" => \A i \in Ids : thread[i].at = "idle"

(* A row nobody inserted has left no trace anywhere.                          *)
AbsentUntouched(i) ==
    queue[i].st = "absent" =>
        /\ telegram[i].copies = 0
        /\ thread[i].at = "idle"
        /\ i \notin inFlight \union retries

(* A row that may be dispatched was never taken, and nobody works on it: the  *)
(* durable hold of an attempt is lifted only after a definite refusal.        *)
RunnableUntaken(i) ==
    Queued(i) /\ queue[i].hold = "none" =>
        telegram[i].copies = 0 /\ thread[i].at = "idle"

(* Between submission and a definite refusal Telegram has nothing.            *)
CallingUntaken(i) == thread[i].at \in NotTaken => telegram[i].copies = 0

(* A row the table does not keep is gone before its call is submitted; a row  *)
(* the table keeps is held for as long as a thread works on it.               *)
SubmittedMarked(i) ==
    /\ i \in inFlight /\ ~Retained(queue[i].call) => queue[i].st = "removed"
    /\ thread[i].at # "idle" /\ Retained(queue[i].call) => Held(i)

(* A media edit that waits for its rate limit lives in memory only.           *)
RetryInMemory(i) ==
    i \in retries =>
        /\ queue[i].st = "removed"
        /\ telegram[i].copies = 0
        /\ thread[i].at = "idle"
        /\ i \notin inFlight
        /\ ~Retained(queue[i].call)

(* What the lock holder settles is a receipt, and one whose MsgLog entry is   *)
(* written by the time the row is to be removed.                              *)
SettlingReceipt ==
    Locked => /\ Alive
              /\ queue[recon.row].st = "sent_pending"
              /\ recon.at = "drop" /\ queue[recon.row].call.log => recon.row \in msglog

RowSafe(i) ==
    /\ AbsentUntouched(i)
    /\ RunnableUntaken(i)
    /\ CallingUntaken(i)
    /\ SubmittedMarked(i)
    /\ RetryInMemory(i)

IInv ==
    /\ TypeOK
    /\ PermitsAccounted
    /\ ThreadsOwned
    /\ \A i \in Ids : RowSafe(i)
    /\ SettlingReceipt
    /\ AtMostOnce
    /\ AcceptedIsAccountedFor

------------------------------------------------------------------------------
(* The books of the worker and what the table says of an accepted message:    *)
(* inductive relative to IInv.                                                *)

(* A call in flight has a thread until it is harvested or abandoned.          *)
InFlightServed(i) == i \in inFlight => thread[i].at # "idle"

(* Only what the table keeps can be moved to another chat or put off until    *)
(* its media can be fetched: a blocking caller is never left to such a retry. *)
RetriedIsRetained(i) == thread[i].at \in {"migrated", "unacquired"} => Retained(queue[i].call)

(* An answer or a receipt means that Telegram has the message.                *)
AnswerIsTaken(i) ==
    thread[i].at \in {"accepted", "ok"} \/ queue[i].st = "sent_pending" => telegram[i].copies > 0

(* The request that is out is the one that the row has on record.             *)
CallingAsRecorded(i) ==
    /\ thread[i].at = "calling" /\ Queued(i) => queue[i].fallback = thread[i].fallback
    /\ thread[i].at = "clearing" => ~thread[i].fallback

(* MsgLog has entries of logged messages that Telegram accepted, no others.   *)
LoggedIsTaken(i) ==
    i \in msglog => /\ queue[i].st # "absent" /\ queue[i].call.log
                    /\ telegram[i].copies > 0

(* Nobody waits for a process that is gone.                                   *)
NobodyWaitsWhenDown == life = "down" => \A i \in Ids : waiter[i] # "waiting"

LogWrittenWhenWanted == recon.at = "write" => queue[recon.row].call.log

RowBooked(i) ==
    /\ InFlightServed(i)
    /\ RetriedIsRetained(i)
    /\ AnswerIsTaken(i)
    /\ CallingAsRecorded(i)
    /\ LoggedIsTaken(i)

BooksInv ==
    /\ \A i \in Ids : RowBooked(i)
    /\ LogWrittenWhenWanted
    /\ NobodyWaitsWhenDown
    /\ OneCallPerDestination
    /\ WaiterHasSource
    /\ FallbackRecorded
    /\ SupplementPerReceipt

------------------------------------------------------------------------------
(* Why Telegram takes the rows of a destination in their order, where chats   *)
(* keep their ids: inductive relative to IInv and BooksInv.                   *)

(* Ids are given out in order.                                                *)
IdsInOrder == \A i, j \in Ids : j < i /\ queue[i].st # "absent" => queue[j].st # "absent"

(* Calls in flight and media edits that wait were taken from destinations of  *)
(* their own, and address them.                                               *)
Submitted == inFlight \union retries
DestinationsOwned ==
    /\ \A i \in Submitted : sub[i] = queue[i].chat
    /\ \A i \in inFlight : thread[i].chat = sub[i]
    /\ \A i, j \in Submitted : sub[i] = sub[j] => i = j

(* Nothing older that could still be sent is behind a call that is out or     *)
(* waits in memory to be sent again.                                          *)
Underway(i) == i \in Submitted \/ thread[i].at \in {"clearing", "calling"}
OlderAreHeld ==
    \A i, j \in Ids :
        /\ Underway(i) /\ j < i /\ Queued(j)
        /\ queue[j].chat = queue[i].chat /\ queue[j].call.prio = queue[i].call.prio
        => Held(j)

OrderInv == IdsInOrder /\ DestinationsOwned /\ OlderAreHeld
==============================================================================
