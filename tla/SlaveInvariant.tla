---------------------------- MODULE SlaveInvariant ----------------------------
(* The inductive invariant of SlaveMessages.  OnePendingCall and              *)
(* NewestIsFound speak of rows and log only; what makes them true is where    *)
(* the claims are, who is going to queue a call, and which messages the ids   *)
(* in the hands of threads and rows stand for.                                *)
EXTENDS SlaveMessages

------------------------------------------------------------------------------
(* The queue: what a row is, and that the worker takes the oldest first.      *)

(* A call that sends has the context the worker logs it with; the callback    *)
(* that gives up a claim belongs to a new message.                            *)
RowShape ==
    \A i \in Rows :
        /\ row[i].st # "absent" => (row[i].ctx <=> row[i].api = "send")
        /\ row[i].st = "sent" => row[i].ctx
        /\ row[i].callback => row[i].new
        /\ row[i].new => row[i].st # "absent" /\ row[i].api = "send" /\ row[i].uid \notin Mirrored
        /\ row[i].api = "edit" => row[i].msg # Nothing

(* Rows are taken in the order of their ids.                                  *)
QueueOrder ==
    \A i, k \in Rows : i < k =>
        /\ row[i].st = "absent" => row[k].st = "absent"
        /\ row[i].st = "queued" => row[k].st \in {"queued", "absent"}

------------------------------------------------------------------------------
(* The callers.                                                               *)

Busy(t) == job[t].at # "idle"
(* Such a caller has put a row in the queue.                                  *)
Calling(t) == job[t].at \in {"waiting", "answered", "failed", "mapping"}
Called(t) == row[job[t].call]
(* Delivers u; Preparing does so and has queued nothing yet.                  *)
Delivers(t, u) == Busy(t) /\ job[t].op = "new" /\ job[t].uid = u
Preparing(t, u) == Delivers(t, u) /\ ~Calling(t)

CallerFits(t) ==
    /\ job[t].claimed <=> Busy(t) /\ job[t].op = "new"
    /\ Busy(t) => job[t].num \in 1 .. next - 1
    /\ Busy(t) /\ job[t].op = "new" => job[t].uid \notin Mirrored
    /\ job[t].at \in {"resolve", "lookup"} => job[t].old = Nothing /\ job[t].dbold = Nothing
    /\ job[t].op = "new" => /\ job[t].at # "lookup"
                            /\ job[t].old = Nothing /\ job[t].dbold = Nothing
    /\ job[t].at = "resolve" => job[t].op \notin {"removal", "reaction"}
    /\ job[t].dbold # Nothing => job[t].uid \in Mirrored /\ job[t].op = "reaction"
    /\ job[t].at = "dispatch" /\ job[t].dbold # Nothing => job[t].old = Nothing

(* What a caller knows of the row it has queued.                              *)
CallFits(t) == Calling(t) =>
    /\ job[t].call \in Rows /\ Called(t).uid = job[t].uid
    /\ Called(t).new <=> job[t].op = "new"
    /\ job[t].op = "new" => Called(t).api = "send"
    /\ Called(t).api # "send" => Called(t).msg = job[t].old /\ job[t].dbold = Nothing
    /\ job[t].at = "waiting" => Called(t).st = "queued" /\ (job[t].op = "new" => Called(t).callback)
    /\ job[t].at \in {"answered", "mapping"} => Called(t).st \in {"done", "sent"}
    /\ job[t].at = "failed" => Called(t).st \in {"failed", "held"}
    /\ job[t].at = "mapping" => ~Called(t).ctx /\ job[t].op # "removal"
    /\ Called(t).api \in {"delete", "notice"} =>
          job[t].op = "removal" \/ KindOf[job[t].uid] = "sticker"

CallersFit == \A t \in Threads : CallerFits(t) /\ CallFits(t)

------------------------------------------------------------------------------
(* Ids.  A message belongs to the message of the slave it was sent for, and   *)
(* every id in the log, in a row or in a caller's hands is of a message that  *)
(* was sent for it.                                                           *)

Owns(u, m) ==
    \/ m = Nothing
    \/ m \in Rows /\ row[m].st = "done" /\ row[m].uid = u
    \/ u \in Mirrored /\ m = OwnId[u]

LogOwns == \A i \in DOMAIN log : /\ log[i].main # Nothing
                                 /\ Owns(log[i].uid, log[i].main) /\ Owns(log[i].uid, log[i].alt)
JobOwns == \A t \in Threads : Owns(job[t].uid, job[t].old) /\ Owns(job[t].uid, job[t].dbold)
RowOwns == \A i \in Rows : row[i].st # "absent" =>
                              Owns(row[i].uid, row[i].old) /\ Owns(row[i].uid, row[i].msg)

------------------------------------------------------------------------------
(* Claims.  A call is under way until its callback has run.                   *)

Outstanding(i, u) == /\ row[i].new /\ row[i].uid = u
                     /\ row[i].st = "queued" \/ (row[i].st = "sent" /\ row[i].callback)

(* While a message is not excused there is one caller about to queue it or    *)
(* one call, and the claim is kept for it.  A caller whose call failed has    *)
(* lost its claim as soon as there is another.                                *)
Nobody(u) == /\ \A t \in Threads : ~Preparing(t, u)
             /\ \A i \in Rows : ~Outstanding(i, u)
Failing(t, u) == Delivers(t, u) /\ job[t].at = "failed"

ClaimKept(u) ==
    /\ \A t \in Threads : Preparing(t, u) => pending[u] = job[t].num
    /\ \A i \in Rows : Outstanding(i, u) => pending[u] # 0
    /\ \A t, v \in Threads : Preparing(t, u) /\ Preparing(v, u) => t = v
    /\ \A i, k \in Rows : Outstanding(i, u) /\ Outstanding(k, u) => i = k
    /\ \A t \in Threads, i \in Rows : ~(Preparing(t, u) /\ Outstanding(i, u))
    /\ \A t \in Threads : Failing(t, u) /\ pending[u] = job[t].num => Nobody(u)

ClaimsAreKept == \A u \in Uids : u \in excused \/ ClaimKept(u)

ClaimsAreOld == \A u \in Uids : pending[u] < next

------------------------------------------------------------------------------
(* The log.  What was sent for a message is in it, and a user's own message   *)
(* always was: what follows it knows its id.                                  *)

InLog(u) == \E k \in DOMAIN log : log[k].uid = u
LogFound == \A u \in Uids : u \in Mirrored \/ SentFor(u) # {} => InLog(u)

CallerFound(t) ==
    job[t].uid \in Mirrored /\ (job[t].at = "dispatch" \/ Calling(t)) =>
        job[t].old # Nothing \/ job[t].dbold # Nothing
RowFound(i) ==
    row[i].st # "absent" /\ row[i].api = "send" /\ row[i].uid \in Mirrored => row[i].old # Nothing

FollowersFound == (\A t \in Threads : CallerFound(t)) /\ (\A i \in Rows : RowFound(i))

(* The newest of the messages sent for u is at the end of its rows.           *)
Newest(u) == SentFor(u) # {} /\ KindOf[u] # "sticker" => Target(u) = Max(SentFor(u))
NewestInLog == \A u \in Uids : u \in astray \/ Newest(u)

QueueInv == RowShape /\ QueueOrder
CallerInv == CallersFit /\ ClaimsAreOld
IdInv == LogOwns /\ JobOwns /\ RowOwns
LogInv == LogFound /\ FollowersFound /\ OneCanonicalRow /\ NewestInLog

(* What the proofs show to be inductive.                                      *)
SlaveInv == TypeOK /\ QueueInv /\ CallerInv /\ IdInv /\ ClaimsAreKept /\ LogInv
==============================================================================
