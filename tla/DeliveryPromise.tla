---------------------------- MODULE DeliveryPromise --------------------------
(* What the durable queue promises about one request, without the machinery:  *)
(* a request that was committed stays owed until Telegram has its message or  *)
(* the request is given up; Telegram gets the message at most once; a request *)
(* is given up only while Telegram does not have it; and a message that must  *)
(* be logged is logged before the request is closed.  No step of this module  *)
(* mentions crashes, restarts or retries: they must not show.                 *)
CONSTANT Ids

VARIABLES
    status,     \* where each request is
    wantsLog    \* the requests that carry a MsgLog context

promise == <<status, wantsLog>>

Statuses == {"new", "owed", "posted", "logged", "closed", "given_up"}

PromiseInit ==
    /\ status = [i \in Ids |-> "new"]
    /\ wantsLog = {}

Move(i, from, to) ==
    /\ status[i] \in from
    /\ status' = [status EXCEPT ![i] = to]

(* A caller's request is committed; receipts may bring a supplement along.    *)
Accept(i) ==
    /\ Move(i, {"new"}, "owed")
    /\ wantsLog' \in {wantsLog, wantsLog \union {i}}

(* Telegram has the message.  A blocking call that the table does not keep is *)
(* closed by that alone.                                                      *)
Post(i) ==
    /\ Move(i, {"owed"}, "posted") \/ (i \notin wantsLog /\ Move(i, {"owed"}, "closed"))
    /\ UNCHANGED wantsLog

Log(i) ==
    /\ i \in wantsLog
    /\ Move(i, {"posted"}, "logged")
    /\ UNCHANGED wantsLog

Close(i) ==
    /\ Move(i, IF i \in wantsLog THEN {"logged"} ELSE {"posted"}, "closed")
    /\ UNCHANGED wantsLog

GiveUp(i) ==
    /\ Move(i, {"owed"}, "given_up")
    /\ UNCHANGED wantsLog

(* A crash takes the calls the table does not keep with it, all at once.      *)
GiveUpAll(S) ==
    /\ \A i \in S : status[i] = "owed" /\ i \notin wantsLog
    /\ status' = [i \in Ids |-> IF i \in S THEN "given_up" ELSE status[i]]
    /\ UNCHANGED wantsLog

PromiseNext ==
    \/ \E i \in Ids : Accept(i) \/ Post(i) \/ Log(i) \/ Close(i) \/ GiveUp(i)
    \/ \E S \in SUBSET Ids : GiveUpAll(S)

PromiseSpec == PromiseInit /\ [][PromiseNext]_promise
==============================================================================
