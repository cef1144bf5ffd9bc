---------------------------- MODULE SlaveMessages ----------------------------
(* Messages, edits, removals and reactions that slave channels hand to        *)
(* efb_telegram_master/slave_message.py, with the message log they share      *)
(* (db.py: add_or_update_message_log, get_msg_log).  Slave channels call from *)
(* threads of their own; what is sent goes through the outbound queue, here   *)
(* a list of calls that one worker makes in order (OutboundScheduler has      *)
(* its detail), and the worker writes the log when a call was answered.       *)
(*                                                                            *)
(* A message of Telegram is named by the row that sent it.                    *)
EXTENDS Naturals, Sequences, FiniteSets, FiniteSetsExt, SequencesExt

CONSTANTS
    Threads,      \* callers of send_message and send_status
    Uids,         \* messages of the slave chat
    KindOf,       \* [Uids -> Kinds]
    OwnId,        \* the ids of the user's own messages, see Mirrored
    Scripts,      \* sequences of requests, in the order the slave makes them
    MaxRows,      \* bound: calls one behaviour may queue
    MaxTroubles   \* bound: failures of Telegram, of the log and of the process

Kinds == {"text", "image", "file", "voice", "sticker", "location", "mirrored"}
Ops == {"new", "edit", "editmedia", "removal", "reaction"}
Rows == 1 .. MaxRows
Nothing == 0
(* The user's own messages: logged when they were sent, and answered by the   *)
(* bot when somebody reacts to them.                                          *)
Mirrored == {u \in Uids : KindOf[u] = "mirrored"}
MessageIds == {Nothing} \cup Rows \cup {OwnId[u] : u \in Mirrored}

(* A slave does not deliver what the user has sent as a new message.          *)
ASSUME SlaveAssumption ==
    /\ MaxRows \in Nat \ {0} /\ MaxTroubles \in Nat
    /\ IsFiniteSet(Uids) /\ Uids # {} /\ KindOf \in [Uids -> Kinds]
    /\ \A u \in Mirrored : OwnId[u] \in Nat \ (0 .. MaxRows)
    /\ \A u, v \in Mirrored : OwnId[u] = OwnId[v] => u = v
    /\ \A s \in Scripts : /\ s \in Seq([op : Ops, uid : Uids])
                         /\ \A k \in DOMAIN s : s[k].op = "new" => s[k].uid \notin Mirrored

VARIABLES
    script, next, \* what the slave hands in, and the request that comes next
    job,          \* what each thread is doing
    pending,      \* _pending_slave_messages: the request that claimed each key
    row,          \* the outbound queue, finished calls included
    shown,        \* messages on Telegram
    log,          \* MsgLog in order of time
    troubles,
    excused,      \* keys released while their call was under way, see Release
    astray        \* messages with an answer that was logged out of order

ghosts == <<excused, astray>>
vars == <<script, next, job, pending, row, shown, log, troubles, excused, astray>>

Idle == [at |-> "idle", op |-> "new", uid |-> CHOOSE u \in Uids : TRUE, num |-> 0,
         claimed |-> FALSE, old |-> Nothing, dbold |-> Nothing, call |-> Nothing, again |-> FALSE]

NoRow == [st |-> "absent", api |-> "send", uid |-> CHOOSE u \in Uids : TRUE, new |-> FALSE,
          msg |-> Nothing, old |-> Nothing, reply |-> Nothing, ctx |-> FALSE,
          callback |-> FALSE, waiter |-> FALSE]

TypeOK ==
    /\ script \in Scripts /\ next \in 1 .. Len(script) + 1
    /\ job \in [Threads -> [at : {"idle", "resolve", "lookup", "dispatch", "waiting", "answered",
                                  "failed", "mapping"},
                            op : Ops, uid : Uids, num : Nat, claimed : BOOLEAN,
                            old : MessageIds, dbold : MessageIds, call : 0 .. MaxRows, again : BOOLEAN]]
    /\ pending \in [Uids -> Nat]
    /\ row \in [Rows -> [st : {"absent", "queued", "sent", "done", "failed", "held"},
                         api : {"send", "edit", "delete", "notice"}, uid : Uids, new : BOOLEAN,
                         msg : MessageIds, old : MessageIds, reply : MessageIds, ctx : BOOLEAN,
                         callback : BOOLEAN, waiter : BOOLEAN]]
    /\ shown \subseteq MessageIds
    /\ log \in Seq([main : MessageIds, alt : MessageIds, uid : Uids])
    /\ troubles \in 0 .. MaxTroubles /\ excused \subseteq Uids /\ astray \subseteq Uids

Init ==
    /\ script \in Scripts /\ next = 1 /\ job = [t \in Threads |-> Idle]
    /\ pending = [u \in Uids |-> 0] /\ row = [i \in Rows |-> NoRow]
    /\ shown = {OwnId[u] : u \in Mirrored}
    /\ log = SetToSeq({[main |-> OwnId[u], alt |-> Nothing, uid |-> u] : u \in Mirrored})
    /\ troubles = 0 /\ excused = {} /\ astray = {}

Trouble == troubles < MaxTroubles /\ troubles' = troubles + 1

------------------------------------------------------------------------------
(* The message log.                                                           *)

EntryOf(u) == LET S == {i \in DOMAIN log : log[i].uid = u} IN IF S = {} THEN 0 ELSE Max(S)
Logged(u) == EntryOf(u) # 0
(* The message an edit or a removal is about.                                 *)
Target(u) == LET e == log[EntryOf(u)] IN IF e.alt # Nothing THEN e.alt ELSE e.main

(* A sent message without a row of its own becomes the alternate of the row   *)
(* that holds the old message.                                                *)
Holds(e, m) == m # Nothing /\ m \in {e.main, e.alt}
Held(old) == {i \in DOMAIN log : Holds(log[i], old)}
SentFor(u) == {i \in Rows : row[i].uid = u /\ row[i].st = "done" /\ row[i].api = "send"}
(* An answer comes out of order when a later message of u has been logged, or *)
(* when the row it goes to is not u's newest, which it may have become since  *)
(* the caller read the log.  An edit in place only needs a row to go to.      *)
OutOfOrder(u, m, old) ==
    \/ old # Nothing /\ Held(old) = {}
    \/ m # old /\ \/ \E k \in SentFor(u) : k > m
                  \/ old # Nothing /\ Min(Held(old)) # EntryOf(u)
LateFor(u, m, old) == IF OutOfOrder(u, m, old) THEN {u} ELSE {}

(* A second alternate is not recorded.                                        *)
LogFirstOnly(u, m, old) ==
    IF Held(old) # {}
    THEN LET i == Min(Held(old))
         IN [log EXCEPT ![i].alt = IF m = log[i].main \/ @ # Nothing THEN @ ELSE m, ![i].uid = u]
    ELSE IF old # Nothing /\ old # m
    THEN Append(log, [main |-> old, alt |-> m, uid |-> u])
    ELSE IF \E i \in DOMAIN log : log[i].main = m
    THEN log
    ELSE Append(log, [main |-> m, alt |-> Nothing, uid |-> u])

LogWrite(u, m, old) ==
    IF Held(old) # {}
    THEN LET i == Min(Held(old))
         IN [log EXCEPT ![i].alt = IF m = log[i].main THEN @ ELSE m, ![i].uid = u]
    ELSE IF old # Nothing /\ old # m
    THEN Append(log, [main |-> old, alt |-> m, uid |-> u])
    ELSE IF \E i \in DOMAIN log : log[i].main = m
    THEN log
    ELSE Append(log, [main |-> m, alt |-> Nothing, uid |-> u])

------------------------------------------------------------------------------
(* The queue.                                                                 *)

Live(i) == row[i].st = "queued"
Free == {i \in Rows : row[i].st = "absent"}

Enqueue(r) == /\ Free # {}
              /\ row' = [row EXCEPT ![Min(Free)] = r]

(* send_message waits for its answer when it is blocking.                     *)
Put(t, r) ==
    /\ Enqueue([r EXCEPT !.st = "queued", !.uid = job[t].uid, !.callback = @ /\ job[t].op = "new"])
    /\ job' = [job EXCEPT ![t] = IF r.waiter THEN [@ EXCEPT !.at = "waiting", !.call = Min(Free)]
                                 ELSE Idle]

(* Releasing a key forgets who claimed it.  A release of another's claim, or  *)
(* of one whose call is still in the queue, excuses a second call.            *)
Release(u, num) ==
    /\ pending' = [pending EXCEPT ![u] = 0]
    /\ excused' = IF \/ pending[u] \notin {0, num}
                     \/ \E i \in Rows : row'[i].st = "queued" /\ row'[i].new /\ row'[i].uid = u
                  THEN excused \cup {u} ELSE excused
KeepClaims == UNCHANGED <<pending, excused>>

Finish(t) == job' = [job EXCEPT ![t] = Idle]
FinishReleasing(t) ==
    /\ Finish(t)
    /\ IF job[t].claimed THEN Release(job[t].uid, job[t].num) ELSE KeepClaims

------------------------------------------------------------------------------
(* Callers.                                                                   *)

NeverClaims(op) == FALSE
Claims(op) == op = "new"

(* The check of a key and its claim are one step under a lock.                *)
Arrive(t) ==
    /\ job[t].at = "idle" /\ next <= Len(script) /\ next' = next + 1
    /\ LET q == script[next]
           claim == Claims(q.op)
       IN IF claim /\ pending[q.uid] # 0
          THEN UNCHANGED <<job, pending>>
          ELSE /\ job' = [job EXCEPT ![t] = [Idle EXCEPT !.op = q.op, !.uid = q.uid, !.num = next,
                                                 !.claimed = claim,
                                                 !.at = IF q.op \in {"removal", "reaction"}
                                                        THEN "lookup" ELSE "resolve"]]
               /\ pending' = IF claim THEN [pending EXCEPT ![q.uid] = next] ELSE pending
    /\ UNCHANGED <<script, row, shown, log, troubles, ghosts>>

(* The destination is found, or the chat is muted or cannot be asked about.   *)
Resolve(t) ==
    /\ job[t].at = "resolve"
    /\ \/ /\ job' = [job EXCEPT ![t].at = IF job[t].op \in {"edit", "editmedia"} THEN "lookup"
                                          ELSE "dispatch"]
          /\ KeepClaims /\ UNCHANGED row
       \/ UNCHANGED row /\ FinishReleasing(t)
    /\ UNCHANGED <<script, next, shown, log, troubles, astray>>

(* An edit of a message that is not logged yet is sent as a new message, a    *)
(* removal of one does nothing, a reaction waits a little for it.             *)
ReactionTarget(u) == LET e == log[EntryOf(u)]
                     IN IF KindOf[u] = "text" THEN e.main ELSE Target(u)

LookUp(t) ==
    LET u == job[t].uid
        reacts == job[t].op = "reaction"
        first == reacts /\ u \in Mirrored /\ Logged(u) /\ log[EntryOf(u)].alt = Nothing
    IN /\ job[t].at = "lookup"
       /\ \/ /\ Logged(u)
             /\ job' = [job EXCEPT ![t] =
                          IF first THEN [@ EXCEPT !.at = "dispatch", !.dbold = log[EntryOf(u)].main]
                          ELSE [@ EXCEPT !.at = "dispatch",
                                         !.old = IF reacts THEN ReactionTarget(u) ELSE Target(u)]]
          \/ /\ ~Logged(u)
             /\ IF job[t].op \in {"edit", "editmedia"}
                THEN job' = [job EXCEPT ![t].at = "dispatch"] ELSE Finish(t)
       /\ UNCHANGED <<script, next, pending, row, shown, log, troubles, ghosts>>

(* The answer to a mirrored message is logged under that message; a caller    *)
(* who edits, or offers commands, waits for the answer of Telegram.           *)
SendRow(t, old, waiter) ==
    [NoRow EXCEPT !.api = "send", !.new = job[t].op = "new", !.ctx = TRUE, !.callback = TRUE,
                  !.old = IF job[t].dbold # Nothing THEN job[t].dbold ELSE old,
                  !.waiter = waiter]
CallRow(api, m) == [NoRow EXCEPT !.api = api, !.msg = m, !.waiter = TRUE]

(* Voice messages and stickers have no media edit: they are sent again, and   *)
(* logged as messages of their own.  A location is always sent again.  The    *)
(* test whether the old message is in the same chat, on which its reply       *)
(* target depends, compares a number with a string.                           *)
Resends(t) == KindOf[job[t].uid] \in {"voice", "sticker"} /\ job[t].op = "editmedia"

SameChat(t) == FALSE

Dispatch(t) ==
    LET old == job[t].old
        kind == KindOf[job[t].uid]
    IN /\ job[t].at = "dispatch"
       /\ IF job[t].op = "removal"
          THEN Put(t, CallRow("delete", old)) \/ Put(t, CallRow("notice", old))
          ELSE IF old = Nothing \/ Resends(t)
          THEN \E waiter \in IF job[t].dbold # Nothing THEN {TRUE} ELSE BOOLEAN :
                  Put(t, SendRow(t, Nothing, waiter))
          ELSE IF kind = "location"
          THEN Put(t, [SendRow(t, old, TRUE) EXCEPT !.reply = IF SameChat(t) THEN old ELSE Nothing])
          ELSE Put(t, CallRow("edit", old))
       /\ UNCHANGED <<script, next, pending, shown, log, troubles, ghosts>>

(* The row cannot be inserted, or the media cannot be prepared.               *)
DispatchFails(t) ==
    /\ job[t].at = "dispatch"
    /\ UNCHANGED row /\ FinishReleasing(t)
    /\ UNCHANGED <<script, next, shown, log, troubles, astray>>

(* What a caller does with an answer.  Rows with a context were logged by the *)
(* worker, for the others the caller writes the log.                          *)
Answered(t) ==
    /\ job[t].at = "answered"
    /\ job' = [job EXCEPT ![t] = IF row[@.call].ctx \/ @.op = "removal" THEN Idle
                                ELSE [@ EXCEPT !.at = "mapping"]]
    /\ UNCHANGED <<script, next, pending, row, shown, log, troubles, ghosts>>

(* New media have been put in place: the caption is edited next.              *)
EditCaption(t) ==
    /\ job[t].at = "answered" /\ job[t].op = "editmedia" /\ row[job[t].call].api = "edit"
    /\ Put(t, CallRow("edit", row[job[t].call].msg))
    /\ UNCHANGED <<script, next, pending, shown, log, troubles, ghosts>>

MapAnswer(t) ==
    LET r == row[job[t].call]
        m == IF r.api = "edit" THEN r.msg ELSE job[t].call
        old == IF job[t].dbold # Nothing THEN job[t].dbold ELSE job[t].old
    IN /\ job[t].at = "mapping"
       /\ log' = LogWrite(job[t].uid, m, old)
       /\ astray' = astray \cup LateFor(job[t].uid, m, old)
       /\ Finish(t)
       /\ UNCHANGED <<script, next, pending, row, shown, troubles, excused>>

(* What a caller does about a failure, if it does not give up: an image that  *)
(* cannot be edited is sent, and sent as a document if that fails; a notice   *)
(* replaces a sticker's keyboard or a removal; an answer to a mirrored        *)
(* message that is gone is sent anew.                                         *)
SendInstead(t) ==
    /\ KindOf[job[t].uid] = "image" /\ ~job[t].again
    /\ Enqueue([SendRow(t, job[t].old, TRUE) EXCEPT !.st = "queued", !.uid = job[t].uid,
                    !.callback = job[t].op = "new"])
    /\ job' = [job EXCEPT ![t].at = "waiting", ![t].call = Min(Free),
                          ![t].again = row[job[t].call].api = "send"]
    /\ excused' = IF job[t].op = "new" THEN excused \cup {job[t].uid} ELSE excused
    /\ UNCHANGED pending

NoticeInstead(t) ==
    /\ \/ row[job[t].call].api = "delete"
       \/ KindOf[job[t].uid] = "sticker" /\ row[job[t].call].api = "edit"
    /\ Put(t, CallRow("notice", row[job[t].call].msg)) /\ KeepClaims

AnswerAnew(t) ==
    /\ job[t].op = "reaction" /\ job[t].uid \in Mirrored /\ row[job[t].call].api = "edit"
    /\ row[job[t].call].msg \notin shown
    /\ Enqueue([SendRow(t, job[t].old, TRUE) EXCEPT !.st = "queued", !.uid = job[t].uid,
                    !.callback = FALSE])
    /\ job' = [job EXCEPT ![t].at = "waiting", ![t].call = Min(Free), ![t].dbold = job[t].old]
    /\ KeepClaims

GiveUp(t) == UNCHANGED row /\ FinishReleasing(t)

Failed(t) ==
    /\ job[t].at = "failed"
    /\ SendInstead(t) \/ NoticeInstead(t) \/ AnswerAnew(t) \/ GiveUp(t)
    /\ UNCHANGED <<script, next, shown, log, troubles, astray>>

(* BLOCKING_SEND_TIMEOUT: the call stays in the queue.                        *)
TimesOut(t) ==
    /\ job[t].at = "waiting" /\ Live(job[t].call)
    /\ Trouble /\ UNCHANGED row /\ FinishReleasing(t)
    /\ row[job[t].call].ctx \* other calls only wait
    /\ UNCHANGED <<script, next, shown, log, astray>>

------------------------------------------------------------------------------
(* The worker.                                                                *)

WaiterOf(i, at) == [t \in Threads |-> IF job[t].at = "waiting" /\ job[t].call = i
                                      THEN [job[t] EXCEPT !.at = at] ELSE job[t]]
ReleaseNone(i) == KeepClaims
ReleaseBy(i) == IF row[i].callback THEN Release(row[i].uid, pending[row[i].uid]) ELSE KeepClaims

First(i) == Live(i) /\ \A k \in Rows : Live(k) => i <= k
Possible(i) == row[i].api \in {"edit", "delete"} => row[i].msg \in shown

Accept(i) ==
    /\ First(i) /\ Possible(i)
    /\ shown' = CASE row[i].api \in {"send", "notice"} -> shown \cup {i}
                  [] row[i].api = "delete" -> shown \ {row[i].msg}
                  [] OTHER -> shown
    /\ job' = WaiterOf(i, "answered")
    /\ IF ~row[i].ctx
       THEN /\ row' = [row EXCEPT ![i].st = "done"] /\ KeepClaims
            /\ UNCHANGED <<log, troubles, astray>>
       ELSE \/ /\ row' = [row EXCEPT ![i].st = "done"]
               /\ log' = LogWrite(row[i].uid, i, row[i].old)
               /\ ReleaseBy(i) /\ astray' = astray \cup LateFor(row[i].uid, i, row[i].old)
               /\ UNCHANGED troubles
            \/ /\ row' = [row EXCEPT ![i].st = "sent"]      \* the log is not writable
               /\ Trouble /\ KeepClaims /\ UNCHANGED <<log, astray>>
    /\ UNCHANGED <<script, next>>

(* The receipt is in the table: the log is tried again.                       *)
Reconcile(i) ==
    /\ row[i].st = "sent" /\ row' = [row EXCEPT ![i].st = "done"]
    /\ log' = LogWrite(row[i].uid, i, row[i].old)
    /\ ReleaseBy(i) /\ astray' = astray \cup LateFor(row[i].uid, i, row[i].old)
    /\ UNCHANGED <<script, next, job, shown, troubles>>

Refuse(i) ==
    /\ First(i)
    /\ IF Possible(i) THEN Trouble ELSE UNCHANGED troubles
    /\ row' = [row EXCEPT ![i].st = "failed"]
    /\ job' = WaiterOf(i, "failed")
    /\ ReleaseBy(i)
    /\ UNCHANGED <<script, next, shown, log, astray>>

(* Whether Telegram took a message is unknown: the row is held for the        *)
(* operator, and with it the claim.                                           *)
Uncertain(i) ==
    /\ First(i) /\ row[i].api = "send" /\ Trouble
    /\ row' = [row EXCEPT ![i].st = "held"] /\ job' = WaiterOf(i, "failed")
    /\ UNCHANGED <<script, next, pending, shown, log, ghosts>>

(* Messages disappear from Telegram: a user deletes them.                     *)
UserDeletes(m) ==
    /\ m \in shown /\ Trouble /\ shown' = shown \ {m}
    /\ UNCHANGED <<script, next, job, pending, row, log, ghosts>>

(* Claims, callbacks and waiters are in memory, the queue is not.             *)
Crash ==
    /\ Trouble /\ job' = [t \in Threads |-> Idle] /\ pending' = [u \in Uids |-> 0]
    /\ row' = [i \in Rows |-> [row[i] EXCEPT !.callback = FALSE, !.waiter = FALSE]]
    /\ excused' = excused \cup {row[i].uid : i \in {k \in Rows : Live(k)}}
    /\ UNCHANGED <<script, next, shown, log, astray>>

CallerStep(t) ==
    Arrive(t) \/ Resolve(t) \/ LookUp(t) \/ Dispatch(t) \/ DispatchFails(t)
    \/ Answered(t) \/ EditCaption(t) \/ MapAnswer(t) \/ Failed(t)
WorkerStep(i) == Accept(i) \/ Reconcile(i) \/ Refuse(i) \/ Uncertain(i)

Next ==
    \/ \E t \in Threads : CallerStep(t) \/ TimesOut(t)
    \/ \E i \in Rows : WorkerStep(i) \/ UserDeletes(i)
    \/ Crash

Spec == Init /\ [][Next]_vars

(* Threads run, and the queue's worker makes its calls (OutboundScheduler     *)
(* shows that it does).                                                       *)
FairSpec ==
    /\ Spec
    /\ \A t \in Threads : WF_vars(CallerStep(t))
    /\ \A i \in Rows : WF_vars(Accept(i) \/ Refuse(i)) /\ WF_vars(Reconcile(i))

------------------------------------------------------------------------------
(* A message that is delivered twice is queued once: no second call for it    *)
(* enters the queue while the first is there, unless the claim was given up   *)
(* early - a caller timed out, an image was tried again, the process died or  *)
(* an error path released what another request had claimed in between.        *)
OnePendingCall ==
    \A i, k \in Rows :
        i # k /\ Live(i) /\ Live(k) /\ row[i].new /\ row[k].new /\ row[i].uid = row[k].uid
            => row[i].uid \in excused

(* No claim outlives its message, on any of the paths that end one: else the  *)
(* slave could never deliver the message again.  A call that waits for the    *)
(* operator's decision keeps its claim.  (A script is finite, so "all" is not *)
(* too much to ask.)                                                          *)
Claimed(u) == pending[u] # 0 /\ \A i \in Rows : row[i].uid = u => row[i].st # "held"
ClaimsAreReleased == (\E u \in Uids : Claimed(u)) ~> (\A u \in Uids : ~Claimed(u))

(* A user's message has one row in the log, under its own id, however many    *)
(* answers carried its reactions: replies to it find their way.               *)
Canonical(u) ==
    \E i \in DOMAIN log : log[i].main = OwnId[u] /\ \A k \in DOMAIN log : k = i <=> log[k].uid = u
OneCanonicalRow == \A u \in Mirrored \ astray : Canonical(u)

(* Queue and log agree on each message.                                       *)
MessageInv == TypeOK /\ OnePendingCall /\ OneCanonicalRow

(* An edit, removal or reaction finds a message that was sent for it as soon  *)
(* as there is one, never another's, and it finds the newest one, whether the *)
(* edit came before the original was logged or after, however often the       *)
(* message was delivered, and whether its answers were logged by the worker   *)
(* or by a caller - unless one was logged out of order.                       *)
NewestIsFound ==
    \A u \in Uids : SentFor(u) # {} /\ KindOf[u] # "sticker" =>
        /\ Logged(u) /\ (Target(u) \in Rows => row[Target(u)].uid = u)
        /\ u \in astray \/ Target(u) = Max(SentFor(u))

(* "If an edit request comes, send a new message replying to the old one."    *)
EditedLocationReplies ==
    \A i \in Rows : row[i].st # "absent" /\ KindOf[row[i].uid] = "location" /\ row[i].old # Nothing
        => row[i].reply = row[i].old
==============================================================================
