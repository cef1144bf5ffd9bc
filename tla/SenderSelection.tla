---------------------------- MODULE SenderSelection ---------------------------
(* How the outbound worker picks the bot that sends a row: select_sender of   *)
(* bot_manager.py over the pool of auxiliary bots (bot_pool.py), whose        *)
(* membership is that of BotMembership, and what the outcome of a call does   *)
(* to affinities and cooldowns.                                               *)
(*                                                                            *)
(* The worker is one thread.  It looks at the bots one by one, so members may *)
(* come and go, and be reported, between its look at a bot and the call.      *)
(* Service messages are handled by an update thread, probes by their own.     *)
(* Both rate buckets and the clock are left to chance: `resting' says which   *)
(* bots may not send to which chats at the moment.                            *)
EXTENDS BotMembership

CONSTANTS
    Slaves,        \* slave chats
    NoSlave,       \* a row that belongs to none
    Foreign,       \* ids of bots that are not in the pool (any longer)
    Main,          \* the main bot
    Any,           \* "no required sender"
    Rows,          \* ids of queue rows, in the order they were committed
    Calls,         \* the requests that may be made
    MaxMoves,      \* bound: bots added to chats or removed
    MaxTroubles    \* bound: adverse events

Senders == Auxiliaries \union {Main}
(* Blocking media edits are the ones that are repeated after a rate limit.    *)
Kinds == {"eventual", "blocking", "mediaEdit"}
Call == [chat : Chats, slave : Slaves \union {NoSlave},
         required : Senders \union Foreign \union {Any}, kind : Kinds]

ASSUME SelectionAssumption ==
    /\ Auxiliaries \subseteq Nat \ {0} /\ Foreign \subseteq Nat \ {0}
    /\ Auxiliaries \intersect Foreign = {}
    /\ Main = 0 /\ Any \notin Nat
    /\ NoSlave \notin Slaves
    /\ Rows \subseteq Nat /\ Rows # {} /\ Chats # {}
    /\ Calls \subseteq Call
    /\ \A c \in Calls : c.kind = "mediaEdit" => c.required # Any
    /\ MaxMoves \in Nat /\ MaxTroubles \in Nat

VARIABLES
    preferred,     \* _preferred_sender_by_slave_id; Main where there is none
    failedFor,     \* _membership_failure_affinities
    resting,       \* senders that may not send to a chat: _bot_chat_disabled_until lies
                   \* in the future, or a rate bucket has no room
    row,           \* queue rows, the calls they make and their outcome
    scan,          \* the selection the worker is in
    delivered,     \* observed: auxiliaries that sent something for a slave chat
    moved,         \* observed: bots that moved since they were last looked at, or
                   \* were looked at with a service message about them to come
    moves,
    troubles

worker == <<preferred, failedFor, resting, row, scan>>
vars == <<membership, worker, delivered, moved, moves, troubles>>

(* "later" waits for a deadline after a failed attempt, "calling" is with an  *)
(* executor thread, and the Answers wait to be harvested.                     *)
Answers == {"accepted", "forbidden", "limited", "unsent", "lost"}
Settled == {"sent", "failed", "refused", "held"}
InFlight == {"calling"} \union Answers
RowAt == {"none", "queued", "later"} \union InFlight \union Settled

Row == [at : RowAt, call : Call, sender : Senders \union {Any}]
(* What the worker noted in a selection: that the main bot may send, which it *)
(* asks first, and the membership of the bots it looked at; and the bot it    *)
(* has to start a probe for, Main being none.                                 *)
Scan == [on : BOOLEAN, id : Rows, todo : SUBSET Auxiliaries, probing : Senders,
         mainFree : BOOLEAN, seen : [Auxiliaries -> Known]]

AnyCall == CHOOSE c \in Call : TRUE
NoRow == [at |-> "none", call |-> AnyCall, sender |-> Any]
AnyRow == CHOOSE r \in Rows : TRUE
Idle == [on |-> FALSE, id |-> AnyRow, todo |-> {}, probing |-> Main,
         mainFree |-> FALSE, seen |-> [b \in Auxiliaries |-> "unknown"]]

(* The type of the state.                                                     *)
TypeOK ==
    /\ MembershipTypeOK
    /\ preferred \in [Slaves -> Senders]
    /\ failedFor \in [Pairs -> SUBSET Slaves]
    /\ resting \subseteq Senders \X Chats
    /\ row \in [Rows -> Row]
    /\ scan \in Scan
    /\ delivered \subseteq Slaves \X Auxiliaries
    /\ moved \subseteq Pairs
    /\ moves \in 0 .. MaxMoves
    /\ troubles \in 0 .. MaxTroubles

Init ==
    /\ MembershipInit
    /\ preferred = [s \in Slaves |-> Main]
    /\ failedFor = [p \in Pairs |-> {}]
    /\ resting = {}
    /\ row = [r \in Rows |-> NoRow]
    /\ scan = Idle
    /\ delivered = {}
    /\ moved = {p \in Pairs : notices[p] # <<>>}
    /\ moves = 0 /\ troubles = 0

Trouble == troubles < MaxTroubles /\ troubles' = troubles + 1

------------------------------------------------------------------------------
(* Membership, and what a change of the cache does to affinities.             *)

(* mutant: whatever bot the slave chat prefers by now is forgotten            *)
DropAffinityOfAny(p) ==
    preferred' = [s \in Slaves |-> IF s \in failedFor[p] THEN Main ELSE preferred[s]]

DropAffinity(p) ==
    preferred' = [s \in Slaves |-> IF s \in failedFor[p] /\ preferred[s] = p[1]
                                   THEN Main ELSE preferred[s]]

(* _membership_changed, under the membership lock of the bot.  The slave      *)
(* chats are taken out under one lock and their affinities under another; what*)
(* the worker can do in between to either leads to the same state as when it  *)
(* is done before or after.                                                   *)
MembershipChanged(p, saysAbsent) ==
    IF saysAbsent THEN /\ DropAffinity(p)
                       /\ failedFor' = [failedFor EXCEPT ![p] = {}]
                  ELSE UNCHANGED <<preferred, failedFor>>

BotMoves(p) ==
    /\ moves < MaxMoves /\ moves' = moves + 1
    /\ Moves(p)
    /\ moved' = moved \union {p}
    /\ UNCHANGED <<worker, delivered, troubles>>

NoticeHandled(p) ==
    /\ HandleNotice(p)
    /\ MembershipChanged(p, NoticeSaysAbsent(p))
    /\ UNCHANGED <<resting, row, scan, delivered, moved, moves, troubles>>

AnswerUsed(p) ==
    /\ UseAnswer(p)
    /\ MembershipChanged(p, AnswerSaysAbsent(p))
    /\ UNCHANGED <<resting, row, scan, delivered, moved, moves, troubles>>

ProbeStep(p) ==
    /\ ProbeAnswered(p) \/ ProbeEnds(p)
    /\ UNCHANGED <<worker, delivered, moved, moves, troubles>>

ProbeTrouble(p) ==
    /\ Trouble
    /\ ProbeFails(p) \/ Expires(p)
    /\ UNCHANGED <<worker, delivered, moved, moves>>

------------------------------------------------------------------------------
(* Selection.                                                                 *)

Enqueue(r) ==
    \E c \in Calls :
        /\ row[r].at = "none" /\ \A q \in Rows : q < r => row[q].at # "none"
        /\ row' = [row EXCEPT ![r] = [NoRow EXCEPT !.at = "queued", !.call = c]]
        /\ UNCHANGED <<membership, preferred, failedFor, resting, scan, delivered, moved, moves, troubles>>

Blocking(r) == row[r].call.kind # "eventual"
Waiting(r) == row[r].at \in {"queued", "later"}
(* A media edit that was limited is kept aside; its chat waits for it.        *)
Repeated(r) == Waiting(r) /\ row[r].call.kind = "mediaEdit" /\ row[r].sender # Any
Before(q, r) == IF Blocking(q) = Blocking(r) THEN q < r ELSE Blocking(q)

(* The row of its chat to be tried next: nothing is in flight for the chat,   *)
(* and no row that waits, be it for a deadline, comes before.                 *)
IsHead(r) ==
    /\ row[r].at = "queued"
    /\ \A q \in Rows \ {r} : row[q].call.chat = row[r].call.chat =>
          /\ row[q].at \notin InFlight
          /\ Waiting(q) => Repeated(r) \/ ~ (Repeated(q) \/ Before(q, r))

(* The bots whose membership decides: with a required sender, that one alone. *)
Asked(c) == IF c.required = Any THEN Auxiliaries ELSE {c.required} \intersect Auxiliaries

Begin(r) ==
    /\ ~ scan.on
    /\ IsHead(r)
    /\ LET c == row[r].call IN
          scan' = [Idle EXCEPT !.on = TRUE, !.id = r, !.todo = Asked(c),
                      !.mainFree = <<Main, c.chat>> \notin resting]
    /\ UNCHANGED <<membership, preferred, failedFor, resting, row, delivered, moved, moves, troubles>>

(* candidate_bots: the bots in the order of their ids.                        *)
Check(b) ==
    /\ scan.on /\ scan.probing = Main
    /\ b \in scan.todo /\ \A a \in scan.todo : b <= a
    /\ LET p == <<b, row[scan.id].call.chat>> IN
          /\ scan' = [scan EXCEPT !.todo = @ \ {b}, !.seen[b] = known[p],
                         !.probing = IF known[p] = "unknown" THEN b ELSE Main]
          /\ moved' = IF notices[p] = <<>> THEN moved \ {p} ELSE moved
    /\ UNCHANGED <<membership, preferred, failedFor, resting, row, delivered, moves, troubles>>

Asks(b) ==
    /\ scan.on /\ scan.probing = b
    /\ StartProbe(<<b, row[scan.id].call.chat>>)
    /\ scan' = [scan EXCEPT !.probing = Main]
    /\ UNCHANGED <<preferred, failedFor, resting, row, delivered, moved, moves, troubles>>

Candidates(c) ==
    CASE c.required = Any -> {Main} \union {b \in Auxiliaries : scan.seen[b] = "member"}
      [] c.required = Main -> {Main}
      [] OTHER -> {b \in Auxiliaries : b = c.required /\ scan.seen[b] = "member"}

(* mutant: a required bot must be known to be a member                        *)
UnableUnlessKnown(c) ==
    c.required \in Foreign \/ (c.required \in Auxiliaries /\ scan.seen[c.required] # "member")

Unable(c) ==
    c.required \in Foreign \/ (c.required \in Auxiliaries /\ scan.seen[c.required] = "absent")

(* _select_available_sender: the auxiliaries are asked when all memberships   *)
(* are known, and no other thread uses their buckets.                         *)
Selectable(c) ==
    {s \in Candidates(c) : IF s = Main THEN scan.mainFree ELSE <<s, c.chat>> \notin resting}

(* The slave chat's preferred bot, or else the main bot (the smallest id      *)
(* here), or else the first auxiliary.                                        *)
IsBest(s, S, slave) ==
    /\ s \in S
    /\ IF slave \in Slaves /\ preferred[slave] \in S THEN s = preferred[slave]
       ELSE \A t \in S : s <= t

(* acquire_sender_limits decides last, and for the best only.                 *)
Chosen(c, s) == IsBest(s, Selectable(c), c.slave) /\ <<s, c.chat>> \notin resting

Looked(r) == scan.on /\ scan.id = r /\ scan.todo = {} /\ scan.probing = Main

Submit(r) ==
    LET c == row[r].call IN
    /\ Looked(r)
    /\ ~ Unable(c)
    /\ \E s \in Senders :
          /\ Chosen(c, s)
          /\ row' = [row EXCEPT ![r].at = "calling", ![r].sender = s]
    /\ scan' = Idle
    /\ UNCHANGED <<membership, preferred, failedFor, resting, delivered, moved, moves, troubles>>

HasSlave(c) == c.slave \in Slaves

(* record_queued_failure remembers the slave chat whose send failed, for the  *)
(* case that the bot turns out to be absent.                                  *)
RememberFailure(c, b) ==
    failedFor' = IF b \in Auxiliaries /\ HasSlave(c)
                 THEN [failedFor EXCEPT ![<<b, c.chat>>] = @ \union {c.slave}] ELSE failedFor

(* required_sender_unavailable: the row is given up.  A media edit kept aside *)
(* has failed before.                                                         *)
Refuse(r) ==
    /\ Looked(r)
    /\ Unable(row[r].call)
    /\ row' = [row EXCEPT ![r].at = "refused"]
    /\ scan' = Idle
    /\ RememberFailure(row[r].call, IF Repeated(r) THEN row[r].sender ELSE Any)
    /\ UNCHANGED <<membership, preferred, resting, delivered, moved, moves, troubles>>

(* Nobody can send now: the row stays for the next sweep.                     *)
Defer(r) ==
    /\ Looked(r)
    /\ ~ Unable(row[r].call) /\ ~ \E s \in Senders : Chosen(row[r].call, s)
    /\ scan' = Idle
    /\ UNCHANGED <<membership, preferred, failedFor, resting, row, delivered, moved, moves, troubles>>

------------------------------------------------------------------------------
(* The call and its outcome.                                                  *)

MayCall(r) == row[r].sender \in {Main} \union {b \in Auxiliaries : member[<<b, row[r].call.chat>>]}

Accepted(r) ==
    /\ row[r].at = "calling" /\ MayCall(r)
    /\ row' = [row EXCEPT ![r].at = "accepted"]
    /\ delivered' = IF row[r].sender \in Auxiliaries /\ row[r].call.slave \in Slaves
                    THEN delivered \union {<<row[r].call.slave, row[r].sender>>} ELSE delivered
    /\ UNCHANGED <<membership, preferred, failedFor, resting, scan, moved, moves, troubles>>

Forbidden(r) ==
    /\ row[r].at = "calling" /\ ~ MayCall(r)
    /\ row' = [row EXCEPT ![r].at = "forbidden"]
    /\ UNCHANGED <<membership, preferred, failedFor, resting, scan, delivered, moved, moves, troubles>>

(* A rate limit, a connection that was not made, or an answer that is lost    *)
(* (when nothing can be doubled, only an answer that is unusable counts so).  *)
CallTrouble(r) ==
    /\ row[r].at = "calling"
    /\ Trouble
    /\ \E a \in {"limited", "unsent", "lost"} : row' = [row EXCEPT ![r].at = a]
    /\ UNCHANGED <<membership, preferred, failedFor, resting, scan, delivered, moved, moves>>

(* record_successful_auxiliary_send.                                          *)
HarvestSuccess(r) ==
    LET s == row[r].call.slave IN
    /\ ~ scan.on /\ row[r].at = "accepted"
    /\ row' = [row EXCEPT ![r].at = "sent"]
    /\ preferred' = IF s \in Slaves /\ row[r].sender \in Auxiliaries
                    THEN [preferred EXCEPT ![s] = row[r].sender] ELSE preferred
    /\ UNCHANGED <<membership, failedFor, resting, scan, delivered, moved, moves, troubles>>

(* The outcome of a failed call: delivery of a lost one is uncertain; rate    *)
(* limits and connections not made are tried again, if the row is eventual or *)
(* (rate limits only) a media edit.                                           *)
OutcomeOf(c, answer) ==
    CASE answer = "lost" -> "held"
      [] answer = "forbidden" -> "failed"
      [] c.kind = "eventual" \/ (c.kind = "mediaEdit" /\ answer = "limited") -> "later"
      [] OTHER -> "failed"

(* An uncertain delivery, and a media edit that waits for its rate limit      *)
(* (record_queued_retry_after), are not remembered.                           *)
Remembers(c, answer) == answer # "lost" /\ ~ (c.kind = "mediaEdit" /\ answer = "limited")

PreferAfter(c, b, answer) == preferred

HarvestFailure(r) ==
    LET c == row[r].call  b == row[r].sender  answer == row[r].at IN
    /\ ~ scan.on /\ answer \in Answers \ {"accepted"}
    /\ row' = [row EXCEPT ![r].at = OutcomeOf(c, answer)]
    /\ RememberFailure(c, IF Remembers(c, answer) THEN b ELSE Any)
    /\ resting' = IF answer = "limited" THEN resting \union {<<b, c.chat>>} ELSE resting
    /\ preferred' = PreferAfter(c, b, answer)
    /\ UNCHANGED <<membership, scan, delivered, moved, moves, troubles>>

------------------------------------------------------------------------------
(* Deadlines and rates.                                                       *)

Due(r) ==
    /\ row[r].at = "later"
    /\ row' = [row EXCEPT ![r].at = "queued"]
    /\ UNCHANGED <<membership, preferred, failedFor, resting, scan, delivered, moved, moves, troubles>>

(* A media edit is tried for 300 seconds; then its last rate limit counts as  *)
(* a failure, and once more as a reason to rest.                              *)
TimesOut(r) ==
    LET c == row[r].call  b == row[r].sender IN
    /\ ~ scan.on
    /\ Repeated(r)
    /\ row' = [row EXCEPT ![r].at = "failed"]
    /\ RememberFailure(c, b)
    /\ resting' = resting \union {<<b, c.chat>>}
    /\ UNCHANGED <<membership, preferred, scan, delivered, moved, moves, troubles>>

Recovers(s, ch) ==
    /\ <<s, ch>> \in resting
    /\ resting' = resting \ {<<s, ch>>}
    /\ UNCHANGED <<membership, preferred, failedFor, row, scan, delivered, moved, moves, troubles>>

(* Sends use up a bucket; and send_chat_action, called by other threads, uses *)
(* the main bot's, and may be told to wait.                                   *)
FillsUp(s, ch) ==
    /\ Trouble
    /\ <<s, ch>> \notin resting
    /\ resting' = resting \union {<<s, ch>>}
    /\ UNCHANGED <<membership, preferred, failedFor, row, scan, delivered, moved, moves>>

------------------------------------------------------------------------------
Environment ==
    \/ \E p \in Pairs : BotMoves(p) \/ ProbeTrouble(p)
    \/ \E r \in Rows : Enqueue(r) \/ CallTrouble(r) \/ TimesOut(r)
    \/ \E s \in Senders, ch \in Chats : FillsUp(s, ch)

MembershipThreads == \E p \in Pairs : NoticeHandled(p) \/ AnswerUsed(p) \/ ProbeStep(p)
Sweep == \E r \in Rows : Begin(r) \/ Submit(r) \/ Refuse(r) \/ Defer(r)
Look == \E b \in Auxiliaries : Check(b) \/ Asks(b)
Executor == \E r \in Rows : Accepted(r) \/ Forbidden(r)
Harvest == \E r \in Rows : HarvestSuccess(r) \/ HarvestFailure(r)
Clock == (\E r \in Rows : Due(r)) \/ (\E s \in Senders, ch \in Chats : Recovers(s, ch))

Next == Environment \/ MembershipThreads \/ Sweep \/ Look \/ Executor \/ Harvest \/ Clock

Spec == Init /\ [][Next]_vars

(* Each sweep looks at every head and harvests what is finished, so neither is*)
(* put off for ever although the worker is busy with others in between.  The  *)
(* threads run, calls have timeouts, deadlines pass.                          *)
FairSpec ==
    /\ Spec
    /\ \A r \in Rows : /\ SF_vars(Begin(r))
                       /\ WF_vars(Submit(r) \/ Refuse(r) \/ Defer(r))
                       /\ WF_vars(Accepted(r) \/ Forbidden(r))
                       /\ SF_vars(HarvestSuccess(r) \/ HarvestFailure(r))
                       /\ WF_vars(Due(r))
    /\ WF_vars(Look)
    /\ \A p \in Pairs : WF_vars(NoticeHandled(p)) /\ WF_vars(AnswerUsed(p)) /\ WF_vars(ProbeStep(p))
    /\ \A s \in Senders, ch \in Chats : WF_vars(Recovers(s, ch))

------------------------------------------------------------------------------
(* What makes the properties inductive: the worker's notes about a bot are    *)
(* true unless it moved; what a finished call will say of an affinity has     *)
(* happened; and the row under selection stays queued.                        *)
ScanKnows ==
    scan.on =>
        /\ row[scan.id].at = "queued"
        /\ \A b \in Auxiliaries :
              LET p == <<b, row[scan.id].call.chat>> IN
              p \notin moved /\ scan.seen[b] # "unknown" => scan.seen[b] = Fact(member[p])

AcceptedDelivered ==
    \A r \in Rows :
        /\ row[r].at \in InFlight => row[r].sender \in Senders
        /\ row[r].at = "accepted" /\ row[r].sender \in Auxiliaries /\ row[r].call.slave \in Slaves
              => <<row[r].call.slave, row[r].sender>> \in delivered

(* An affinity is earned: the bot a slave chat prefers has sent for it.       *)
AffinityEarned ==
    \A s \in Slaves : preferred[s] # Main => <<s, preferred[s]>> \in delivered

(* The inductive invariant of the selection.                                  *)
SInv ==
    /\ TypeOK
    /\ MembershipInv
    /\ \A p \in Pairs : notices[p] # <<>> => p \in moved
    /\ ScanKnows
    /\ AcceptedDelivered
    /\ AffinityEarned

(* The worker acts on the truth as far as it can know it: it gives a row to an*)
(* auxiliary that is in the chat, and gives a row up because the required bot *)
(* is not, unless that bot moved since the worker looked or a service message *)
(* about it was still to come.  A probe's late answer is no excuse, nor is an *)
(* unanswered one.                                                            *)
GroundedDecisions ==
    [][\A r \in Rows :
          LET b == row'[r].sender  q == row[r].call.required  ch == row[r].call.chat IN
          /\ row[r].at # "calling" /\ row'[r].at = "calling" /\ b # Main
                => member[<<b, ch>>] \/ <<b, ch>> \in moved
          /\ row[r].at # "refused" /\ row'[r].at = "refused"
                => q \in Foreign \/ (q \in Auxiliaries /\ (~ member[<<q, ch>>] \/ <<q, ch>> \in moved))]_vars

(* An affinity is given up only for the bot it points to: when that bot is    *)
(* confirmed absent from a chat where a send of the slave chat failed.  News  *)
(* about another bot, or about the same bot elsewhere, leave it alone.        *)
AffinityOutlivesOthers ==
    [][\A s \in Slaves :
          preferred[s] # Main /\ preferred'[s] = Main =>
             \E ch \in Chats : LET p == <<preferred[s], ch>> IN
                known'[p] = "absent" /\ s \in failedFor[p] /\ s \notin failedFor'[p]]_vars

(* Every row is settled: sent, refused, failed or held.  Unknown membership   *)
(* only puts it off, as the probe answers or is repeated.                     *)
RowsSettle ==
    (\E r \in Rows : row[r].at = "queued") ~> (\A r \in Rows : row[r].at \in Settled \union {"none"})
==============================================================================
