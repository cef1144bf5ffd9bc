---------------------------- MODULE MasterMessages ----------------------------
(* What the user writes in Telegram, on its way to a remote chat:             *)
(* master_message.py receives updates (enqueue_message), and a worker thread  *)
(* of its own finds each one's destination (msg) and hands it to the slave    *)
(* channel, while links and topics change (ChatRouting) under its feet.       *)
EXTENDS ChatRouting

CONSTANT MaxUpdates

Updates == 1 .. MaxUpdates
Token == 0                 \* what stop_worker puts in the queue
NoRoute == <<>>            \* the topic was not looked up, or the forum has none
Foreign == MaxTopics + 1   \* a topic the bot did not make

ASSUME MasterAssumption ==
    /\ MaxUpdates \in Nat
    /\ \A p \in Plans : \A q \in Range(p.writes) : q.chat \in Chats /\ q.kind \in {"plain", "reply", "edit"}
                         /\ q.about \in Slaves \cup {None}

VARIABLES
    upd,          \* updates received, and what became of each
    queue,        \* message_queue
    worker,       \* message_worker_thread
    stop          \* stop_worker

master == <<upd, queue, worker, stop>>
vars == <<routing, master>>

NoUpdate == [st |-> "absent", chat |-> TopicGroup, thread |-> NoTopic, kind |-> "plain",
             about |-> None, route |-> NoRoute, to |-> None, routable |-> FALSE]
Resting == [at |-> "idle", u |-> 0, chats |-> <<>>, to |-> None]

MasterInit ==
    /\ Init
    /\ upd = [u \in Updates |-> NoUpdate] /\ queue = <<>> /\ worker = Resting /\ stop = "no"

TypeOK ==
    /\ \A u \in Updates : upd[u].st \in {"absent", "queued", "handled", "asked", "drained"}
    /\ queue \in Seq(Updates \cup {Token})
    /\ worker.at \in {"idle", "links", "ideal", "topics", "choose", "hand", "ended", "dead"}
    /\ stop \in {"no", "drain", "token", "done"}

Alive == worker.at \notin {"ended", "dead"}
Finish(u, st, to) == /\ upd' = [upd EXCEPT ![u].st = st, ![u].to = to]
                     /\ worker' = Resting

------------------------------------------------------------------------------
(* Receipt.  Commands and messages are received one at a time.                *)

Routable(c, n) == c \in Forums /\ n # NoTopic /\ TopicsOf(c) # {}
RouteLater(c, n) == NoRoute
RouteAtReceipt(c, n) == IF Routable(c, n) THEN <<OwnerOf(c, n)>> ELSE NoRoute

TopicsSeen(c) == IF c \in Forums THEN {NoTopic, Foreign} \cup {n \in DOMAIN made : made[n].chat = c}
               ELSE {NoTopic}

Receive(u, n) ==
    LET q == plan.writes[u] IN
    /\ upd[u].st = "absent" /\ \A v \in Updates : v < u => upd[v].st # "absent"
    /\ u <= Len(plan.writes) /\ ~Busy(Handler) /\ n \in TopicsSeen(q.chat)
    /\ q.chat \in Forums /\ n # NoTopic => mutex = None
    /\ upd' = [upd EXCEPT ![u] = [st |-> "queued", chat |-> q.chat, thread |-> n, kind |-> q.kind,
                                  about |-> q.about, route |-> RouteAtReceipt(q.chat, n), to |-> None,
                                  routable |-> Routable(q.chat, n)]]
    /\ queue' = Append(queue, u)
    /\ UNCHANGED <<routing, worker, stop>>

------------------------------------------------------------------------------
(* The worker's way to a destination.                                         *)

Take ==
    /\ worker.at = "idle" /\ queue # <<>> /\ queue' = Tail(queue)
    /\ worker' = IF Head(queue) = Token THEN [worker EXCEPT !.at = "ended"]
                 ELSE [Resting EXCEPT !.at = "links", !.u = Head(queue)]
    /\ UNCHANGED <<routing, upd, stop>>

Of == upd[worker.u]
GoTo(s) == worker' = [worker EXCEPT !.at = "hand", !.to = s] /\ UNCHANGED upd
GoOn(at) == worker' = [worker EXCEPT !.at = at, !.chats = LinksOf(Of.chat)] /\ UNCHANGED upd
Ignore == Finish(worker.u, "handled", None)

(* An edit goes where the message went.  A topic's message goes to the chat   *)
(* that the topic belonged to when it was written.                            *)
ReadLinks ==
    /\ worker.at = "links"
    /\ IF Of.kind = "edit"
       THEN IF Of.about = None THEN Ignore ELSE GoTo(Of.about)
       ELSE IF Of.route # NoRoute
       THEN IF Of.route[1] = None THEN Ignore ELSE GoTo(Of.route[1])
       ELSE IF Len(LinksOf(Of.chat)) = 1
       THEN IF Of.chat \in Forums THEN GoOn("ideal") ELSE GoTo(LinksOf(Of.chat)[1].slave)
       ELSE IF Of.chat \in Forums THEN GoOn("topics") ELSE GoOn("choose")
    /\ UNCHANGED <<routing, queue, stop>>

(* The only chat of a forum, but not in its topic.                            *)
CheckTopic ==
    LET s == worker.chats[1].slave
    IN /\ worker.at = "ideal"
       /\ IF TopicOf(s, Of.chat) \notin {NoTopic, Of.thread} THEN Ignore ELSE GoTo(s)
       /\ UNCHANGED <<routing, queue, stop>>

ReadTopics ==
    LET T == TopicsOf(Of.chat)
    IN /\ worker.at = "topics"
       /\ IF Of.thread # NoTopic /\ T # {}
          THEN IF OwnerOf(Of.chat, Of.thread) = None THEN Ignore
               ELSE GoTo(OwnerOf(Of.chat, Of.thread))
          ELSE IF Len(worker.chats) = Cardinality(T) THEN Ignore
          ELSE worker' = [worker EXCEPT !.at = "choose"] /\ UNCHANGED upd
       /\ UNCHANGED <<routing, queue, stop>>

(* By the message replied to, else by the last reply, else the user is asked. *)
Choose ==
    LET c == Of.chat
        s == IF Of.kind = "reply" THEN Of.about ELSE cache[c]
    IN /\ worker.at = "choose"
       /\ IF s # None
          THEN /\ GoTo(s)
               /\ IF Of.kind = "reply"
                  THEN /\ cache' = [cache EXCEPT ![c] = s]
                       /\ spoke' = IF cache[c] = s THEN spoke ELSE [spoke EXCEPT ![c] = {}]
                  ELSE UNCHANGED <<cache, spoke>>
          ELSE Finish(worker.u, "asked", None) /\ UNCHANGED <<cache, spoke>>
       /\ UNCHANGED <<plan, links, topics, made, mutex, todo, do, heard, troubles, parted, dropped, crossed>>
       /\ UNCHANGED <<queue, stop>>

HandOver == /\ worker.at = "hand" /\ Finish(worker.u, "handled", worker.to)
            /\ UNCHANGED <<routing, queue, stop>>

(* An error is reported to the user in a reply.  If that fails too, the       *)
(* thread ends.                                                               *)
EndsOnError(u) == /\ upd' = [upd EXCEPT ![u].st = "handled"]
                  /\ worker' = [worker EXCEPT !.at = "ended"]
OnError(u) == Finish(u, "handled", None)

Fails ==
    /\ worker.at \in {"links", "ideal", "topics", "choose", "hand"} /\ Trouble
    /\ \/ OnError(worker.u)
       \/ worker' = [worker EXCEPT !.at = "dead"] /\ UNCHANGED upd
    /\ UNCHANGED <<plan, links, topics, made, mutex, todo, do, heard, cache, ghosts, queue, stop>>

WorkerStep == Take \/ ReadLinks \/ CheckTopic \/ ReadTopics \/ Choose \/ HandOver

(* The user picks one of the suggested chats: the message goes there at once, *)
(* from the thread of the command.                                            *)
Pick(u, s) ==
    /\ upd[u].st = "asked" /\ ~Busy(Handler) /\ s \in Linked(upd[u].chat)
    /\ upd' = [upd EXCEPT ![u].st = "handled", ![u].to = s]
    /\ UNCHANGED <<routing, queue, worker, stop>>

------------------------------------------------------------------------------
(* stop_worker: what waits is thrown away, then the worker is told.           *)

StopBegins == /\ stop = "no" /\ plan.stops /\ stop' = IF Alive THEN "drain" ELSE "done"
              /\ UNCHANGED <<routing, upd, queue, worker>>

Drain ==
    /\ stop = "drain"
    /\ IF queue # <<>>
       THEN /\ queue' = Tail(queue) /\ UNCHANGED stop
            /\ upd' = IF Head(queue) = Token THEN upd ELSE [upd EXCEPT ![Head(queue)].st = "drained"]
       ELSE stop' = "token" /\ UNCHANGED <<upd, queue>>
    /\ UNCHANGED <<routing, worker>>

PutNothing == /\ stop = "token" /\ stop' = "done"
              /\ UNCHANGED <<routing, upd, queue, worker>>
PutToken == /\ stop = "token" /\ stop' = "done" /\ queue' = Append(queue, Token)
            /\ UNCHANGED <<routing, upd, worker>>

StopStep == StopBegins \/ Drain \/ PutToken

------------------------------------------------------------------------------
Next ==
    \/ RoutingStep /\ UNCHANGED master
    \/ \E u \in Updates, n \in Topics \cup {NoTopic, Foreign} : Receive(u, n)
    \/ WorkerStep \/ Fails \/ StopStep
    \/ \E u \in Updates, s \in Slaves : Pick(u, s)

Spec == MasterInit /\ [][Next]_vars

FairSpec == Spec /\ WF_vars(WorkerStep) /\ WF_vars(Drain) /\ WF_vars(PutToken)

------------------------------------------------------------------------------
(* "One topic per linked chat": however messages of one remote chat, commands *)
(* and /init_topics race, no second topic is made for it in a forum, unless   *)
(* it lost the first one.                                                     *)
MadeTwice == {<<made[i].slave, made[i].chat>> : i \in {j \in DOMAIN made :
                  \E k \in DOMAIN made : j < k /\ made[j] = made[k]}}
OneTopicPerChat ==
    \A p \in MadeTwice : p \in parted \cup dropped \/ p[1] \in crossed

(* Links, topics and what the threads know of them, however they interleave. *)
TopicInv == TypeOK /\ OneTopicPerChat

(* The same, when nothing but the link itself dropped the topic: what         *)
(* "one topic per linked chat" says of a link made while the chat is talking. *)
OneTopicPerLink ==
    \A p \in MadeTwice : p \in parted \/ p[1] \in crossed

(* A migration that ends leaves every chat of the old group with the new one, *)
(* if no one else changed its links meanwhile.                                *)
MigrationKeepsLinks ==
    [][\A a \in {Handler, Sender} :
          Busy(a) /\ do[a].op \in {"migrate", "migrateOnError"} /\ do'[a].prog = <<>>
              => \A s \in do[a].slaves \ crossed : \E i \in DOMAIN links' : links'[i] = Link(do[a].to, s)
      ]_vars

(* While a forum is relinked, its chats are heard in the old forum or the     *)
(* new, each in its topic, and nowhere else.                                  *)
RelinkIsWhole ==
    [][\A a \in Threads :
          At(a, "find") /\ do[Handler].op = "relink" /\ Busy(Handler)
              /\ do[a].slaves \subseteq do[Handler].slaves \ crossed
              /\ do'[a].dest # None
            => /\ do'[a].dest \in {do[Handler].from, do[Handler].to}
               /\ do'[a].dest = do[Handler].to
                    => \A s \in do[a].slaves :
                          TopicOf(s, do'[a].dest) # NoTopic \/ <<s, do'[a].dest>> \in parted
      ]_vars

(* What the user writes in a topic goes to the chat the topic was made for    *)
(* and to no other, whatever is linked, unlinked or forgotten between receipt *)
(* and delivery, as long as the forum has topics at all when he writes.       *)
TopicKeepsItsChat ==
    \A u \in Updates :
        upd[u].to # None /\ upd[u].kind # "edit" /\ upd[u].routable
            => upd[u].thread \in DOMAIN made /\ upd[u].to = made[upd[u].thread].slave

(* A message without a reply goes to the last chat the user answered in the   *)
(* group only while no other chat was heard there.                            *)
QuickReplyIsCurrent ==
    \A c \in Chats : cache[c] # None => spoke[c] \subseteq {cache[c]}

(* Every update in the queue is dealt with, except when the worker is stopped *)
(* or when it could not even report an error.                                 *)
UpdatesAreHandled ==
    (\E u \in Updates : upd[u].st = "queued")
        ~> (\A u \in Updates : upd[u].st # "queued") \/ stop # "no" \/ worker.at = "dead"

(* A stop ends the worker.                                                    *)
StopEndsWorker == stop = "drain" ~> ~Alive
==============================================================================
