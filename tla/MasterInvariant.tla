--------------------------- MODULE MasterInvariant ---------------------------
(* Why what the user writes in a topic reaches the chat the topic was made    *)
(* for, and why no second topic is made for a chat: the inductive invariants  *)
(* that MasterMessages_proofs shows, as state predicates that TLC checks too. *)
EXTENDS MasterMessages

ActorShape ==
    do = [a \in Actors |-> [op |-> do[a].op, slaves |-> do[a].slaves, from |-> do[a].from,
                            to |-> do[a].to, dest |-> do[a].dest, thread |-> do[a].thread,
                            fresh |-> do[a].fresh, prog |-> do[a].prog]]
UpdateShape ==
    upd = [u \in Updates |-> [st |-> upd[u].st, chat |-> upd[u].chat, thread |-> upd[u].thread,
                              kind |-> upd[u].kind, about |-> upd[u].about, route |-> upd[u].route,
                              to |-> upd[u].to, routable |-> upd[u].routable]]
WorkerShape ==
    worker = [at |-> worker.at, u |-> worker.u, chats |-> worker.chats, to |-> worker.to]
ReplyShape == /\ cache = [c \in Chats |-> cache[c]]
              /\ spoke = [c \in Chats |-> spoke[c]]

MadeShape == made \in Seq(Range(made))

Shapes == ActorShape /\ UpdateShape /\ WorkerShape /\ ReplyShape /\ MadeShape

------------------------------------------------------------------------------
(* A number of a topic is known for one remote chat only, wherever it is      *)
(* kept: in the table, or in the hands of the actor that just made it.        *)
MadeFor(n, c, s) == n \in DOMAIN made /\ made[n] = [chat |-> c, slave |-> s]

TopicsAreMade == \A t \in topics : MadeFor(t.thread, t.chat, t.slave)
FreshIsMade ==
    \A a \in Actors : do[a].fresh # NoFresh =>
        MadeFor(do[a].fresh.thread, do[a].fresh.chat, do[a].fresh.slave)

------------------------------------------------------------------------------
(* What was looked up at receipt stays with the update, and nothing that the  *)
(* worker reads later is asked for an update that has it.                     *)
Routed(u) == upd[u].routable /\ upd[u].kind # "edit"

RouteIsOwner ==
    \A u \in Updates :
        /\ upd[u].routable <=> upd[u].route # NoRoute
        /\ upd[u].routable /\ upd[u].route[1] # None =>
              upd[u].thread \in DOMAIN made /\ upd[u].route[1] = made[upd[u].thread].slave

RouteIsKept ==
    \A u \in Updates : Routed(u) =>
        /\ upd[u].to # None => upd[u].to = upd[u].route[1]
        /\ upd[u].st # "asked"

Looking == {"ideal", "topics", "choose"}
WorkerFollowsRoute ==
    /\ worker.at \in Looking \cup {"links", "hand"} => worker.u \in Updates /\ Of.st # "absent"
    /\ worker.at \in Looking => ~Of.routable /\ Of.kind # "edit"
    /\ worker.at = "hand" /\ Routed(worker.u) => worker.to = Of.route[1]

QueuedOnce == \A i \in DOMAIN queue : queue[i] # Token => upd[queue[i]].st # "absent"

MInv ==
    /\ TypeOK /\ Shapes
    /\ TopicsAreMade /\ FreshIsMade
    /\ RouteIsOwner /\ RouteIsKept /\ WorkerFollowsRoute /\ QueuedOnce
    /\ QuickReplyIsCurrent

------------------------------------------------------------------------------
(* Why no second topic is made for a remote chat in a forum.  A relink makes  *)
(* its topic without _topic_mutex and without a look at the table, so nothing *)
(* is said of the forums that are relinked to.                                *)
RelinkTargets ==
    {q.to : q \in {r \in Range(plan.handler) \cup Range(plan.sender) : r.op = "relink"}}

(* The programs of commands.  A relink binds the topic that it has just made. *)
CommandStatements ==
    {"unlinkChat", "cut", "unlinkSlave", "forget", "insert", "dropTopics", "migrate",
     "create", "createLocked", "storeTopic", "relinkTopic", "bind"}

ProgramFits(p) ==
    /\ p \in Seq(Range(p))
    /\ \A i \in DOMAIN p :
          /\ p[i].st \in CommandStatements
          /\ p[i].st = "relinkTopic" => /\ p[i].chat \in RelinkTargets
                                       /\ i + 1 \in DOMAIN p /\ p[i + 1].st = "bind"

CommandsFit ==
    /\ plan \in Plans /\ todo \in [{Handler, Sender} -> Seq(Commands)]
    /\ \A a \in {Handler, Sender} :
          /\ ProgramFits(do[a].prog)
          /\ \A i \in DOMAIN todo[a] : todo[a][i].op = "relink" => todo[a][i].to \in RelinkTargets

(* The program of a slave's message.  From the look-up to the end of routing  *)
(* the thread has the lock, and the number it goes on with is of a topic that *)
(* was made for its chat.                                                     *)
IsFor(n, q) == n # NoTopic => MadeFor(n, q.chat, q.slave)

ThreadFits(a) ==
    LET p == do[a].prog IN
    \/ p = <<>>
    \/ Len(p) = 1 /\ p = <<p[1]>> /\ p[1].st = "find" /\ do[a].thread = NoTopic
    \/ /\ Len(p) = 2 /\ p = <<p[1], p[2]>> /\ p[2].st = "settle"
       /\ p[1].st \in {"create", "createLocked", "storeTopic"}
       /\ p[1].chat = p[2].chat /\ p[1].slave = p[2].slave
       /\ do[a].thread = NoTopic /\ mutex = a
    \/ /\ Len(p) = 1 /\ p = <<p[1]>> /\ p[1].st = "settle"
       /\ IsFor(do[a].thread, p[1]) /\ mutex = a
    \/ Len(p) = 1 /\ p = <<p[1]>> /\ p[1].st = "deliver" /\ IsFor(p[1].thread, p[1])

ThreadsFit == \A a \in Threads : ThreadFits(a)

(* A topic that is made and not stored yet is stored next, by the one who     *)
(* has the lock, or by a relink.                                              *)
FreshFit(a) ==
    LET f == do[a].fresh IN f # NoFresh =>
        \/ /\ At(a, "createLocked") \/ At(a, "storeTopic")
           /\ mutex = a /\ f.chat = Now(a).chat /\ f.slave = Now(a).slave
        \/ At(a, "bind") /\ f.chat \in RelinkTargets

FreshFits == \A a \in Actors : FreshFit(a)

(* What was made for a remote chat is in the table, or about to be, or lost.  *)
Accounted(c, s) ==
    \/ <<s, c>> \in parted \cup dropped
    \/ \E t \in topics : t.chat = c /\ t.slave = s
    \/ \E a \in Actors : do[a].fresh # NoFresh /\ do[a].fresh.chat = c /\ do[a].fresh.slave = s

MadeAccounted ==
    \A i \in DOMAIN made : made[i].chat \in RelinkTargets \/ Accounted(made[i].chat, made[i].slave)

(* However messages of one remote chat, commands, migrations and /init_topics *)
(* race, no second topic is made for it in a forum that nothing is relinked   *)
(* to, unless it lost the first one.                                          *)
OneTopicOutsideRelinks ==
    \A i, j \in DOMAIN made :
        i < j /\ made[i] = made[j] /\ made[i].chat \notin RelinkTargets
            => <<made[i].slave, made[i].chat>> \in parted \cup dropped

OneInv == CommandsFit /\ ThreadsFit /\ FreshFits /\ MadeAccounted /\ OneTopicOutsideRelinks
==============================================================================
