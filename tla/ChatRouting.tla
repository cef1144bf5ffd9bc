----------------------------- MODULE ChatRouting -----------------------------
(* Links and topics: which Telegram chat, and which topic of it, the messages *)
(* of a remote chat go to.  The tables and their statements are db.py's       *)
(* (ChatAssoc, TopicAssoc), the commands that change them chat_binding.py's,  *)
(* and the lookup for each message of a slave slave_message.py's              *)
(* (get_slave_msg_dest), with topic_group configured.                         *)
(*                                                                            *)
(* Nothing but a statement is atomic here: an actor runs a program, a list of *)
(* statements, and _topic_mutex is taken by some programs and not by others.  *)
(* Commands run one at a time (Handler); a send that Telegram answers with    *)
(* ChatMigrated migrates the chat from the thread it runs in (Sender).        *)
EXTENDS Naturals, Sequences, FiniteSets, SequencesExt

CONSTANTS
    Slaves,       \* remote chats
    Chats,        \* Telegram groups
    Forums,       \* those that have topics
    TopicGroup,   \* the forum for remote chats without a link
    Threads,      \* threads of slave channels
    Handler, Sender,
    None,
    Multiple,     \* the flag multiple_slave_chats
    Plans,        \* what is linked at first, the commands, what slaves say and
                  \* what the user writes
    MaxTopics, MaxTroubles

Actors == Threads \cup {Handler, Sender}
Topics == 1 .. MaxTopics
NoTopic == 0

Commands == [op : {"link", "unlink", "unlinkAll", "relink", "initTopics", "migrate", "migrateOnError"},
             from : Chats \cup {None}, to : Chats \cup {None}, slave : Slaves \cup {None}]

ASSUME RoutingAssumption ==
    /\ TopicGroup \in Forums /\ Forums \subseteq Chats /\ Multiple \in BOOLEAN
    /\ Handler # Sender /\ {Handler, Sender} \cap Threads = {}
    /\ None \notin Slaves \cup Chats \cup Actors
    /\ MaxTopics \in Nat /\ MaxTroubles \in Nat
    /\ \A p \in Plans : {p.handler, p.sender} \subseteq Seq(Commands)

VARIABLES
    plan,
    links,        \* ChatAssoc, in the order of its rows
    topics,       \* TopicAssoc
    made,         \* the topics that exist on Telegram: where, and for whom
    mutex,        \* who holds _topic_mutex
    todo,         \* commands to come, of Handler and Sender
    do,           \* the program each actor runs
    heard,        \* messages of slaves to come
    cache,        \* chat_dest_cache: the remote chat of the user's last reply
    troubles,
    spoke,        \* who was heard in a chat since its cache entry was set
    parted,       \* <<remote chat, chat>> that lost its topic on request, on a
                  \* failure, or with a lost answer
    dropped,      \* the same, by the second removal of link_chat
    crossed       \* remote chats that two actors were linking at once

ghosts == <<spoke, parted, dropped, crossed>>
routing == <<plan, links, topics, made, mutex, todo, do, heard, cache, troubles, ghosts>>

Link(c, s) == [chat |-> c, slave |-> s]
(* A statement, and what it is about: of "cut" and "forget", s is the set of  *)
(* remote chats that the statement before it left.                            *)
Step(st, c, s, n) == [st |-> st, chat |-> c, slave |-> s, thread |-> n]
(* A topic that was just made, while only its maker knows its number.         *)
Fresh(c, s, n) == [chat |-> c, slave |-> s, thread |-> n]
NoFresh == Fresh(None, None, NoTopic)
Idle == [op |-> "none", slaves |-> {}, from |-> None, to |-> None, dest |-> None,
         thread |-> NoTopic, fresh |-> NoFresh, prog |-> <<>>]

Init ==
    /\ plan \in Plans /\ links = plan.links /\ heard = plan.heard
    /\ todo = [a \in {Handler, Sender} |-> IF a = Handler THEN plan.handler ELSE plan.sender]
    /\ topics = {} /\ made = <<>> /\ mutex = None /\ do = [a \in Actors |-> Idle]
    /\ cache = [c \in Chats |-> None] /\ troubles = 0
    /\ spoke = [c \in Chats |-> {}] /\ parted = {} /\ dropped = {} /\ crossed = {}

Trouble == troubles < MaxTroubles /\ troubles' = troubles + 1

------------------------------------------------------------------------------
(* Queries.                                                                   *)

LinksOf(c) == SelectSeq(links, LAMBDA l : l.chat = c)
Linked(c) == {links[i].slave : i \in {j \in DOMAIN links : links[j].chat = c}}
MasterOf(s) == LET m == SelectSeq(links, LAMBDA l : l.slave = s)
               IN IF m = <<>> THEN None ELSE Head(m).chat
TopicsOf(c) == {t \in topics : t.chat = c}
TopicOf(s, c) == LET T == {t \in TopicsOf(c) : t.slave = s}
                 IN IF T = {} THEN NoTopic ELSE (CHOOSE t \in T : TRUE).thread
OwnerOf(c, n) == LET T == {t \in TopicsOf(c) : t.thread = n}
                 IN IF T = {} THEN None ELSE (CHOOSE t \in T : TRUE).slave

------------------------------------------------------------------------------
(* Programs of the commands.                                                  *)

(* The statements of a block for each remote chat linked to c, in the order   *)
(* of the rows.                                                               *)
Each(c, block) ==
    [i \in 1 .. Len(block) * Len(LinksOf(c)) |->
        LET q == block[((i - 1) % Len(block)) + 1]
        IN Step(q.st, q.chat, LinksOf(c)[((i - 1) \div Len(block)) + 1].slave, NoTopic)]

(* add_chat_assoc *)
AddLink(c, s, multiple) ==
    (IF multiple THEN <<>> ELSE <<Step("unlinkChat", c, None, NoTopic)>>)
        \o <<Step("unlinkSlave", None, s, NoTopic), Step("insert", c, s, NoTopic)>>

Creates(c) == Each(c, <<Step("create", c, None, NoTopic)>>)

(* A link of the user's drops what topic the chat has, and then makes one.    *)
LinkProgram(c, s) ==
    AddLink(c, s, Multiple) \o <<Step("dropTopics", None, s, NoTopic)>>
        \o IF c \in Forums THEN <<Step("create", c, s, NoTopic)>> ELSE <<>>

RelinkProgram(from, to) ==
    IF {from, to} \subseteq Forums /\ from # to
    THEN Each(from, <<Step("relinkTopic", to, None, NoTopic), Step("bind", to, None, NoTopic)>>)
    ELSE <<>>

MigrateSingly(from, to) ==
    Each(from, AddLink(to, None, FALSE)) \o <<Step("unlinkChat", from, None, NoTopic)>>
MigrateById(from, to) ==
    Each(from, AddLink(to, None, TRUE)) \o <<Step("unlinkChat", from, None, NoTopic)>>

(* The error handler's own migration.                                         *)
MigrateOnError(from, to) ==
    Each(from, <<Step("unlinkSlave", None, None, NoTopic)>> \o AddLink(to, None, FALSE))

Program(a, q) ==
    CASE q.op = "link" -> LinkProgram(q.to, q.slave)
      [] q.op = "unlink" -> <<Step("unlinkSlave", None, q.slave, NoTopic)>>
      [] q.op = "unlinkAll" -> <<Step("unlinkChat", q.from, None, NoTopic)>>
      [] q.op = "relink" -> RelinkProgram(q.from, q.to)
      [] q.op = "initTopics" -> Creates(q.from)
      [] q.op = "migrateOnError" -> MigrateOnError(q.from, q.to)
      [] q.op = "migrate" -> (IF a = Handler /\ q.to \in Forums THEN Creates(q.from) ELSE <<>>)
                                \o <<Step("migrate", None, None, NoTopic)>>

Busy(a) == do[a].prog # <<>>
Touches(q) == IF q.op \in {"link", "unlink"} THEN {q.slave} \cup (IF Multiple THEN {} ELSE Linked(q.to))
              ELSE Linked(q.from)

Begin(a) ==
    LET q == Head(todo[a])
        other == IF a = Handler THEN Sender ELSE Handler
    IN /\ ~Busy(a) /\ todo[a] # <<>> /\ Program(a, q) # <<>>
       /\ todo' = [todo EXCEPT ![a] = Tail(@)]
       /\ do' = [do EXCEPT ![a] = [op |-> q.op, slaves |-> Touches(q), from |-> q.from, to |-> q.to,
                                   dest |-> None, thread |-> NoTopic, fresh |-> NoFresh,
                                   prog |-> Program(a, q)]]
       /\ crossed' = IF Busy(other) THEN crossed \cup Touches(q) \cup do[other].slaves ELSE crossed
       /\ UNCHANGED <<plan, links, topics, made, mutex, heard, cache, troubles, spoke, parted, dropped>>

(* Nothing is linked that the command is about.                               *)
BeginNothing(a) ==
    /\ ~Busy(a) /\ todo[a] # <<>> /\ Program(a, Head(todo[a])) = <<>>
    /\ todo' = [todo EXCEPT ![a] = Tail(@)]
    /\ UNCHANGED <<plan, links, topics, made, mutex, do, heard, cache, troubles, ghosts>>

------------------------------------------------------------------------------
(* Statements.                                                                *)

At(a, st) == Busy(a) /\ Head(do[a].prog).st = st
Now(a) == Head(do[a].prog)
Rest(a) == Tail(do[a].prog)
Then(a, p) == do' = [do EXCEPT ![a].prog = p]
Done(a) == Then(a, Rest(a))
Got(a, n) == do' = [do EXCEPT ![a].prog = Rest(a), ![a].thread = n]

Free(a) == mutex \in {None, a}
(* A thread of a slave holds the lock until it has its destination.           *)
Unlock(a) == mutex' = IF a \in Threads THEN mutex ELSE None

Pairs(T) == {<<t.slave, t.chat>> : t \in T}

(* remove_chat_assoc: of a group, what is linked to it is read, its links are *)
(* deleted and then the topics of what was read; of a remote chat, its links  *)
(* and then its topics.                                                       *)
UnlinkChat(a) ==
    LET c == Now(a).chat IN
    /\ At(a, "unlinkChat") /\ Then(a, <<Step("cut", c, Linked(c), NoTopic)>> \o Rest(a))
    /\ UNCHANGED <<plan, links, topics, made, mutex, todo, heard, cache, troubles, ghosts>>

Forgets(S) == IF S = {} THEN <<>> ELSE <<Step("forget", None, S, NoTopic)>>

Cut(a) ==
    /\ At(a, "cut") /\ Then(a, Forgets(Now(a).slave) \o Rest(a))
    /\ links' = SelectSeq(links, LAMBDA l : l.chat # Now(a).chat)
    /\ UNCHANGED <<plan, topics, made, mutex, todo, heard, cache, troubles, ghosts>>

UnlinkSlave(a) ==
    /\ At(a, "unlinkSlave") /\ Then(a, Forgets({Now(a).slave}) \o Rest(a))
    /\ links' = SelectSeq(links, LAMBDA l : l.slave # Now(a).slave)
    /\ UNCHANGED <<plan, topics, made, mutex, todo, heard, cache, troubles, ghosts>>

Forget(a) ==
    LET lost == {t \in topics : t.slave \in Now(a).slave}
    IN /\ At(a, "forget") /\ Done(a)
       /\ topics' = topics \ lost /\ parted' = parted \cup Pairs(lost)
       /\ UNCHANGED <<plan, links, made, mutex, todo, heard, cache, troubles, spoke, dropped, crossed>>

Insert(a) ==
    /\ At(a, "insert") /\ Done(a)
    /\ links' = Append(links, Link(Now(a).chat, Now(a).slave))
    /\ UNCHANGED <<plan, topics, made, mutex, todo, heard, cache, troubles, ghosts>>

DropTopics(a) ==
    LET lost == {t \in topics : t.slave = Now(a).slave}
    IN /\ At(a, "dropTopics") /\ Done(a)
       /\ topics' = topics \ lost /\ dropped' = dropped \cup Pairs(lost)
       /\ UNCHANGED <<plan, links, made, mutex, todo, heard, cache, troubles, spoke, parted, crossed>>

(* chat_migration_by_id reads the links when the topics are there.            *)
MigrateLinks(a) ==
    /\ At(a, "migrate") /\ Then(a, MigrateById(do[a].from, do[a].to) \o Rest(a))
    /\ UNCHANGED <<plan, links, topics, made, mutex, todo, heard, cache, troubles, ghosts>>

(* create_topic looks for the topic, takes the lock, looks again, asks        *)
(* Telegram for a topic and stores its number.  If Telegram fails, the caller *)
(* goes on without a topic.                                                   *)
Create(a) ==
    /\ At(a, "create")
    /\ IF TopicOf(Now(a).slave, Now(a).chat) # NoTopic
       THEN Got(a, TopicOf(Now(a).slave, Now(a).chat))
       ELSE Then(a, <<[Now(a) EXCEPT !.st = "createLocked"]>> \o Rest(a))
    /\ UNCHANGED <<plan, links, topics, made, mutex, todo, heard, cache, troubles, ghosts>>

NeverThere(s, c) == FALSE
StillThere(s, c) == TopicOf(s, c) # NoTopic

CreateLocked(a) ==
    LET s == Now(a).slave
        c == Now(a).chat
    IN /\ At(a, "createLocked") /\ do[a].fresh = NoFresh /\ Free(a)
       /\ \/ /\ StillThere(s, c) /\ Got(a, TopicOf(s, c)) /\ Unlock(a)
             /\ UNCHANGED <<made, troubles, parted>>
          \/ /\ ~StillThere(s, c) /\ c \in Forums /\ Len(made) < MaxTopics
             /\ made' = Append(made, [chat |-> c, slave |-> s])
             /\ \/ /\ mutex' = a /\ UNCHANGED <<troubles, parted>>
                   /\ do' = [do EXCEPT ![a].fresh = Fresh(c, s, Len(made) + 1)]
                \/ /\ Trouble /\ Done(a) /\ Unlock(a)  \* the answer is lost
                   /\ parted' = parted \cup {<<s, c>>}
          \/ /\ ~StillThere(s, c) /\ Done(a) /\ Unlock(a) /\ UNCHANGED <<made, parted>>
             /\ IF c \in Forums THEN Trouble ELSE UNCHANGED troubles
       /\ UNCHANGED <<plan, links, topics, todo, heard, cache, spoke, dropped, crossed>>

(* add_topic_assoc, as it is within a transaction of relink_forum_binding.    *)
WithTopic(c, s, n) ==
    {t \in topics : t.slave # s /\ <<t.chat, t.thread>> # <<c, n>>}
        \cup {[chat |-> c, thread |-> n, slave |-> s]}

(* By itself, it deletes the chat's rows, and then the row of the number,     *)
(* which is new and has none, and inserts.                                    *)
ClearTopic(a) ==
    LET q == do[a].fresh
        mine == {t \in topics : t.slave = q.slave}
    IN /\ At(a, "createLocked") /\ q # NoFresh
       /\ Then(a, <<[Now(a) EXCEPT !.st = "storeTopic"]>> \o Rest(a))
       /\ topics' = topics \ mine
       /\ parted' = parted \cup Pairs({t \in mine : t.chat # q.chat})
       /\ UNCHANGED <<plan, links, made, mutex, todo, heard, cache, troubles, spoke, dropped, crossed>>

Keep(a) == do' = [do EXCEPT ![a].prog = Rest(a), ![a].thread = do[a].fresh.thread, ![a].fresh = NoFresh]

Add(a) ==
    LET q == do[a].fresh
        row == [chat |-> q.chat, thread |-> q.thread, slave |-> q.slave]
    IN /\ At(a, "storeTopic") /\ q # NoFresh /\ Unlock(a) /\ Keep(a)
       /\ topics' = {t \in topics : <<t.chat, t.thread>> # <<q.chat, q.thread>>} \cup {row}
       /\ UNCHANGED <<plan, links, made, todo, heard, cache, troubles, ghosts>>

(* The topic exists and is not stored: it serves its maker, and no one later. *)
StoreFails(a) ==
    LET q == do[a].fresh
    IN /\ At(a, "createLocked") \/ At(a, "storeTopic")
       /\ q # NoFresh /\ Trouble /\ Unlock(a) /\ Keep(a)
       /\ parted' = parted \cup {<<q.slave, q.chat>>}
       /\ UNCHANGED <<plan, links, topics, made, todo, heard, cache, spoke, dropped, crossed>>

(* relink_forum makes a topic without the lock, and then switches link and    *)
(* topic in one transaction under it.                                         *)
RelinkTopic(a) ==
    LET q == Now(a)
    IN /\ At(a, "relinkTopic")
       /\ \/ /\ Len(made) < MaxTopics /\ made' = Append(made, [chat |-> q.chat, slave |-> q.slave])
             /\ \/ /\ do' = [do EXCEPT ![a].prog = Rest(a),
                                       ![a].fresh = Fresh(q.chat, q.slave, Len(made) + 1)]
                   /\ UNCHANGED <<troubles, parted>>
                \/ /\ Trouble /\ Then(a, Tail(Rest(a))) /\ parted' = parted \cup {<<q.slave, q.chat>>}
          \/ Trouble /\ Then(a, Tail(Rest(a))) /\ UNCHANGED <<made, parted>>
       /\ UNCHANGED <<plan, links, topics, mutex, todo, heard, cache, spoke, dropped, crossed>>

Moved(c, s) == Append(SelectSeq(links, LAMBDA l : l.slave # s), Link(c, s))

(* The link, and the topic in a transaction of its own.                       *)
BindLinkFirst(a) ==
    LET q == do[a].fresh
    IN /\ At(a, "bind") /\ q # NoFresh /\ Free(a)
       /\ Then(a, <<[Now(a) EXCEPT !.st = "createLocked"]>> \o Rest(a))
       /\ links' = Moved(q.chat, q.slave) /\ topics' = {t \in topics : t.slave # q.slave}
       /\ parted' = parted \cup Pairs({t \in topics : t.slave = q.slave /\ t.chat # q.chat})
       /\ UNCHANGED <<plan, made, mutex, todo, heard, cache, troubles, spoke, dropped, crossed>>

Bind(a) ==
    LET q == do[a].fresh
    IN /\ At(a, "bind") /\ q # NoFresh /\ Free(a)
       /\ do' = [do EXCEPT ![a].prog = Rest(a), ![a].fresh = NoFresh]
       /\ links' = Moved(q.chat, q.slave)
       /\ topics' = WithTopic(q.chat, q.slave, q.thread)
       /\ parted' = parted \cup Pairs({t \in topics : t.slave = q.slave /\ t.chat # q.chat})
       /\ UNCHANGED <<plan, made, mutex, todo, heard, cache, troubles, spoke, dropped, crossed>>

(* Nothing of the transaction remains, and the new topic is left over.        *)
BindFails(a) ==
    LET q == do[a].fresh
    IN /\ At(a, "bind") /\ q # NoFresh /\ Free(a) /\ Trouble
       /\ do' = [do EXCEPT ![a].prog = Rest(a), ![a].fresh = NoFresh]
       /\ parted' = parted \cup {<<q.slave, q.chat>>}
       /\ UNCHANGED <<plan, links, topics, made, mutex, todo, heard, cache, spoke, dropped, crossed>>

------------------------------------------------------------------------------
(* A message of a slave.                                                      *)

Arrive(a) ==
    /\ a \in Threads /\ ~Busy(a) /\ heard # <<>> /\ heard' = Tail(heard)
    /\ do' = [do EXCEPT ![a] = [Idle EXCEPT !.op = "message", !.slaves = {Head(heard)},
                                        !.prog = <<Step("find", None, Head(heard), NoTopic)>>]]
    /\ UNCHANGED <<plan, links, topics, made, mutex, todo, cache, troubles, ghosts>>

Find(a) ==
    LET s == Now(a).slave
        c == IF MasterOf(s) # None THEN MasterOf(s) ELSE TopicGroup
    IN /\ At(a, "find") /\ mutex = None /\ mutex' = a
       /\ do' = [do EXCEPT ![a].dest = c,
                           ![a].prog = (IF c \in Forums THEN <<Step("create", c, s, NoTopic)>> ELSE <<>>)
                                           \o <<Step("settle", c, s, NoTopic)>>]
       /\ UNCHANGED <<plan, links, topics, made, todo, heard, cache, troubles, ghosts>>

(* Whoever else is heard in a chat ends the quick replies there.              *)
CacheKept(c, s) == cache[c]
CacheAfter(c, s) == IF cache[c] = s THEN cache[c] ELSE None

Settle(a) ==
    LET s == Now(a).slave
        c == Now(a).chat
    IN /\ At(a, "settle") /\ mutex' = None
       /\ cache' = [cache EXCEPT ![c] = CacheAfter(c, s)]
       /\ spoke' = [spoke EXCEPT ![c] = @ \cup {s}]
       /\ Then(a, <<Step("deliver", c, s, do[a].thread)>>)
       /\ UNCHANGED <<plan, links, topics, made, todo, heard, troubles, parted, dropped, crossed>>

(* The message is handed on.  If Telegram refuses its topic and does not      *)
(* reopen it, the topic is forgotten and the next message makes another.      *)
Deliver(a) ==
    LET q == Now(a)
        lost == {t \in topics : t.chat = q.chat /\ t.thread = q.thread}
    IN /\ At(a, "deliver") /\ do' = [do EXCEPT ![a] = Idle]
       /\ \/ UNCHANGED <<topics, troubles, parted>>
          \/ /\ q.thread # NoTopic /\ Trouble /\ topics' = topics \ lost
             /\ parted' = parted \cup {<<q.slave, q.chat>>}
       /\ UNCHANGED <<plan, links, made, mutex, todo, heard, cache, spoke, dropped, crossed>>

(* An hour passed since the last reply, or the cache was full.                *)
Expire(c) ==
    /\ cache[c] # None /\ cache' = [cache EXCEPT ![c] = None]
    /\ UNCHANGED <<plan, links, topics, made, mutex, todo, do, heard, troubles, ghosts>>

Statement(a) ==
    \/ UnlinkChat(a) \/ Cut(a) \/ UnlinkSlave(a) \/ Forget(a)
    \/ Insert(a) \/ DropTopics(a) \/ MigrateLinks(a)
    \/ Create(a) \/ CreateLocked(a) \/ ClearTopic(a) \/ Add(a) \/ StoreFails(a)
    \/ RelinkTopic(a) \/ Bind(a) \/ BindFails(a)
    \/ Find(a) \/ Settle(a) \/ Deliver(a)

RoutingStep ==
    \/ \E a \in {Handler, Sender} : Begin(a) \/ BeginNothing(a)
    \/ \E a \in Threads : Arrive(a)
    \/ \E a \in Actors : Statement(a)
    \/ \E c \in Chats : Expire(c)

==============================================================================
