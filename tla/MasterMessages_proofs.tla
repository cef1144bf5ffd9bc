------------------------ MODULE MasterMessages_proofs ------------------------
(* Theorems about MasterMessages: for any groups, forums, remote chats,       *)
(* commands and messages, what the user writes in a topic reaches the chat    *)
(* that the topic was made for, and a chat gets no second topic.  The         *)
(* invariants are MInv and OneInv of MasterInvariant.                         *)
EXTENDS MasterInvariant, SequenceTheorems, TLAPS

------------------------------------------------------------------------------
(* Topics are made, and never unmade.                                         *)

MadeKept == \A i \in DOMAIN made : i \in DOMAIN made' /\ made'[i] = made[i]

(* A topic more.                                                              *)
LEMMA OneMore ==
    ASSUME MadeShape, NEW e, made' = Append(made, e)
    PROVE  /\ MadeShape' /\ MadeKept
           /\ Len(made) + 1 \in DOMAIN made' /\ made'[Len(made) + 1] = e
<1> DEFINE S == Range(made) \cup {e}
<1>1. made \in Seq(S)
  BY SeqMonotonic, Range(made) \subseteq S DEF MadeShape
<1>2. made' \in Seq(S) /\ Len(made') = Len(made) + 1
  BY <1>1, AppendProperties
<1>3. /\ \A i \in 1 .. Len(made) : made'[i] = made[i]
      /\ made'[Len(made) + 1] = e
  BY <1>1, AppendProperties
<1>4. /\ Len(made) \in Nat
      /\ DOMAIN made = 1 .. Len(made) /\ DOMAIN made' = 1 .. Len(made) + 1
  BY <1>1, <1>2, LenProperties
<1>5. made' \in Seq(Range(made'))
  BY <1>2, SeqOfRange
<1> QED
  BY <1>3, <1>4, <1>5 DEF MadeShape, MadeKept

LEMMA NoMore == ASSUME MadeShape, UNCHANGED made PROVE MadeShape' /\ MadeKept
  BY DEF MadeShape, MadeKept

(* A number keeps its chat.                                                   *)
LEMMA StaysMade ==
    ASSUME MadeKept, NEW n, NEW c, NEW s, MadeFor(n, c, s)
    PROVE  MadeFor(n, c, s)'
  BY DEF MadeKept, MadeFor

(* Rows may go, and come only for topics that were made for their chat.       *)
LEMMA TopicsStayMade ==
    ASSUME TopicsAreMade, MadeKept,
           \A t \in topics' : t \in topics \/ MadeFor(t.thread, t.chat, t.slave)'
    PROVE  TopicsAreMade'
  BY StaysMade DEF TopicsAreMade

LEMMA OwnerIsMaker ==
    ASSUME TopicsAreMade, NEW c, NEW n, OwnerOf(c, n) # None
    PROVE  n \in DOMAIN made /\ OwnerOf(c, n) = made[n].slave
<1> DEFINE T == {t \in TopicsOf(c) : t.thread = n}
<1>1. T # {} /\ OwnerOf(c, n) = (CHOOSE t \in T : TRUE).slave
  BY DEF OwnerOf
<1>2. PICK t \in T : t = CHOOSE u \in T : TRUE
  BY <1>1
<1>3. MadeFor(t.thread, t.chat, t.slave) /\ t.thread = n
  BY <1>2 DEF TopicsOf, TopicsAreMade
<1> QED
  BY <1>1, <1>2, <1>3 DEF MadeFor

------------------------------------------------------------------------------
(* Actors.                                                                    *)

IsRecord(r) == r = [op |-> r.op, slaves |-> r.slaves, from |-> r.from, to |-> r.to, dest |-> r.dest,
                    thread |-> r.thread, fresh |-> r.fresh, prog |-> r.prog]

LEMMA ActorTypes ==
    ASSUME ActorShape
    PROVE  do = [a \in Actors |-> do[a]] /\ DOMAIN do = Actors /\ \A a \in Actors : IsRecord(do[a])
<1> DEFINE F(b) == [op |-> do[b].op, slaves |-> do[b].slaves, from |-> do[b].from,
                    to |-> do[b].to, dest |-> do[b].dest, thread |-> do[b].thread,
                    fresh |-> do[b].fresh, prog |-> do[b].prog]
<1>1. do = [b \in Actors |-> F(b)]
  BY DEF ActorShape
<1> HIDE DEF F
<1>2. DOMAIN do = Actors /\ \A a \in Actors : do[a] = F(a)
  BY <1>1
<1> QED
  BY <1>1, <1>2 DEF F, IsRecord

LEMMA TypesActor ==
    ASSUME do' = [a \in Actors |-> do'[a]], \A a \in Actors : IsRecord(do'[a])
    PROVE  ActorShape'
<1> DEFINE F(b) == [op |-> do'[b].op, slaves |-> do'[b].slaves, from |-> do'[b].from,
                    to |-> do'[b].to, dest |-> do'[b].dest, thread |-> do'[b].thread,
                    fresh |-> do'[b].fresh, prog |-> do'[b].prog]
<1>1. \A b \in Actors : do'[b] = F(b)
  BY DEF IsRecord
<1> HIDE DEF F
<1>2. do' = [b \in Actors |-> F(b)]
  BY <1>1
<1> QED
  BY <1>2 DEF F, ActorShape

(* The records that a statement makes of a record.                            *)
LEMMA RecordForms ==
    ASSUME NEW r, IsRecord(r), NEW x
    PROVE  /\ IsRecord([r EXCEPT !.prog = x]) /\ [r EXCEPT !.prog = x].fresh = r.fresh
           /\ IsRecord([r EXCEPT !.thread = x]) /\ [r EXCEPT !.thread = x].fresh = r.fresh
           /\ IsRecord([r EXCEPT !.dest = x]) /\ [r EXCEPT !.dest = x].fresh = r.fresh
           /\ IsRecord([r EXCEPT !.fresh = x]) /\ [r EXCEPT !.fresh = x].fresh = x
           /\ IsRecord([r EXCEPT !.op = x]) /\ [r EXCEPT !.op = x].fresh = r.fresh
           /\ IsRecord([r EXCEPT !.slaves = x]) /\ [r EXCEPT !.slaves = x].fresh = r.fresh
<1>1. PICK x1, x2, x3, x4, x5, x6, x7, x8 :
         r = [op |-> x1, slaves |-> x2, from |-> x3, to |-> x4, dest |-> x5, thread |-> x6, fresh |-> x7,
              prog |-> x8]
  BY DEF IsRecord
<1>2. [r EXCEPT !.prog = x] = [op |-> x1, slaves |-> x2, from |-> x3, to |-> x4, dest |-> x5, thread |-> x6,
              fresh |-> x7, prog |-> x]
  BY <1>1
<1>3. [r EXCEPT !.thread = x] = [op |-> x1, slaves |-> x2, from |-> x3, to |-> x4, dest |-> x5, thread |-> x,
              fresh |-> x7, prog |-> x8]
  BY <1>1
<1>4. [r EXCEPT !.dest = x] = [op |-> x1, slaves |-> x2, from |-> x3, to |-> x4, dest |-> x, thread |-> x6,
              fresh |-> x7, prog |-> x8]
  BY <1>1
<1>5. [r EXCEPT !.fresh = x] = [op |-> x1, slaves |-> x2, from |-> x3, to |-> x4, dest |-> x5, thread |-> x6,
              fresh |-> x, prog |-> x8]
  BY <1>1
<1>6. IsRecord([r EXCEPT !.prog = x]) /\ [r EXCEPT !.prog = x].fresh = r.fresh
  BY <1>1, <1>2 DEF IsRecord
<1>7. IsRecord([r EXCEPT !.thread = x]) /\ [r EXCEPT !.thread = x].fresh = r.fresh
  BY <1>1, <1>3 DEF IsRecord
<1>8. IsRecord([r EXCEPT !.dest = x]) /\ [r EXCEPT !.dest = x].fresh = r.fresh
  BY <1>1, <1>4 DEF IsRecord
<1>9. IsRecord([r EXCEPT !.fresh = x]) /\ [r EXCEPT !.fresh = x].fresh = x
  BY <1>1, <1>5 DEF IsRecord
<1>10. IsRecord([r EXCEPT !.op = x]) /\ [r EXCEPT !.op = x].fresh = r.fresh
  <2>1. [r EXCEPT !.op = x] = [op |-> x, slaves |-> x2, from |-> x3, to |-> x4, dest |-> x5, thread |-> x6,
              fresh |-> x7, prog |-> x8]
    BY <1>1
  <2> QED
    BY <1>1, <2>1 DEF IsRecord
<1>11. IsRecord([r EXCEPT !.slaves = x]) /\ [r EXCEPT !.slaves = x].fresh = r.fresh
  <2>1. [r EXCEPT !.slaves = x] = [op |-> x1, slaves |-> x, from |-> x3, to |-> x4, dest |-> x5, thread |-> x6,
              fresh |-> x7, prog |-> x8]
    BY <1>1
  <2> QED
    BY <1>1, <2>1 DEF IsRecord
<1> QED
  BY <1>6, <1>7, <1>8, <1>9, <1>10, <1>11

(* One field after the other.                                                 *)
LEMMA FieldByField ==
    ASSUME NEW r, NEW p, NEW n, NEW d, NEW f
    PROVE  /\ [r EXCEPT !.prog = p, !.thread = n] = [[r EXCEPT !.prog = p] EXCEPT !.thread = n]
           /\ [r EXCEPT !.dest = d, !.prog = p] = [[r EXCEPT !.dest = d] EXCEPT !.prog = p]
           /\ [r EXCEPT !.prog = p, !.fresh = f] = [[r EXCEPT !.prog = p] EXCEPT !.fresh = f]
           /\ [r EXCEPT !.prog = p, !.thread = n, !.fresh = f]
                 = [[[r EXCEPT !.prog = p] EXCEPT !.thread = n] EXCEPT !.fresh = f]
  OBVIOUS

(* A step turns the record of its actor and no other's, and leaves f in its   *)
(* hands.                                                                     *)
Turned(a, f) ==
    /\ ActorShape' /\ do'[a].fresh = f
    /\ \A b \in Actors \ {a} : do'[b] = do[b]

(* The topic in the hands of an actor is the old one, none, or one that is    *)
(* made for its chat.                                                         *)
LEMMA FreshStaysMade ==
    ASSUME FreshIsMade, MadeKept, NEW a \in Actors, NEW f, Turned(a, f),
           f = do[a].fresh \/ f = NoFresh \/ MadeFor(f.thread, f.chat, f.slave)'
    PROVE  FreshIsMade'
<1> SUFFICES ASSUME NEW b \in Actors, do'[b].fresh # NoFresh
             PROVE  MadeFor(do[b].fresh.thread, do[b].fresh.chat, do[b].fresh.slave)'
  BY DEF FreshIsMade, NoFresh, Fresh
<1>1. CASE do'[b].fresh = do[b].fresh
  BY <1>1, StaysMade DEF FreshIsMade
<1>2. CASE b = a /\ MadeFor(f.thread, f.chat, f.slave)'
  BY <1>2 DEF MadeFor, Turned
<1> QED
  BY <1>1, <1>2 DEF Turned

(* One actor's record is replaced by another of its kind.                     *)
LEMMA ActorTurns ==
    ASSUME ActorShape, NEW a \in Actors, NEW r, IsRecord(r), do' = [do EXCEPT ![a] = r]
    PROVE  Turned(a, r.fresh)
<1>1. do' = [b \in Actors |-> do'[b]]
  BY ActorTypes
<1>2. do'[a] = r /\ \A b \in Actors \ {a} : do'[b] = do[b]
  BY ActorTypes
<1> QED
  BY <1>1, <1>2, ActorTypes, TypesActor DEF Turned

(* The ways a statement turns the record.                                     *)
LEMMA ActorForms ==
    ASSUME ActorShape, NEW a \in Actors, NEW p, NEW n, NEW d, NEW f
    PROVE  /\ do' = [do EXCEPT ![a].prog = p] => Turned(a, do[a].fresh)
           /\ do' = [do EXCEPT ![a].prog = p, ![a].thread = n] => Turned(a, do[a].fresh)
           /\ do' = [do EXCEPT ![a].dest = d, ![a].prog = p] => Turned(a, do[a].fresh)
           /\ do' = [do EXCEPT ![a].fresh = f] => Turned(a, f)
           /\ do' = [do EXCEPT ![a].prog = p, ![a].fresh = f] => Turned(a, f)
           /\ do' = [do EXCEPT ![a].prog = p, ![a].thread = n, ![a].fresh = f] => Turned(a, f)
<1> DEFINE r == do[a]
           Turn(q, h) == do' = [do EXCEPT ![a] = q] => Turned(a, h)
<1>1. IsRecord(r) /\ a \in DOMAIN do /\ DOMAIN do = Actors /\ do = [b \in Actors |-> do[b]]
  BY ActorTypes
<1>2. ASSUME NEW q, NEW h, IsRecord(q), q.fresh = h PROVE Turn(q, h)
  BY <1>2, ActorTurns
<1> HIDE DEF Turn
<1>3. do' = [do EXCEPT ![a].prog = p] => Turned(a, do[a].fresh)
  <2> HAVE do' = [do EXCEPT ![a].prog = p]
  <2>1. do' = [do EXCEPT ![a] = [r EXCEPT !.prog = p]]
    BY <1>1
  <2>2. [r EXCEPT !.prog = p] = [r EXCEPT !.prog = p]
    BY FieldByField
  <2>3. Turn([r EXCEPT !.prog = p], do[a].fresh)
    BY <1>1, <1>2, RecordForms
  <2> QED
    BY <2>1, <2>2, <2>3 DEF Turn
<1>4. do' = [do EXCEPT ![a].prog = p, ![a].thread = n] => Turned(a, do[a].fresh)
  <2> HAVE do' = [do EXCEPT ![a].prog = p, ![a].thread = n]
  <2>1. do' = [do EXCEPT ![a] = [r EXCEPT !.prog = p, !.thread = n]]
    BY <1>1
  <2>2. [r EXCEPT !.prog = p, !.thread = n] = [[r EXCEPT !.prog = p] EXCEPT !.thread = n]
    BY FieldByField
  <2> DEFINE q == [r EXCEPT !.prog = p]
  <2>3. IsRecord(q) /\ q.fresh = r.fresh
    BY <1>1, RecordForms
  <2> HIDE DEF q
  <2>4. IsRecord([q EXCEPT !.thread = n]) /\ [q EXCEPT !.thread = n].fresh = r.fresh
    BY <2>3, RecordForms
  <2>5. Turn([q EXCEPT !.thread = n], r.fresh)
    BY <1>2, <2>4
  <2> QED
    BY <2>1, <2>2, <2>5 DEF Turn, q
<1>5. do' = [do EXCEPT ![a].dest = d, ![a].prog = p] => Turned(a, do[a].fresh)
  <2> HAVE do' = [do EXCEPT ![a].dest = d, ![a].prog = p]
  <2>1. do' = [do EXCEPT ![a] = [r EXCEPT !.dest = d, !.prog = p]]
    BY <1>1
  <2>2. [r EXCEPT !.dest = d, !.prog = p] = [[r EXCEPT !.dest = d] EXCEPT !.prog = p]
    BY FieldByField
  <2> DEFINE q == [r EXCEPT !.dest = d]
  <2>3. IsRecord(q) /\ q.fresh = r.fresh
    BY <1>1, RecordForms
  <2> HIDE DEF q
  <2>4. IsRecord([q EXCEPT !.prog = p]) /\ [q EXCEPT !.prog = p].fresh = r.fresh
    BY <2>3, RecordForms
  <2>5. Turn([q EXCEPT !.prog = p], r.fresh)
    BY <1>2, <2>4
  <2> QED
    BY <2>1, <2>2, <2>5 DEF Turn, q
<1>6. do' = [do EXCEPT ![a].fresh = f] => Turned(a, f)
  <2> HAVE do' = [do EXCEPT ![a].fresh = f]
  <2>1. do' = [do EXCEPT ![a] = [r EXCEPT !.fresh = f]]
    BY <1>1
  <2>2. [r EXCEPT !.fresh = f] = [r EXCEPT !.fresh = f]
    BY FieldByField
  <2>3. Turn([r EXCEPT !.fresh = f], f)
    BY <1>1, <1>2, RecordForms
  <2> QED
    BY <2>1, <2>2, <2>3 DEF Turn
<1>7. do' = [do EXCEPT ![a].prog = p, ![a].fresh = f] => Turned(a, f)
  <2> HAVE do' = [do EXCEPT ![a].prog = p, ![a].fresh = f]
  <2>1. do' = [do EXCEPT ![a] = [r EXCEPT !.prog = p, !.fresh = f]]
    BY <1>1
  <2>2. [r EXCEPT !.prog = p, !.fresh = f] = [[r EXCEPT !.prog = p] EXCEPT !.fresh = f]
    BY FieldByField
  <2> DEFINE q == [r EXCEPT !.prog = p]
  <2>3. IsRecord(q)
    BY <1>1, RecordForms
  <2> HIDE DEF q
  <2>4. IsRecord([q EXCEPT !.fresh = f]) /\ [q EXCEPT !.fresh = f].fresh = f
    BY <2>3, RecordForms
  <2>5. Turn([q EXCEPT !.fresh = f], f)
    BY <1>2, <2>4
  <2> QED
    BY <2>1, <2>2, <2>5 DEF Turn, q
<1>8. do' = [do EXCEPT ![a].prog = p, ![a].thread = n, ![a].fresh = f] => Turned(a, f)
  <2> HAVE do' = [do EXCEPT ![a].prog = p, ![a].thread = n, ![a].fresh = f]
  <2>1. do' = [do EXCEPT ![a] = [r EXCEPT !.prog = p, !.thread = n, !.fresh = f]]
    BY <1>1
  <2>2. [r EXCEPT !.prog = p, !.thread = n, !.fresh = f] = [[[r EXCEPT !.prog = p] EXCEPT !.thread = n] EXCEPT !.fresh = f]
    BY FieldByField
  <2> DEFINE q == [[r EXCEPT !.prog = p] EXCEPT !.thread = n]
  <2>3. IsRecord(q)
    BY <1>1, RecordForms
  <2> HIDE DEF q
  <2>4. IsRecord([q EXCEPT !.fresh = f]) /\ [q EXCEPT !.fresh = f].fresh = f
    BY <2>3, RecordForms
  <2>5. Turn([q EXCEPT !.fresh = f], f)
    BY <1>2, <2>4
  <2> QED
    BY <2>1, <2>2, <2>5 DEF Turn, q
<1> QED
  BY <1>3, <1>4, <1>5, <1>6, <1>7, <1>8

------------------------------------------------------------------------------
(* Steps of the routing.                                                      *)

RoutingInv ==
    /\ ActorShape /\ ReplyShape /\ MadeShape
    /\ TopicsAreMade /\ FreshIsMade /\ QuickReplyIsCurrent
Kept == RoutingInv' /\ MadeKept

LEMMA RepliesStay ==
    ASSUME ReplyShape, QuickReplyIsCurrent, UNCHANGED <<cache, spoke>>
    PROVE  ReplyShape' /\ QuickReplyIsCurrent'
  BY DEF ReplyShape, QuickReplyIsCurrent

(* A statement that makes no topic, and at most removes rows of topics.       *)
LEMMA RemovalKeeps ==
    ASSUME RoutingInv, NEW a \in Actors, NEW f, Turned(a, f), f = do[a].fresh \/ f = NoFresh,
           UNCHANGED made, topics' \subseteq topics, ReplyShape', QuickReplyIsCurrent'
    PROVE  Kept
<1>1. MadeShape' /\ MadeKept
  BY NoMore DEF RoutingInv
<1>2. TopicsAreMade'
  BY <1>1, TopicsStayMade DEF RoutingInv
<1>3. FreshIsMade'
  BY <1>1, FreshStaysMade DEF RoutingInv
<1> QED
  BY <1>1, <1>2, <1>3 DEF RoutingInv, Kept, Turned

(* Statements of commands that take rows, or only go on.                      *)
Removes(a) ==
    UnlinkChat(a) \/ Cut(a) \/ UnlinkSlave(a) \/ Forget(a) \/ DropTopics(a) \/ MigrateLinks(a)

LEMMA UnlinkStep ==
    ASSUME RoutingInv, NEW a \in Actors, Removes(a) \/ ClearTopic(a)
    PROVE  Kept
<1>1. Turned(a, do[a].fresh)
  <2>1. PICK p : do' = [do EXCEPT ![a].prog = p]
    BY DEF Removes, UnlinkChat, Cut, UnlinkSlave, Forget, DropTopics, MigrateLinks, ClearTopic, Done, Then
  <2> QED
    BY <2>1, ActorForms DEF RoutingInv
<1>2. topics' \subseteq topics /\ UNCHANGED <<made, cache, spoke>>
  BY DEF Removes, UnlinkChat, Cut, UnlinkSlave, Forget, DropTopics, MigrateLinks, ClearTopic, ghosts
<1> QED
  BY <1>1, <1>2, RemovalKeeps, RepliesStay DEF RoutingInv

LEMMA InsertStep ==
    ASSUME RoutingInv, NEW a \in Actors, Insert(a)
    PROVE  Kept
<1>1. Turned(a, do[a].fresh)
  BY ActorForms DEF RoutingInv, Insert, Done, Then
<1> QED
  BY <1>1, RemovalKeeps, RepliesStay DEF RoutingInv, Insert, ghosts

LEMMA CreateStep ==
    ASSUME RoutingInv, NEW a \in Actors, Create(a)
    PROVE  Kept
<1>1. Turned(a, do[a].fresh)
  BY ActorForms DEF RoutingInv, Create, Got, Then
<1> QED
  BY <1>1, RemovalKeeps, RepliesStay DEF RoutingInv, Create, ghosts

LEMMA CreateLockedStep ==
    ASSUME RoutingInv, NEW a \in Actors, CreateLocked(a)
    PROVE  Kept
<1> DEFINE s == Now(a).slave
           c == Now(a).chat
           n == Len(made) + 1
           Makes == made' = Append(made, [chat |-> c, slave |-> s])
<1>1. topics' = topics /\ UNCHANGED <<cache, spoke>>
  BY DEF CreateLocked
<1>2. CASE UNCHANGED made /\ (Got(a, TopicOf(s, c)) \/ Done(a))
  <2>1. Turned(a, do[a].fresh)
    BY <1>2, ActorForms DEF RoutingInv, Got, Done, Then
  <2> QED
    BY <1>1, <1>2, <2>1, RemovalKeeps, RepliesStay DEF RoutingInv
<1>3. CASE Makes /\ (Done(a) \/ do' = [do EXCEPT ![a].fresh = Fresh(c, s, n)])
  <2>1. MadeShape' /\ MadeKept /\ n \in DOMAIN made' /\ made'[n] = [chat |-> c, slave |-> s]
    BY <1>3, OneMore DEF RoutingInv
  <2>2. TopicsAreMade'
    BY <1>1, <2>1, TopicsStayMade DEF RoutingInv
  <2>3. CASE Done(a)
    <3>1. Turned(a, do[a].fresh)
      BY <2>3, ActorForms DEF RoutingInv, Done, Then
    <3> QED
      BY <1>1, <2>1, <2>2, <3>1, FreshStaysMade, RepliesStay DEF RoutingInv, Kept, Turned
  <2>4. CASE do' = [do EXCEPT ![a].fresh = Fresh(c, s, n)]
    <3>1. PICK f : f = Fresh(c, s, n)
      OBVIOUS
    <3>2. Turned(a, f)
      BY <2>4, <3>1, ActorForms DEF RoutingInv
    <3>3. f.thread = n /\ f.chat = c /\ f.slave = s
      BY <3>1 DEF Fresh
    <3>4. MadeFor(f.thread, f.chat, f.slave)'
      BY <2>1, <3>3 DEF MadeFor
    <3> QED
      BY <1>1, <2>1, <2>2, <3>2, <3>4, FreshStaysMade, RepliesStay DEF RoutingInv, Kept, Turned
  <2> QED
    BY <1>3, <2>3, <2>4
<1> QED
  BY <1>2, <1>3 DEF CreateLocked

(* The row that is written for a topic in hand.                               *)
LEMMA RowIsMade ==
    ASSUME RoutingInv, MadeKept, NEW a \in Actors, do[a].fresh # NoFresh,
           \A t \in topics' : \/ t \in topics
                               \/ t = [chat |-> do[a].fresh.chat, thread |-> do[a].fresh.thread,
                                       slave |-> do[a].fresh.slave]
    PROVE  TopicsAreMade'
<1>1. PICK q : q = do[a].fresh
  OBVIOUS
<1>2. MadeFor(q.thread, q.chat, q.slave)'
  BY <1>1, StaysMade DEF RoutingInv, FreshIsMade
<1>3. SUFFICES ASSUME NEW t \in topics' PROVE t \in topics \/ MadeFor(t.thread, t.chat, t.slave)'
  BY TopicsStayMade DEF RoutingInv
<1>4. CASE t = [chat |-> q.chat, thread |-> q.thread, slave |-> q.slave]
  <2>1. t.thread = q.thread /\ t.chat = q.chat /\ t.slave = q.slave
    BY <1>4
  <2> QED
    BY <1>2, <2>1
<1> QED
  BY <1>1, <1>3, <1>4

LEMMA AddStep ==
    ASSUME RoutingInv, NEW a \in Actors, Add(a) \/ Bind(a)
    PROVE  Kept
<1>1. Turned(a, NoFresh)
  BY ActorForms DEF RoutingInv, Add, Bind, Keep
<1>2. UNCHANGED <<made, cache, spoke>> /\ do[a].fresh # NoFresh
  BY DEF Add, Bind, ghosts
<1>3. MadeShape' /\ MadeKept
  BY <1>2, NoMore DEF RoutingInv
<1>4. TopicsAreMade'
  <2>1. \A t \in topics' : \/ t \in topics
                            \/ t = [chat |-> do[a].fresh.chat, thread |-> do[a].fresh.thread,
                                    slave |-> do[a].fresh.slave]
    BY DEF Add, Bind, WithTopic
  <2> QED
    BY <1>2, <1>3, <2>1, RowIsMade
<1>5. FreshIsMade'
  BY <1>1, <1>3, FreshStaysMade DEF RoutingInv
<1> QED
  BY <1>1, <1>2, <1>3, <1>4, <1>5, RepliesStay DEF RoutingInv, Kept, Turned

(* A topic that is not stored, or not bound, is left.                         *)
LEMMA LeaveStep ==
    ASSUME RoutingInv, NEW a \in Actors, StoreFails(a) \/ BindFails(a)
    PROVE  Kept
<1>1. Turned(a, NoFresh)
  BY ActorForms DEF RoutingInv, StoreFails, BindFails, Keep
<1>2. topics' \subseteq topics /\ UNCHANGED <<made, cache, spoke>>
  BY DEF StoreFails, BindFails
<1> QED
  BY <1>1, <1>2, RemovalKeeps, RepliesStay DEF RoutingInv

LEMMA RelinkTopicStep ==
    ASSUME RoutingInv, NEW a \in Actors, RelinkTopic(a)
    PROVE  Kept
<1> DEFINE s == Now(a).slave
           c == Now(a).chat
           n == Len(made) + 1
           Skips == do' = [do EXCEPT ![a].prog = Tail(Rest(a))]
           Makes == do' = [do EXCEPT ![a].prog = Rest(a), ![a].fresh = Fresh(c, s, n)]
<1>1. topics' = topics /\ UNCHANGED <<cache, spoke>>
  BY DEF RelinkTopic
<1>2. CASE UNCHANGED made /\ Skips
  <2>1. Turned(a, do[a].fresh)
    BY <1>2, ActorForms DEF RoutingInv
  <2> QED
    BY <1>1, <1>2, <2>1, RemovalKeeps, RepliesStay DEF RoutingInv
<1>3. CASE made' = Append(made, [chat |-> c, slave |-> s]) /\ (Skips \/ Makes)
  <2>1. MadeShape' /\ MadeKept /\ n \in DOMAIN made' /\ made'[n] = [chat |-> c, slave |-> s]
    BY <1>3, OneMore DEF RoutingInv
  <2>2. TopicsAreMade'
    BY <1>1, <2>1, TopicsStayMade DEF RoutingInv
  <2>3. CASE Skips
    <3>1. Turned(a, do[a].fresh)
      BY <2>3, ActorForms DEF RoutingInv
    <3> QED
      BY <1>1, <2>1, <2>2, <3>1, FreshStaysMade, RepliesStay DEF RoutingInv, Kept, Turned
  <2>4. CASE Makes
    <3>1. PICK f : f = Fresh(c, s, n)
      OBVIOUS
    <3>2. Turned(a, f)
      BY <2>4, <3>1, ActorForms DEF RoutingInv
    <3>3. f.thread = n /\ f.chat = c /\ f.slave = s
      BY <3>1 DEF Fresh
    <3>4. MadeFor(f.thread, f.chat, f.slave)'
      BY <2>1, <3>3 DEF MadeFor
    <3> QED
      BY <1>1, <2>1, <2>2, <3>2, <3>4, FreshStaysMade, RepliesStay DEF RoutingInv, Kept, Turned
  <2> QED
    BY <1>3, <2>3, <2>4
<1> QED
  BY <1>2, <1>3 DEF RelinkTopic, Then

------------------------------------------------------------------------------
(* Messages of slaves.                                                        *)

(* The record of an actor with nothing to do.                                 *)
LEMMA IdleRecord == IsRecord(Idle) /\ Idle.fresh = NoFresh
<1>1. PICK r : r = Idle
  OBVIOUS
<1>2. IsRecord(r) /\ r.fresh = NoFresh
  BY <1>1 DEF Idle, IsRecord
<1> QED
  BY <1>1, <1>2

LEMMA ArriveStep ==
    ASSUME RoutingInv, NEW a \in Actors, Arrive(a)
    PROVE  Kept
<1>1. PICK i, x, y, z : /\ i = Idle /\ x = "message" /\ y = {Head(heard)}
                        /\ z = <<Step("find", None, Head(heard), NoTopic)>>
  OBVIOUS
<1> DEFINE q == [i EXCEPT !.op = x]
           r == [q EXCEPT !.slaves = y]
<1>2. do' = [do EXCEPT ![a] = [r EXCEPT !.prog = z]]
  BY <1>1 DEF Arrive
<1>3. IsRecord(q) /\ q.fresh = NoFresh
  <2>1. IsRecord(i) /\ i.fresh = NoFresh
    BY <1>1, IdleRecord
  <2> QED
    BY <2>1, RecordForms
<1> HIDE DEF q
<1>4. IsRecord(r) /\ r.fresh = NoFresh
  BY <1>3, RecordForms
<1> HIDE DEF r
<1>5. IsRecord([r EXCEPT !.prog = z]) /\ [r EXCEPT !.prog = z].fresh = NoFresh
  BY <1>4, RecordForms
<1>6. Turned(a, NoFresh)
  BY <1>2, <1>5, ActorTurns DEF RoutingInv
<1> QED
  BY <1>6, RemovalKeeps, RepliesStay DEF RoutingInv, Arrive, ghosts

LEMMA FindStep ==
    ASSUME RoutingInv, NEW a \in Actors, Find(a)
    PROVE  Kept
<1>1. Turned(a, do[a].fresh)
  BY ActorForms DEF RoutingInv, Find
<1> QED
  BY <1>1, RemovalKeeps, RepliesStay DEF RoutingInv, Find, ghosts

(* Who is heard in a chat ends the quick replies to everyone else there.      *)
LEMMA SettleStep ==
    ASSUME RoutingInv, NEW a \in Actors, Settle(a)
    PROVE  Kept
<1> DEFINE s == Now(a).slave
           c == Now(a).chat
<1>1. Turned(a, do[a].fresh)
  BY ActorForms DEF RoutingInv, Settle, Then
<1>2. /\ cache' = [cache EXCEPT ![c] = IF cache[c] = s THEN cache[c] ELSE None]
      /\ spoke' = [spoke EXCEPT ![c] = @ \cup {s}]
      /\ UNCHANGED <<made, topics>>
  BY DEF Settle, CacheAfter
<1>3. DOMAIN cache = Chats /\ DOMAIN spoke = Chats
  BY DEF RoutingInv, ReplyShape
<1>4. ReplyShape'
  BY <1>2, <1>3 DEF ReplyShape
<1>5. \A g \in Chats : cache'[g] # None => spoke'[g] \subseteq {cache'[g]}
  <2> TAKE g \in Chats
  <2>1. CASE g # c
    BY <1>2, <1>3, <2>1 DEF RoutingInv, QuickReplyIsCurrent
  <2>2. CASE g = c
    BY <1>2, <1>3, <2>2 DEF RoutingInv, QuickReplyIsCurrent
  <2> QED
    BY <2>1, <2>2
<1>6. QuickReplyIsCurrent'
  BY <1>5 DEF QuickReplyIsCurrent
<1> QED
  BY <1>1, <1>2, <1>4, <1>6, RemovalKeeps

LEMMA DeliverStep ==
    ASSUME RoutingInv, NEW a \in Actors, Deliver(a)
    PROVE  Kept
<1>1. Turned(a, NoFresh)
  BY IdleRecord, ActorTurns DEF RoutingInv, Deliver
<1>2. topics' \subseteq topics /\ UNCHANGED <<made, cache, spoke>>
  BY DEF Deliver
<1> QED
  BY <1>1, <1>2, RemovalKeeps, RepliesStay DEF RoutingInv

------------------------------------------------------------------------------
(* Commands begin, and replies expire.                                        *)

LEMMA BeginStep ==
    ASSUME RoutingInv, NEW a \in Actors, Begin(a)
    PROVE  Kept
<1> DEFINE q == Head(todo[a])
           r == [op |-> q.op, slaves |-> Touches(q), from |-> q.from, to |-> q.to, dest |-> None,
                 thread |-> NoTopic, fresh |-> NoFresh, prog |-> Program(a, q)]
<1>1. do' = [do EXCEPT ![a] = r]
  BY DEF Begin
<1>2. IsRecord(r) /\ r.fresh = NoFresh
  BY DEF IsRecord
<1> HIDE DEF r
<1>3. Turned(a, NoFresh)
  BY <1>1, <1>2, ActorTurns DEF RoutingInv
<1> QED
  BY <1>3, RemovalKeeps, RepliesStay DEF RoutingInv, Begin

LEMMA NothingTurns ==
    ASSUME RoutingInv, UNCHANGED <<do, made, topics>>, ReplyShape', QuickReplyIsCurrent'
    PROVE  Kept
<1>1. MadeShape' /\ MadeKept
  BY NoMore DEF RoutingInv
<1>2. ActorShape' /\ TopicsAreMade' /\ FreshIsMade'
  BY DEF RoutingInv, ActorShape, TopicsAreMade, FreshIsMade, MadeFor
<1> QED
  BY <1>1, <1>2 DEF RoutingInv, Kept

LEMMA ExpireStep ==
    ASSUME RoutingInv, NEW c \in Chats, Expire(c)
    PROVE  Kept
<1>1. ReplyShape' /\ QuickReplyIsCurrent'
  BY DEF RoutingInv, Expire, ghosts, ReplyShape, QuickReplyIsCurrent
<1> QED
  BY <1>1, NothingTurns DEF Expire

(* Every step of commands, threads and replies.                               *)
LEMMA RoutingSteps == ASSUME RoutingInv, RoutingStep PROVE Kept
<1>1. ASSUME NEW a \in Actors, Statement(a) PROVE Kept
  BY <1>1, UnlinkStep, InsertStep, CreateStep, CreateLockedStep, AddStep, LeaveStep, RelinkTopicStep,
     FindStep, SettleStep, DeliverStep DEF Statement, Removes
<1>2. ASSUME NEW a \in {Handler, Sender}, Begin(a) PROVE Kept
  BY <1>2, BeginStep DEF Actors
<1>3. ASSUME NEW a \in {Handler, Sender}, BeginNothing(a) PROVE Kept
  BY <1>3, NothingTurns, RepliesStay DEF RoutingInv, BeginNothing, ghosts
<1>4. ASSUME NEW a \in Threads, Arrive(a) PROVE Kept
  BY <1>4, ArriveStep DEF Actors
<1>5. ASSUME NEW c \in Chats, Expire(c) PROVE Kept
  BY <1>5, ExpireStep
<1> QED
  BY <1>1, <1>2, <1>3, <1>4, <1>5 DEF RoutingStep

------------------------------------------------------------------------------
(* Updates.                                                                   *)

IsUpdate(r) == r = [st |-> r.st, chat |-> r.chat, thread |-> r.thread, kind |-> r.kind, about |-> r.about,
                    route |-> r.route, to |-> r.to, routable |-> r.routable]

LEMMA UpdateTypes ==
    ASSUME UpdateShape
    PROVE  upd = [u \in Updates |-> upd[u]] /\ DOMAIN upd = Updates /\ \A u \in Updates : IsUpdate(upd[u])
<1> DEFINE F(u) == [st |-> upd[u].st, chat |-> upd[u].chat, thread |-> upd[u].thread, kind |-> upd[u].kind,
                    about |-> upd[u].about, route |-> upd[u].route, to |-> upd[u].to,
                    routable |-> upd[u].routable]
<1>1. upd = [u \in Updates |-> F(u)]
  BY DEF UpdateShape
<1> HIDE DEF F
<1>2. DOMAIN upd = Updates /\ \A u \in Updates : upd[u] = F(u)
  BY <1>1
<1> QED
  BY <1>1, <1>2 DEF F, IsUpdate

LEMMA TypesUpdate ==
    ASSUME upd' = [u \in Updates |-> upd'[u]], \A u \in Updates : IsUpdate(upd'[u])
    PROVE  UpdateShape'
<1> DEFINE F(u) == [st |-> upd'[u].st, chat |-> upd'[u].chat, thread |-> upd'[u].thread,
                    kind |-> upd'[u].kind, about |-> upd'[u].about, route |-> upd'[u].route,
                    to |-> upd'[u].to, routable |-> upd'[u].routable]
<1>1. \A u \in Updates : upd'[u] = F(u)
  BY DEF IsUpdate
<1> HIDE DEF F
<1>2. upd' = [u \in Updates |-> F(u)]
  BY <1>1
<1> QED
  BY <1>2 DEF F, UpdateShape

(* What became of an update is noted, and nothing else of it changes.         *)
Noted(u, st, to) ==
    /\ UpdateShape' /\ \A v \in Updates \ {u} : upd'[v] = upd[v]
    /\ upd'[u].st = st /\ upd'[u].to = to
    /\ upd'[u].kind = upd[u].kind /\ upd'[u].thread = upd[u].thread
    /\ upd'[u].route = upd[u].route /\ upd'[u].routable = upd[u].routable

LEMMA NoteForms ==
    ASSUME UpdateShape, NEW u \in Updates, NEW st, NEW to
    PROVE  /\ upd' = [upd EXCEPT ![u].st = st] => Noted(u, st, upd[u].to)
           /\ upd' = [upd EXCEPT ![u].st = st, ![u].to = to] => Noted(u, st, to)
<1>1. PICK x1, x2, x3, x4, x5, x6, x7, x8 :
         upd[u] = [st |-> x1, chat |-> x2, thread |-> x3, kind |-> x4, about |-> x5, route |-> x6, to |-> x7,
                   routable |-> x8]
  BY UpdateTypes DEF IsUpdate
<1>2. DOMAIN upd = Updates /\ upd = [v \in Updates |-> upd[v]] /\ \A v \in Updates : IsUpdate(upd[v])
  BY UpdateTypes
<1> DEFINE R(y) == [st |-> st, chat |-> x2, thread |-> x3, kind |-> x4, about |-> x5, route |-> x6,
                    to |-> y, routable |-> x8]
<1>3. ASSUME NEW y, upd' = [upd EXCEPT ![u] = R(y)] PROVE Noted(u, st, y)
  <2>1. upd' = [v \in Updates |-> upd'[v]] /\ upd'[u] = R(y) /\ \A v \in Updates \ {u} : upd'[v] = upd[v]
    BY <1>2, <1>3
  <2>2. IsUpdate(R(y))
    BY DEF IsUpdate
  <2>3. UpdateShape'
    <3> HIDE DEF R
    <3> QED
      BY <1>2, <2>1, <2>2, TypesUpdate
  <2> QED
    BY <1>1, <2>1, <2>3 DEF Noted
<1>4. upd' = [upd EXCEPT ![u].st = st] => Noted(u, st, upd[u].to)
  <2> HAVE upd' = [upd EXCEPT ![u].st = st]
  <2>1. upd' = [upd EXCEPT ![u] = [upd[u] EXCEPT !.st = st]]
    BY <1>2
  <2>2. [upd[u] EXCEPT !.st = st] = R(x7)
    BY <1>1
  <2> QED
    BY <1>1, <1>3, <2>1, <2>2
<1>5. upd' = [upd EXCEPT ![u].st = st, ![u].to = to] => Noted(u, st, to)
  <2> HAVE upd' = [upd EXCEPT ![u].st = st, ![u].to = to]
  <2>1. upd' = [upd EXCEPT ![u] = [upd[u] EXCEPT !.st = st, !.to = to]]
    BY <1>2
  <2>2. PICK r : r = upd[u]
    OBVIOUS
  <2>3. [r EXCEPT !.st = st, !.to = to] = [[r EXCEPT !.st = st] EXCEPT !.to = to]
    OBVIOUS
  <2>4. [r EXCEPT !.st = st] = R(x7)
    BY <1>1, <2>2
  <2>5. [R(x7) EXCEPT !.to = to] = R(to)
    OBVIOUS
  <2> QED
    BY <1>3, <2>1, <2>2, <2>3, <2>4, <2>5
<1> QED
  BY <1>4, <1>5

------------------------------------------------------------------------------
(* The worker and its queue.                                                  *)

LEMMA WorkerForms ==
    ASSUME WorkerShape, NEW x, NEW y, NEW u
    PROVE  /\ worker' = [worker EXCEPT !.at = x]
                => WorkerShape' /\ worker'.at = x /\ worker'.u = worker.u /\ worker'.to = worker.to
           /\ worker' = [worker EXCEPT !.at = x, !.to = y]
                => WorkerShape' /\ worker'.at = x /\ worker'.u = worker.u /\ worker'.to = y
           /\ worker' = [worker EXCEPT !.at = x, !.chats = y]
                => WorkerShape' /\ worker'.at = x /\ worker'.u = worker.u /\ worker'.to = worker.to
           /\ worker' = [Resting EXCEPT !.at = x, !.u = u]
                => WorkerShape' /\ worker'.at = x /\ worker'.u = u
           /\ worker' = Resting => WorkerShape' /\ worker'.at = "idle"
<1>1. PICK x1, x2, x3, x4 : worker = [at |-> x1, u |-> x2, chats |-> x3, to |-> x4]
  BY DEF WorkerShape
<1>2. worker' = [worker EXCEPT !.at = x]
        => worker' = [at |-> x, u |-> x2, chats |-> x3, to |-> x4]
  BY <1>1
<1>3. worker' = [worker EXCEPT !.at = x, !.to = y]
        => worker' = [at |-> x, u |-> x2, chats |-> x3, to |-> y]
  BY <1>1
<1>4. worker' = [worker EXCEPT !.at = x, !.chats = y]
        => worker' = [at |-> x, u |-> x2, chats |-> y, to |-> x4]
  BY <1>1
<1>5. worker' = [Resting EXCEPT !.at = x, !.u = u]
        => worker' = [at |-> x, u |-> u, chats |-> <<>>, to |-> None]
  BY DEF Resting
<1> QED
  BY <1>1, <1>2, <1>3, <1>4, <1>5 DEF WorkerShape, Resting

(* What is in the queue was received, and is never taken back.                *)
QueueInv == queue \in Seq(Updates \cup {Token}) /\ QueuedOnce
StayReceived == \A v \in Updates : upd[v].st # "absent" => upd'[v].st # "absent"

(* A queue that loses its head, or nothing.                                   *)
LEMMA QueueKeeps ==
    ASSUME QueueInv, StayReceived, queue' = queue \/ (queue # <<>> /\ queue' = Tail(queue))
    PROVE  QueueInv'
<1> DEFINE S == Updates \cup {Token}
<1>1. CASE queue' = queue
  <2>1. \A i \in DOMAIN queue : queue[i] \in S
    BY ElementOfSeq, LenProperties DEF QueueInv
  <2> QED
    BY <1>1, <2>1 DEF QueueInv, QueuedOnce, StayReceived
<1>2. CASE queue # <<>> /\ queue' = Tail(queue)
  <2>1. /\ queue' \in Seq(S) /\ Len(queue') = Len(queue) - 1
        /\ \A i \in 1 .. Len(queue') : queue'[i] = queue[i + 1]
    BY <1>2, HeadTailProperties DEF QueueInv
  <2>2. /\ DOMAIN queue = 1 .. Len(queue) /\ DOMAIN queue' = 1 .. Len(queue')
        /\ Len(queue) \in Nat /\ Len(queue') \in Nat
    BY <2>1, LenProperties DEF QueueInv
  <2>3. ASSUME NEW i \in DOMAIN queue', queue'[i] # Token PROVE upd'[queue'[i]].st # "absent"
    <3>1. i + 1 \in DOMAIN queue /\ queue'[i] = queue[i + 1]
      <4>1. i \in 1 .. Len(queue')
        BY <2>2, <2>3
      <4>2. PICK n \in Nat : n = Len(queue)
        BY <2>2
      <4>3. \A k \in 1 .. n - 1 : k + 1 \in 1 .. n
        OBVIOUS
      <4> QED
        BY <2>1, <2>2, <4>1, <4>2, <4>3
    <3>2. queue[i + 1] \in S
      BY <2>2, <3>1, ElementOfSeq DEF QueueInv
    <3> QED
      BY <2>3, <3>1, <3>2 DEF QueueInv, QueuedOnce, StayReceived
  <2> QED
    BY <2>1, <2>3 DEF QueueInv, QueuedOnce
<1> QED
  BY <1>1, <1>2

(* The head of the queue is an update that was received.                      *)
LEMMA HeadReceived ==
    ASSUME QueueInv, queue # <<>>, Head(queue) # Token
    PROVE  Head(queue) \in Updates /\ upd[Head(queue)].st # "absent"
<1>1. Head(queue) = queue[1] /\ 1 \in DOMAIN queue
  BY LenProperties DEF QueueInv
<1>2. Head(queue) \in Updates \cup {Token}
  BY HeadTailProperties DEF QueueInv
<1> QED
  BY <1>1, <1>2 DEF QueueInv, QueuedOnce

LEMMA QueueGrows ==
    ASSUME QueueInv, StayReceived, NEW x \in Updates \cup {Token},
           x # Token => upd'[x].st # "absent", queue' = Append(queue, x)
    PROVE  QueueInv'
<1> DEFINE S == Updates \cup {Token}
<1>1. /\ queue' \in Seq(S) /\ Len(queue') = Len(queue) + 1
      /\ \A i \in 1 .. Len(queue) : queue'[i] = queue[i]
      /\ queue'[Len(queue) + 1] = x
  BY AppendProperties DEF QueueInv
<1>2. /\ DOMAIN queue = 1 .. Len(queue) /\ DOMAIN queue' = 1 .. Len(queue) + 1
      /\ Len(queue) \in Nat
  BY <1>1, LenProperties DEF QueueInv
<1>3. ASSUME NEW i \in DOMAIN queue', queue'[i] # Token PROVE upd'[queue'[i]].st # "absent"
  <2>1. CASE i \in DOMAIN queue
    <3>1. queue[i] \in S /\ queue'[i] = queue[i]
      BY <1>1, <1>2, <2>1, ElementOfSeq DEF QueueInv
    <3> QED
      BY <1>3, <2>1, <3>1 DEF QueueInv, QueuedOnce, StayReceived
  <2>2. CASE i = Len(queue) + 1
    BY <1>1, <1>3, <2>2
  <2> QED
    BY <1>2, <2>1, <2>2
<1> QED
  BY <1>1, <1>3 DEF QueueInv, QueuedOnce

------------------------------------------------------------------------------
(* Steps of the user, the worker and the stop.                                *)

(* What MInv says of the updates, and what it says of the way to them.        *)
UpdatesInv ==
    /\ UpdateShape /\ RouteIsOwner /\ RouteIsKept
    /\ \A u \in Updates : upd[u].st \in {"absent", "queued", "handled", "asked", "drained"}
WorkInv ==
    /\ WorkerShape /\ WorkerFollowsRoute
    /\ worker.at \in {"idle", "links", "ideal", "topics", "choose", "hand", "ended", "dead"}
StopInv == stop \in {"no", "drain", "token", "done"}

LEMMA PartsOfMInv ==
    /\ MInv <=> RoutingInv /\ UpdatesInv /\ WorkInv /\ QueueInv /\ StopInv
    /\ RoutingInv' /\ UpdatesInv' /\ WorkInv' /\ QueueInv' /\ StopInv' => MInv'
  BY DEF MInv, RoutingInv, UpdatesInv, WorkInv, QueueInv, StopInv, TypeOK, Shapes

LEMMA NoteKeeps ==
    ASSUME UpdatesInv, MadeKept, NEW u \in Updates, NEW st \in {"handled", "asked", "drained"}, NEW to,
           Noted(u, st, to),
           Routed(u) => st # "asked" /\ (to = None \/ to = upd[u].route[1])
    PROVE  UpdatesInv' /\ StayReceived
<1>1. \A v \in Updates : /\ upd'[v].kind = upd[v].kind /\ upd'[v].thread = upd[v].thread
                         /\ upd'[v].route = upd[v].route /\ upd'[v].routable = upd[v].routable
  BY DEF Noted
<1>2. RouteIsOwner'
  BY <1>1 DEF UpdatesInv, RouteIsOwner, MadeKept
<1>3. RouteIsKept'
  <2> SUFFICES ASSUME NEW v \in Updates, Routed(v)'
               PROVE  (upd'[v].to # None => upd'[v].to = upd'[v].route[1]) /\ upd'[v].st # "asked"
    BY DEF RouteIsKept
  <2>1. Routed(v)
    BY <1>1 DEF Routed
  <2>2. CASE v = u
    BY <1>1, <2>1, <2>2 DEF Noted
  <2>3. CASE v # u
    BY <1>1, <2>1, <2>3 DEF Noted, UpdatesInv, RouteIsKept
  <2> QED
    BY <2>2, <2>3
<1>4. \A v \in Updates : upd'[v].st \in {"absent", "queued", "handled", "asked", "drained"}
  BY DEF UpdatesInv, Noted
<1>5. StayReceived
  BY DEF Noted, StayReceived
<1> QED
  BY <1>2, <1>3, <1>4, <1>5 DEF UpdatesInv, Noted

LEMMA UpdatesStay ==
    ASSUME UpdatesInv, MadeKept, UNCHANGED upd
    PROVE  UpdatesInv' /\ StayReceived
  BY DEF UpdatesInv, UpdateShape, RouteIsOwner, RouteIsKept, Routed, MadeKept, StayReceived

(* The worker keeps its update while another one is noted.                    *)
LEMMA WorkerStays ==
    ASSUME WorkInv, UNCHANGED worker, StayReceived,
           worker.u \in Updates /\ upd[worker.u].st # "absent" =>
               /\ upd'[worker.u].kind = upd[worker.u].kind
               /\ upd'[worker.u].route = upd[worker.u].route
               /\ upd'[worker.u].routable = upd[worker.u].routable
    PROVE  WorkInv'
<1>1. WorkerShape' /\ worker'.at = worker.at /\ worker'.u = worker.u /\ worker'.to = worker.to
  BY DEF WorkInv, WorkerShape
<1>2. WorkerFollowsRoute'
  BY <1>1 DEF WorkInv, WorkerFollowsRoute, Looking, Of, Routed, StayReceived
<1> QED
  BY <1>1, <1>2 DEF WorkInv

LEMMA RoutingStays ==
    ASSUME RoutingInv, UNCHANGED routing
    PROVE  RoutingInv' /\ MadeKept
  BY NothingTurns, RepliesStay DEF RoutingInv, routing, ghosts, Kept

LEMMA RoutingKeepsMaster ==
    ASSUME MInv, Kept, UNCHANGED master
    PROVE  MInv'
<1>1. UpdatesInv' /\ StayReceived
  BY PartsOfMInv, UpdatesStay DEF Kept, master
<1>2. WorkInv'
  BY <1>1, PartsOfMInv, WorkerStays DEF master
<1>3. QueueInv'
  <2>1. queue' = queue /\ QueueInv
    BY PartsOfMInv DEF master
  <2> QED
    BY <1>1, <2>1, QueueKeeps
<1> QED
  BY <1>1, <1>2, <1>3, PartsOfMInv DEF Kept, StopInv, master

(* The worker is done with its update, and rests.                             *)
LEMMA FinishKeeps ==
    ASSUME UpdatesInv, WorkInv, MadeKept, worker.at \in Looking \cup {"links", "hand"},
           NEW st \in {"handled", "asked"}, NEW to, Finish(worker.u, st, to),
           Routed(worker.u) => st # "asked" /\ (to = None \/ to = Of.route[1])
    PROVE  UpdatesInv' /\ StayReceived /\ WorkInv'
<1>1. PICK u \in Updates : u = worker.u
  BY DEF WorkInv, WorkerFollowsRoute
<1>2. Noted(u, st, to)
  BY <1>1, NoteForms DEF Finish, UpdatesInv
<1>3. UpdatesInv' /\ StayReceived
  BY <1>1, <1>2, NoteKeeps DEF Of
<1>4. WorkerShape' /\ worker'.at = "idle"
  BY WorkerForms DEF Finish, WorkInv
<1>5. WorkerFollowsRoute'
  BY <1>4 DEF WorkerFollowsRoute, Looking
<1> QED
  BY <1>3, <1>4, <1>5 DEF WorkInv

(* It found a destination.                                                    *)
LEMMA GoToKeeps ==
    ASSUME UpdatesInv, WorkInv, MadeKept, worker.at \in Looking \cup {"links"}, NEW s, GoTo(s),
           Routed(worker.u) => s = Of.route[1]
    PROVE  UpdatesInv' /\ StayReceived /\ WorkInv'
<1>1. UpdatesInv' /\ StayReceived
  BY UpdatesStay DEF GoTo
<1>2. WorkerShape' /\ worker'.at = "hand" /\ worker'.u = worker.u /\ worker'.to = s
  BY WorkerForms DEF GoTo, WorkInv
<1>3. WorkerFollowsRoute'
  BY <1>2 DEF WorkInv, WorkerFollowsRoute, Looking, Of, Routed, GoTo
<1> QED
  BY <1>1, <1>2, <1>3 DEF WorkInv

(* It looks further, for an update without a route.                           *)
LEMMA GoOnKeeps ==
    ASSUME UpdatesInv, WorkInv, MadeKept, worker.at \in Looking \cup {"links"}, NEW at \in Looking,
           GoOn(at) \/ (worker' = [worker EXCEPT !.at = at] /\ UNCHANGED upd),
           ~Of.routable, Of.kind # "edit"
    PROVE  UpdatesInv' /\ StayReceived /\ WorkInv'
<1>1. UpdatesInv' /\ StayReceived
  BY UpdatesStay DEF GoOn
<1>2. WorkerShape' /\ worker'.at = at /\ worker'.u = worker.u
  <2>1. PICK y : y = LinksOf(Of.chat)
    OBVIOUS
  <2>2. worker' = [worker EXCEPT !.at = at, !.chats = y] \/ worker' = [worker EXCEPT !.at = at]
    BY <2>1 DEF GoOn
  <2> QED
    BY <2>2, WorkerForms DEF WorkInv
<1>3. WorkerFollowsRoute'
  BY <1>2 DEF WorkInv, WorkerFollowsRoute, Looking, Of, Routed, GoOn
<1>4. worker'.at \in {"idle", "links", "ideal", "topics", "choose", "hand", "ended", "dead"}
  BY <1>2 DEF Looking
<1> QED
  BY <1>1, <1>2, <1>3, <1>4 DEF WorkInv

(* What a step of the worker or of the user keeps, if nothing is routed       *)
(* meanwhile.                                                                 *)
LEMMA MasterKeeps ==
    ASSUME MInv, UNCHANGED <<routing, stop>>, UpdatesInv', WorkInv', QueueInv'
    PROVE  MInv'
  BY RoutingStays, PartsOfMInv DEF StopInv

LEMMA ReadLinksStep == ASSUME MInv, ReadLinks PROVE MInv'
<1> DEFINE Goal == UpdatesInv' /\ StayReceived /\ WorkInv'
<1>1. RoutingInv /\ UpdatesInv /\ WorkInv /\ QueueInv /\ MadeKept
  BY PartsOfMInv, RoutingStays DEF ReadLinks
<1>2. /\ worker.at \in Looking \cup {"links"} /\ worker.at \in Looking \cup {"links", "hand"}
      /\ worker.u \in Updates
  BY <1>1 DEF ReadLinks, WorkInv, WorkerFollowsRoute
<1>3. Of.routable <=> Of.route # NoRoute
  BY <1>1, <1>2 DEF UpdatesInv, RouteIsOwner, Of
<1>4. ASSUME Ignore PROVE Goal
  BY <1>1, <1>2, <1>4, FinishKeeps DEF Ignore
<1>5. ASSUME NEW s, GoTo(s), Routed(worker.u) => s = Of.route[1] PROVE Goal
  BY <1>1, <1>2, <1>5, GoToKeeps
<1>6. ASSUME NEW at \in Looking, GoOn(at), ~Of.routable, Of.kind # "edit" PROVE Goal
  BY <1>1, <1>2, <1>6, GoOnKeeps
<1>7. Routed(worker.u) <=> Of.routable /\ Of.kind # "edit"
  BY DEF Routed, Of
<1> HIDE DEF Goal
<1>8. ASSUME Of.kind = "edit" PROVE Goal
  <2>1. Ignore \/ GoTo(Of.about)
    BY <1>8 DEF ReadLinks
  <2> QED
    BY <1>4, <1>5, <1>7, <1>8, <2>1
<1>9. ASSUME Of.kind # "edit" /\ Of.route # NoRoute PROVE Goal
  <2>1. Ignore \/ GoTo(Of.route[1])
    BY <1>9 DEF ReadLinks
  <2> QED
    BY <1>4, <1>5, <2>1
<1>10. ASSUME Of.kind # "edit" /\ Of.route = NoRoute PROVE Goal
  <2>1. GoOn("ideal") \/ GoOn("topics") \/ GoOn("choose") \/ GoTo(LinksOf(Of.chat)[1].slave)
    BY <1>10 DEF ReadLinks
  <2>2. {"ideal", "topics", "choose"} = Looking
    BY DEF Looking
  <2> QED
    BY <1>3, <1>5, <1>6, <1>7, <1>10, <2>1, <2>2
<1> QED
  BY <1>1, <1>8, <1>9, <1>10, QueueKeeps, MasterKeeps DEF ReadLinks, Goal

LEMMA CheckTopicStep == ASSUME MInv, CheckTopic PROVE MInv'
<1> DEFINE s == worker.chats[1].slave
<1>1. RoutingInv /\ UpdatesInv /\ WorkInv /\ QueueInv /\ MadeKept
  BY PartsOfMInv, RoutingStays DEF CheckTopic
<1>2. /\ worker.at \in Looking \cup {"links"} /\ worker.at \in Looking \cup {"links", "hand"}
      /\ ~Routed(worker.u)
  BY <1>1 DEF CheckTopic, WorkInv, WorkerFollowsRoute, Looking, Routed, Of
<1>3. Ignore \/ GoTo(s)
  BY DEF CheckTopic
<1>4. UpdatesInv' /\ StayReceived /\ WorkInv'
  BY <1>1, <1>2, <1>3, FinishKeeps, GoToKeeps DEF Ignore
<1> QED
  BY <1>1, <1>4, QueueKeeps, MasterKeeps DEF CheckTopic

LEMMA ReadTopicsStep == ASSUME MInv, ReadTopics PROVE MInv'
<1> DEFINE s == OwnerOf(Of.chat, Of.thread)
           Goal == UpdatesInv' /\ StayReceived /\ WorkInv'
           Chooses == worker' = [worker EXCEPT !.at = "choose"] /\ UNCHANGED upd
<1>1. RoutingInv /\ UpdatesInv /\ WorkInv /\ QueueInv /\ MadeKept
  BY PartsOfMInv, RoutingStays DEF ReadTopics
<1>2. /\ worker.at \in Looking \cup {"links"} /\ worker.at \in Looking \cup {"links", "hand"}
      /\ ~Routed(worker.u) /\ ~Of.routable /\ Of.kind # "edit" /\ "choose" \in Looking
  BY <1>1 DEF ReadTopics, WorkInv, WorkerFollowsRoute, Looking, Routed, Of
<1>3. Ignore \/ GoTo(s) \/ Chooses
  BY DEF ReadTopics
<1>4. ASSUME Ignore PROVE Goal
  BY <1>1, <1>2, <1>4, FinishKeeps DEF Ignore
<1>5. ASSUME GoTo(s) PROVE Goal
  BY <1>1, <1>2, <1>5, GoToKeeps
<1>6. ASSUME Chooses PROVE Goal
  BY <1>1, <1>2, <1>6, GoOnKeeps
<1> QED
  BY <1>1, <1>3, <1>4, <1>5, <1>6, QueueKeeps, MasterKeeps DEF ReadTopics

LEMMA HandOverStep == ASSUME MInv, HandOver PROVE MInv'
<1>1. RoutingInv /\ UpdatesInv /\ WorkInv /\ QueueInv /\ MadeKept
  BY PartsOfMInv, RoutingStays DEF HandOver
<1>2. /\ worker.at \in Looking \cup {"links", "hand"}
      /\ Routed(worker.u) => worker.to = Of.route[1]
  BY <1>1 DEF HandOver, WorkInv, WorkerFollowsRoute
<1>3. Finish(worker.u, "handled", worker.to)
  BY DEF HandOver
<1>4. UpdatesInv' /\ StayReceived /\ WorkInv'
  BY <1>1, <1>2, <1>3, FinishKeeps
<1> QED
  BY <1>1, <1>4, QueueKeeps, MasterKeeps DEF HandOver

LEMMA TakeStep == ASSUME MInv, Take PROVE MInv'
<1>1. RoutingInv /\ UpdatesInv /\ WorkInv /\ QueueInv /\ MadeKept
  BY PartsOfMInv, RoutingStays DEF Take
<1>2. UpdatesInv' /\ StayReceived
  BY <1>1, UpdatesStay DEF Take
<1>3. QueueInv'
  BY <1>1, <1>2, QueueKeeps DEF Take
<1>4. WorkInv'
  <2>1. CASE Head(queue) = Token
    <3>1. WorkerShape' /\ worker'.at = "ended"
      BY <1>1, <2>1, WorkerForms DEF Take, WorkInv
    <3> QED
      BY <3>1 DEF WorkInv, WorkerFollowsRoute, Looking
  <2>2. CASE Head(queue) # Token
    <3>1. Head(queue) \in Updates /\ upd[Head(queue)].st # "absent"
      BY <1>1, <2>2, HeadReceived DEF Take
    <3>2. PICK u : u = Head(queue)
      OBVIOUS
    <3>3. WorkerShape' /\ worker'.at = "links" /\ worker'.u = u
      BY <1>1, <2>2, <3>2, WorkerForms DEF Take, WorkInv
    <3> QED
      BY <1>2, <3>1, <3>2, <3>3 DEF WorkInv, WorkerFollowsRoute, Looking, Of, StayReceived
  <2> QED
    BY <2>1, <2>2
<1> QED
  BY <1>2, <1>3, <1>4, MasterKeeps DEF Take

(* The user's reply makes its chat the one he talks to, and no one else was   *)
(* heard since.                                                               *)
LEMMA ChooseStep == ASSUME MInv, Choose PROVE MInv'
<1> DEFINE c == Of.chat
           s == IF Of.kind = "reply" THEN Of.about ELSE cache[c]
<1>1. RoutingInv /\ UpdatesInv /\ WorkInv /\ QueueInv /\ StopInv
  BY PartsOfMInv
<1>2. UNCHANGED <<do, made, topics, queue, stop>>
  BY DEF Choose
<1>3. ReplyShape' /\ QuickReplyIsCurrent'
  <2>1. CASE UNCHANGED <<cache, spoke>>
    BY <1>1, <2>1, RepliesStay DEF RoutingInv
  <2>2. CASE /\ cache' = [cache EXCEPT ![c] = s]
             /\ spoke' = IF cache[c] = s THEN spoke ELSE [spoke EXCEPT ![c] = {}]
    <3>1. DOMAIN cache = Chats /\ DOMAIN spoke = Chats
      BY <1>1 DEF RoutingInv, ReplyShape
    <3>2. ReplyShape'
      <4>1. cache' = [g \in Chats |-> cache'[g]]
        BY <2>2, <3>1
      <4>2. CASE spoke' = spoke
        BY <1>1, <4>1, <4>2 DEF RoutingInv, ReplyShape
      <4>3. CASE spoke' = [spoke EXCEPT ![c] = {}]
        <5>1. spoke' = [g \in Chats |-> spoke'[g]]
          BY <3>1, <4>3
        <5> QED
          BY <4>1, <5>1 DEF ReplyShape
      <4> QED
        BY <2>2, <4>2, <4>3
    <3>3. \A g \in Chats : cache'[g] # None => spoke'[g] \subseteq {cache'[g]}
      <4> TAKE g \in Chats
      <4>1. CASE g # c
        BY <1>1, <2>2, <3>1, <4>1 DEF RoutingInv, QuickReplyIsCurrent
      <4>2. CASE g = c
        BY <1>1, <2>2, <3>1, <4>2 DEF RoutingInv, QuickReplyIsCurrent
      <4> QED
        BY <4>1, <4>2
    <3> QED
      BY <3>2, <3>3 DEF QuickReplyIsCurrent
  <2> QED
    BY <2>1, <2>2 DEF Choose
<1>4. RoutingInv' /\ MadeKept
  BY <1>1, <1>2, <1>3, NothingTurns DEF Kept
<1>5. /\ worker.at \in Looking \cup {"links"} /\ worker.at \in Looking \cup {"links", "hand"}
      /\ ~Routed(worker.u)
  BY <1>1 DEF Choose, WorkInv, WorkerFollowsRoute, Looking, Routed, Of
<1>6. GoTo(s) \/ Finish(worker.u, "asked", None)
  BY DEF Choose
<1>7. UpdatesInv' /\ StayReceived /\ WorkInv'
  <2>1. ASSUME GoTo(s) PROVE UpdatesInv' /\ StayReceived /\ WorkInv'
    BY <1>1, <1>4, <1>5, <2>1, GoToKeeps
  <2>2. ASSUME Finish(worker.u, "asked", None) PROVE UpdatesInv' /\ StayReceived /\ WorkInv'
    BY <1>1, <1>4, <1>5, <2>2, FinishKeeps
  <2> QED
    BY <1>6, <2>1, <2>2
<1>8. QueueInv'
  BY <1>1, <1>2, <1>7, QueueKeeps
<1> QED
  BY <1>1, <1>2, <1>4, <1>7, <1>8, PartsOfMInv DEF StopInv

LEMMA FailsStep == ASSUME MInv, Fails PROVE MInv'
<1>1. RoutingInv /\ UpdatesInv /\ WorkInv /\ QueueInv /\ StopInv
  BY PartsOfMInv
<1>2. RoutingInv' /\ MadeKept
  <2>1. UNCHANGED <<do, made, topics, cache, spoke>>
    BY DEF Fails, ghosts
  <2> QED
    BY <1>1, <2>1, NothingTurns, RepliesStay DEF RoutingInv, Kept
<1>3. worker.at \in Looking \cup {"links", "hand"}
  BY DEF Fails, Looking
<1>4. UpdatesInv' /\ StayReceived /\ WorkInv'
  <2>1. ASSUME OnError(worker.u) PROVE UpdatesInv' /\ StayReceived /\ WorkInv'
    BY <1>1, <1>2, <1>3, <2>1, FinishKeeps DEF OnError
  <2>2. ASSUME worker' = [worker EXCEPT !.at = "dead"], UNCHANGED upd
        PROVE  UpdatesInv' /\ StayReceived /\ WorkInv'
    <3>1. UpdatesInv' /\ StayReceived
      BY <1>1, <1>2, <2>2, UpdatesStay
    <3>2. WorkerShape' /\ worker'.at = "dead"
      BY <1>1, <2>2, WorkerForms DEF WorkInv
    <3> QED
      BY <3>1, <3>2 DEF WorkInv, WorkerFollowsRoute, Looking
  <2> QED
    BY <2>1, <2>2 DEF Fails
<1>5. QueueInv'
  BY <1>1, <1>4, QueueKeeps DEF Fails
<1> QED
  BY <1>1, <1>2, <1>4, <1>5, PartsOfMInv DEF StopInv, Fails

(* Another update is noted beside the worker: picked by the user, or drained. *)
LEMMA BesideKeeps ==
    ASSUME UpdatesInv, WorkInv, MadeKept, UNCHANGED worker, NEW u \in Updates,
           NEW st \in {"handled", "drained"}, NEW to, Noted(u, st, to),
           Routed(u) => to = None \/ to = upd[u].route[1]
    PROVE  UpdatesInv' /\ StayReceived /\ WorkInv'
<1>1. UpdatesInv' /\ StayReceived
  BY NoteKeeps
<1> QED
  BY <1>1, WorkerStays DEF Noted

LEMMA PickStep ==
    ASSUME MInv, NEW u \in Updates, NEW s \in Slaves, Pick(u, s)
    PROVE  MInv'
<1>1. RoutingInv /\ UpdatesInv /\ WorkInv /\ QueueInv /\ MadeKept
  BY PartsOfMInv, RoutingStays DEF Pick
<1>2. Noted(u, "handled", s) /\ ~Routed(u)
  BY <1>1, NoteForms DEF Pick, UpdatesInv, RouteIsKept
<1>3. UpdatesInv' /\ StayReceived /\ WorkInv'
  BY <1>1, <1>2, BesideKeeps DEF Pick
<1> QED
  BY <1>1, <1>3, QueueKeeps, MasterKeeps DEF Pick

LEMMA StopStepKeeps == ASSUME MInv, StopStep PROVE MInv'
<1>1. RoutingInv /\ UpdatesInv /\ WorkInv /\ QueueInv /\ StopInv /\ RoutingInv' /\ MadeKept
  BY PartsOfMInv, RoutingStays DEF StopStep, StopBegins, Drain, PutToken
<1>2. StopInv' /\ UNCHANGED worker
  BY <1>1 DEF StopInv, StopStep, StopBegins, Drain, PutToken
<1>3. ASSUME UNCHANGED upd PROVE UpdatesInv' /\ StayReceived /\ WorkInv'
  BY <1>1, <1>2, <1>3, UpdatesStay, WorkerStays
<1>4. CASE UNCHANGED <<upd, queue>>
  BY <1>1, <1>2, <1>3, <1>4, QueueKeeps, PartsOfMInv
<1>5. CASE queue # <<>> /\ queue' = Tail(queue) /\ UNCHANGED upd
  BY <1>1, <1>2, <1>3, <1>5, QueueKeeps, PartsOfMInv
<1>6. CASE /\ queue # <<>> /\ queue' = Tail(queue) /\ Head(queue) # Token
           /\ upd' = [upd EXCEPT ![Head(queue)].st = "drained"]
  <2>1. PICK u \in Updates : u = Head(queue)
    BY <1>1, <1>6, HeadReceived
  <2>2. Noted(u, "drained", upd[u].to)
    BY <1>1, <1>6, <2>1, NoteForms DEF UpdatesInv
  <2>3. Routed(u) => upd[u].to = None \/ upd[u].to = upd[u].route[1]
    BY <1>1 DEF UpdatesInv, RouteIsKept
  <2>4. UpdatesInv' /\ StayReceived /\ WorkInv'
    BY <1>1, <1>2, <2>2, <2>3, BesideKeeps
  <2> QED
    BY <1>1, <1>2, <1>6, <2>4, QueueKeeps, PartsOfMInv
<1>7. CASE UNCHANGED upd /\ queue' = Append(queue, Token)
  BY <1>1, <1>2, <1>3, <1>7, QueueGrows, PartsOfMInv
<1> QED
  BY <1>4, <1>5, <1>6, <1>7 DEF StopStep, StopBegins, Drain, PutToken

(* An update is received: what it is routed to is who the topic was made for. *)
LEMMA ReceiveStep ==
    ASSUME MInv, NEW u \in Updates, NEW n, Receive(u, n)
    PROVE  MInv'
<1> DEFINE q == plan.writes[u]
           new == [st |-> "queued", chat |-> q.chat, thread |-> n, kind |-> q.kind, about |-> q.about,
                   route |-> RouteAtReceipt(q.chat, n), to |-> None, routable |-> Routable(q.chat, n)]
<1>1. RoutingInv /\ UpdatesInv /\ WorkInv /\ QueueInv /\ MadeKept
  BY PartsOfMInv, RoutingStays DEF Receive
<1>2. /\ upd[u].st = "absent" /\ upd' = [upd EXCEPT ![u] = new] /\ queue' = Append(queue, u)
      /\ UNCHANGED <<routing, worker, stop>>
  BY DEF Receive
<1>3. DOMAIN upd = Updates /\ upd = [v \in Updates |-> upd[v]] /\ \A v \in Updates : IsUpdate(upd[v])
  BY <1>1, UpdateTypes DEF UpdatesInv
<1>4. upd' = [v \in Updates |-> upd'[v]] /\ upd'[u] = new /\ \A v \in Updates \ {u} : upd'[v] = upd[v]
  BY <1>2, <1>3
<1>5. IsUpdate(new)
  BY DEF IsUpdate
<1>6. UpdateShape'
  <2> HIDE DEF new
  <2> QED
    BY <1>3, <1>4, <1>5, TypesUpdate
<1>7. /\ upd'[u].st = "queued" /\ upd'[u].thread = n /\ upd'[u].to = None
      /\ upd'[u].route = RouteAtReceipt(q.chat, n) /\ upd'[u].routable = Routable(q.chat, n)
  BY <1>4
<1> HIDE DEF new
<1>8. UNCHANGED made
  BY <1>2 DEF routing
<1>9. RouteIsOwner'
  <2> SUFFICES ASSUME NEW v \in Updates
               PROVE  /\ upd'[v].routable <=> upd'[v].route # NoRoute
                      /\ upd'[v].routable /\ upd'[v].route[1] # None =>
                            upd'[v].thread \in DOMAIN made' /\ upd'[v].route[1] = made'[upd'[v].thread].slave
    BY DEF RouteIsOwner
  <2>1. CASE v # u
    BY <1>1, <1>4, <1>8, <2>1 DEF UpdatesInv, RouteIsOwner
  <2>2. CASE v = u
    <3>1. /\ Routable(q.chat, n) => upd'[u].route = <<OwnerOf(q.chat, n)>>
          /\ ~Routable(q.chat, n) => upd'[u].route = NoRoute
      BY <1>7 DEF RouteAtReceipt
    <3>2. OwnerOf(q.chat, n) # None => n \in DOMAIN made /\ OwnerOf(q.chat, n) = made[n].slave
      BY <1>1, OwnerIsMaker DEF RoutingInv
    <3> QED
      BY <1>7, <1>8, <2>2, <3>1, <3>2 DEF NoRoute
  <2> QED
    BY <2>1, <2>2
<1>10. RouteIsKept'
  BY <1>1, <1>4, <1>7 DEF UpdatesInv, RouteIsKept, Routed
<1>11. UpdatesInv' /\ StayReceived
  BY <1>1, <1>4, <1>6, <1>7, <1>9, <1>10 DEF UpdatesInv, StayReceived
<1>12. WorkInv'
  BY <1>1, <1>2, <1>4, <1>11, WorkerStays
<1>13. QueueInv'
  BY <1>1, <1>2, <1>7, <1>11, QueueGrows
<1> QED
  BY <1>2, <1>11, <1>12, <1>13, MasterKeeps

------------------------------------------------------------------------------
(* The theorems.                                                              *)

LEMMA MasterStarts == MasterInit => MInv
<1> SUFFICES ASSUME MasterInit PROVE MInv
  OBVIOUS
<1>1. RoutingInv
  <2>1. ActorShape
    <3>1. do = [a \in Actors |-> Idle] /\ IsRecord(Idle)
      BY IdleRecord DEF MasterInit, Init
    <3> DEFINE F(b) == [op |-> do[b].op, slaves |-> do[b].slaves, from |-> do[b].from,
                        to |-> do[b].to, dest |-> do[b].dest, thread |-> do[b].thread,
                        fresh |-> do[b].fresh, prog |-> do[b].prog]
    <3>2. \A b \in Actors : do[b] = F(b)
      BY <3>1 DEF IsRecord
    <3> HIDE DEF F
    <3>3. do = [b \in Actors |-> F(b)]
      BY <3>1, <3>2
    <3> QED
      BY <3>3 DEF F, ActorShape
  <2>2. FreshIsMade
    BY IdleRecord DEF MasterInit, Init, FreshIsMade
  <2>3. MadeShape
    <3>1. made = <<>>
      BY DEF MasterInit, Init
    <3>2. made \in Seq(Range(made))
      BY <3>1, EmptySeq
    <3> QED
      BY <3>2 DEF MadeShape
  <2> QED
    BY <2>1, <2>2, <2>3 DEF MasterInit, Init, RoutingInv, ReplyShape, TopicsAreMade, QuickReplyIsCurrent
<1>2. UpdatesInv
  <2>1. upd = [u \in Updates |-> NoUpdate]
    BY DEF MasterInit
  <2>2. PICK r : r = NoUpdate
    OBVIOUS
  <2>3. IsUpdate(r) /\ r.st = "absent" /\ ~r.routable /\ r.route = NoRoute
    BY <2>2 DEF NoUpdate, IsUpdate
  <2>4. UpdateShape
    <3> DEFINE F(u) == [st |-> upd[u].st, chat |-> upd[u].chat, thread |-> upd[u].thread,
                        kind |-> upd[u].kind, about |-> upd[u].about, route |-> upd[u].route,
                        to |-> upd[u].to, routable |-> upd[u].routable]
    <3>1. \A u \in Updates : upd[u] = F(u)
      BY <2>1, <2>2, <2>3 DEF IsUpdate
    <3> HIDE DEF F
    <3>2. upd = [u \in Updates |-> F(u)]
      BY <2>1, <3>1
    <3> QED
      BY <3>2 DEF F, UpdateShape
  <2> QED
    BY <2>1, <2>2, <2>3, <2>4 DEF UpdatesInv, RouteIsOwner, RouteIsKept, Routed
<1>3. WorkInv
  BY DEF MasterInit, Resting, WorkInv, WorkerShape, WorkerFollowsRoute, Looking
<1>4. QueueInv
  <2>1. queue = <<>>
    BY DEF MasterInit
  <2>2. queue \in Seq(Updates \cup {Token})
    BY <2>1, EmptySeq
  <2>3. DOMAIN queue = {}
    BY <2>1
  <2> QED
    BY <2>2, <2>3 DEF QueueInv, QueuedOnce
<1>5. StopInv
  BY DEF MasterInit, StopInv
<1> QED
  BY <1>1, <1>2, <1>3, <1>4, <1>5, PartsOfMInv

LEMMA MasterStutters == ASSUME MInv, UNCHANGED vars PROVE MInv'
<1>1. UNCHANGED routing /\ UNCHANGED master
  BY DEF vars
<1> QED
  BY <1>1, PartsOfMInv, RoutingStays, RoutingKeepsMaster DEF Kept

(* Every step of the routing, of the worker and of the user.                  *)
LEMMA MasterSteps == ASSUME MInv, Next PROVE MInv'
<1>1. CASE RoutingStep /\ UNCHANGED master
  BY <1>1, PartsOfMInv, RoutingSteps, RoutingKeepsMaster
<1>2. ASSUME NEW u \in Updates, NEW n \in Topics \cup {NoTopic, Foreign}, Receive(u, n) PROVE MInv'
  BY <1>2, ReceiveStep
<1>3. CASE WorkerStep
  BY <1>3, TakeStep, ReadLinksStep, CheckTopicStep, ReadTopicsStep, ChooseStep, HandOverStep DEF WorkerStep
<1>4. CASE Fails
  BY <1>4, FailsStep
<1>5. CASE StopStep
  BY <1>5, StopStepKeeps
<1>6. ASSUME NEW u \in Updates, NEW s \in Slaves, Pick(u, s) PROVE MInv'
  BY <1>6, PickStep
<1> QED
  BY <1>1, <1>2, <1>3, <1>4, <1>5, <1>6 DEF Next

(* The inductive invariant: every number of a topic stands for one remote     *)
(* chat, and what the lookup at receipt found is what the update is sent by,  *)
(* whatever commands, migrations, slave messages and stops happen meanwhile.  *)
THEOREM MasterInductive == Spec => []MInv
<1>1. MasterInit => MInv
  BY MasterStarts
<1>2. MInv /\ [Next]_vars => MInv'
  BY MasterSteps, MasterStutters
<1> QED
  BY <1>1, <1>2, PTL DEF Spec

(* What the user writes in a topic goes to the chat the topic was made for    *)
(* and to no other, for any groups, links, commands, threads and failures.    *)
THEOREM TopicKeepsItsChatTheorem == Spec => []TopicKeepsItsChat
<1>1. MInv => TopicKeepsItsChat
  <2> SUFFICES ASSUME MInv, NEW u \in Updates,
                      upd[u].to # None, upd[u].kind # "edit", upd[u].routable
               PROVE  upd[u].thread \in DOMAIN made /\ upd[u].to = made[upd[u].thread].slave
    BY DEF TopicKeepsItsChat
  <2>1. upd[u].to = upd[u].route[1]
    BY DEF MInv, RouteIsKept, Routed
  <2> QED
    BY <2>1 DEF MInv, RouteIsOwner
<1> QED
  BY <1>1, MasterInductive, PTL

(* A message without a reply goes to the last chat the user answered in the   *)
(* group only while no other chat was heard there, for any number of threads  *)
(* of slaves and whatever the worker does in between.                         *)
THEOREM QuickReplyTheorem == Spec => []QuickReplyIsCurrent
<1>1. MInv => QuickReplyIsCurrent
  BY DEF MInv
<1> QED
  BY <1>1, MasterInductive, PTL

------------------------------------------------------------------------------
(* Programs of commands.                                                      *)

Simple == CommandStatements \ {"relinkTopic"}
AllSimple(p) == \A i \in DOMAIN p : p[i].st \in Simple

LEMMA IndexOf == ASSUME NEW p, ProgramFits(p) PROVE DOMAIN p = 1 .. Len(p) /\ Len(p) \in Nat
  BY LenProperties DEF ProgramFits

(* One program after the other.                                               *)
LEMMA ConcatFits ==
    ASSUME NEW p, NEW q, ProgramFits(p), ProgramFits(q)
    PROVE  /\ ProgramFits(p \o q) /\ Len(p \o q) = Len(p) + Len(q)
           /\ AllSimple(p) /\ AllSimple(q) => AllSimple(p \o q)
<1> DEFINE S == Range(p) \cup Range(q)
           r == p \o q
<1>1. p \in Seq(S) /\ q \in Seq(S)
  BY SeqMonotonic DEF ProgramFits
<1>2. /\ r \in Seq(S) /\ Len(r) = Len(p) + Len(q)
      /\ \A i \in 1 .. Len(p) + Len(q) : r[i] = IF i <= Len(p) THEN p[i] ELSE q[i - Len(p)]
  BY <1>1, ConcatProperties
<1> HIDE DEF r
<1>3. r \in Seq(Range(r))
  BY <1>2, SeqOfRange
<1>4. DOMAIN r = 1 .. Len(p) + Len(q) /\ Len(p) \in Nat /\ Len(q) \in Nat
  BY <1>2, IndexOf, LenProperties
<1>5. DOMAIN p = 1 .. Len(p) /\ DOMAIN q = 1 .. Len(q)
  BY IndexOf
<1>6. ASSUME NEW i \in DOMAIN r
      PROVE  /\ r[i].st \in CommandStatements
             /\ r[i].st = "relinkTopic" => /\ r[i].chat \in RelinkTargets
                                           /\ i + 1 \in DOMAIN r /\ r[i + 1].st = "bind"
             /\ AllSimple(p) /\ AllSimple(q) => r[i].st \in Simple
  <2>1. CASE i <= Len(p)
    <3>1. i \in DOMAIN p /\ r[i] = p[i]
      BY <1>2, <1>4, <1>5, <2>1
    <3>2. i + 1 \in DOMAIN p => i + 1 \in DOMAIN r /\ r[i + 1] = p[i + 1]
      BY <1>2, <1>4, <1>5, <2>1
    <3> QED
      BY <3>1, <3>2 DEF ProgramFits, AllSimple
  <2>2. CASE ~(i <= Len(p))
    <3>1. i - Len(p) \in DOMAIN q /\ r[i] = q[i - Len(p)]
      BY <1>2, <1>4, <1>5, <2>2
    <3>2. (i - Len(p)) + 1 \in DOMAIN q => i + 1 \in DOMAIN r /\ r[i + 1] = q[(i - Len(p)) + 1]
      BY <1>2, <1>4, <1>5, <2>2
    <3> QED
      BY <3>1, <3>2 DEF ProgramFits, AllSimple
  <2> QED
    BY <2>1, <2>2
<1> QED
  BY <1>2, <1>3, <1>6 DEF ProgramFits, AllSimple, r

(* What is left of a program after its head.                                  *)
LEMMA TailFits ==
    ASSUME NEW p, ProgramFits(p), p # <<>>
    PROVE  /\ ProgramFits(Tail(p))
           /\ 1 \in DOMAIN p /\ Head(p) = p[1]
           /\ 2 \in DOMAIN p => Tail(p) # <<>> /\ Head(Tail(p)) = p[2]
<1> DEFINE S == Range(p)
           r == Tail(p)
<1>1. p \in Seq(S)
  BY DEF ProgramFits
<1>2. /\ r \in Seq(S) /\ Len(r) = Len(p) - 1
      /\ \A i \in 1 .. Len(r) : r[i] = p[i + 1]
  BY <1>1, HeadTailProperties
<1>3. Head(p) = p[1]
  BY <1>1
<1> HIDE DEF r
<1>4. r \in Seq(Range(r))
  BY <1>2, SeqOfRange
<1>5. /\ DOMAIN p = 1 .. Len(p) /\ DOMAIN r = 1 .. Len(p) - 1 /\ Len(r) = Len(p) - 1
      /\ Len(p) \in Nat \ {0}
  <2>1. DOMAIN p = 1 .. Len(p) /\ DOMAIN r = 1 .. Len(r)
    BY <1>1, <1>2, LenProperties
  <2> QED
    BY <1>1, <1>2, <2>1, EmptySeq
<1>6. ASSUME NEW i \in DOMAIN r
      PROVE  /\ r[i].st \in CommandStatements
             /\ r[i].st = "relinkTopic" => /\ r[i].chat \in RelinkTargets
                                           /\ i + 1 \in DOMAIN r /\ r[i + 1].st = "bind"
  <2>1. i + 1 \in DOMAIN p /\ r[i] = p[i + 1]
    BY <1>2, <1>5
  <2>2. (i + 1) + 1 \in DOMAIN p => i + 1 \in DOMAIN r /\ r[i + 1] = p[(i + 1) + 1]
    BY <1>2, <1>5
  <2> QED
    BY <2>1, <2>2 DEF ProgramFits
<1>7. 2 \in DOMAIN p => r # <<>> /\ Head(r) = p[2]
  <2> HAVE 2 \in DOMAIN p
  <2>1. 1 \in 1 .. Len(r) /\ r[1] = p[2]
    BY <1>2, <1>5
  <2>2. r # <<>>
    BY <2>1, EmptySeq
  <2>3. Head(r) = r[1]
    BY <1>2
  <2> QED
    BY <2>1, <2>2, <2>3
<1>8. ProgramFits(r)
  BY <1>4, <1>6 DEF ProgramFits
<1> QED
  BY <1>3, <1>5, <1>7, <1>8 DEF r

(* Short programs.                                                            *)
LEMMA StepFields ==
    ASSUME NEW st, NEW c, NEW s, NEW n
    PROVE  /\ Step(st, c, s, n).st = st /\ Step(st, c, s, n).chat = c
           /\ Step(st, c, s, n).slave = s /\ Step(st, c, s, n).thread = n
  BY DEF Step

LEMMA EmptyFits == ProgramFits(<<>>) /\ AllSimple(<<>>) /\ Len(<<>>) = 0
<1>1. <<>> \in Seq(Range(<<>>)) /\ DOMAIN <<>> = {}
  BY EmptySeq
<1> QED
  BY <1>1 DEF ProgramFits, AllSimple

LEMMA OneFits ==
    ASSUME NEW x, x.st \in Simple
    PROVE  ProgramFits(<<x>>) /\ Len(<<x>>) = 1 /\ AllSimple(<<x>>)
<1>1. PICK p : p = <<x>>
  OBVIOUS
<1>2. p \in Seq({x}) /\ DOMAIN p = {1} /\ p[1] = x /\ Len(p) = 1
  BY <1>1
<1>3. p \in Seq(Range(p))
  BY <1>2, SeqOfRange
<1> QED
  BY <1>1, <1>2, <1>3 DEF ProgramFits, Simple, AllSimple

LEMMA TwoFit ==
    ASSUME NEW x, NEW y, x.st \in Simple, y.st \in Simple
    PROVE  ProgramFits(<<x, y>>) /\ Len(<<x, y>>) = 2 /\ AllSimple(<<x, y>>)
<1>1. PICK p : p = <<x, y>>
  OBVIOUS
<1>2. p \in Seq({x, y}) /\ DOMAIN p = 1 .. 2 /\ p[1] = x /\ p[2] = y /\ Len(p) = 2
  BY <1>1
<1>3. p \in Seq(Range(p))
  BY <1>2, SeqOfRange
<1>4. \A i \in DOMAIN p : p[i].st \in Simple
  BY <1>2
<1> QED
  BY <1>1, <1>2, <1>3, <1>4 DEF ProgramFits, Simple, AllSimple

(* A block for each chat of a group.                                          *)
LEMMA EachFits ==
    ASSUME NEW c, NEW block, ProgramFits(block), Len(block) # 0, AllSimple(block)
    PROVE  ProgramFits(Each(c, block))
<1> DEFINE k == Len(block)
           m == Len(LinksOf(c))
           x(i) == Step(block[((i - 1) % k) + 1].st, block[((i - 1) % k) + 1].chat,
                        LinksOf(c)[((i - 1) \div k) + 1].slave, NoTopic)
           p == [i \in 1 .. k * m |-> x(i)]
<1>1. k \in Nat \ {0} /\ m \in Nat /\ DOMAIN block = 1 .. k
  BY IndexOf
<1>2. PICK n \in Nat : n = k * m
  BY <1>1
<1>3. \A i \in 1 .. n : x(i).st \in Simple
  <2> TAKE i \in 1 .. n
  <2>1. ((i - 1) % k) + 1 \in 1 .. k
    <3> HIDE DEF k
    <3>1. i - 1 \in Nat
      OBVIOUS
    <3> QED
      BY <1>1, <3>1
  <2> QED
    BY <1>1, <2>1, StepFields DEF AllSimple
<1> HIDE DEF x
<1>4. p = [i \in 1 .. n |-> x(i)]
  BY <1>2
<1>5. PICK q : q = p
  OBVIOUS
<1>6. DOMAIN q = 1 .. n /\ \A i \in 1 .. n : q[i] = x(i)
  BY <1>4, <1>5
<1>7. q \in Seq(Range(q))
  <2>1. q \in [1 .. n -> Range(q)]
    BY <1>4, <1>5 DEF Range
  <2> QED
    BY <2>1
<1>8. ProgramFits(q)
  BY <1>3, <1>6, <1>7 DEF ProgramFits, Simple
<1>9. q = Each(c, block)
  BY <1>5 DEF Each, x
<1> QED
  BY <1>8, <1>9


(* A relink: every topic that is made is bound next.                          *)
LEMMA RelinkFits ==
    ASSUME NEW from, NEW to \in RelinkTargets
    PROVE  ProgramFits(RelinkProgram(from, to))
<1> SUFFICES ASSUME {from, to} \subseteq Forums /\ from # to PROVE ProgramFits(RelinkProgram(from, to))
  BY EmptyFits DEF RelinkProgram
<1> DEFINE block == <<Step("relinkTopic", to, None, NoTopic), Step("bind", to, None, NoTopic)>>
           x(i) == Step(block[((i - 1) % 2) + 1].st, block[((i - 1) % 2) + 1].chat,
                        LinksOf(from)[((i - 1) \div 2) + 1].slave, NoTopic)
<1>1. PICK m \in Nat : m = Len(LinksOf(from))
  <2>1. Len(LinksOf(from)) \in Nat
    OBVIOUS
  <2> QED
    BY <2>1
<1>2. PICK q : q = [i \in 1 .. 2 * m |-> x(i)]
  OBVIOUS
<1>3. \A i \in 1 .. 2 * m :
        /\ i % 2 = 1 => x(i).st = "relinkTopic" /\ x(i).chat = to /\ (i + 1) % 2 = 0 /\ i + 1 \in 1 .. 2 * m
        /\ i % 2 = 0 => x(i).st = "bind"
        /\ i % 2 \in {0, 1}
  <2> TAKE i \in 1 .. 2 * m
  <2>1. CASE i % 2 = 1
    <3>1. (i - 1) % 2 = 0 /\ (i + 1) % 2 = 0 /\ i + 1 \in 1 .. 2 * m
      BY <2>1
    <3>2. block[((i - 1) % 2) + 1].st = "relinkTopic" /\ block[((i - 1) % 2) + 1].chat = to
      BY <3>1, StepFields
    <3> QED
      BY <2>1, <3>1, <3>2, StepFields
  <2>2. CASE i % 2 = 0
    <3>1. (i - 1) % 2 = 1
      BY <2>2
    <3>2. block[((i - 1) % 2) + 1].st = "bind"
      BY <3>1, StepFields
    <3> QED
      BY <2>2, <3>2, StepFields
  <2> QED
    BY <2>1, <2>2
<1> HIDE DEF x
<1>4. DOMAIN q = 1 .. 2 * m /\ \A i \in 1 .. 2 * m : q[i] = x(i)
  BY <1>2
<1>5. q \in Seq(Range(q))
  <2>1. q \in [1 .. 2 * m -> Range(q)] /\ 2 * m \in Nat
    BY <1>2 DEF Range
  <2> QED
    BY <2>1
<1>6. ASSUME NEW i \in DOMAIN q
      PROVE  /\ q[i].st \in CommandStatements
             /\ q[i].st = "relinkTopic" => /\ q[i].chat \in RelinkTargets
                                           /\ i + 1 \in DOMAIN q /\ q[i + 1].st = "bind"
  <2>1. i \in 1 .. 2 * m /\ q[i] = x(i)
    BY <1>4
  <2>2. CASE i % 2 = 1
    <3>1. x(i + 1).st = "bind" /\ i + 1 \in DOMAIN q /\ q[i + 1] = x(i + 1)
      BY <1>3, <1>4, <2>1, <2>2
    <3> QED
      BY <1>3, <2>1, <2>2, <3>1 DEF CommandStatements
  <2>3. CASE i % 2 = 0
    BY <1>3, <2>1, <2>3 DEF CommandStatements
  <2> QED
    BY <1>3, <2>1, <2>2, <2>3
<1>7. q = RelinkProgram(from, to)
  <2>1. Len(block) = 2
    OBVIOUS
  <2>2. PICK b : b = block
    OBVIOUS
  <2>3. Each(from, b) = [i \in 1 .. 2 * m |->
            Step(b[((i - 1) % 2) + 1].st, b[((i - 1) % 2) + 1].chat,
                 LinksOf(from)[((i - 1) \div 2) + 1].slave, NoTopic)]
    BY <1>1, <2>1, <2>2 DEF Each
  <2>4. q = Each(from, b)
    BY <1>2, <2>2, <2>3 DEF x
  <2> QED
    BY <2>2, <2>4 DEF RelinkProgram
<1> QED
  BY <1>5, <1>6, <1>7 DEF ProgramFits

(* add_chat_assoc.                                                            *)
LEMMA AddLinkFits ==
    ASSUME NEW c, NEW s, NEW multiple \in BOOLEAN
    PROVE  /\ ProgramFits(AddLink(c, s, multiple)) /\ Len(AddLink(c, s, multiple)) \in Nat \ {0}
           /\ AllSimple(AddLink(c, s, multiple))
<1> DEFINE u == Step("unlinkChat", c, None, NoTopic)
           v == Step("unlinkSlave", None, s, NoTopic)
           w == Step("insert", c, s, NoTopic)
<1>1. u.st \in Simple /\ v.st \in Simple /\ w.st \in Simple
  BY StepFields DEF Simple, CommandStatements
<1>2. PICK p, q : p = (IF multiple THEN <<>> ELSE <<u>>) /\ q = <<v, w>>
  OBVIOUS
<1> HIDE DEF u, v, w
<1>3. ProgramFits(q) /\ AllSimple(q) /\ Len(q) = 2
  BY <1>1, <1>2, TwoFit
<1>4. ProgramFits(p) /\ AllSimple(p) /\ Len(p) \in {0, 1}
  BY <1>1, <1>2, OneFits, EmptyFits
<1>5. ProgramFits(p \o q) /\ AllSimple(p \o q) /\ Len(p \o q) \in Nat \ {0}
  BY <1>3, <1>4, ConcatFits
<1>6. AddLink(c, s, multiple) = p \o q
  BY <1>2 DEF AddLink, u, v, w
<1> QED
  BY <1>5, <1>6

(* One statement.                                                             *)
LEMMA SingleFits ==
    ASSUME NEW st \in {"create", "unlinkSlave", "unlinkChat", "cut", "forget", "dropTopics", "migrate"},
           NEW c, NEW s
    PROVE  /\ ProgramFits(<<Step(st, c, s, NoTopic)>>) /\ Len(<<Step(st, c, s, NoTopic)>>) = 1
           /\ AllSimple(<<Step(st, c, s, NoTopic)>>)
  BY StepFields, OneFits DEF Simple, CommandStatements

LEMMA ForgetsFits == ASSUME NEW S PROVE ProgramFits(Forgets(S))
  BY SingleFits, EmptyFits DEF Forgets

LEMMA MigrateFits == ASSUME NEW from, NEW to PROVE ProgramFits(MigrateById(from, to))
<1>1. PICK x, y : /\ x = Each(from, AddLink(to, None, TRUE))
                  /\ y = <<Step("unlinkChat", from, None, NoTopic)>>
  OBVIOUS
<1>2. ProgramFits(x)
  BY <1>1, AddLinkFits, EachFits
<1>3. ProgramFits(y)
  BY <1>1, SingleFits
<1> QED
  BY <1>1, <1>2, <1>3, ConcatFits DEF MigrateById

(* Every command has a program that fits.                                     *)
LEMMA CommandFits ==
    ASSUME NEW a, NEW q \in Commands, q.op = "relink" => q.to \in RelinkTargets
    PROVE  ProgramFits(Program(a, q))
<1>1. \A st \in {"create", "unlinkSlave", "unlinkChat", "dropTopics", "migrate"} : \A c, s :
        /\ ProgramFits(<<Step(st, c, s, NoTopic)>>) /\ Len(<<Step(st, c, s, NoTopic)>>) = 1
        /\ AllSimple(<<Step(st, c, s, NoTopic)>>)
  BY SingleFits
<1>2. \A c : ProgramFits(Creates(c))
  <2> TAKE c
  <2>1. PICK b : b = <<Step("create", c, None, NoTopic)>>
    OBVIOUS
  <2>2. ProgramFits(b) /\ Len(b) = 1 /\ AllSimple(b)
    BY <1>1, <2>1
  <2>3. ProgramFits(Each(c, b))
    BY <2>2, EachFits
  <2> QED
    BY <2>1, <2>3 DEF Creates
<1>3. ProgramFits(LinkProgram(q.to, q.slave))
  <2>1. PICK x, y, z : /\ x = AddLink(q.to, q.slave, Multiple)
                       /\ y = <<Step("dropTopics", None, q.slave, NoTopic)>>
                       /\ z = IF q.to \in Forums THEN <<Step("create", q.to, q.slave, NoTopic)>> ELSE <<>>
    OBVIOUS
  <2>2. ProgramFits(x) /\ ProgramFits(y) /\ ProgramFits(z)
    BY <1>1, <2>1, AddLinkFits, EmptyFits, RoutingAssumption
  <2>3. ProgramFits((x \o y) \o z)
    BY <2>2, ConcatFits
  <2> QED
    BY <2>1, <2>3 DEF LinkProgram
<1>4. ProgramFits(<<Step("migrate", None, None, NoTopic)>>)
  BY <1>1
<1>5. ProgramFits(MigrateOnError(q.from, q.to))
  <2>1. PICK x, y : /\ x = <<Step("unlinkSlave", None, None, NoTopic)>>
                    /\ y = AddLink(q.to, None, FALSE)
    OBVIOUS
  <2>2. ProgramFits(x) /\ AllSimple(x) /\ Len(x) = 1
    BY <1>1, <2>1
  <2>3. ProgramFits(y) /\ AllSimple(y) /\ Len(y) \in Nat \ {0}
    BY <2>1, AddLinkFits
  <2>4. ProgramFits(x \o y) /\ AllSimple(x \o y) /\ Len(x \o y) # 0
    BY <2>2, <2>3, ConcatFits
  <2>5. ProgramFits(Each(q.from, x \o y))
    BY <2>4, EachFits
  <2> QED
    BY <2>1, <2>5 DEF MigrateOnError
<1>6. ProgramFits((IF a = Handler /\ q.to \in Forums THEN Creates(q.from) ELSE <<>>)
                     \o <<Step("migrate", None, None, NoTopic)>>)
  BY <1>2, <1>4, ConcatFits, EmptyFits
<1>7. q.op \in {"link", "unlink", "unlinkAll", "relink", "initTopics", "migrate", "migrateOnError"}
  BY DEF Commands
<1>8. CASE q.op = "relink"
  BY <1>8, RelinkFits DEF Program
<1>9. CASE q.op = "migrate"
  BY <1>6, <1>9 DEF Program
<1>10. CASE q.op \in {"link", "initTopics", "migrateOnError"}
  BY <1>2, <1>3, <1>5, <1>10 DEF Program
<1>11. CASE q.op \in {"unlink", "unlinkAll"}
  BY <1>1, <1>11 DEF Program
<1> QED
  BY <1>7, <1>8, <1>9, <1>10, <1>11

------------------------------------------------------------------------------
(* What a step of one actor leaves alone.                                     *)

LockKept(a) == mutex' = mutex \/ mutex \in {None, a}
Frame(a) ==
    /\ UNCHANGED plan /\ MadeKept /\ LockKept(a)
    /\ \A b \in Actors \ {a} : do'[b] = do[b]

TodoFits ==
    /\ todo \in [{Handler, Sender} -> Seq(Commands)]
    /\ \A a \in {Handler, Sender} :
          \A i \in DOMAIN todo[a] : todo[a][i].op = "relink" => todo[a][i].to \in RelinkTargets

LEMMA PartsOfCommands ==
    /\ CommandsFit => /\ plan \in Plans /\ TodoFits
                      /\ ProgramFits(do[Handler].prog) /\ ProgramFits(do[Sender].prog)
    /\ plan' \in Plans /\ TodoFits' /\ (\A b \in {Handler, Sender} : ProgramFits(do[b].prog)') => CommandsFit'
  BY DEF CommandsFit, TodoFits

LEMMA SameTargets == ASSUME UNCHANGED plan PROVE RelinkTargets' = RelinkTargets
  BY DEF RelinkTargets

LEMMA StaysFit ==
    ASSUME UNCHANGED plan, NEW p, ProgramFits(p)
    PROVE  ProgramFits(p)'
<1>1. RelinkTargets' = RelinkTargets
  BY SameTargets
<1> QED
  BY <1>1 DEF ProgramFits

LEMMA SameTodo == ASSUME TodoFits, UNCHANGED <<plan, todo>> PROVE TodoFits'
<1>1. RelinkTargets' = RelinkTargets
  BY SameTargets
<1> QED
  BY <1>1 DEF TodoFits

LEMMA WhoIsWho ==
    /\ Handler \in Actors /\ Sender \in Actors /\ Handler # Sender
    /\ Handler \notin Threads /\ Sender \notin Threads /\ Threads \subseteq Actors
    /\ \A a \in Actors : a # None /\ (a \in Threads \/ a \in {Handler, Sender})
  BY RoutingAssumption DEF Actors

(* A number that was for a chat stays for it.                                 *)
LEMMA StaysFor ==
    ASSUME MadeKept, NEW n, NEW q, IsFor(n, q)
    PROVE  IsFor(n, q)'
<1>1. CASE n = NoTopic
  BY <1>1 DEF IsFor
<1>2. CASE n # NoTopic
  <2>1. PICK c, s : c = q.chat /\ s = q.slave
    OBVIOUS
  <2>2. MadeFor(n, c, s)
    BY <1>2, <2>1 DEF IsFor
  <2>3. MadeFor(n, c, s)'
    BY <2>2, StaysMade
  <2> QED
    BY <2>1, <2>3 DEF IsFor, MadeFor
<1> QED
  BY <1>1, <1>2

LEMMA OtherThread ==
    ASSUME NEW a \in Actors, Frame(a), NEW b \in Actors \ {a}, ThreadFits(b)
    PROVE  ThreadFits(b)'
<1>1. PICK p, n : p = do[b].prog /\ n = do[b].thread
  OBVIOUS
<1>2. do'[b].prog = p /\ do'[b].thread = n
  BY <1>1 DEF Frame
<1>3. mutex = b => mutex' = b
  BY WhoIsWho DEF Frame, LockKept
<1>4. CASE p = <<>>
  BY <1>2, <1>4 DEF ThreadFits
<1>5. CASE Len(p) = 1 /\ p = <<p[1]>> /\ p[1].st = "find" /\ n = NoTopic
  BY <1>2, <1>5 DEF ThreadFits
<1>6. CASE /\ Len(p) = 2 /\ p = <<p[1], p[2]>> /\ p[2].st = "settle"
           /\ p[1].st \in {"create", "createLocked", "storeTopic"}
           /\ p[1].chat = p[2].chat /\ p[1].slave = p[2].slave
           /\ n = NoTopic /\ mutex = b
  BY <1>2, <1>3, <1>6 DEF ThreadFits
<1>7. CASE Len(p) = 1 /\ p = <<p[1]>> /\ p[1].st = "settle" /\ IsFor(n, p[1]) /\ mutex = b
  <2>1. PICK q : q = p[1]
    OBVIOUS
  <2>2. IsFor(n, q)'
    BY <1>7, <2>1, StaysFor DEF Frame
  <2> QED
    BY <1>2, <1>3, <1>7, <2>1, <2>2 DEF ThreadFits, IsFor, MadeFor
<1>8. CASE Len(p) = 1 /\ p = <<p[1]>> /\ p[1].st = "deliver" /\ IsFor(p[1].thread, p[1])
  <2>1. PICK q : q = p[1]
    OBVIOUS
  <2>2. PICK m : m = q.thread
    OBVIOUS
  <2>3. IsFor(m, q)'
    BY <1>8, <2>1, <2>2, StaysFor DEF Frame
  <2> QED
    BY <1>2, <1>8, <2>1, <2>2, <2>3 DEF ThreadFits, IsFor, MadeFor
<1> QED
  BY <1>1, <1>4, <1>5, <1>6, <1>7, <1>8 DEF ThreadFits

LEMMA OtherFresh ==
    ASSUME NEW a \in Actors, Frame(a), NEW b \in Actors \ {a}, FreshFit(b)
    PROVE  FreshFit(b)'
<1>1. do'[b] = do[b] /\ RelinkTargets' = RelinkTargets
  BY SameTargets DEF Frame
<1>2. mutex = b => mutex' = b
  BY WhoIsWho DEF Frame, LockKept
<1> QED
  BY <1>1, <1>2 DEF FreshFit, At, Busy, Now

------------------------------------------------------------------------------
(* What was made stays accounted for.                                         *)

Lost == parted \cup dropped
RowsKept ==
    /\ Lost \subseteq Lost'
    /\ \A t \in topics : \/ \E u \in topics' : u.chat = t.chat /\ u.slave = t.slave
                         \/ <<t.slave, t.chat>> \in Lost'
                         \/ \E b \in Actors : /\ do'[b].fresh # NoFresh
                                              /\ do'[b].fresh.chat = t.chat /\ do'[b].fresh.slave = t.slave
FreshKept(a) ==
    do[a].fresh # NoFresh =>
        \/ do'[a].fresh = do[a].fresh
        \/ \E u \in topics' : u.chat = do[a].fresh.chat /\ u.slave = do[a].fresh.slave
        \/ <<do[a].fresh.slave, do[a].fresh.chat>> \in Lost'

LEMMA NoFreshIs == NoFresh' = NoFresh
  BY DEF NoFresh, Fresh

LEMMA StaysAccounted ==
    ASSUME NEW a \in Actors, Frame(a), RowsKept, FreshKept(a), NEW c, NEW s, Accounted(c, s)
    PROVE  Accounted(c, s)'
<1>1. CASE <<s, c>> \in parted \cup dropped
  BY <1>1 DEF Accounted, RowsKept, Lost
<1>2. CASE \E t \in topics : t.chat = c /\ t.slave = s
  BY <1>2, NoFreshIs DEF Accounted, RowsKept, Lost
<1>3. CASE \E b \in Actors : do[b].fresh # NoFresh /\ do[b].fresh.chat = c /\ do[b].fresh.slave = s
  <2>1. PICK b \in Actors : do[b].fresh # NoFresh /\ do[b].fresh.chat = c /\ do[b].fresh.slave = s
    BY <1>3
  <2>2. \/ do'[b].fresh = do[b].fresh
        \/ \E u \in topics' : u.chat = c /\ u.slave = s
        \/ <<s, c>> \in Lost'
    BY <2>1 DEF Frame, FreshKept
  <2> QED
    BY <2>1, <2>2, NoFreshIs DEF Accounted, Lost
<1> QED
  BY <1>1, <1>2, <1>3 DEF Accounted

(* No topic is made.                                                          *)
LEMMA NoneMade ==
    ASSUME NEW a \in Actors, Frame(a), RowsKept, FreshKept(a), UNCHANGED made,
           MadeAccounted, OneTopicOutsideRelinks
    PROVE  MadeAccounted' /\ OneTopicOutsideRelinks'
<1>1. RelinkTargets' = RelinkTargets
  BY SameTargets DEF Frame
<1>2. MadeAccounted'
  <2> SUFFICES ASSUME NEW i \in DOMAIN made, made[i].chat \notin RelinkTargets
               PROVE  Accounted(made[i].chat, made[i].slave)'
    BY <1>1 DEF MadeAccounted
  <2>1. PICK c, s : c = made[i].chat /\ s = made[i].slave
    OBVIOUS
  <2>2. Accounted(c, s)
    BY <2>1 DEF MadeAccounted
  <2>3. Accounted(c, s)'
    BY <2>2, StaysAccounted
  <2> QED
    BY <2>1, <2>3 DEF Accounted
<1>3. OneTopicOutsideRelinks'
  BY <1>1 DEF OneTopicOutsideRelinks, RowsKept, Lost
<1> QED
  BY <1>2, <1>3

(* A topic more, for a chat that had none that was not lost.                  *)
LEMMA OnceMore ==
    ASSUME NEW a \in Actors, Frame(a), RowsKept, FreshKept(a), MadeShape, NEW c, NEW s,
           made' = Append(made, [chat |-> c, slave |-> s]),
           MadeAccounted, OneTopicOutsideRelinks,
           c \in RelinkTargets \/ Accounted(c, s)',
           c \in RelinkTargets \/ ~Accounted(c, s) \/ <<s, c>> \in Lost'
    PROVE  MadeAccounted' /\ OneTopicOutsideRelinks'
<1>1. RelinkTargets' = RelinkTargets
  BY SameTargets DEF Frame
<1>2. PICK e : e = [chat |-> c, slave |-> s]
  OBVIOUS
<1>3. e.chat = c /\ e.slave = s
  BY <1>2
<1>4. /\ Len(made) \in Nat /\ DOMAIN made = 1 .. Len(made) /\ DOMAIN made' = 1 .. Len(made) + 1
      /\ made'[Len(made) + 1] = e /\ \A i \in DOMAIN made : made'[i] = made[i]
  <2> DEFINE S == Range(made) \cup {e}
  <2>1. made \in Seq(S)
    BY SeqMonotonic, Range(made) \subseteq S DEF MadeShape
  <2>2. /\ made' \in Seq(S) /\ Len(made') = Len(made) + 1
        /\ \A i \in 1 .. Len(made) : made'[i] = made[i]
        /\ made'[Len(made) + 1] = e
    BY <1>2, <2>1, AppendProperties
  <2> QED
    BY <2>1, <2>2, LenProperties
<1>5. MadeAccounted'
  <2> SUFFICES ASSUME NEW i \in DOMAIN made', made'[i].chat \notin RelinkTargets
               PROVE  Accounted(made[i].chat, made[i].slave)'
    BY <1>1 DEF MadeAccounted
  <2>1. PICK d, r : d = made'[i].chat /\ r = made'[i].slave
    OBVIOUS
  <2>2. CASE i = Len(made) + 1
    <3>1. Accounted(c, s)' /\ d = c /\ r = s
      BY <1>3, <1>4, <2>1, <2>2
    <3> QED
      BY <2>1, <3>1 DEF Accounted
  <2>3. CASE i \in DOMAIN made
    <3>1. d = made[i].chat /\ r = made[i].slave
      BY <1>4, <2>1, <2>3
    <3>2. Accounted(d, r)
      BY <2>1, <2>3, <3>1 DEF MadeAccounted
    <3>3. Accounted(d, r)'
      BY <3>2, StaysAccounted
    <3> QED
      BY <2>1, <3>3 DEF Accounted
  <2> QED
    BY <1>4, <2>2, <2>3
<1>6. OneTopicOutsideRelinks'
  <2> SUFFICES ASSUME NEW i \in DOMAIN made', NEW j \in DOMAIN made', i < j, made'[i] = made'[j],
                      made'[i].chat \notin RelinkTargets
               PROVE  <<made'[i].slave, made'[i].chat>> \in Lost'
    BY <1>1 DEF OneTopicOutsideRelinks, Lost
  <2>1. i \in DOMAIN made
    BY <1>4
  <2>2. CASE j \in DOMAIN made
    BY <1>4, <2>1, <2>2 DEF OneTopicOutsideRelinks, RowsKept, Lost
  <2>3. CASE j = Len(made) + 1
    <3>1. made[i] = e /\ made'[i] = e
      BY <1>4, <2>1, <2>3
    <3>2. Accounted(c, s)
      BY <1>3, <2>1, <3>1 DEF MadeAccounted
    <3> QED
      BY <1>3, <3>1, <3>2
  <2>4. j \in DOMAIN made \/ j = Len(made) + 1
    BY <1>4
  <2> QED
    BY <2>2, <2>3, <2>4
<1> QED
  BY <1>5, <1>6

(* All of it, for a step of one actor.                                        *)
LEMMA ActorKeeps ==
    ASSUME OneInv, NEW a \in Actors, Frame(a), TodoFits', NEW p, do'[a].prog = p,
           a \in {Handler, Sender} => ProgramFits(p),
           a \in Threads => ThreadFits(a)',
           FreshFit(a)', MadeAccounted', OneTopicOutsideRelinks'
    PROVE  OneInv'
<1>1. plan' \in Plans
  BY PartsOfCommands DEF OneInv, Frame
<1>2. ASSUME NEW b \in {Handler, Sender} PROVE ProgramFits(do[b].prog)'
  <2>1. PICK q : q = do'[b].prog
    OBVIOUS
  <2>2. ProgramFits(q)
    <3>1. CASE b = a
      BY <2>1, <3>1
    <3>2. CASE b # a
      <4>1. q = do[b].prog
        BY <2>1, <3>2, WhoIsWho DEF Frame
      <4> QED
        BY <4>1, PartsOfCommands DEF OneInv
    <3> QED
      BY <3>1, <3>2
  <2>3. ProgramFits(q)'
    BY <2>2, StaysFit DEF Frame
  <2> QED
    BY <2>1, <2>3 DEF ProgramFits
<1>3. CommandsFit'
  BY <1>1, <1>2, PartsOfCommands
<1>4. ThreadsFit'
  <2> SUFFICES ASSUME NEW b \in Threads PROVE ThreadFits(b)'
    BY DEF ThreadsFit
  <2> QED
    BY OtherThread, WhoIsWho DEF OneInv, ThreadsFit
<1>5. FreshFits'
  <2> SUFFICES ASSUME NEW b \in Actors PROVE FreshFit(b)'
    BY DEF FreshFits
  <2> QED
    BY OtherFresh DEF OneInv, FreshFits
<1> QED
  BY <1>3, <1>4, <1>5 DEF OneInv

------------------------------------------------------------------------------
(* What the actor of a statement has in hand.                                 *)

LEMMA OneThenOne == ASSUME NEW x, NEW y PROVE <<x>> \o <<y>> = <<x, y>>
<1> DEFINE S == {x, y}
<1>1. PICK s, t, r : s = <<x>> /\ t = <<y>> /\ r = <<x, y>>
  OBVIOUS
<1>2. s \in Seq(S) /\ t \in Seq(S) /\ Len(s) = 1 /\ Len(t) = 1 /\ s[1] = x /\ t[1] = y
  BY <1>1
<1>3. r \in Seq(S) /\ Len(r) = 2 /\ r[1] = x /\ r[2] = y
  BY <1>1
<1>4. PICK q : q = s \o t
  OBVIOUS
<1>5. /\ q \in Seq(S) /\ Len(q) = Len(s) + Len(t)
      /\ \A i \in 1 .. Len(s) + Len(t) : q[i] = IF i <= Len(s) THEN s[i] ELSE t[i - Len(s)]
  BY <1>2, <1>4, ConcatProperties
<1>6. Len(q) = 2 /\ q[1] = x /\ q[2] = y
  BY <1>2, <1>5
<1>7. q = r
  <2>1. \A i \in 1 .. Len(q) : q[i] = r[i]
    BY <1>3, <1>6
  <2> QED
    BY <1>3, <1>5, <1>6, <2>1, SeqEqual
<1> QED
  BY <1>1, <1>4, <1>7

LEMMA ProgramFields ==
    ASSUME NEW r, IsRecord(r), NEW p, NEW d, NEW f
    PROVE  /\ [r EXCEPT !.dest = d, !.prog = p].prog = p
           /\ [r EXCEPT !.dest = d, !.prog = p].thread = r.thread
           /\ [r EXCEPT !.prog = p, !.fresh = f].prog = p
           /\ [r EXCEPT !.prog = p, !.fresh = f].thread = r.thread
<1>1. PICK x1, x2, x3, x4, x5, x6, x7, x8 :
         r = [op |-> x1, slaves |-> x2, from |-> x3, to |-> x4, dest |-> x5, thread |-> x6, fresh |-> x7,
              prog |-> x8]
  BY DEF IsRecord
<1>2. PICK q : q = [r EXCEPT !.dest = d]
  OBVIOUS
<1>3. q = [op |-> x1, slaves |-> x2, from |-> x3, to |-> x4, dest |-> d, thread |-> x6, fresh |-> x7, prog |-> x8]
  BY <1>1, <1>2
<1>4. PICK u : u = [r EXCEPT !.prog = p]
  OBVIOUS
<1>5. u = [op |-> x1, slaves |-> x2, from |-> x3, to |-> x4, dest |-> x5, thread |-> x6, fresh |-> x7, prog |-> p]
  BY <1>1, <1>4
<1>6. [q EXCEPT !.prog = p].prog = p /\ [q EXCEPT !.prog = p].thread = r.thread
  BY <1>1, <1>3
<1>7. [u EXCEPT !.fresh = f].prog = p /\ [u EXCEPT !.fresh = f].thread = r.thread
  BY <1>1, <1>5
<1> QED
  BY <1>2, <1>4, <1>6, <1>7, FieldByField

LEMMA ProgramForms ==
    ASSUME ActorShape, NEW a \in Actors, NEW p, NEW n, NEW d, NEW f
    PROVE  /\ do' = [do EXCEPT ![a].prog = p] => do'[a].prog = p /\ do'[a].thread = do[a].thread
           /\ do' = [do EXCEPT ![a].prog = p, ![a].thread = n] => do'[a].prog = p /\ do'[a].thread = n
           /\ do' = [do EXCEPT ![a].dest = d, ![a].prog = p]
                 => do'[a].prog = p /\ do'[a].thread = do[a].thread
           /\ do' = [do EXCEPT ![a].fresh = f] => do'[a].prog = do[a].prog /\ do'[a].thread = do[a].thread
           /\ do' = [do EXCEPT ![a].prog = p, ![a].fresh = f]
                 => do'[a].prog = p /\ do'[a].thread = do[a].thread
           /\ do' = [do EXCEPT ![a].prog = p, ![a].thread = n, ![a].fresh = f]
                 => do'[a].prog = p /\ do'[a].thread = n
<1>1. do = [b \in Actors |-> do[b]] /\ a \in DOMAIN do /\ IsRecord(do[a])
  BY ActorTypes
<1>2. PICK x1, x2, x3, x4, x5, x6, x7, x8 :
         do[a] = [op |-> x1, slaves |-> x2, from |-> x3, to |-> x4, dest |-> x5, thread |-> x6, fresh |-> x7,
                  prog |-> x8]
  BY <1>1 DEF IsRecord
<1>3. do' = [do EXCEPT ![a].prog = p] => do'[a].prog = p /\ do'[a].thread = x6
  BY <1>1, <1>2
<1>4. do' = [do EXCEPT ![a].prog = p, ![a].thread = n] => do'[a].prog = p /\ do'[a].thread = n
  BY <1>1, <1>2
<1>5. do' = [do EXCEPT ![a].dest = d, ![a].prog = p] => do'[a].prog = p /\ do'[a].thread = do[a].thread
  <2> HAVE do' = [do EXCEPT ![a].dest = d, ![a].prog = p]
  <2>1. do'[a] = [do[a] EXCEPT !.dest = d, !.prog = p]
    BY <1>1
  <2>2. /\ [do[a] EXCEPT !.dest = d, !.prog = p].prog = p
        /\ [do[a] EXCEPT !.dest = d, !.prog = p].thread = do[a].thread
    BY <1>1, ProgramFields
  <2> QED
    BY <2>1, <2>2
<1>6. do' = [do EXCEPT ![a].fresh = f] => do'[a].prog = x8 /\ do'[a].thread = x6
  BY <1>1, <1>2
<1>7. do' = [do EXCEPT ![a].prog = p, ![a].fresh = f] => do'[a].prog = p /\ do'[a].thread = do[a].thread
  <2> HAVE do' = [do EXCEPT ![a].prog = p, ![a].fresh = f]
  <2>1. do'[a] = [do[a] EXCEPT !.prog = p, !.fresh = f]
    BY <1>1
  <2>2. /\ [do[a] EXCEPT !.prog = p, !.fresh = f].prog = p
        /\ [do[a] EXCEPT !.prog = p, !.fresh = f].thread = do[a].thread
    BY <1>1, ProgramFields
  <2> QED
    BY <2>1, <2>2
<1>8. do' = [do EXCEPT ![a].prog = p, ![a].thread = n, ![a].fresh = f] => do'[a].prog = p /\ do'[a].thread = n
  BY <1>1, <1>2
<1> QED
  BY <1>2, <1>3, <1>4, <1>5, <1>6, <1>7, <1>8

(* The actor of a command, and what is left of its program.                   *)
LEMMA CommandActor ==
    ASSUME OneInv, NEW a \in {Handler, Sender}, Busy(a)
    PROVE  /\ a \in Actors \ Threads
           /\ ProgramFits(do[a].prog) /\ ProgramFits(Rest(a)) /\ Now(a).st \in CommandStatements
<1>1. ProgramFits(do[a].prog) /\ do[a].prog # <<>>
  BY PartsOfCommands DEF OneInv, Busy
<1>2. PICK p : p = do[a].prog
  OBVIOUS
<1>3. ProgramFits(Tail(p)) /\ 1 \in DOMAIN p /\ Head(p) = p[1]
  BY <1>1, <1>2, TailFits
<1> QED
  BY <1>1, <1>2, <1>3, WhoIsWho DEF Rest, Now, ProgramFits

(* A thread of a slave, by the statement that it is at.                       *)
LEMMA ThreadActor ==
    ASSUME OneInv, NEW a \in Threads, Busy(a)
    PROVE  \/ Now(a).st = "find" /\ Rest(a) = <<>> /\ do[a].thread = NoTopic
           \/ /\ Now(a).st \in {"create", "createLocked", "storeTopic"}
              /\ do[a].thread = NoTopic /\ mutex = a
              /\ \E q : Rest(a) = <<q>> /\ q.st = "settle" /\ q.chat = Now(a).chat /\ q.slave = Now(a).slave
           \/ Now(a).st = "settle" /\ Rest(a) = <<>> /\ IsFor(do[a].thread, Now(a)) /\ mutex = a
           \/ Now(a).st = "deliver" /\ Rest(a) = <<>> /\ IsFor(Now(a).thread, Now(a))
<1>1. ThreadFits(a) /\ do[a].prog # <<>>
  BY DEF OneInv, ThreadsFit, Busy
<1>2. PICK p, x, y : p = do[a].prog /\ x = p[1] /\ y = p[2]
  OBVIOUS
<1>3. CASE p = <<x>>
  <2>1. Head(p) = x /\ Tail(p) = <<>> /\ Len(p) = 1
    BY <1>3
  <2> QED
    BY <1>1, <1>2, <2>1 DEF ThreadFits, Now, Rest
<1>4. CASE p = <<x, y>>
  <2>1. Head(p) = x /\ Tail(p) = <<y>> /\ Len(p) = 2
    BY <1>4
  <2> QED
    BY <1>1, <1>2, <2>1 DEF ThreadFits, Now, Rest
<1> QED
  BY <1>1, <1>2, <1>3, <1>4 DEF ThreadFits

(* Only who has just made a topic has one in hand.                            *)
LEMMA EmptyHanded ==
    ASSUME OneInv, NEW a \in Actors, ~At(a, "createLocked"), ~At(a, "storeTopic"), ~At(a, "bind")
    PROVE  do[a].fresh = NoFresh
  BY DEF OneInv, FreshFits, FreshFit

LEMMA SameFresh ==
    ASSUME NEW a \in Actors, Turned(a, do[a].fresh), do[a].fresh = NoFresh
    PROVE  FreshFit(a)' /\ FreshKept(a)
<1>1. do'[a].fresh = NoFresh /\ NoFresh' = NoFresh
  BY DEF Turned, NoFresh, Fresh
<1> QED
  BY <1>1 DEF FreshFit, FreshKept

------------------------------------------------------------------------------
(* Statements that take rows away.                                            *)

LEMMA RowsTaken ==
    ASSUME topics' \subseteq topics, Lost \subseteq Lost', Pairs(topics \ topics') \subseteq Lost'
    PROVE  RowsKept
  BY DEF RowsKept, Pairs

LEMMA TakenRows ==
    ASSUME NEW a \in Actors, Removes(a) \/ Insert(a)
    PROVE  RowsKept /\ UNCHANGED <<plan, made, mutex, todo>>
<1>1. CASE Forget(a)
  <2> DEFINE lost == {t \in topics : t.slave \in Now(a).slave}
  <2>1. /\ topics' = topics \ lost /\ parted' = parted \cup Pairs(lost)
        /\ UNCHANGED <<plan, made, mutex, todo, dropped>>
    BY <1>1 DEF Forget
  <2>2. topics' \subseteq topics /\ topics \ topics' = lost
    BY <2>1
  <2>3. Lost' = Lost \cup Pairs(lost)
    BY <2>1 DEF Lost
  <2> QED
    BY <2>1, <2>2, <2>3, RowsTaken
<1>2. CASE DropTopics(a)
  <2> DEFINE lost == {t \in topics : t.slave = Now(a).slave}
  <2>1. /\ topics' = topics \ lost /\ dropped' = dropped \cup Pairs(lost)
        /\ UNCHANGED <<plan, made, mutex, todo, parted>>
    BY <1>2 DEF DropTopics
  <2>2. topics' \subseteq topics /\ topics \ topics' = lost
    BY <2>1
  <2>3. Lost' = Lost \cup Pairs(lost)
    BY <2>1 DEF Lost
  <2> QED
    BY <2>1, <2>2, <2>3, RowsTaken
<1>3. CASE UnlinkChat(a) \/ Cut(a) \/ UnlinkSlave(a) \/ MigrateLinks(a) \/ Insert(a)
  <2>1. UNCHANGED <<plan, topics, made, mutex, todo, parted, dropped>>
    BY <1>3 DEF UnlinkChat, Cut, UnlinkSlave, MigrateLinks, Insert, ghosts
  <2> QED
    BY <2>1 DEF RowsKept, Lost
<1> QED
  BY <1>1, <1>2, <1>3 DEF Removes

LEMMA SameRows ==
    ASSUME UNCHANGED topics, Lost \subseteq Lost'
    PROVE  RowsKept
  BY DEF RowsKept

(* What the actor does next.                                                  *)
LEMMA NextFits ==
    ASSUME OneInv, NEW a \in {Handler, Sender}, Removes(a) \/ Insert(a)
    PROVE  \E p : do' = [do EXCEPT ![a].prog = p] /\ ProgramFits(p)
<1>1. PICK r : r = Rest(a) /\ ProgramFits(r)
  BY CommandActor DEF Removes, UnlinkChat, Cut, UnlinkSlave, Forget, DropTopics, MigrateLinks, Insert, At
<1>2. CASE Forget(a) \/ DropTopics(a) \/ Insert(a)
  BY <1>1, <1>2 DEF Forget, DropTopics, Insert, Done, Then
<1>3. ASSUME NEW x, ProgramFits(x), do' = [do EXCEPT ![a].prog = x \o r]
      PROVE  \E p : do' = [do EXCEPT ![a].prog = p] /\ ProgramFits(p)
  BY <1>1, <1>3, ConcatFits
<1>4. CASE UnlinkChat(a)
  <2>1. PICK x : x = <<Step("cut", Now(a).chat, Linked(Now(a).chat), NoTopic)>>
    OBVIOUS
  <2>2. ProgramFits(x)
    BY <2>1, SingleFits
  <2>3. do' = [do EXCEPT ![a].prog = x \o r]
    BY <1>1, <1>4, <2>1 DEF UnlinkChat, Then
  <2> QED
    BY <1>3, <2>2, <2>3
<1>5. CASE Cut(a) \/ UnlinkSlave(a)
  <2>1. PICK S : do' = [do EXCEPT ![a].prog = Forgets(S) \o r]
    BY <1>1, <1>5 DEF Cut, UnlinkSlave, Then
  <2> QED
    BY <1>3, <2>1, ForgetsFits
<1>6. CASE MigrateLinks(a)
  <2>1. PICK from, to : do' = [do EXCEPT ![a].prog = MigrateById(from, to) \o r]
    BY <1>1, <1>6 DEF MigrateLinks, Then
  <2> QED
    BY <1>3, <2>1, MigrateFits
<1> QED
  BY <1>2, <1>4, <1>5, <1>6 DEF Removes

LEMMA UnlinkOne ==
    ASSUME MInv, OneInv, NEW a \in Actors, Removes(a) \/ Insert(a)
    PROVE  OneInv'
<1>1. RoutingInv /\ ActorShape
  BY PartsOfMInv DEF RoutingInv
<1>2. MadeKept
  BY <1>1, UnlinkStep, InsertStep DEF Kept
<1>3. /\ Busy(a)
      /\ Now(a).st \in {"unlinkChat", "cut", "unlinkSlave", "forget", "dropTopics", "migrate", "insert"}
  BY DEF Removes, UnlinkChat, Cut, UnlinkSlave, Forget, DropTopics, MigrateLinks, Insert, At, Now
<1>4. a \in {Handler, Sender} /\ a \notin Threads
  BY <1>3, ThreadActor, WhoIsWho
<1>5. PICK p : do' = [do EXCEPT ![a].prog = p] /\ ProgramFits(p)
  BY <1>4, NextFits
<1>6. Turned(a, do[a].fresh) /\ do'[a].prog = p
  BY <1>1, <1>5, ActorForms, ProgramForms
<1>7. RowsKept /\ UNCHANGED <<plan, made, mutex, todo>>
  BY TakenRows
<1>8. Frame(a) /\ TodoFits'
  BY <1>2, <1>6, <1>7, PartsOfCommands, SameTodo DEF Frame, LockKept, Turned, OneInv
<1>9. do[a].fresh = NoFresh
  BY <1>3, EmptyHanded DEF At, Now
<1>10. FreshFit(a)' /\ FreshKept(a)
  BY <1>6, <1>9, SameFresh
<1>11. MadeAccounted' /\ OneTopicOutsideRelinks'
  BY <1>7, <1>8, <1>10, NoneMade DEF OneInv
<1> QED
  BY <1>4, <1>5, <1>6, <1>8, <1>10, <1>11, ActorKeeps

------------------------------------------------------------------------------
(* Making a topic.                                                            *)

(* The rest of a program that made a topic, or found one.                     *)
LEMMA RestFits ==
    ASSUME OneInv, NEW a \in Actors, At(a, "create") \/ At(a, "createLocked") \/ At(a, "storeTopic"),
           NEW n, do'[a].prog = Rest(a), do'[a].thread = n,
           a \in Threads => mutex' = a,
           NEW c, NEW s, c = Now(a).chat, s = Now(a).slave, n # NoTopic => MadeFor(n, c, s)'
    PROVE  /\ a \in {Handler, Sender} => ProgramFits(Rest(a))
           /\ a \in Threads => ThreadFits(a)'
<1>1. Busy(a) /\ Now(a).st \in {"create", "createLocked", "storeTopic"}
  BY DEF At, Now
<1>2. a \in {Handler, Sender} => ProgramFits(Rest(a))
  BY <1>1, CommandActor
<1>3. ASSUME a \in Threads PROVE ThreadFits(a)'
  <2>1. PICK q : Rest(a) = <<q>> /\ q.st = "settle" /\ q.chat = c /\ q.slave = s
    BY <1>1, <1>3, ThreadActor
  <2>2. PICK p : p = <<q>>
    OBVIOUS
  <2>3. do'[a].prog = p /\ p[1] = q /\ Len(p) = 1
    BY <2>1, <2>2
  <2>4. IsFor(n, q)'
    BY <2>1 DEF IsFor, MadeFor
  <2> QED
    BY <1>3, <2>1, <2>2, <2>3, <2>4 DEF ThreadFits, IsFor, MadeFor
<1> QED
  BY <1>2, <1>3

(* A row that is found is of a topic that was made.                           *)
LEMMA FoundIsMade ==
    ASSUME TopicsAreMade, MadeShape, NEW c, NEW s
    PROVE  /\ TopicOf(s, c) # NoTopic => MadeFor(TopicOf(s, c), c, s)
           /\ TopicOf(s, c) = NoTopic => ~\E t \in topics : t.chat = c /\ t.slave = s
<1> DEFINE T == {t \in TopicsOf(c) : t.slave = s}
<1>1. CASE T = {}
  BY <1>1 DEF TopicOf, TopicsOf
<1>2. CASE T # {}
  <2>1. PICK t \in T : t = CHOOSE u \in T : TRUE
    BY <1>2
  <2>2. TopicOf(s, c) = t.thread
    BY <1>2, <2>1 DEF TopicOf
  <2>3. MadeFor(t.thread, c, s)
    BY <2>1 DEF TopicsOf, TopicsAreMade
  <2>4. DOMAIN made = 1 .. Len(made) /\ Len(made) \in Nat
    BY LenProperties DEF MadeShape
  <2> QED
    BY <2>2, <2>3, <2>4 DEF MadeFor, NoTopic
<1> QED
  BY <1>1, <1>2

LEMMA CreateOne ==
    ASSUME MInv, OneInv, NEW a \in Actors, Create(a)
    PROVE  OneInv'
<1> DEFINE x == [Now(a) EXCEPT !.st = "createLocked"]
<1>1. RoutingInv /\ ActorShape /\ TopicsAreMade /\ MadeShape
  BY PartsOfMInv DEF RoutingInv
<1>2. MadeKept
  BY <1>1, CreateStep DEF Kept
<1>3. /\ Busy(a) /\ Now(a).st = "create"
      /\ UNCHANGED <<plan, topics, made, mutex, todo, parted, dropped>>
  BY DEF Create, At, Now, ghosts
<1>4. \/ /\ TopicOf(Now(a).slave, Now(a).chat) # NoTopic
         /\ do' = [do EXCEPT ![a].prog = Rest(a), ![a].thread = TopicOf(Now(a).slave, Now(a).chat)]
      \/ do' = [do EXCEPT ![a].prog = <<x>> \o Rest(a)]
  BY DEF Create, Got, Then
<1>5. Turned(a, do[a].fresh)
  BY <1>1, <1>4, ActorForms
<1>6. RowsKept
  BY <1>3, SameRows DEF Lost
<1>7. Frame(a) /\ TodoFits'
  BY <1>2, <1>3, <1>5, PartsOfCommands, SameTodo DEF Frame, LockKept, Turned, OneInv
<1>8. do[a].fresh = NoFresh
  BY <1>3, EmptyHanded DEF At, Now
<1>9. FreshFit(a)' /\ FreshKept(a)
  BY <1>5, <1>8, SameFresh
<1>10. MadeAccounted' /\ OneTopicOutsideRelinks'
  BY <1>3, <1>6, <1>7, <1>9, NoneMade DEF OneInv
<1>11. a \in Threads => mutex = a
  BY <1>3, ThreadActor
<1>12. CASE /\ TopicOf(Now(a).slave, Now(a).chat) # NoTopic
            /\ do' = [do EXCEPT ![a].prog = Rest(a), ![a].thread = TopicOf(Now(a).slave, Now(a).chat)]
  <2>1. PICK p, n, c, s : p = Rest(a) /\ c = Now(a).chat /\ s = Now(a).slave /\ n = TopicOf(s, c)
    OBVIOUS
  <2>2. do'[a].prog = p /\ do'[a].thread = n
    BY <1>1, <1>12, <2>1, ProgramForms
  <2>3. MadeFor(n, c, s)
    BY <1>1, <1>12, <2>1, FoundIsMade
  <2>4. MadeFor(n, c, s)'
    BY <1>2, <2>3, StaysMade
  <2>5. /\ a \in {Handler, Sender} => ProgramFits(p)
        /\ a \in Threads => ThreadFits(a)'
    BY <1>3, <1>11, <2>1, <2>2, <2>4, RestFits DEF At, Now
  <2> QED
    BY <1>7, <1>9, <1>10, <2>2, <2>5, ActorKeeps
<1>13. CASE do' = [do EXCEPT ![a].prog = <<x>> \o Rest(a)]
  <2>1. PICK p, y, r : y = x /\ r = Rest(a) /\ p = <<y>> \o r
    OBVIOUS
  <2>2. do'[a].prog = p /\ do'[a].thread = do[a].thread
    BY <1>1, <1>13, <2>1, ProgramForms
  <2>3. y.st = "createLocked" /\ y.chat = Now(a).chat /\ y.slave = Now(a).slave
    BY <2>1
  <2>4. a \in {Handler, Sender} => ProgramFits(p)
    <3> HAVE a \in {Handler, Sender}
    <3>1. ProgramFits(r)
      BY <1>3, <2>1, CommandActor
    <3>2. ProgramFits(<<y>>)
      BY <2>3, OneFits DEF Simple, CommandStatements
    <3> QED
      BY <2>1, <3>1, <3>2, ConcatFits
  <2>5. ASSUME a \in Threads PROVE ThreadFits(a)'
    <3>1. PICK q : r = <<q>> /\ q.st = "settle" /\ q.chat = y.chat /\ q.slave = y.slave
      BY <1>3, <2>1, <2>3, <2>5, ThreadActor
    <3>2. p = <<y, q>>
      BY <2>1, <3>1, OneThenOne
    <3>3. p[1] = y /\ p[2] = q /\ Len(p) = 2
      BY <3>2
    <3>4. do[a].thread = NoTopic
      BY <1>3, <2>5, ThreadActor
    <3> QED
      BY <1>3, <1>11, <2>2, <2>3, <2>5, <3>1, <3>2, <3>3, <3>4 DEF ThreadFits
  <2> QED
    BY <1>7, <1>9, <1>10, <2>2, <2>4, <2>5, ActorKeeps
<1> QED
  BY <1>4, <1>12, <1>13

(* The lock, the second look, and a topic of Telegram's.                      *)
LEMMA NoneElsewhere ==
    ASSUME MInv, OneInv, NEW a \in Actors, CreateLocked(a), NEW c, NEW s, c = Now(a).chat, s = Now(a).slave,
           ~StillThere(s, c)
    PROVE  c \in RelinkTargets \/ ~Accounted(c, s) \/ <<s, c>> \in Lost
<1>1. SUFFICES ASSUME c \notin RelinkTargets, NEW b \in Actors,
                      do[b].fresh # NoFresh, do[b].fresh.chat = c, do[b].fresh.slave = s
               PROVE  FALSE
  <2>1. ~\E t \in topics : t.chat = c /\ t.slave = s
    BY PartsOfMInv, FoundIsMade DEF RoutingInv, StillThere
  <2> QED
    BY <2>1 DEF Accounted, Lost
<1>2. do[a].fresh = NoFresh /\ mutex \in {None, a}
  BY DEF CreateLocked, Free
<1>3. \/ mutex = b
      \/ do[b].fresh.chat \in RelinkTargets
  BY <1>1 DEF OneInv, FreshFits, FreshFit
<1> QED
  BY <1>1, <1>2, <1>3, WhoIsWho

LEMMA LockTaken ==
    ASSUME NEW a \in Actors, Free(a), UNCHANGED mutex \/ Unlock(a) \/ mutex' = a
    PROVE  LockKept(a)
  BY DEF LockKept, Free

LEMMA CreateLockedOne ==
    ASSUME MInv, OneInv, NEW a \in Actors, CreateLocked(a)
    PROVE  OneInv'
<1>1. RoutingInv /\ ActorShape /\ TopicsAreMade /\ MadeShape
  BY PartsOfMInv DEF RoutingInv
<1>2. MadeKept
  BY <1>1, CreateLockedStep DEF Kept
<1>3. PICK c, s, p : c = Now(a).chat /\ s = Now(a).slave /\ p = Rest(a)
  OBVIOUS
<1>4. /\ At(a, "createLocked") /\ Busy(a) /\ Now(a).st = "createLocked"
      /\ do[a].fresh = NoFresh /\ Free(a)
      /\ UNCHANGED <<plan, topics, todo, dropped>>
  BY DEF CreateLocked, At, Now
<1>5. a \in Threads => mutex = a /\ do[a].thread = NoTopic
  BY <1>4, ThreadActor
<1>6. /\ Len(made) \in Nat
      /\ TodoFits'
  BY <1>4, PartsOfCommands, SameTodo, LenProperties DEF OneInv, MadeShape
<1>7. CASE /\ TopicOf(s, c) # NoTopic /\ do' = [do EXCEPT ![a].prog = p, ![a].thread = TopicOf(s, c)]
           /\ Unlock(a) /\ UNCHANGED <<made, parted>>
  <2>1. PICK n : n = TopicOf(s, c)
    OBVIOUS
  <2>2. Turned(a, do[a].fresh) /\ do'[a].prog = p /\ do'[a].thread = n
    BY <1>1, <1>7, <2>1, ActorForms, ProgramForms
  <2>3. RowsKept
    BY <1>4, <1>7, SameRows DEF Lost
  <2>4. Frame(a)
    BY <1>2, <1>4, <1>7, <2>2, LockTaken DEF Frame, Turned
  <2>5. FreshFit(a)' /\ FreshKept(a)
    BY <1>4, <2>2, SameFresh
  <2>6. MadeAccounted' /\ OneTopicOutsideRelinks'
    BY <1>7, <2>3, <2>4, <2>5, NoneMade DEF OneInv
  <2>7. MadeFor(n, c, s)
    BY <1>1, <1>7, <2>1, FoundIsMade
  <2>8. MadeFor(n, c, s)'
    BY <1>2, <2>7, StaysMade
  <2>9. /\ a \in {Handler, Sender} => ProgramFits(p)
        /\ a \in Threads => ThreadFits(a)'
    BY <1>3, <1>4, <1>5, <1>7, <2>2, <2>8, RestFits DEF Unlock
  <2> QED
    BY <1>6, <2>2, <2>4, <2>5, <2>6, <2>9, ActorKeeps
<1>8. CASE /\ ~StillThere(s, c) /\ made' = Append(made, [chat |-> c, slave |-> s])
           /\ mutex' = a /\ UNCHANGED parted
           /\ do' = [do EXCEPT ![a].fresh = Fresh(c, s, Len(made) + 1)]
  <2>1. PICK f : f = Fresh(c, s, Len(made) + 1)
    OBVIOUS
  <2>2. /\ Turned(a, f) /\ do'[a].prog = do[a].prog /\ do'[a].thread = do[a].thread
    BY <1>1, <1>8, <2>1, ActorForms, ProgramForms
  <2>3. f.chat = c /\ f.slave = s /\ f.thread = Len(made) + 1
    BY <2>1 DEF Fresh
  <2>4. f # NoFresh /\ NoFresh' = NoFresh
    BY <1>6, <2>3 DEF NoFresh, Fresh, NoTopic
  <2>5. RowsKept
    BY <1>4, <1>8, SameRows DEF Lost
  <2>6. Frame(a)
    BY <1>2, <1>4, <1>8, <2>2, LockTaken DEF Frame, Turned
  <2>7. FreshFit(a)'
    BY <1>3, <1>4, <1>8, <2>2, <2>3 DEF FreshFit, At, Busy, Now, Turned
  <2>8. FreshKept(a)
    BY <1>4 DEF FreshKept
  <2>9. Accounted(c, s)'
    BY <2>2, <2>3, <2>4 DEF Accounted, Turned
  <2>10. c \in RelinkTargets \/ ~Accounted(c, s) \/ <<s, c>> \in Lost'
    BY <1>3, <1>4, <1>8, NoneElsewhere DEF Lost
  <2>11. MadeAccounted' /\ OneTopicOutsideRelinks'
    BY <1>1, <1>8, <2>5, <2>6, <2>8, <2>9, <2>10, OnceMore DEF OneInv
  <2>12. PICK r : r = do[a].prog
    OBVIOUS
  <2>13. a \in {Handler, Sender} => ProgramFits(r)
    BY <2>12, PartsOfCommands DEF OneInv
  <2>14. ASSUME a \in Threads PROVE ThreadFits(a)'
    <3>1. ThreadFits(a) /\ do[a].prog # <<>>
      BY <1>4, <2>14 DEF OneInv, ThreadsFit, Busy
    <3>2. /\ Len(r) = 2 /\ r = <<r[1], r[2]>> /\ r[2].st = "settle"
          /\ r[1].st \in {"create", "createLocked", "storeTopic"}
          /\ r[1].chat = r[2].chat /\ r[1].slave = r[2].slave
      <4>1. CASE r = <<r[1]>>
        <5>1. Head(r) = r[1]
          BY <4>1
        <5> QED
          BY <1>4, <2>12, <3>1, <5>1 DEF ThreadFits, Now
      <4> QED
        BY <2>12, <3>1, <4>1 DEF ThreadFits
    <3> QED
      BY <1>5, <1>8, <2>2, <2>12, <2>14, <3>2 DEF ThreadFits
  <2> QED
    BY <1>6, <2>2, <2>6, <2>7, <2>11, <2>12, <2>13, <2>14, ActorKeeps
<1>9. ASSUME do' = [do EXCEPT ![a].prog = p], Unlock(a)
      PROVE  /\ Turned(a, do[a].fresh) /\ do'[a].prog = p /\ Frame(a)
             /\ FreshFit(a)' /\ FreshKept(a)
             /\ a \in {Handler, Sender} => ProgramFits(p)
             /\ a \in Threads => ThreadFits(a)'
  <2>1. Turned(a, do[a].fresh) /\ do'[a].prog = p /\ do'[a].thread = do[a].thread
    BY <1>1, <1>9, ActorForms, ProgramForms
  <2>2. Frame(a)
    BY <1>2, <1>4, <1>9, <2>1, LockTaken DEF Frame, Turned
  <2>3. FreshFit(a)' /\ FreshKept(a)
    BY <1>4, <2>1, SameFresh
  <2>4. a \in {Handler, Sender} => ProgramFits(p)
    BY <1>3, <1>4, CommandActor
  <2>5. ASSUME a \in Threads PROVE ThreadFits(a)'
    <3>1. PICK n : n = do[a].thread
      OBVIOUS
    <3>2. n = NoTopic /\ mutex' = a
      BY <1>5, <1>9, <2>5, <3>1 DEF Unlock
    <3> QED
      BY <1>3, <1>4, <2>1, <2>5, <3>1, <3>2, RestFits
  <2> QED
    BY <2>1, <2>2, <2>3, <2>4, <2>5
<1>10. CASE /\ ~StillThere(s, c) /\ made' = Append(made, [chat |-> c, slave |-> s])
            /\ do' = [do EXCEPT ![a].prog = p] /\ Unlock(a) /\ parted' = parted \cup {<<s, c>>}
  <2>1. Lost \subseteq Lost' /\ <<s, c>> \in Lost'
    BY <1>4, <1>10 DEF Lost
  <2>2. RowsKept
    BY <1>4, <2>1, SameRows
  <2>3. Accounted(c, s)'
    BY <2>1 DEF Accounted, Lost
  <2>4. MadeAccounted' /\ OneTopicOutsideRelinks'
    BY <1>1, <1>9, <1>10, <2>1, <2>2, <2>3, OnceMore DEF OneInv
  <2> QED
    BY <1>6, <1>9, <1>10, <2>4, ActorKeeps
<1>11. CASE do' = [do EXCEPT ![a].prog = p] /\ Unlock(a) /\ UNCHANGED <<made, parted>>
  <2>1. RowsKept
    BY <1>4, <1>11, SameRows DEF Lost
  <2>2. MadeAccounted' /\ OneTopicOutsideRelinks'
    BY <1>9, <1>11, <2>1, NoneMade DEF OneInv
  <2> QED
    BY <1>6, <1>9, <1>11, <2>2, ActorKeeps
<1> QED
  BY <1>3, <1>7, <1>8, <1>10, <1>11 DEF CreateLocked, Got, Done, Then, StillThere

------------------------------------------------------------------------------
(* Storing its number.                                                        *)

(* The row that replaces others of its chat.                                  *)
LEMMA RowKeeps ==
    ASSUME RoutingInv, NEW a \in Actors, NEW q, q = do[a].fresh, q # NoFresh,
           [chat |-> q.chat, thread |-> q.thread, slave |-> q.slave] \in topics', UNCHANGED dropped,
           parted \subseteq parted',
           \A t \in topics : \/ t \in topics'
                             \/ <<t.chat, t.thread>> = <<q.chat, q.thread>>
                             \/ t.slave = q.slave /\ (t.chat = q.chat \/ <<t.slave, t.chat>> \in parted')
    PROVE  RowsKept /\ FreshKept(a)
<1>1. PICK u : u = [chat |-> q.chat, thread |-> q.thread, slave |-> q.slave]
  OBVIOUS
<1>2. u \in topics' /\ u.chat = q.chat /\ u.slave = q.slave
  BY <1>1
<1>3. Lost \subseteq Lost'
  BY DEF Lost
<1>4. ASSUME NEW t \in topics
      PROVE  (\E v \in topics' : v.chat = t.chat /\ v.slave = t.slave) \/ <<t.slave, t.chat>> \in Lost'
  <2>1. CASE t \in topics' \/ (t.slave = q.slave /\ (t.chat = q.chat \/ <<t.slave, t.chat>> \in parted'))
    BY <1>2, <2>1 DEF Lost
  <2>2. CASE <<t.chat, t.thread>> = <<q.chat, q.thread>>
    <3>1. MadeFor(t.thread, t.chat, t.slave) /\ MadeFor(q.thread, q.chat, q.slave)
      BY DEF RoutingInv, TopicsAreMade, FreshIsMade
    <3>2. PICK e : e = made[q.thread]
      OBVIOUS
    <3>3. t.thread = q.thread
      BY <2>2
    <3>4. e = [chat |-> t.chat, slave |-> t.slave] /\ e = [chat |-> q.chat, slave |-> q.slave]
      BY <3>1, <3>2, <3>3 DEF MadeFor
    <3>5. e.slave = t.slave /\ e.slave = q.slave /\ e.chat = t.chat /\ e.chat = q.chat
      BY <3>4
    <3> QED
      BY <1>2, <3>5
  <2> QED
    BY <2>1, <2>2
<1> QED
  BY <1>2, <1>3, <1>4 DEF RowsKept, FreshKept

LEMMA NoFreshFits ==
    ASSUME NEW a \in Actors, do'[a].fresh = NoFresh
    PROVE  FreshFit(a)'
  BY NoFreshIs DEF FreshFit

(* The rows of its chat go first, and the number stays in hand.               *)
LEMMA ClearOne ==
    ASSUME MInv, OneInv, NEW a \in Actors, ClearTopic(a)
    PROVE  OneInv'
<1>1. RoutingInv /\ ActorShape
  BY PartsOfMInv DEF RoutingInv
<1>2. MadeKept
  BY <1>1, UnlinkStep DEF Kept
<1>3. PICK q, y, r, p : /\ q = do[a].fresh /\ y = [Now(a) EXCEPT !.st = "storeTopic"]
                        /\ r = Rest(a) /\ p = <<y>> \o r
  OBVIOUS
<1>4. /\ At(a, "createLocked") /\ Busy(a) /\ Now(a).st = "createLocked" /\ q # NoFresh
      /\ do' = [do EXCEPT ![a].prog = p]
      /\ topics' = topics \ {t \in topics : t.slave = q.slave}
      /\ parted' = parted \cup Pairs({t \in {u \in topics : u.slave = q.slave} : t.chat # q.chat})
      /\ UNCHANGED <<plan, made, mutex, todo, dropped>>
  BY <1>3 DEF ClearTopic, At, Now, Then
<1>5. mutex = a /\ q.chat = Now(a).chat /\ q.slave = Now(a).slave
  BY <1>3, <1>4 DEF OneInv, FreshFits, FreshFit, At
<1>6. /\ Turned(a, q) /\ do'[a].prog = p /\ do'[a].thread = do[a].thread /\ do'[a].fresh = q
  BY <1>1, <1>3, <1>4, ActorForms, ProgramForms DEF Turned
<1>7. Frame(a) /\ TodoFits'
  BY <1>2, <1>4, <1>6, PartsOfCommands, SameTodo DEF Frame, LockKept, Turned, OneInv
<1>8. RowsKept
  <2>1. Lost \subseteq Lost' /\ parted' \subseteq Lost'
    BY <1>4 DEF Lost
  <2>2. ASSUME NEW t \in topics
        PROVE  \/ t \in topics' \/ <<t.slave, t.chat>> \in parted'
               \/ t.chat = q.chat /\ t.slave = q.slave
    BY <1>4 DEF Pairs
  <2> QED
    BY <1>4, <1>6, <2>1, <2>2 DEF RowsKept
<1>9. FreshKept(a)
  BY <1>3, <1>6 DEF FreshKept
<1>10. MadeAccounted' /\ OneTopicOutsideRelinks'
  BY <1>4, <1>7, <1>8, <1>9, NoneMade DEF OneInv
<1>11. y.st = "storeTopic" /\ y.chat = Now(a).chat /\ y.slave = Now(a).slave
  BY <1>3
<1>12. p # <<>> /\ Head(p) = y
  <2>1. PICK x : x = <<y>>
    OBVIOUS
  <2>2. r \in Seq(Range(r))
    <3>1. CASE a \in {Handler, Sender}
      BY <1>3, <1>4, <3>1, CommandActor DEF ProgramFits
    <3>2. CASE a \in Threads
      <4>1. PICK z : r = <<z>>
        BY <1>3, <1>4, <3>2, ThreadActor
      <4>2. r \in Seq({z})
        BY <4>1
      <4> QED
        BY <4>2, SeqOfRange
    <3> QED
      BY <3>1, <3>2, WhoIsWho
  <2>3. PICK S : S = Range(r) \cup {y}
    OBVIOUS
  <2>4. r \in Seq(S) /\ x \in Seq(S) /\ Len(x) = 1 /\ x[1] = y
    BY <2>1, <2>2, <2>3, SeqMonotonic, Range(r) \subseteq S
  <2>5. /\ p \in Seq(S) /\ Len(p) = 1 + Len(r) /\ Len(r) \in Nat
        /\ \A i \in 1 .. 1 + Len(r) : p[i] = IF i <= 1 THEN x[i] ELSE r[i - 1]
    BY <1>3, <2>1, <2>4, ConcatProperties, LenProperties
  <2> QED
    BY <2>4, <2>5, EmptySeq
<1>13. FreshFit(a)'
  BY <1>4, <1>5, <1>6, <1>11, <1>12 DEF FreshFit, At, Busy, Now
<1>14. a \in {Handler, Sender} => ProgramFits(p)
  <2> HAVE a \in {Handler, Sender}
  <2>1. ProgramFits(r)
    BY <1>3, <1>4, CommandActor
  <2>2. ProgramFits(<<y>>)
    BY <1>11, OneFits DEF Simple, CommandStatements
  <2> QED
    BY <1>3, <2>1, <2>2, ConcatFits
<1>15. ASSUME a \in Threads PROVE ThreadFits(a)'
  <2>1. PICK z : r = <<z>> /\ z.st = "settle" /\ z.chat = y.chat /\ z.slave = y.slave
    BY <1>3, <1>4, <1>11, <1>15, ThreadActor
  <2>2. p = <<y, z>>
    BY <1>3, <2>1, OneThenOne
  <2>3. p[1] = y /\ p[2] = z /\ Len(p) = 2
    BY <2>2
  <2>4. do[a].thread = NoTopic /\ mutex' = a
    BY <1>4, <1>5, <1>15, ThreadActor
  <2> QED
    BY <1>6, <1>11, <1>15, <2>1, <2>2, <2>3, <2>4 DEF ThreadFits
<1> QED
  BY <1>6, <1>7, <1>10, <1>13, <1>14, <1>15, ActorKeeps

(* What the maker goes on with, stored or not.                                *)
LEMMA KeepFits ==
    ASSUME MInv, OneInv, NEW a \in Actors, At(a, "createLocked") \/ At(a, "storeTopic"),
           do[a].fresh # NoFresh, Keep(a), Unlock(a), UNCHANGED <<plan, made, todo>>
    PROVE  /\ Turned(a, NoFresh) /\ Frame(a) /\ TodoFits' /\ FreshFit(a)' /\ do'[a].prog = Rest(a)
           /\ a \in {Handler, Sender} => ProgramFits(Rest(a))
           /\ a \in Threads => ThreadFits(a)'
<1>1. RoutingInv /\ ActorShape /\ MadeShape
  BY PartsOfMInv DEF RoutingInv
<1>2. MadeKept
  BY <1>1, NoMore
<1>3. PICK q, p, n : q = do[a].fresh /\ p = Rest(a) /\ n = q.thread
  OBVIOUS
<1>4. /\ Busy(a) /\ Now(a).st \in {"createLocked", "storeTopic"} /\ q # NoFresh
      /\ do' = [do EXCEPT ![a].prog = p, ![a].thread = n, ![a].fresh = NoFresh]
  BY <1>3 DEF Keep, At, Now
<1>5. mutex = a /\ q.chat = Now(a).chat /\ q.slave = Now(a).slave
  BY <1>3, <1>4 DEF OneInv, FreshFits, FreshFit, At, Now
<1>6. Turned(a, NoFresh) /\ do'[a].prog = p /\ do'[a].thread = n /\ do'[a].fresh = NoFresh
  <2>1. Turned(a, NoFresh)
    BY <1>1, <1>4, ActorForms
  <2>2. do'[a].prog = p /\ do'[a].thread = n
    <3>1. PICK f : f = NoFresh
      OBVIOUS
    <3> QED
      BY <1>1, <1>4, <3>1, ProgramForms
  <2> QED
    BY <2>1, <2>2 DEF Turned
<1>7. Frame(a) /\ TodoFits'
  BY <1>2, <1>5, <1>6, PartsOfCommands, SameTodo DEF Frame, LockKept, Turned, OneInv
<1>8. FreshFit(a)'
  BY <1>6, NoFreshFits
<1>9. /\ a \in {Handler, Sender} => ProgramFits(p)
      /\ a \in Threads => ThreadFits(a)'
  <2>1. PICK c, s : c = q.chat /\ s = q.slave
    OBVIOUS
  <2>2. MadeFor(n, c, s)
    BY <1>1, <1>3, <1>4, <2>1 DEF RoutingInv, FreshIsMade
  <2>3. MadeFor(n, c, s)'
    BY <1>2, <2>2, StaysMade
  <2>4. a \in Threads => mutex' = a
    BY <1>5 DEF Unlock
  <2> QED
    BY <1>3, <1>5, <1>6, <2>1, <2>3, <2>4, RestFits
<1> QED
  BY <1>3, <1>6, <1>7, <1>8, <1>9

LEMMA AddOne ==
    ASSUME MInv, OneInv, NEW a \in Actors, Add(a)
    PROVE  OneInv'
<1>1. RoutingInv
  BY PartsOfMInv
<1>2. PICK q : q = do[a].fresh
  OBVIOUS
<1>3. /\ At(a, "storeTopic") /\ q # NoFresh /\ Unlock(a) /\ Keep(a)
      /\ topics' = {t \in topics : <<t.chat, t.thread>> # <<q.chat, q.thread>>}
                      \cup {[chat |-> q.chat, thread |-> q.thread, slave |-> q.slave]}
      /\ UNCHANGED <<plan, made, todo, parted, dropped>>
  BY <1>2 DEF Add, ghosts
<1>4. /\ Turned(a, NoFresh) /\ Frame(a) /\ TodoFits' /\ FreshFit(a)' /\ do'[a].prog = Rest(a)
      /\ a \in {Handler, Sender} => ProgramFits(Rest(a))
      /\ a \in Threads => ThreadFits(a)'
  BY <1>2, <1>3, KeepFits
<1>5. RowsKept /\ FreshKept(a)
  BY <1>1, <1>2, <1>3, RowKeeps
<1>6. MadeAccounted' /\ OneTopicOutsideRelinks'
  BY <1>3, <1>4, <1>5, NoneMade DEF OneInv
<1> QED
  BY <1>4, <1>6, ActorKeeps

(* A topic that is not stored is lost to everyone else.                       *)
LEMMA StoreFailsOne ==
    ASSUME MInv, OneInv, NEW a \in Actors, StoreFails(a)
    PROVE  OneInv'
<1>1. /\ At(a, "createLocked") \/ At(a, "storeTopic")
      /\ do[a].fresh # NoFresh /\ Unlock(a) /\ Keep(a)
      /\ parted' = parted \cup {<<do[a].fresh.slave, do[a].fresh.chat>>}
      /\ UNCHANGED <<plan, topics, made, todo, dropped>>
  BY DEF StoreFails
<1>2. /\ Turned(a, NoFresh) /\ Frame(a) /\ TodoFits' /\ FreshFit(a)' /\ do'[a].prog = Rest(a)
      /\ a \in {Handler, Sender} => ProgramFits(Rest(a))
      /\ a \in Threads => ThreadFits(a)'
  BY <1>1, KeepFits
<1>3. Lost \subseteq Lost' /\ <<do[a].fresh.slave, do[a].fresh.chat>> \in Lost'
  BY <1>1 DEF Lost
<1>4. RowsKept /\ FreshKept(a)
  BY <1>1, <1>3, SameRows DEF FreshKept
<1>5. MadeAccounted' /\ OneTopicOutsideRelinks'
  BY <1>1, <1>2, <1>4, NoneMade DEF OneInv
<1> QED
  BY <1>2, <1>5, ActorKeeps

------------------------------------------------------------------------------
(* A relink.                                                                  *)

LEMMA RelinkTopicOne ==
    ASSUME MInv, OneInv, NEW a \in Actors, RelinkTopic(a)
    PROVE  OneInv'
<1>1. RoutingInv /\ ActorShape /\ MadeShape
  BY PartsOfMInv DEF RoutingInv
<1>2. MadeKept
  BY <1>1, RelinkTopicStep DEF Kept
<1>3. PICK q, r, c, s : q = Now(a) /\ r = do[a].prog /\ c = q.chat /\ s = q.slave
  OBVIOUS
<1>4. /\ At(a, "relinkTopic") /\ Busy(a) /\ Now(a).st = "relinkTopic"
      /\ UNCHANGED <<plan, topics, mutex, todo, dropped>>
  BY DEF RelinkTopic, At, Now
<1>5. a \in {Handler, Sender} /\ a \notin Threads
  BY <1>4, ThreadActor, WhoIsWho
<1>6. /\ ProgramFits(r) /\ r # <<>> /\ Head(r) = q /\ q.st = "relinkTopic"
  BY <1>3, <1>4, <1>5, CommandActor DEF Busy, Now
<1>7. /\ ProgramFits(Tail(r)) /\ Tail(r) # <<>> /\ Head(Tail(r)).st = "bind" /\ c \in RelinkTargets
  <2>1. ProgramFits(Tail(r)) /\ 1 \in DOMAIN r /\ r[1] = q
    BY <1>6, TailFits
  <2>2. q.chat \in RelinkTargets /\ 1 + 1 \in DOMAIN r /\ r[1 + 1].st = "bind"
    BY <1>6, <2>1 DEF ProgramFits
  <2>3. 2 \in DOMAIN r /\ r[2].st = "bind"
    BY <2>2
  <2> QED
    BY <1>3, <1>6, <2>1, <2>2, <2>3, TailFits
<1>8. PICK t : t = Tail(r)
  OBVIOUS
<1>9. ProgramFits(Tail(t))
  BY <1>7, <1>8, TailFits
<1>10. do[a].fresh = NoFresh
  BY <1>4, EmptyHanded DEF At, Now
<1>11. TodoFits' /\ FreshKept(a)
  BY <1>4, <1>10, PartsOfCommands, SameTodo DEF OneInv, FreshKept
<1>12. RelinkTargets' = RelinkTargets
  BY <1>4, SameTargets
<1>13. Lost \subseteq Lost' /\ RowsKept
  <2>1. parted \subseteq parted'
    BY DEF RelinkTopic
  <2> QED
    BY <1>4, <2>1, SameRows DEF Lost
<1>14. ASSUME do' = [do EXCEPT ![a].prog = Tail(t)]
       PROVE  /\ Frame(a) /\ FreshFit(a)' /\ do'[a].prog = Tail(t)
  <2>1. Turned(a, do[a].fresh) /\ do'[a].prog = Tail(t)
    BY <1>1, <1>14, ActorForms, ProgramForms
  <2> QED
    BY <1>2, <1>4, <1>10, <2>1, SameFresh DEF Frame, LockKept, Turned
<1>15. Rest(a) = t /\ Tail(Rest(a)) = Tail(t)
  BY <1>3, <1>8 DEF Rest
<1>16. CASE /\ made' = Append(made, [chat |-> c, slave |-> s])
            /\ do' = [do EXCEPT ![a].prog = t, ![a].fresh = Fresh(c, s, Len(made) + 1)]
  <2>1. PICK f : f = Fresh(c, s, Len(made) + 1)
    OBVIOUS
  <2>2. Turned(a, f) /\ do'[a].prog = t
    BY <1>1, <1>16, <2>1, ActorForms, ProgramForms
  <2>3. f.chat = c
    BY <2>1 DEF Fresh
  <2>4. Frame(a)
    BY <1>2, <1>4, <2>2 DEF Frame, LockKept, Turned
  <2>5. FreshFit(a)'
    BY <1>7, <1>8, <1>12, <2>2, <2>3 DEF FreshFit, At, Busy, Now, Turned
  <2>6. MadeAccounted' /\ OneTopicOutsideRelinks'
    BY <1>1, <1>7, <1>11, <1>13, <1>16, <2>4, OnceMore DEF OneInv
  <2> QED
    BY <1>5, <1>7, <1>8, <1>11, <2>2, <2>4, <2>5, <2>6, ActorKeeps
<1>17. CASE /\ made' = Append(made, [chat |-> c, slave |-> s])
            /\ do' = [do EXCEPT ![a].prog = Tail(t)]
  <2>1. MadeAccounted' /\ OneTopicOutsideRelinks'
    BY <1>1, <1>7, <1>11, <1>13, <1>14, <1>17, OnceMore DEF OneInv
  <2> QED
    BY <1>5, <1>9, <1>11, <1>14, <1>17, <2>1, ActorKeeps
<1>18. CASE UNCHANGED made /\ do' = [do EXCEPT ![a].prog = Tail(t)]
  <2>1. MadeAccounted' /\ OneTopicOutsideRelinks'
    BY <1>11, <1>13, <1>14, <1>18, NoneMade DEF OneInv
  <2> QED
    BY <1>5, <1>9, <1>11, <1>14, <1>18, <2>1, ActorKeeps
<1> QED
  BY <1>3, <1>15, <1>16, <1>17, <1>18 DEF RelinkTopic, Then

LEMMA BindOne ==
    ASSUME MInv, OneInv, NEW a \in Actors, Bind(a)
    PROVE  OneInv'
<1>1. RoutingInv /\ ActorShape
  BY PartsOfMInv DEF RoutingInv
<1>2. MadeKept
  BY <1>1, AddStep DEF Kept
<1>3. PICK q, p, n : q = do[a].fresh /\ p = Rest(a) /\ n = q.thread
  OBVIOUS
<1>4. /\ At(a, "bind") /\ Busy(a) /\ Now(a).st = "bind" /\ q # NoFresh
      /\ do' = [do EXCEPT ![a].prog = p, ![a].fresh = NoFresh]
      /\ topics' = WithTopic(q.chat, q.slave, n)
      /\ parted' = parted \cup Pairs({t \in topics : t.slave = q.slave /\ t.chat # q.chat})
      /\ UNCHANGED <<plan, made, mutex, todo, dropped>>
  BY <1>3 DEF Bind, At, Now
<1>5. a \in {Handler, Sender} /\ a \notin Threads
  BY <1>4, ThreadActor, WhoIsWho
<1>6. Turned(a, NoFresh) /\ do'[a].prog = p /\ do'[a].fresh = NoFresh
  <2>1. Turned(a, NoFresh)
    BY <1>1, <1>4, ActorForms
  <2>2. do'[a].prog = p
    <3>1. PICK f : f = NoFresh
      OBVIOUS
    <3> QED
      BY <1>1, <1>4, <3>1, ProgramForms
  <2> QED
    BY <2>1, <2>2 DEF Turned
<1>7. Frame(a) /\ TodoFits'
  BY <1>2, <1>4, <1>6, PartsOfCommands, SameTodo DEF Frame, LockKept, Turned, OneInv
<1>8. RowsKept /\ FreshKept(a)
  <2>1. [chat |-> q.chat, thread |-> q.thread, slave |-> q.slave] \in topics' /\ parted \subseteq parted'
    BY <1>3, <1>4 DEF WithTopic
  <2>2. ASSUME NEW t \in topics
        PROVE  \/ t \in topics'
               \/ <<t.chat, t.thread>> = <<q.chat, q.thread>>
               \/ t.slave = q.slave /\ (t.chat = q.chat \/ <<t.slave, t.chat>> \in parted')
    BY <1>3, <1>4 DEF WithTopic, Pairs
  <2> QED
    BY <1>1, <1>3, <1>4, <2>1, <2>2, RowKeeps
<1>9. FreshFit(a)'
  BY <1>6, NoFreshFits
<1>10. MadeAccounted' /\ OneTopicOutsideRelinks'
  BY <1>4, <1>7, <1>8, NoneMade DEF OneInv
<1>11. ProgramFits(p)
  BY <1>3, <1>4, <1>5, CommandActor
<1> QED
  BY <1>5, <1>6, <1>7, <1>9, <1>10, <1>11, ActorKeeps

LEMMA BindFailsOne ==
    ASSUME MInv, OneInv, NEW a \in Actors, BindFails(a)
    PROVE  OneInv'
<1>1. RoutingInv /\ ActorShape
  BY PartsOfMInv DEF RoutingInv
<1>2. MadeKept
  BY <1>1, LeaveStep DEF Kept
<1>3. PICK p : p = Rest(a)
  OBVIOUS
<1>4. /\ At(a, "bind") /\ Busy(a) /\ Now(a).st = "bind"
      /\ do' = [do EXCEPT ![a].prog = p, ![a].fresh = NoFresh]
      /\ parted' = parted \cup {<<do[a].fresh.slave, do[a].fresh.chat>>}
      /\ UNCHANGED <<plan, topics, made, mutex, todo, dropped>>
  BY <1>3 DEF BindFails, At, Now
<1>5. a \in {Handler, Sender} /\ a \notin Threads
  BY <1>4, ThreadActor, WhoIsWho
<1>6. Turned(a, NoFresh) /\ do'[a].prog = p /\ do'[a].fresh = NoFresh
  <2>1. Turned(a, NoFresh)
    BY <1>1, <1>4, ActorForms
  <2>2. do'[a].prog = p
    <3>1. PICK f : f = NoFresh
      OBVIOUS
    <3> QED
      BY <1>1, <1>4, <3>1, ProgramForms
  <2> QED
    BY <2>1, <2>2 DEF Turned
<1>7. Frame(a) /\ TodoFits'
  BY <1>2, <1>4, <1>6, PartsOfCommands, SameTodo DEF Frame, LockKept, Turned, OneInv
<1>8. RowsKept /\ FreshKept(a)
  <2>1. Lost \subseteq Lost' /\ <<do[a].fresh.slave, do[a].fresh.chat>> \in Lost'
    BY <1>4 DEF Lost
  <2> QED
    BY <1>4, <2>1, SameRows DEF FreshKept
<1>9. FreshFit(a)'
  BY <1>6, NoFreshFits
<1>10. MadeAccounted' /\ OneTopicOutsideRelinks'
  BY <1>4, <1>7, <1>8, NoneMade DEF OneInv
<1>11. ProgramFits(p)
  BY <1>3, <1>4, <1>5, CommandActor
<1> QED
  BY <1>5, <1>6, <1>7, <1>9, <1>10, <1>11, ActorKeeps

------------------------------------------------------------------------------
(* A message of a slave.                                                      *)

LEMMA IdleFields == Idle.prog = <<>> /\ Idle.thread = NoTopic /\ Idle.fresh = NoFresh
  BY DEF Idle

LEMMA ArriveOne ==
    ASSUME MInv, OneInv, NEW a \in Actors, Arrive(a)
    PROVE  OneInv'
<1>1. RoutingInv /\ ActorShape
  BY PartsOfMInv DEF RoutingInv
<1>2. MadeKept
  BY <1>1, ArriveStep DEF Kept
<1>3. /\ a \in Threads /\ ~Busy(a)
      /\ UNCHANGED <<plan, topics, made, mutex, todo, parted, dropped>>
  BY DEF Arrive, ghosts
<1>4. PICK x, s : x = Step("find", None, Head(heard), NoTopic) /\ s = {Head(heard)}
  OBVIOUS
<1>5. PICK p, r : p = <<x>> /\ r = [Idle EXCEPT !.op = "message", !.slaves = s, !.prog = <<x>>]
  OBVIOUS
<1>6. r.prog = p /\ r.thread = NoTopic /\ r.fresh = NoFresh
  BY <1>5 DEF Idle
<1>7. do'[a] = r /\ \A b \in Actors \ {a} : do'[b] = do[b]
  <2>1. do' = [do EXCEPT ![a] = r]
    BY <1>4, <1>5 DEF Arrive
  <2> QED
    BY <1>1, <2>1, ActorTypes
<1>8. Frame(a) /\ TodoFits'
  BY <1>2, <1>3, <1>7, PartsOfCommands, SameTodo DEF Frame, LockKept, OneInv
<1>9. FreshFit(a)'
  BY <1>6, <1>7, NoFreshFits
<1>10. do[a].fresh = NoFresh
  BY <1>3, EmptyHanded DEF At
<1>11. RowsKept /\ FreshKept(a)
  BY <1>3, <1>10, SameRows DEF Lost, FreshKept
<1>12. MadeAccounted' /\ OneTopicOutsideRelinks'
  BY <1>3, <1>8, <1>11, NoneMade DEF OneInv
<1>13. ThreadFits(a)'
  <2>1. Len(p) = 1 /\ p[1] = x /\ p = <<p[1]>>
    BY <1>5
  <2>2. x.st = "find"
    BY <1>4, StepFields
  <2> QED
    BY <1>6, <1>7, <2>1, <2>2 DEF ThreadFits
<1> QED
  BY <1>3, <1>6, <1>7, <1>8, <1>9, <1>12, <1>13, WhoIsWho, ActorKeeps

LEMMA FindOne ==
    ASSUME MInv, OneInv, NEW a \in Actors, Find(a)
    PROVE  OneInv'
<1>1. RoutingInv /\ ActorShape
  BY PartsOfMInv DEF RoutingInv
<1>2. MadeKept
  BY <1>1, FindStep DEF Kept
<1>3. /\ At(a, "find") /\ Busy(a) /\ Now(a).st = "find" /\ mutex = None /\ mutex' = a
      /\ UNCHANGED <<plan, topics, made, todo, parted, dropped>>
  BY DEF Find, At, Now, ghosts
<1>4. a \in Threads /\ a \notin {Handler, Sender} /\ do[a].thread = NoTopic
  <2>1. a \notin {Handler, Sender}
    BY <1>3, CommandActor DEF CommandStatements
  <2> QED
    BY <1>3, <2>1, ThreadActor, WhoIsWho
<1>5. PICK s, c : s = Now(a).slave /\ c = IF MasterOf(s) # None THEN MasterOf(s) ELSE TopicGroup
  OBVIOUS
<1>6. PICK x, y : x = Step("create", c, s, NoTopic) /\ y = Step("settle", c, s, NoTopic)
  OBVIOUS
<1>7. PICK p : p = (IF c \in Forums THEN <<x>> ELSE <<>>) \o <<y>>
  OBVIOUS
<1>8. do' = [do EXCEPT ![a].dest = c, ![a].prog = p]
  BY <1>5, <1>6, <1>7 DEF Find
<1>9. Turned(a, do[a].fresh) /\ do'[a].prog = p /\ do'[a].thread = do[a].thread
  BY <1>1, <1>8, ActorForms, ProgramForms
<1>10. Frame(a) /\ TodoFits'
  BY <1>2, <1>3, <1>9, PartsOfCommands, SameTodo DEF Frame, LockKept, Turned, OneInv
<1>11. do[a].fresh = NoFresh
  BY <1>3, EmptyHanded DEF At, Now
<1>12. FreshFit(a)' /\ FreshKept(a)
  BY <1>9, <1>11, SameFresh
<1>13. RowsKept
  BY <1>3, SameRows DEF Lost
<1>14. MadeAccounted' /\ OneTopicOutsideRelinks'
  BY <1>3, <1>10, <1>12, <1>13, NoneMade DEF OneInv
<1>15. /\ x.st = "create" /\ y.st = "settle" /\ x.chat = c /\ y.chat = c /\ x.slave = s /\ y.slave = s
  BY <1>6, StepFields
<1>16. ThreadFits(a)'
  <2>1. CASE c \in Forums
    <3>1. p = <<x, y>>
      BY <1>7, <2>1, OneThenOne
    <3>2. Len(p) = 2 /\ p[1] = x /\ p[2] = y
      BY <3>1
    <3> QED
      BY <1>3, <1>4, <1>9, <1>15, <3>1, <3>2 DEF ThreadFits
  <2>2. CASE c \notin Forums
    <3>1. p = <<y>>
      <4>1. <<y>> \in Seq({y})
        OBVIOUS
      <4>2. <<>> \o <<y>> = <<y>>
        BY <4>1, ConcatEmptySeq
      <4> QED
        BY <1>7, <2>2, <4>2
    <3>2. Len(p) = 1 /\ p[1] = y
      BY <3>1
    <3>3. IsFor(NoTopic, y)'
      BY DEF IsFor
    <3> QED
      BY <1>3, <1>4, <1>9, <1>15, <3>1, <3>2, <3>3 DEF ThreadFits, IsFor
  <2> QED
    BY <2>1, <2>2
<1> QED
  BY <1>4, <1>9, <1>10, <1>12, <1>14, <1>16, ActorKeeps

LEMMA SettleOne ==
    ASSUME MInv, OneInv, NEW a \in Actors, Settle(a)
    PROVE  OneInv'
<1>1. RoutingInv /\ ActorShape
  BY PartsOfMInv DEF RoutingInv
<1>2. MadeKept
  BY <1>1, SettleStep DEF Kept
<1>3. /\ At(a, "settle") /\ Busy(a) /\ Now(a).st = "settle" /\ mutex' = None
      /\ UNCHANGED <<plan, topics, made, todo, parted, dropped>>
  BY DEF Settle, At, Now
<1>4. /\ a \in Threads /\ a \notin {Handler, Sender}
      /\ IsFor(do[a].thread, Now(a)) /\ mutex = a
  <2>1. a \notin {Handler, Sender}
    BY <1>3, CommandActor DEF CommandStatements
  <2> QED
    BY <1>3, <2>1, ThreadActor, WhoIsWho
<1>5. PICK q, n : q = Now(a) /\ n = do[a].thread
  OBVIOUS
<1>6. PICK y : y = Step("deliver", q.chat, q.slave, n)
  OBVIOUS
<1>7. PICK p : p = <<y>>
  OBVIOUS
<1>8. do' = [do EXCEPT ![a].prog = p]
  BY <1>5, <1>6, <1>7 DEF Settle, Then
<1>9. Turned(a, do[a].fresh) /\ do'[a].prog = p
  BY <1>1, <1>8, ActorForms, ProgramForms
<1>10. Frame(a) /\ TodoFits'
  BY <1>2, <1>3, <1>4, <1>9, PartsOfCommands, SameTodo DEF Frame, LockKept, Turned, OneInv
<1>11. do[a].fresh = NoFresh
  BY <1>3, EmptyHanded DEF At, Now
<1>12. FreshFit(a)' /\ FreshKept(a)
  BY <1>9, <1>11, SameFresh
<1>13. RowsKept
  BY <1>3, SameRows DEF Lost
<1>14. MadeAccounted' /\ OneTopicOutsideRelinks'
  BY <1>3, <1>10, <1>12, <1>13, NoneMade DEF OneInv
<1>15. y.st = "deliver" /\ y.chat = q.chat /\ y.slave = q.slave /\ y.thread = n
  BY <1>6, StepFields
<1>16. IsFor(n, q)'
  BY <1>2, <1>4, <1>5, StaysFor
<1>17. ThreadFits(a)'
  <2>1. Len(p) = 1 /\ p[1] = y /\ p = <<p[1]>>
    BY <1>7
  <2> QED
    BY <1>9, <1>15, <1>16, <2>1 DEF ThreadFits, IsFor, MadeFor
<1> QED
  BY <1>4, <1>9, <1>10, <1>12, <1>14, <1>17, ActorKeeps

(* The rows that a refused delivery forgets are its own chat's.               *)
LEMMA DeliverOne ==
    ASSUME MInv, OneInv, NEW a \in Actors, Deliver(a)
    PROVE  OneInv'
<1>1. RoutingInv /\ ActorShape
  BY PartsOfMInv DEF RoutingInv
<1>2. MadeKept
  BY <1>1, DeliverStep DEF Kept
<1>3. /\ At(a, "deliver") /\ Busy(a) /\ Now(a).st = "deliver" /\ do' = [do EXCEPT ![a] = Idle]
      /\ UNCHANGED <<plan, made, mutex, todo, dropped>>
  BY DEF Deliver, At, Now
<1>4. /\ a \in Threads /\ a \notin {Handler, Sender}
      /\ IsFor(Now(a).thread, Now(a))
  <2>1. a \notin {Handler, Sender}
    BY <1>3, CommandActor DEF CommandStatements
  <2> QED
    BY <1>3, <2>1, ThreadActor, WhoIsWho
<1>5. PICK r : r = Idle
  OBVIOUS
<1>6. do'[a] = r /\ \A b \in Actors \ {a} : do'[b] = do[b]
  BY <1>1, <1>3, <1>5, ActorTypes
<1>7. do'[a].prog = <<>> /\ do'[a].fresh = NoFresh
  BY <1>5, <1>6, IdleFields
<1>8. Frame(a) /\ TodoFits'
  BY <1>2, <1>3, <1>6, PartsOfCommands, SameTodo DEF Frame, LockKept, OneInv
<1>9. FreshFit(a)'
  BY <1>7, NoFreshFits
<1>10. do[a].fresh = NoFresh
  BY <1>3, EmptyHanded DEF At, Now
<1>11. FreshKept(a)
  BY <1>10 DEF FreshKept
<1>12. RowsKept
  <2>1. PICK q : q = Now(a)
    OBVIOUS
  <2>2. CASE UNCHANGED <<topics, parted>>
    BY <1>3, <2>2, SameRows DEF Lost
  <2>3. CASE /\ q.thread # NoTopic /\ parted' = parted \cup {<<q.slave, q.chat>>}
             /\ topics' = topics \ {t \in topics : t.chat = q.chat /\ t.thread = q.thread}
    <3>1. Lost \subseteq Lost' /\ <<q.slave, q.chat>> \in Lost'
      BY <1>3, <2>3 DEF Lost
    <3>2. ASSUME NEW t \in topics, t.chat = q.chat, t.thread = q.thread
          PROVE  <<t.slave, t.chat>> \in Lost'
      <4>1. MadeFor(t.thread, t.chat, t.slave) /\ MadeFor(q.thread, q.chat, q.slave)
        BY <1>1, <1>4, <2>1, <2>3 DEF RoutingInv, TopicsAreMade, IsFor
      <4>2. PICK e : e = made[q.thread]
        OBVIOUS
      <4>3. e = [chat |-> t.chat, slave |-> t.slave] /\ e = [chat |-> q.chat, slave |-> q.slave]
        BY <3>2, <4>1, <4>2 DEF MadeFor
      <4>4. e.slave = t.slave /\ e.slave = q.slave
        BY <4>3
      <4> QED
        BY <3>1, <3>2, <4>4
    <3> QED
      BY <2>3, <3>1, <3>2 DEF RowsKept
  <2> QED
    BY <2>1, <2>2, <2>3 DEF Deliver
<1>13. MadeAccounted' /\ OneTopicOutsideRelinks'
  BY <1>3, <1>8, <1>11, <1>12, NoneMade DEF OneInv
<1>14. ThreadFits(a)'
  BY <1>7 DEF ThreadFits
<1> QED
  BY <1>4, <1>7, <1>8, <1>9, <1>13, <1>14, ActorKeeps

------------------------------------------------------------------------------
(* Commands begin.                                                            *)

LEMMA TodoShrinks ==
    ASSUME TodoFits, UNCHANGED plan, NEW a \in {Handler, Sender}, todo[a] # <<>>,
           todo' = [todo EXCEPT ![a] = Tail(@)]
    PROVE  /\ TodoFits'
           /\ Head(todo[a]) \in Commands
           /\ Head(todo[a]).op = "relink" => Head(todo[a]).to \in RelinkTargets
<1>1. PICK s : s = todo[a]
  OBVIOUS
<1>2. /\ s \in Seq(Commands) /\ s # <<>>
      /\ \A i \in DOMAIN s : s[i].op = "relink" => s[i].to \in RelinkTargets
  BY <1>1 DEF TodoFits
<1>3. /\ Head(s) \in Commands /\ Head(s) = s[1] /\ 1 \in DOMAIN s
      /\ Tail(s) \in Seq(Commands) /\ \A i \in DOMAIN Tail(s) : i + 1 \in DOMAIN s /\ Tail(s)[i] = s[i + 1]
  <2>1. /\ Head(s) \in Commands /\ Tail(s) \in Seq(Commands) /\ Len(Tail(s)) = Len(s) - 1
        /\ \A i \in 1 .. Len(Tail(s)) : Tail(s)[i] = s[i + 1]
    BY <1>2, HeadTailProperties
  <2>2. Head(s) = s[1] /\ Len(s) \in Nat \ {0} /\ DOMAIN s = 1 .. Len(s)
    BY <1>2, EmptySeq, LenProperties
  <2>3. DOMAIN Tail(s) = 1 .. Len(s) - 1
    BY <2>1, LenProperties
  <2> QED
    BY <2>1, <2>2, <2>3
<1>4. todo'[a] = Tail(s) /\ \A b \in {Handler, Sender} \ {a} : todo'[b] = todo[b]
  BY <1>1 DEF TodoFits
<1>5. RelinkTargets' = RelinkTargets
  BY SameTargets
<1>6. ASSUME NEW b \in {Handler, Sender}
      PROVE  /\ todo'[b] \in Seq(Commands)
             /\ \A i \in DOMAIN todo'[b] : todo'[b][i].op = "relink" => todo'[b][i].to \in RelinkTargets
  <2>1. CASE b = a
    <3>1. PICK t : t = Tail(s)
      OBVIOUS
    <3>2. todo'[b] = t /\ t \in Seq(Commands)
      BY <1>3, <1>4, <2>1, <3>1
    <3>3. \A i \in DOMAIN t : t[i].op = "relink" => t[i].to \in RelinkTargets
      BY <1>2, <1>3, <3>1
    <3> QED
      BY <3>2, <3>3
  <2>2. CASE b # a
    BY <1>4, <2>2 DEF TodoFits
  <2> QED
    BY <2>1, <2>2
<1>7. todo' \in [{Handler, Sender} -> Seq(Commands)]
  BY <1>3, <1>1 DEF TodoFits
<1>8. TodoFits'
  BY <1>5, <1>6, <1>7 DEF TodoFits
<1> QED
  BY <1>1, <1>2, <1>3, <1>8

LEMMA BeginOne ==
    ASSUME MInv, OneInv, NEW a \in {Handler, Sender}, Begin(a)
    PROVE  OneInv'
<1>1. RoutingInv /\ ActorShape /\ a \in Actors /\ a \notin Threads
  BY PartsOfMInv, WhoIsWho DEF RoutingInv
<1>2. MadeKept
  BY <1>1, BeginStep DEF Kept
<1>3. /\ ~Busy(a) /\ todo[a] # <<>> /\ todo' = [todo EXCEPT ![a] = Tail(@)]
      /\ UNCHANGED <<plan, topics, made, mutex, parted, dropped>>
  BY DEF Begin
<1>4. PICK q : q = Head(todo[a])
  OBVIOUS
<1>5. TodoFits' /\ q \in Commands /\ (q.op = "relink" => q.to \in RelinkTargets)
  BY <1>3, <1>4, PartsOfCommands, TodoShrinks DEF OneInv
<1>6. PICK p, t : p = Program(a, q) /\ t = Touches(q)
  OBVIOUS
<1>7. ProgramFits(p)
  BY <1>5, <1>6, CommandFits
<1>8. PICK r : r = [op |-> q.op, slaves |-> t, from |-> q.from, to |-> q.to, dest |-> None,
                    thread |-> NoTopic, fresh |-> NoFresh, prog |-> p]
  OBVIOUS
<1>9. do' = [do EXCEPT ![a] = r]
  BY <1>4, <1>6, <1>8 DEF Begin
<1>10. do'[a] = r /\ \A b \in Actors \ {a} : do'[b] = do[b]
  BY <1>1, <1>9, ActorTypes
<1>11. do'[a].prog = p /\ do'[a].fresh = NoFresh
  BY <1>8, <1>10
<1>12. Frame(a)
  BY <1>2, <1>3, <1>10 DEF Frame, LockKept
<1>13. FreshFit(a)'
  BY <1>1, <1>11, NoFreshFits
<1>14. do[a].fresh = NoFresh
  BY <1>1, <1>3, EmptyHanded DEF At
<1>15. RowsKept /\ FreshKept(a)
  BY <1>3, <1>14, SameRows DEF Lost, FreshKept
<1>16. MadeAccounted' /\ OneTopicOutsideRelinks'
  BY <1>1, <1>3, <1>12, <1>15, NoneMade DEF OneInv
<1> QED
  BY <1>1, <1>5, <1>7, <1>11, <1>12, <1>13, <1>16, ActorKeeps

LEMMA NothingBegins ==
    ASSUME OneInv, TodoFits', UNCHANGED <<plan, topics, made, mutex, do, parted, dropped>>
    PROVE  OneInv'
<1>1. RelinkTargets' = RelinkTargets
  BY SameTargets
<1>2. CommandsFit'
  BY <1>1, PartsOfCommands DEF OneInv, ProgramFits
<1>3. ThreadsFit'
  BY DEF OneInv, ThreadsFit, ThreadFits, IsFor, MadeFor
<1>4. FreshFits'
  BY <1>1 DEF OneInv, FreshFits, FreshFit, At, Busy, Now
<1>5. MadeAccounted'
  BY <1>1 DEF OneInv, MadeAccounted, Accounted
<1>6. OneTopicOutsideRelinks'
  BY <1>1 DEF OneInv, OneTopicOutsideRelinks
<1> QED
  BY <1>2, <1>3, <1>4, <1>5, <1>6 DEF OneInv

LEMMA RoutingOne ==
    ASSUME MInv, OneInv, RoutingStep
    PROVE  OneInv'
<1>1. ASSUME NEW a \in {Handler, Sender}, Begin(a) PROVE OneInv'
  BY <1>1, BeginOne
<1>2. ASSUME NEW a \in {Handler, Sender}, BeginNothing(a) PROVE OneInv'
  <2>1. /\ todo[a] # <<>> /\ todo' = [todo EXCEPT ![a] = Tail(@)]
        /\ UNCHANGED <<plan, topics, made, mutex, do, parted, dropped>>
    BY <1>2 DEF BeginNothing, ghosts
  <2>2. TodoFits'
    BY <2>1, PartsOfCommands, TodoShrinks DEF OneInv
  <2> QED
    BY <2>1, <2>2, NothingBegins
<1>3. ASSUME NEW a \in Threads, Arrive(a) PROVE OneInv'
  BY <1>3, WhoIsWho, ArriveOne
<1>4. ASSUME NEW a \in Actors, Statement(a) PROVE OneInv'
  BY <1>4, UnlinkOne, CreateOne, CreateLockedOne, ClearOne, AddOne, StoreFailsOne, RelinkTopicOne, BindOne,
     BindFailsOne, FindOne, SettleOne, DeliverOne DEF Statement, Removes
<1>5. ASSUME NEW c \in Chats, Expire(c) PROVE OneInv'
  <2>1. UNCHANGED <<plan, topics, made, mutex, todo, do, parted, dropped>>
    BY <1>5 DEF Expire, ghosts
  <2> QED
    BY <2>1, PartsOfCommands, SameTodo, NothingBegins DEF OneInv
<1> QED
  BY <1>1, <1>2, <1>3, <1>4, <1>5 DEF RoutingStep

------------------------------------------------------------------------------
(* The theorem.                                                               *)

LEMMA OneStarts == MasterInit => OneInv
<1> SUFFICES ASSUME MasterInit PROVE OneInv
  OBVIOUS
<1>1. /\ plan \in Plans /\ made = <<>> /\ do = [a \in Actors |-> Idle]
      /\ todo = [a \in {Handler, Sender} |-> IF a = Handler THEN plan.handler ELSE plan.sender]
  BY DEF MasterInit, Init
<1>2. \A a \in Actors : do[a].prog = <<>> /\ do[a].fresh = NoFresh
  BY <1>1, IdleFields
<1>3. plan.handler \in Seq(Commands) /\ plan.sender \in Seq(Commands)
  BY <1>1, RoutingAssumption
<1>4. TodoFits
  <2>1. todo[Handler] = plan.handler /\ todo[Sender] = plan.sender
    BY <1>1, WhoIsWho
  <2>2. todo \in [{Handler, Sender} -> Seq(Commands)]
    BY <1>1, <1>3
  <2>3. ASSUME NEW a \in {Handler, Sender}, NEW i \in DOMAIN todo[a], todo[a][i].op = "relink"
        PROVE  todo[a][i].to \in RelinkTargets
    <3>1. PICK r : r = todo[a][i]
      OBVIOUS
    <3>2. r \in Range(plan.handler) \cup Range(plan.sender)
      BY <2>1, <3>1, <2>3 DEF Range
    <3> QED
      BY <2>3, <3>1, <3>2 DEF RelinkTargets
  <2> QED
    BY <2>2, <2>3 DEF TodoFits
<1>5. CommandsFit
  BY <1>1, <1>2, <1>4, EmptyFits, WhoIsWho DEF CommandsFit, TodoFits
<1>6. ThreadsFit
  BY <1>2, WhoIsWho DEF ThreadsFit, ThreadFits
<1>7. FreshFits
  BY <1>2 DEF FreshFits, FreshFit
<1>8. MadeAccounted /\ OneTopicOutsideRelinks
  <2>1. DOMAIN made = {}
    BY <1>1
  <2> QED
    BY <2>1 DEF MadeAccounted, OneTopicOutsideRelinks
<1> QED
  BY <1>5, <1>6, <1>7, <1>8 DEF OneInv

LEMMA OneSteps == ASSUME MInv, OneInv, [Next]_vars PROVE OneInv'
<1>1. ASSUME UNCHANGED <<plan, topics, made, mutex, do, todo, parted, dropped>> PROVE OneInv'
  BY <1>1, PartsOfCommands, SameTodo, NothingBegins DEF OneInv
<1>2. CASE RoutingStep
  BY <1>2, RoutingOne
<1>3. CASE UNCHANGED routing
  BY <1>1, <1>3 DEF routing, ghosts
<1>4. CASE Choose
  BY <1>1, <1>4 DEF Choose
<1>5. CASE Fails
  BY <1>1, <1>5 DEF Fails, ghosts
<1>6. CASE Take \/ ReadLinks \/ CheckTopic \/ ReadTopics \/ HandOver
  BY <1>3, <1>6 DEF Take, ReadLinks, CheckTopic, ReadTopics, HandOver
<1>7. CASE StopStep
  BY <1>3, <1>7 DEF StopStep, StopBegins, Drain, PutToken
<1>8. CASE \E u \in Updates, n \in Topics \cup {NoTopic, Foreign} : Receive(u, n)
  BY <1>3, <1>8 DEF Receive
<1>9. CASE \E u \in Updates, s \in Slaves : Pick(u, s)
  BY <1>3, <1>9 DEF Pick
<1>10. CASE UNCHANGED vars
  BY <1>3, <1>10 DEF vars
<1> QED
  BY <1>2, <1>4, <1>5, <1>6, <1>7, <1>8, <1>9, <1>10 DEF Next, WorkerStep

(* One topic per remote chat in every forum that nothing is relinked to:      *)
(* with the lock from the look-up to the stored number, however messages of   *)
(* the chat, links, migrations and /init_topics interleave (create_topic,     *)
(* get_slave_msg_dest), and however often Telegram's answer is lost.          *)
THEOREM OneTopicTheorem == Spec => []OneTopicOutsideRelinks
<1>1. MasterInit => OneInv
  BY OneStarts
<1>2. MInv /\ OneInv /\ [Next]_vars => OneInv'
  BY OneSteps
<1>3. OneInv => OneTopicOutsideRelinks
  BY DEF OneInv
<1> QED
  BY <1>1, <1>2, <1>3, MasterInductive, PTL DEF Spec

(* What the runs check of links and topics, for any plan without a relink,    *)
(* whose topic create_topic's lock does not cover (relink_forum).             *)
THEOREM TopicInvTheorem ==
    ASSUME \A p \in Plans : \A q \in Range(p.handler) \cup Range(p.sender) : q.op # "relink"
    PROVE  Spec => []TopicInv
<1>1. ASSUME MInv, OneInv PROVE TopicInv
  <2>1. plan \in Plans
    BY <1>1, PartsOfCommands DEF OneInv
  <2>2. RelinkTargets = {}
    BY <2>1 DEF RelinkTargets
  <2>3. ASSUME NEW p \in MadeTwice PROVE p \in parted \cup dropped
    <3>1. PICK j \in DOMAIN made : /\ p = <<made[j].slave, made[j].chat>>
                                  /\ \E k \in DOMAIN made : j < k /\ made[j] = made[k]
      BY <2>3 DEF MadeTwice
    <3> QED
      BY <1>1, <2>2, <3>1 DEF OneInv, OneTopicOutsideRelinks
  <2> QED
    BY <1>1, <2>3 DEF MInv, TopicInv, OneTopicPerChat
<1>2. MasterInit => OneInv
  BY OneStarts
<1>3. MInv /\ OneInv /\ [Next]_vars => OneInv'
  BY OneSteps
<1>4. MInv /\ OneInv => TopicInv
  BY <1>1
<1> QED
  BY <1>2, <1>3, <1>4, MasterInductive, PTL DEF Spec
==============================================================================
