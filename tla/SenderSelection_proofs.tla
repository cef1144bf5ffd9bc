------------------------ MODULE SenderSelection_proofs ------------------------
(* Theorems about SenderSelection, for any bots, chats, slave chats, rows and *)
(* requests that satisfy SelectionAssumption, any number of moves and adverse *)
(* events.  One lemma per kind of step about what the process knows of its    *)
(* bots, one about each group of steps of the worker, then the theorems.      *)
EXTENDS SenderSelection, SequenceTheorems, TLAPS

(* A step of the membership threads or of the outside world leaves the cache  *)
(* and the probes typed and current.                                          *)
LEMMA MovesKeeps ==
    ASSUME MembershipTypeOK, MembershipInv, NEW p \in Pairs, Moves(p)
    PROVE  MembershipTypeOK' /\ MembershipInv'
BY DEF MembershipTypeOK, MembershipInv, CacheIsCurrent, Moves, Known, Probe, Fact,
       IsCurrentGeneration

(* The same for the handling of a service message.                            *)
LEMMA HandleNoticeKeeps ==
    ASSUME MembershipTypeOK, MembershipInv, NEW p \in Pairs, HandleNotice(p)
    PROVE  MembershipTypeOK' /\ MembershipInv'
<1>1. notices[p] \in Seq(BOOLEAN) /\ notices[p] # <<>>
  BY DEF MembershipTypeOK, HandleNotice
<1>2. /\ Head(notices[p]) \in BOOLEAN /\ Tail(notices[p]) \in Seq(BOOLEAN)
      /\ Tail(notices[p]) # <<>> => Tail(notices[p])[Len(Tail(notices[p]))] = notices[p][Len(notices[p])]
      /\ Tail(notices[p]) = <<>> => Head(notices[p]) = notices[p][Len(notices[p])]
  <2> DEFINE s == notices[p]
  <2>1. s \in Seq(BOOLEAN) /\ s # <<>>
    BY <1>1
  <2> HIDE DEF s
  <2>2. Head(s) \in BOOLEAN /\ Tail(s) \in Seq(BOOLEAN)
    BY <2>1
  <2>3. Len(s) \in Nat /\ Len(s) >= 1 /\ Len(Tail(s)) = Len(s) - 1 /\ Head(s) = s[1]
    BY <2>1
  <2>4. ASSUME Tail(s) # <<>> PROVE Tail(s)[Len(Tail(s))] = s[Len(s)]
    <3>1. Len(Tail(s)) \in 1 .. Len(s) - 1
      BY <2>2, <2>3, <2>4, EmptySeq
    <3> QED BY <2>1, <2>3, <3>1
  <2>5. ASSUME Tail(s) = <<>> PROVE Head(s) = s[Len(s)]
    <3>1. Len(Tail(s)) = Len(<<>>)
      BY <2>5
    <3>2. Len(Tail(s)) = 0
      BY <3>1
    <3>3. Len(s) = 1
      BY <2>3, <3>2
    <3> QED BY <3>3, <2>3
  <2> QED BY <2>2, <2>4, <2>5 DEF s
<1>3. MembershipTypeOK'
  <2>1. /\ notices' \in [Pairs -> Seq(BOOLEAN)]
        /\ known' \in [Pairs -> Known] /\ generation' \in [Pairs -> Nat]
    <3>1. notices' = [notices EXCEPT ![p] = Tail(notices[p])]
      BY DEF HandleNotice
    <3>2. known' = [known EXCEPT ![p] = Fact(Head(notices[p]))] /\ Fact(Head(notices[p])) \in Known
      BY DEF HandleNotice, Fact, Known
    <3>3. generation' = [generation EXCEPT ![p] = generation[p] + 1] /\ generation[p] + 1 \in Nat
      BY DEF HandleNotice, MembershipTypeOK
    <3> QED BY <1>2, <3>1, <3>2, <3>3 DEF MembershipTypeOK
  <2> QED BY <2>1 DEF MembershipTypeOK, HandleNotice
<1>4. CacheIsCurrent'
  BY <1>2 DEF MembershipTypeOK, MembershipInv, CacheIsCurrent, HandleNotice
<1>5. ASSUME NEW q \in Pairs
      PROVE  /\ notices'[q] # <<>> => notices'[q][Len(notices'[q])] = member'[q]
             /\ probe'[q].gen <= generation'[q]
             /\ probe'[q].at = "answered" /\ probe'[q].gen = generation'[q] /\ notices'[q] = <<>>
                   => probe'[q].saw = member'[q]
  <2>1. CASE q = p
    <3>1. probe[p].gen \in Nat /\ generation[p] \in Nat /\ generation'[p] = generation[p] + 1
      BY DEF MembershipTypeOK, HandleNotice, Probe
    <3>2. probe[p].gen <= generation[p] /\ probe' = probe /\ member' = member /\ notices'[p] = Tail(notices[p])
      BY DEF MembershipTypeOK, MembershipInv, HandleNotice
    <3>3. probe'[p].gen <= generation'[p] /\ probe'[p].gen # generation'[p]
      BY <3>1, <3>2
    <3> QED BY <2>1, <3>2, <3>3, <1>2 DEF MembershipInv, HandleNotice
  <2>2. CASE q # p
    BY <2>2 DEF MembershipTypeOK, MembershipInv, HandleNotice, IsCurrentGeneration
  <2> QED BY <2>1, <2>2
<1> QED BY <1>3, <1>4, <1>5 DEF MembershipInv, IsCurrentGeneration

(* The same for a look at a bot, which may start a probe.                     *)
LEMMA LookKeeps ==
    ASSUME MembershipTypeOK, MembershipInv, NEW p \in Pairs, StartProbe(p)
    PROVE  MembershipTypeOK' /\ MembershipInv'
<1>1. CASE probe[p].at = "none"
  <2>1. probe' = [probe EXCEPT ![p] = [at |-> "asking", gen |-> generation[p], saw |-> FALSE]]
    BY <1>1 DEF StartProbe
  <2>2. MembershipTypeOK'
    <3>1. generation[p] \in Nat
      BY DEF MembershipTypeOK
    <3>2. [at |-> "asking", gen |-> generation[p], saw |-> FALSE] \in Probe
      BY <3>1 DEF Probe
    <3> QED BY <2>1, <3>2 DEF MembershipTypeOK, StartProbe
  <2>3. \A q \in Pairs : /\ q = p => probe'[q].gen = generation[q] /\ probe'[q].at = "asking"
                         /\ q # p => probe'[q] = probe[q]
    BY <2>1 DEF MembershipTypeOK
  <2>4. \A q \in Pairs : generation[q] \in Nat
    BY DEF MembershipTypeOK
  <2>5. CacheIsCurrent'
    BY DEF MembershipInv, CacheIsCurrent, StartProbe
  <2>6. ASSUME NEW q \in Pairs
        PROVE  /\ notices'[q] # <<>> => notices'[q][Len(notices'[q])] = member'[q]
               /\ probe'[q].gen <= generation'[q]
               /\ probe'[q].at = "answered" /\ probe'[q].gen = generation'[q] /\ notices'[q] = <<>>
                     => probe'[q].saw = member'[q]
    <3>1. member' = member /\ notices' = notices /\ generation' = generation
      BY DEF StartProbe
    <3> QED BY <2>3, <2>4, <3>1 DEF MembershipInv, IsCurrentGeneration
  <2> QED BY <2>2, <2>5, <2>6 DEF MembershipInv, IsCurrentGeneration
<1>2. CASE probe[p].at # "none"
  <2>1. probe' = probe
    BY <1>2 DEF StartProbe
  <2> QED BY <2>1 DEF MembershipTypeOK, MembershipInv, CacheIsCurrent, StartProbe,
                      IsCurrentGeneration
<1> QED BY <1>1, <1>2

(* The same for the steps of a probe and for an entry that becomes too old.   *)
LEMMA ProbeKeeps ==
    ASSUME MembershipTypeOK, MembershipInv, NEW p \in Pairs,
           ProbeAnswered(p) \/ ProbeFails(p) \/ UseAnswer(p) \/ ProbeEnds(p) \/ Expires(p)
    PROVE  MembershipTypeOK' /\ MembershipInv'
<1>1. CASE ProbeAnswered(p)
  BY <1>1 DEF MembershipTypeOK, MembershipInv, CacheIsCurrent, ProbeAnswered, Known, Probe, Fact,
       IsCurrentGeneration
<1>2. CASE ProbeFails(p)
  BY <1>2 DEF MembershipTypeOK, MembershipInv, CacheIsCurrent, ProbeFails, Known, Probe, Fact,
       IsCurrentGeneration
<1>3. CASE UseAnswer(p)
  BY <1>3 DEF MembershipTypeOK, MembershipInv, CacheIsCurrent, UseAnswer, Known, Probe, Fact,
       IsCurrentGeneration
<1>4. CASE ProbeEnds(p)
  <2>1. /\ NoProbe \in Probe /\ NoProbe.gen = 0 /\ NoProbe.at = "none"
        /\ generation[p] \in Nat /\ probe' = [probe EXCEPT ![p] = NoProbe]
    BY <1>4 DEF MembershipTypeOK, ProbeEnds, NoProbe, Probe
  <2> QED BY <1>4, <2>1 DEF MembershipTypeOK, MembershipInv, CacheIsCurrent, ProbeEnds,
                            IsCurrentGeneration
<1>5. CASE Expires(p)
  BY <1>5 DEF MembershipTypeOK, MembershipInv, CacheIsCurrent, Expires, Known, Probe, Fact,
       IsCurrentGeneration
<1> QED BY <1>1, <1>2, <1>3, <1>4, <1>5

------------------------------------------------------------------------------

(* Rows, requests and pairs have the types the worker relies on.              *)
LEMMA Typing ==
    ASSUME TypeOK
    PROVE  /\ \A r \in Rows : /\ row[r].call.chat \in Chats
                             /\ row[r].call.slave \in Slaves \union {NoSlave}
                             /\ row[r].sender \in Senders \union {Any}
           /\ Main \in Senders /\ Main \notin Auxiliaries /\ Any \notin Senders
           /\ scan.id \in Rows
<1>1. Main \in Senders /\ Main \notin Auxiliaries
  BY SelectionAssumption DEF Senders
<1>2. Any \notin Senders
  <2>1. Senders \subseteq Nat
    BY SelectionAssumption DEF Senders
  <2>2. Any \notin Nat
    BY SelectionAssumption DEF SelectionAssumption
  <2> QED BY <2>1, <2>2
<1>3. scan.id \in Rows
  BY DEF TypeOK, Scan
<1>4. ASSUME NEW r \in Rows
      PROVE  row[r] \in Row /\ row[r].call \in Call /\ row[r].sender \in Senders \union {Any}
  BY DEF TypeOK, Row
<1> QED BY <1>1, <1>2, <1>3, <1>4 DEF Call

(* The value of an idle worker, and of a row that is not there, is typed.     *)
LEMMA Constants ==
    Idle \in Scan /\ ~ Idle.on /\ NoRow \in Row /\ NoRow.at = "none"
<1>1. AnyRow \in Rows
  BY SelectionAssumption DEF AnyRow
<1>2. AnyCall \in Call
  <2>1. PICK ch \in Chats : TRUE
    BY SelectionAssumption
  <2>2. [chat |-> ch, slave |-> NoSlave, required |-> Any, kind |-> "eventual"] \in Call
    BY DEF Call, Kinds
  <2> QED BY <2>2 DEF AnyCall
<1>3. Main \in Senders
  BY DEF Senders
<1> QED BY <1>1, <1>2, <1>3 DEF Idle, Scan, NoRow, Row, RowAt, Known

(* What is the same before and after a step keeps the invariant's part about  *)
(* membership.                                                                *)
LEMMA SameMembership ==
    ASSUME SInv, UNCHANGED membership
    PROVE  MembershipTypeOK' /\ MembershipInv'
BY DEF SInv, TypeOK, membership, MembershipTypeOK, MembershipInv, CacheIsCurrent,
       IsCurrentGeneration

(* A reported change removes affinities, and adds none.                       *)
LEMMA ChangeEffect ==
    ASSUME TypeOK, NEW p \in Pairs, NEW saysAbsent, MembershipChanged(p, saysAbsent)
    PROVE  /\ preferred' \in [Slaves -> Senders]
           /\ failedFor' \in [Pairs -> SUBSET Slaves]
           /\ \A s \in Slaves : preferred'[s] \in {Main, preferred[s]}
<1>1. CASE saysAbsent
  BY <1>1, Typing DEF MembershipChanged, DropAffinity, TypeOK
<1>2. CASE ~ saysAbsent
  BY <1>2 DEF MembershipChanged, TypeOK
<1> QED BY <1>1, <1>2

(* What a failed send leaves behind has its type.                             *)
LEMMA RememberedTypes ==
    ASSUME TypeOK, NEW r \in Rows, NEW b, RememberFailure(row[r].call, b)
    PROVE  failedFor' \in [Pairs -> SUBSET Slaves]
BY Typing DEF RememberFailure, HasSlave, TypeOK, Pairs

(* The outside world and the membership threads keep the invariant.           *)
LEMMA MembershipStepsKeep ==
    ASSUME SInv, NEW p \in Pairs,
           BotMoves(p) \/ NoticeHandled(p) \/ AnswerUsed(p) \/ ProbeStep(p) \/ ProbeTrouble(p)
    PROVE  SInv'
<1> USE DEF SInv
<1>1. CASE BotMoves(p)
  <2>1. MembershipTypeOK' /\ MembershipInv'
    BY <1>1, MovesKeeps DEF BotMoves, TypeOK
  <2>2. TypeOK'
    BY <1>1, <2>1, SelectionAssumption DEF BotMoves, TypeOK, worker
  <2>3. \A q \in Pairs : notices'[q] # <<>> => q \in moved'
    BY <1>1 DEF BotMoves, Moves, TypeOK, MembershipTypeOK
  <2>4. ScanKnows'
    BY <1>1, Typing DEF BotMoves, Moves, worker, ScanKnows, TypeOK, MembershipTypeOK, Pairs
  <2>5. AcceptedDelivered' /\ AffinityEarned'
    BY <1>1 DEF BotMoves, worker, AcceptedDelivered, AffinityEarned
  <2> QED BY <2>1, <2>2, <2>3, <2>4, <2>5
<1>2. ASSUME \/ NoticeHandled(p)
             \/ AnswerUsed(p)
      PROVE  SInv'
  <2>1. MembershipTypeOK' /\ MembershipInv'
    BY <1>2, HandleNoticeKeeps, ProbeKeeps DEF NoticeHandled, AnswerUsed, TypeOK
  <2>2. PICK x : MembershipChanged(p, x)
    BY <1>2 DEF NoticeHandled, AnswerUsed
  <2>3. /\ preferred' \in [Slaves -> Senders]
        /\ failedFor' \in [Pairs -> SUBSET Slaves]
        /\ \A s \in Slaves : preferred'[s] \in {Main, preferred[s]}
    BY <2>2, ChangeEffect
  <2>4. UNCHANGED <<resting, row, scan, delivered, moved, moves, troubles, member>>
    BY <1>2 DEF NoticeHandled, AnswerUsed, HandleNotice, UseAnswer
  <2>5. TypeOK'
    BY <2>1, <2>3, <2>4 DEF TypeOK
  <2>6. \A q \in Pairs : notices'[q] # <<>> => q \in moved'
    BY <1>2, <2>4 DEF NoticeHandled, AnswerUsed, HandleNotice, UseAnswer, TypeOK, MembershipTypeOK
  <2>7. ScanKnows' /\ AcceptedDelivered'
    BY <2>4 DEF ScanKnows, AcceptedDelivered
  <2>8. AffinityEarned'
    BY <2>3, <2>4 DEF AffinityEarned
  <2> QED BY <2>1, <2>5, <2>6, <2>7, <2>8
<1>3. ASSUME \/ ProbeStep(p)
             \/ ProbeTrouble(p)
      PROVE  SInv'
  <2>1. MembershipTypeOK' /\ MembershipInv'
    BY <1>3, ProbeKeeps DEF ProbeStep, ProbeTrouble, TypeOK
  <2>2. /\ UNCHANGED <<worker, delivered, moved, moves, member, notices>>
        /\ troubles' \in 0 .. MaxTroubles
    <3>1. UNCHANGED <<worker, delivered, moved, moves, member, notices>>
      BY <1>3 DEF ProbeStep, ProbeTrouble, ProbeAnswered, ProbeFails, ProbeEnds, Expires
    <3>2. troubles' = troubles \/ (troubles < MaxTroubles /\ troubles' = troubles + 1)
      BY <1>3 DEF ProbeStep, ProbeTrouble, Trouble
    <3> QED BY <3>1, <3>2, SelectionAssumption DEF TypeOK
  <2>3. TypeOK'
    BY <2>1, <2>2 DEF TypeOK, worker
  <2> QED BY <2>1, <2>2, <2>3 DEF worker, ScanKnows, AcceptedDelivered, AffinityEarned
<1> QED BY <1>1, <1>2, <1>3

(* A step that writes one row, and leaves the row under selection alone unless*)
(* it ends the selection, keeps the invariant's parts about rows.             *)
LEMMA RowStep ==
    ASSUME SInv, NEW r \in Rows, NEW x \in Row,
           row' = [row EXCEPT ![r] = x],
           UNCHANGED <<membership, moved>>,
           delivered \subseteq delivered',
           ~ scan'.on \/ (scan' = scan /\ (scan.on => row[r].at # "queued")),
           x.at \in InFlight => x.sender \in Senders,
           x.at = "accepted" /\ x.sender \in Auxiliaries /\ x.call.slave \in Slaves
              => <<x.call.slave, x.sender>> \in delivered'
    PROVE  /\ MembershipTypeOK' /\ MembershipInv'
           /\ \A p \in Pairs : notices'[p] # <<>> => p \in moved'
           /\ ScanKnows' /\ AcceptedDelivered'
           /\ row' \in [Rows -> Row]
<1>1. MembershipTypeOK' /\ MembershipInv' /\ member' = member /\ notices' = notices
  BY SameMembership DEF membership
<1>2. row' \in [Rows -> Row] /\ \A q \in Rows : row'[q] = IF q = r THEN x ELSE row[q]
  BY DEF SInv, TypeOK
<1>3. ScanKnows'
  <2>1. CASE ~ scan'.on
    BY <2>1 DEF ScanKnows
  <2>2. CASE scan' = scan /\ scan.on /\ row[r].at # "queued"
    <3>1. scan.id # r /\ scan.id \in Rows
      BY <2>2, Typing DEF SInv, ScanKnows
    <3>2. row'[scan'.id] = row[scan.id]
      BY <2>2, <3>1, <1>2
    <3> QED BY <2>2, <3>2, <1>1 DEF SInv, ScanKnows
  <2> QED BY <2>1, <2>2
<1>4. AcceptedDelivered'
  BY <1>2 DEF SInv, AcceptedDelivered
<1> QED BY <1>1, <1>2, <1>3, <1>4 DEF SInv

(* Enqueueing, and the worker's selection, keep the invariant.                *)
LEMMA SweepKeeps ==
    ASSUME SInv, NEW r \in Rows,
           Enqueue(r) \/ Begin(r) \/ Submit(r) \/ Refuse(r) \/ Defer(r)
    PROVE  SInv'
<1>1. CASE Enqueue(r)
  <2>1. PICK c \in Calls :
           /\ row[r].at = "none"
           /\ row' = [row EXCEPT ![r] = [NoRow EXCEPT !.at = "queued", !.call = c]]
    BY <1>1 DEF Enqueue
  <2> DEFINE x == [NoRow EXCEPT !.at = "queued", !.call = c]
  <2>2. x \in Row /\ x.at = "queued"
    BY Constants, SelectionAssumption DEF Row, RowAt
  <2>3. UNCHANGED <<membership, preferred, failedFor, resting, scan, delivered, moved, moves, troubles>>
    BY <1>1 DEF Enqueue
  <2> HIDE DEF x
  <2>4. /\ MembershipTypeOK' /\ MembershipInv'
        /\ \A p \in Pairs : notices'[p] # <<>> => p \in moved'
        /\ ScanKnows' /\ AcceptedDelivered'
        /\ row' \in [Rows -> Row]
    BY <2>1, <2>2, <2>3, RowStep DEF x, InFlight, Answers
  <2> QED BY <2>3, <2>4 DEF SInv, TypeOK, AffinityEarned
<1>2. CASE Begin(r)
  <2>1. /\ row[r].at = "queued"
        /\ scan' = [Idle EXCEPT !.on = TRUE, !.id = r, !.todo = Asked(row[r].call),
                      !.mainFree = <<Main, row[r].call.chat>> \notin resting]
        /\ UNCHANGED <<membership, preferred, failedFor, resting, row, delivered, moved, moves, troubles>>
    BY <1>2 DEF Begin, IsHead
  <2>2. scan' \in Scan /\ scan'.id = r /\ \A b \in Auxiliaries : scan'.seen[b] = "unknown"
    BY <2>1, Constants DEF Scan, Idle, Asked
  <2>3. MembershipTypeOK' /\ MembershipInv' /\ notices' = notices
    BY <2>1, SameMembership DEF membership
  <2>4. ScanKnows'
    BY <2>1, <2>2 DEF ScanKnows
  <2> QED BY <2>1, <2>2, <2>3, <2>4 DEF SInv, TypeOK, AcceptedDelivered, AffinityEarned
<1>3. CASE Submit(r)
  <2>1. PICK s \in Selectable(row[r].call) :
           row' = [row EXCEPT ![r].at = "calling", ![r].sender = s]
    BY <1>3 DEF Submit, Chosen, IsBest
  <2>2. s \in Senders
    BY <2>1, Typing DEF Selectable, Candidates, Senders
  <2> DEFINE x == [row[r] EXCEPT !.at = "calling", !.sender = s]
  <2>3. x \in Row /\ x.at = "calling" /\ x.sender = s
    BY <2>2 DEF SInv, TypeOK, Row, RowAt, InFlight
  <2>4. row' = [row EXCEPT ![r] = x]
    BY <2>1
  <2>5. /\ scan' = Idle
        /\ UNCHANGED <<membership, preferred, failedFor, resting, delivered, moved, moves, troubles>>
    BY <1>3 DEF Submit
  <2> HIDE DEF x
  <2>6. /\ MembershipTypeOK' /\ MembershipInv'
        /\ \A p \in Pairs : notices'[p] # <<>> => p \in moved'
        /\ ScanKnows' /\ AcceptedDelivered'
        /\ row' \in [Rows -> Row]
    BY <2>2, <2>3, <2>4, <2>5, Constants, RowStep
  <2> QED BY <2>5, <2>6, Constants DEF SInv, TypeOK, AffinityEarned
<1>4. CASE Refuse(r)
  <2> DEFINE x == [row[r] EXCEPT !.at = "refused"]
  <2>1. x \in Row /\ x.at = "refused"
    BY DEF SInv, TypeOK, Row, RowAt, Settled
  <2>2. /\ row' = [row EXCEPT ![r] = x] /\ scan' = Idle
        /\ UNCHANGED <<membership, preferred, resting, delivered, moved, moves, troubles>>
        /\ failedFor' \in [Pairs -> SUBSET Slaves]
    BY <1>4, RememberedTypes DEF Refuse, SInv
  <2> HIDE DEF x
  <2>3. /\ MembershipTypeOK' /\ MembershipInv'
        /\ \A p \in Pairs : notices'[p] # <<>> => p \in moved'
        /\ ScanKnows' /\ AcceptedDelivered'
        /\ row' \in [Rows -> Row]
    BY <2>1, <2>2, Constants, RowStep DEF InFlight, Answers
  <2> QED BY <2>2, <2>3, Constants DEF SInv, TypeOK, AffinityEarned
<1>5. CASE Defer(r)
  <2>1. /\ scan' = Idle
        /\ UNCHANGED <<membership, preferred, failedFor, resting, row, delivered, moved, moves, troubles>>
    BY <1>5 DEF Defer
  <2>2. MembershipTypeOK' /\ MembershipInv' /\ notices' = notices
    BY <2>1, SameMembership DEF membership
  <2> QED BY <2>1, <2>2, Constants DEF SInv, TypeOK, ScanKnows, AcceptedDelivered, AffinityEarned
<1> QED BY <1>1, <1>2, <1>3, <1>4, <1>5

(* A look at a bot keeps the invariant: what the worker notes is what the     *)
(* cache says, and when no service message is to come the cache is right.     *)
LEMMA CheckKeeps ==
    ASSUME SInv, NEW b \in Auxiliaries, Check(b)
    PROVE  SInv'
<1> DEFINE ch == row[scan.id].call.chat
           p == <<b, ch>>
<1>1. p \in Pairs /\ scan.id \in Rows /\ scan.on
  BY Typing DEF SInv, Pairs, Check
<1>2. /\ UNCHANGED membership
      /\ scan' = [scan EXCEPT !.todo = @ \ {b}, !.seen[b] = known[p],
                     !.probing = IF known[p] = "unknown" THEN b ELSE Main]
      /\ moved' = IF notices[p] = <<>> THEN moved \ {p} ELSE moved
      /\ UNCHANGED <<preferred, failedFor, resting, row, delivered, moves, troubles>>
  BY DEF Check
<1> HIDE DEF p
<1>3. MembershipTypeOK' /\ MembershipInv'
  BY <1>2, SameMembership
<1>4. member' = member /\ notices' = notices /\ known[p] \in Known
  BY <1>1, <1>2 DEF membership, SInv, TypeOK, MembershipTypeOK
<1>5. scan' \in Scan
  BY <1>2, <1>4, Typing DEF SInv, TypeOK, Scan, Senders
<1>6. ScanKnows'
  <2>1. scan'.id = scan.id /\ row' = row /\ row[scan.id].at = "queued"
    BY <1>1, <1>2 DEF SInv, TypeOK, Scan, ScanKnows
  <2>2. ASSUME NEW a \in Auxiliaries, <<a, ch>> \notin moved', scan'.seen[a] # "unknown"
        PROVE  scan'.seen[a] = Fact(member'[<<a, ch>>])
    <3>1. CASE a = b
      <4>1. scan'.seen[a] = known[p] /\ <<a, ch>> = p
        BY <3>1, <1>2 DEF p, SInv, TypeOK, Scan
      <4>2. notices[p] = <<>>
        BY <4>1, <2>2, <1>2, <1>1 DEF SInv
      <4> QED BY <4>1, <4>2, <2>2, <1>1, <1>4 DEF SInv, MembershipInv, CacheIsCurrent
    <3>2. CASE a # b
      <4>1. scan'.seen[a] = scan.seen[a] /\ <<a, ch>> # p
        BY <3>2, <1>2 DEF p, SInv, TypeOK, Scan
      <4>2. <<a, ch>> \notin moved
        BY <4>1, <2>2, <1>2
      <4> QED BY <4>1, <4>2, <2>2, <1>1, <1>4 DEF SInv, ScanKnows
    <3> QED BY <3>1, <3>2
  <2> QED BY <2>1, <2>2 DEF ScanKnows
<1>7. \A q \in Pairs : notices'[q] # <<>> => q \in moved'
  BY <1>2, <1>4 DEF SInv
<1>8. TypeOK'
  BY <1>2, <1>3, <1>5 DEF SInv, TypeOK
<1> QED BY <1>2, <1>3, <1>6, <1>7, <1>8 DEF SInv, AcceptedDelivered, AffinityEarned

(* So does the start of a probe, which leaves the worker's notes alone.       *)
LEMMA AsksKeeps ==
    ASSUME SInv, NEW b \in Auxiliaries, Asks(b)
    PROVE  SInv'
<1>1. <<b, row[scan.id].call.chat>> \in Pairs /\ Main \in Senders
  BY Typing DEF SInv, Pairs
<1>2. /\ StartProbe(<<b, row[scan.id].call.chat>>)
      /\ scan' = [scan EXCEPT !.probing = Main]
      /\ UNCHANGED <<preferred, failedFor, resting, row, delivered, moved, moves, troubles>>
  BY DEF Asks
<1>3. MembershipTypeOK' /\ MembershipInv'
  BY <1>1, <1>2, LookKeeps DEF SInv, TypeOK
<1>4. member' = member /\ notices' = notices
  BY <1>2 DEF StartProbe
<1>5. /\ scan' \in Scan /\ scan'.on = scan.on /\ scan'.id = scan.id
      /\ scan'.seen = scan.seen
  BY <1>1, <1>2 DEF SInv, TypeOK, Scan
<1>6. TypeOK'
  BY <1>2, <1>3, <1>5 DEF SInv, TypeOK
<1> QED BY <1>2, <1>3, <1>4, <1>5, <1>6 DEF SInv, ScanKnows, AcceptedDelivered, AffinityEarned

(* The end of a call keeps the invariant.                                     *)
LEMMA CallKeeps ==
    ASSUME SInv, NEW r \in Rows, Accepted(r) \/ Forbidden(r) \/ CallTrouble(r)
    PROVE  SInv'
<1>1. row[r].at = "calling"
  BY DEF Accepted, Forbidden, CallTrouble
<1>2. row[r].sender \in Senders /\ row[r] \in Row
  BY <1>1 DEF SInv, TypeOK, AcceptedDelivered, InFlight
<1>3. PICK a \in Answers : row' = [row EXCEPT ![r] = [row[r] EXCEPT !.at = a]]
  BY DEF Accepted, Forbidden, CallTrouble, Answers
<1> DEFINE x == [row[r] EXCEPT !.at = a]
<1>4. x \in Row /\ x.at = a /\ x.sender = row[r].sender /\ x.call = row[r].call
  BY <1>2, <1>3 DEF Row, RowAt, InFlight
<1>5. UNCHANGED <<membership, preferred, failedFor, resting, scan, moved, moves>>
  BY DEF Accepted, Forbidden, CallTrouble
<1>6. row'[r].at = a
  BY <1>3, <1>4 DEF SInv, TypeOK
<1>7. /\ delivered \subseteq delivered' /\ delivered' \subseteq Slaves \X Auxiliaries
      /\ a = "accepted" /\ row[r].sender \in Auxiliaries /\ row[r].call.slave \in Slaves
            => <<row[r].call.slave, row[r].sender>> \in delivered'
      /\ troubles' \in 0 .. MaxTroubles
  <2>1. CASE Accepted(r)
    BY <2>1 DEF Accepted, SInv, TypeOK
  <2>2. CASE Forbidden(r)
    <3>1. a = "forbidden"
      BY <2>2, <1>6, <1>2 DEF Forbidden, SInv, TypeOK, Row
    <3> QED BY <2>2, <3>1 DEF Forbidden, SInv, TypeOK
  <2>3. CASE CallTrouble(r)
    <3>1. a # "accepted"
      BY <2>3, <1>6, <1>2 DEF CallTrouble, SInv, TypeOK, Row
    <3> QED BY <2>3, <3>1, SelectionAssumption DEF CallTrouble, Trouble, SInv, TypeOK
  <2> QED BY <2>1, <2>2, <2>3
<1> HIDE DEF x
<1>8. /\ MembershipTypeOK' /\ MembershipInv'
      /\ \A p \in Pairs : notices'[p] # <<>> => p \in moved'
      /\ ScanKnows' /\ AcceptedDelivered'
      /\ row' \in [Rows -> Row]
  BY <1>1, <1>2, <1>3, <1>4, <1>5, <1>7, RowStep DEF x
<1> QED BY <1>5, <1>7, <1>8 DEF SInv, TypeOK, AffinityEarned

(* Harvesting an answer keeps the invariant: an affinity is recorded only for *)
(* an accepted call, whose delivery has been observed.                        *)
LEMMA HarvestKeeps ==
    ASSUME SInv, NEW r \in Rows, HarvestSuccess(r) \/ HarvestFailure(r)
    PROVE  SInv'
<1>1. PICK a \in Settled \union {"later"} : row' = [row EXCEPT ![r] = [row[r] EXCEPT !.at = a]]
  BY DEF HarvestSuccess, HarvestFailure, OutcomeOf, Settled
<1> DEFINE x == [row[r] EXCEPT !.at = a]
<1>2. x \in Row /\ x.at = a
  BY <1>1 DEF SInv, TypeOK, Row, RowAt
<1>3. /\ UNCHANGED <<membership, scan, delivered, moved, moves, troubles>>
      /\ row[r].at \in Answers
  BY DEF HarvestSuccess, HarvestFailure, Answers
<1> HIDE DEF x
<1>4. /\ MembershipTypeOK' /\ MembershipInv'
      /\ \A p \in Pairs : notices'[p] # <<>> => p \in moved'
      /\ ScanKnows' /\ AcceptedDelivered'
      /\ row' \in [Rows -> Row]
  BY <1>1, <1>2, <1>3, RowStep DEF x, Settled, InFlight, Answers
<1>5. row[r].sender \in Senders /\ row[r].call.chat \in Chats
  BY <1>3, Typing DEF SInv, AcceptedDelivered, InFlight
<1>6. preferred' \in [Slaves -> Senders] /\ AffinityEarned'
  <2>1. CASE HarvestSuccess(r)
    BY <2>1, <1>3, <1>5 DEF HarvestSuccess, SInv, TypeOK, AffinityEarned, AcceptedDelivered, InFlight, Answers
  <2>2. CASE HarvestFailure(r)
    BY <2>2, <1>3 DEF HarvestFailure, PreferAfter, SInv, TypeOK, AffinityEarned
  <2> QED BY <2>1, <2>2
<1>7. failedFor' \in [Pairs -> SUBSET Slaves] /\ resting' \subseteq Senders \X Chats
  <2>1. CASE HarvestSuccess(r)
    BY <2>1 DEF HarvestSuccess, SInv, TypeOK
  <2>2. CASE HarvestFailure(r)
    <3>1. failedFor' \in [Pairs -> SUBSET Slaves]
      BY <2>2, RememberedTypes DEF HarvestFailure, SInv
    <3> QED BY <2>2, <3>1, <1>5 DEF HarvestFailure, SInv, TypeOK
  <2> QED BY <2>1, <2>2
<1> QED BY <1>3, <1>4, <1>6, <1>7 DEF SInv, TypeOK

(* Deadlines and rates keep the invariant.                                    *)
LEMMA ClockKeeps ==
    ASSUME SInv, NEW r \in Rows, Due(r) \/ TimesOut(r)
    PROVE  SInv'
<1>1. PICK a \in {"queued", "failed"} :
         /\ row' = [row EXCEPT ![r] = [row[r] EXCEPT !.at = a]]
         /\ scan.on => row[r].at # "queued"
         /\ UNCHANGED <<membership, preferred, scan, delivered, moved, moves, troubles>>
  BY DEF Due, TimesOut
<1> DEFINE x == [row[r] EXCEPT !.at = a]
<1>2. x \in Row /\ x.at = a
  BY <1>1 DEF SInv, TypeOK, Row, RowAt, Settled
<1> HIDE DEF x
<1>3. /\ MembershipTypeOK' /\ MembershipInv'
      /\ \A p \in Pairs : notices'[p] # <<>> => p \in moved'
      /\ ScanKnows' /\ AcceptedDelivered'
      /\ row' \in [Rows -> Row]
  BY <1>1, <1>2, RowStep DEF x, InFlight, Answers
<1>4. failedFor' \in [Pairs -> SUBSET Slaves] /\ resting' \subseteq Senders \X Chats
  <2>1. CASE Due(r)
    BY <2>1 DEF Due, SInv, TypeOK
  <2>2. CASE TimesOut(r)
    <3>1. failedFor' \in [Pairs -> SUBSET Slaves]
      BY <2>2, RememberedTypes DEF TimesOut, SInv
    <3> QED BY <2>2, <3>1, Typing DEF TimesOut, Repeated, SInv, TypeOK
  <2> QED BY <2>1, <2>2
<1> QED BY <1>1, <1>3, <1>4 DEF SInv, TypeOK, AffinityEarned

(* Rest and recovery of a sender keep the invariant.                          *)
LEMMA RestKeeps ==
    ASSUME SInv, NEW s \in Senders, NEW ch \in Chats, Recovers(s, ch) \/ FillsUp(s, ch)
    PROVE  SInv'
<1>1. /\ UNCHANGED <<membership, preferred, failedFor, row, scan, delivered, moved, moves>>
      /\ resting' \subseteq Senders \X Chats
      /\ troubles' \in 0 .. MaxTroubles
  BY SelectionAssumption DEF Recovers, FillsUp, Trouble, SInv, TypeOK
<1>2. MembershipTypeOK' /\ MembershipInv' /\ notices' = notices /\ member' = member
  BY <1>1, SameMembership DEF membership
<1> QED BY <1>1, <1>2 DEF SInv, TypeOK, ScanKnows, AcceptedDelivered, AffinityEarned

(* The initial states satisfy the invariant.                                  *)
LEMMA InitKeeps == Init => SInv
<1> SUFFICES ASSUME Init PROVE SInv
  OBVIOUS
<1>1. MembershipTypeOK
  <2>1. notices \in [Pairs -> Seq(BOOLEAN)]
    <3>1. <<>> \in Seq(BOOLEAN) /\ <<TRUE>> \in Seq(BOOLEAN) /\ <<FALSE>> \in Seq(BOOLEAN)
      OBVIOUS
    <3> QED BY <3>1 DEF Init, MembershipInit
  <2> QED BY <2>1 DEF Init, MembershipInit, MembershipTypeOK, Known, NoProbe, Probe
<1>2. MembershipInv
  <2>1. ASSUME NEW p \in Pairs, notices[p] # <<>>
        PROVE  notices[p][Len(notices[p])] = member[p]
    <3>1. notices[p] \in {<<TRUE>>, <<FALSE>>} /\ notices[p][1] = member[p]
      BY <2>1 DEF Init, MembershipInit
    <3>2. Len(<<TRUE>>) = 1 /\ Len(<<FALSE>>) = 1
      OBVIOUS
    <3>3. Len(notices[p]) = 1
      BY <3>1, <3>2
    <3> QED BY <3>1, <3>3
  <2>2. CacheIsCurrent
    BY DEF Init, MembershipInit, CacheIsCurrent
  <2>3. \A p \in Pairs : probe[p].gen <= generation[p] /\ probe[p].at # "answered"
    BY DEF Init, MembershipInit, NoProbe
  <2> QED BY <2>1, <2>2, <2>3 DEF MembershipInv
<1>3. TypeOK
  BY <1>1, Constants, Typing, SelectionAssumption DEF Init, TypeOK, Senders
<1>4. ScanKnows /\ AcceptedDelivered /\ AffinityEarned
  BY Constants DEF Init, ScanKnows, AcceptedDelivered, AffinityEarned, InFlight, Answers
<1> QED BY <1>1, <1>2, <1>3, <1>4 DEF Init, SInv

(* Every step keeps the invariant.                                            *)
LEMMA StepKeeps == SInv /\ [Next]_vars => SInv'
<1> SUFFICES ASSUME SInv, [Next]_vars PROVE SInv'
  OBVIOUS
<1>1. CASE Environment
  BY <1>1, MembershipStepsKeep, SweepKeeps, CallKeeps, ClockKeeps, RestKeeps DEF Environment
<1>2. CASE MembershipThreads
  BY <1>2, MembershipStepsKeep DEF MembershipThreads
<1>3. CASE Sweep
  BY <1>3, SweepKeeps DEF Sweep
<1>4. CASE Look
  BY <1>4, CheckKeeps, AsksKeeps DEF Look
<1>5. CASE Executor
  BY <1>5, CallKeeps DEF Executor
<1>6. CASE Harvest
  BY <1>6, HarvestKeeps DEF Harvest
<1>7. CASE Clock
  BY <1>7, ClockKeeps, RestKeeps DEF Clock
<1>8. CASE UNCHANGED vars
  <2>1. MembershipTypeOK' /\ MembershipInv'
    BY <1>8, SameMembership DEF vars
  <2> QED BY <1>8, <2>1 DEF vars, worker, membership, SInv, TypeOK, ScanKnows, AcceptedDelivered,
                            AffinityEarned
<1> QED BY <1>1, <1>2, <1>3, <1>4, <1>5, <1>6, <1>7, <1>8 DEF Next

------------------------------------------------------------------------------
(* The inductive invariant of the selection: what the cache, the probes, the  *)
(* worker's notes and the affinities may say of a bot at the same time.       *)
THEOREM SelectionInvariant == Spec => []SInv
<1>1. Init => SInv
  BY InitKeeps
<1>2. SInv /\ [Next]_vars => SInv'
  BY StepKeeps
<1> QED BY <1>1, <1>2, PTL DEF Spec

(* The state has its type.                                                    *)
THEOREM SelectionTypes == Spec => []TypeOK
<1>1. SInv => TypeOK
  BY DEF SInv
<1> QED BY <1>1, SelectionInvariant, PTL

(* When the service messages about a bot in a chat have been handled, the     *)
(* cache does not say anything false about it, whatever probes were under way.*)
THEOREM CacheIsCurrentTheorem == Spec => []CacheIsCurrent
<1>1. SInv => CacheIsCurrent
  BY DEF SInv, MembershipInv
<1> QED BY <1>1, SelectionInvariant, PTL

(* The bot a slave chat prefers has sent something for it.                    *)
THEOREM AffinityEarnedTheorem == Spec => []AffinityEarned
<1>1. SInv => AffinityEarned
  BY DEF SInv
<1> QED BY <1>1, SelectionInvariant, PTL

(* Only the worker's own steps submit a row or give it up for its sender.     *)
LEMMA Decisions ==
    ASSUME SInv, Next, NEW r \in Rows, row'[r].at # row[r].at, row'[r].at \in {"calling", "refused"}
    PROVE  Submit(r) \/ Refuse(r)
<1> DEFINE Other(q, a) == row' = [row EXCEPT ![q] = [row[q] EXCEPT !.at = a]]
<1>1. ASSUME NEW q \in Rows, NEW a, Other(q, a), a \notin {"calling", "refused"}
      PROVE  FALSE
  BY <1>1 DEF SInv, TypeOK, Row
<1> HIDE DEF Other
<1>2. ASSUME NEW q \in Rows, Enqueue(q)
      PROVE  FALSE
  BY <1>2, Constants DEF Enqueue, SInv, TypeOK, Row
<1>3. row' # row
  OBVIOUS
<1>4. ASSUME NEW q \in Rows,
             \/ CallTrouble(q) \/ TimesOut(q) \/ Accepted(q) \/ Forbidden(q)
             \/ HarvestSuccess(q) \/ HarvestFailure(q) \/ Due(q)
      PROVE  FALSE
  <2>1. PICK a : Other(q, a) /\ a \notin {"calling", "refused"}
    BY <1>4 DEF Other, CallTrouble, TimesOut, Accepted, Forbidden, HarvestSuccess, HarvestFailure, Due,
                OutcomeOf
  <2> QED BY <2>1, <1>1
<1>5. ASSUME NEW q \in Rows, Submit(q) \/ Refuse(q)
      PROVE  q = r
  BY <1>5 DEF Submit, Refuse, SInv, TypeOK
<1>6. CASE Environment
  <2>1. row' = row \/ \E q \in Rows : Enqueue(q) \/ CallTrouble(q) \/ TimesOut(q)
    BY <1>6 DEF Environment, BotMoves, ProbeTrouble, FillsUp, worker
  <2> QED BY <2>1, <1>2, <1>3, <1>4
<1>7. CASE MembershipThreads
  BY <1>7, <1>3 DEF MembershipThreads, NoticeHandled, AnswerUsed, ProbeStep, worker
<1>8. CASE Sweep
  <2>1. row' = row \/ \E q \in Rows : Submit(q) \/ Refuse(q)
    BY <1>8 DEF Sweep, Begin, Defer
  <2> QED BY <2>1, <1>3, <1>5
<1>9. CASE Look
  BY <1>9, <1>3 DEF Look, Check, Asks
<1>10. CASE Executor
  BY <1>10, <1>4 DEF Executor
<1>11. CASE Harvest
  BY <1>11, <1>4 DEF Harvest
<1>12. CASE Clock
  <2>1. row' = row \/ \E q \in Rows : Due(q)
    BY <1>12 DEF Clock, Recovers
  <2> QED BY <2>1, <1>3, <1>4
<1> QED BY <1>6, <1>7, <1>8, <1>9, <1>10, <1>11, <1>12 DEF Next

(* The worker sends through bots that are in the chat, and gives rows up for  *)
(* bots that are not, as far as it can know: the notes it decides by are true *)
(* of every bot that has not moved since.                                     *)
THEOREM GroundedDecisionsTheorem == Spec => GroundedDecisions
<1> DEFINE Grounded(r) ==
       LET b == row'[r].sender  q == row[r].call.required  ch == row[r].call.chat IN
       /\ row[r].at # "calling" /\ row'[r].at = "calling" /\ b # Main
             => member[<<b, ch>>] \/ <<b, ch>> \in moved
       /\ row[r].at # "refused" /\ row'[r].at = "refused"
             => q \in Foreign \/ (q \in Auxiliaries /\ (~ member[<<q, ch>>] \/ <<q, ch>> \in moved))
<1>1. ASSUME SInv, [Next]_vars, NEW r \in Rows
      PROVE  Grounded(r)
  <2> DEFINE c == row[r].call
  <2>1. \A b \in Auxiliaries : <<b, c.chat>> \in Pairs
    BY <1>1, Typing DEF SInv, Pairs
  <2>2. ASSUME row'[r].at # row[r].at, row'[r].at \in {"calling", "refused"}
        PROVE  Submit(r) \/ Refuse(r)
    <3>1. Next
      BY <1>1, <2>2 DEF vars, worker
    <3> QED BY <1>1, <2>2, <3>1, Decisions
  <2>3. CASE Submit(r)
    <3>1. row'[r].at = "calling" /\ row'[r].sender \in Selectable(c)
      BY <1>1, <2>3 DEF Submit, Chosen, IsBest, SInv, TypeOK, Row
    <3>2. scan.on /\ scan.id = r
      BY <2>3 DEF Submit, Looked
    <3>3. ASSUME row'[r].sender # Main
          PROVE  row'[r].sender \in Auxiliaries /\ scan.seen[row'[r].sender] = "member"
      BY <3>1, <3>3, <1>1 DEF Selectable, Candidates
    <3>4. ASSUME NEW b \in Auxiliaries, scan.seen[b] = "member", <<b, c.chat>> \notin moved
          PROVE  member[<<b, c.chat>>]
      BY <1>1, <3>2, <3>4, <2>1 DEF SInv, ScanKnows, Fact, TypeOK, MembershipTypeOK
    <3> QED BY <3>1, <3>3, <3>4
  <2>4. CASE Refuse(r)
    <3>1. row'[r].at = "refused" /\ Unable(c) /\ scan.on /\ scan.id = r
      BY <1>1, <2>4 DEF Refuse, Looked, SInv, TypeOK, Row
    <3>2. ASSUME NEW b \in Auxiliaries, scan.seen[b] = "absent", <<b, c.chat>> \notin moved
          PROVE  ~ member[<<b, c.chat>>]
      BY <1>1, <3>1, <3>2, <2>1 DEF SInv, ScanKnows, Fact, TypeOK, MembershipTypeOK
    <3> QED BY <3>1, <3>2 DEF Unable
  <2> QED BY <2>2, <2>3, <2>4
<1>2. SInv /\ [Next]_vars => [\A r \in Rows : Grounded(r)]_vars
  BY <1>1
<1> QED BY <1>2, SelectionInvariant, PTL DEF Spec, GroundedDecisions

(* An affinity ends only with the news that its own bot is absent from a chat *)
(* where a send of that slave chat failed.                                    *)
THEOREM AffinityOutlivesOthersTheorem == Spec => AffinityOutlivesOthers
<1> DEFINE Confirmed(s) ==
       preferred[s] # Main /\ preferred'[s] = Main =>
          \E ch \in Chats : LET p == <<preferred[s], ch>> IN
             known'[p] = "absent" /\ s \in failedFor[p] /\ s \notin failedFor'[p]
<1>1. ASSUME SInv, [Next]_vars, NEW s \in Slaves, preferred[s] # Main, preferred'[s] = Main
      PROVE  \E ch \in Chats : LET p == <<preferred[s], ch>> IN
                known'[p] = "absent" /\ s \in failedFor[p] /\ s \notin failedFor'[p]
  <2>1. preferred' # preferred
    BY <1>1
  <2>2. ASSUME NEW p \in Pairs, NEW x, MembershipChanged(p, x), x => known'[p] = "absent"
        PROVE  \E ch \in Chats : LET q == <<preferred[s], ch>> IN
                  known'[q] = "absent" /\ s \in failedFor[q] /\ s \notin failedFor'[q]
    <3>1. x
      BY <2>1, <2>2 DEF MembershipChanged
    <3>2. DropAffinity(p) /\ failedFor' = [failedFor EXCEPT ![p] = {}]
      BY <2>2, <3>1 DEF MembershipChanged
    <3>3. s \in failedFor[p] /\ preferred[s] = p[1]
      BY <1>1, <3>2 DEF DropAffinity
    <3>4. p[2] \in Chats /\ p = <<preferred[s], p[2]>>
      BY <3>3 DEF Pairs
    <3>5. s \notin failedFor'[p]
      BY <1>1, <3>2 DEF SInv, TypeOK
    <3> QED BY <2>2, <3>1, <3>3, <3>4, <3>5
  <2>3. ASSUME NEW p \in Pairs, NoticeHandled(p)
        PROVE  MembershipChanged(p, NoticeSaysAbsent(p)) /\ (NoticeSaysAbsent(p) => known'[p] = "absent")
    BY <1>1, <2>3 DEF NoticeHandled, HandleNotice, NoticeSaysAbsent, Fact, SInv, TypeOK, MembershipTypeOK
  <2>4. ASSUME NEW p \in Pairs, AnswerUsed(p)
        PROVE  MembershipChanged(p, AnswerSaysAbsent(p)) /\ (AnswerSaysAbsent(p) => known'[p] = "absent")
    BY <1>1, <2>4 DEF AnswerUsed, UseAnswer, AnswerSaysAbsent, Fact, SInv, TypeOK, MembershipTypeOK
  <2>5. ASSUME NEW r \in Rows, HarvestSuccess(r)
        PROVE  FALSE
    BY <1>1, <2>5, Typing DEF HarvestSuccess, SInv, TypeOK
  <2>6. \/ \E p \in Pairs : NoticeHandled(p) \/ AnswerUsed(p)
        \/ \E r \in Rows : HarvestSuccess(r)
    <3>1. CASE Environment
      BY <2>1, <3>1 DEF Environment, BotMoves, ProbeTrouble, Enqueue, CallTrouble, TimesOut, FillsUp, worker
    <3>2. CASE MembershipThreads
      BY <2>1, <3>2 DEF MembershipThreads, ProbeStep, worker
    <3>3. CASE Sweep
      BY <2>1, <3>3 DEF Sweep, Begin, Submit, Refuse, Defer
    <3>4. CASE Look
      BY <2>1, <3>4 DEF Look, Check, Asks
    <3>5. CASE Executor
      BY <2>1, <3>5 DEF Executor, Accepted, Forbidden
    <3>6. CASE Harvest
      BY <2>1, <3>6 DEF Harvest, HarvestFailure, PreferAfter
    <3>7. CASE Clock
      BY <2>1, <3>7 DEF Clock, Due, Recovers
    <3>8. CASE UNCHANGED vars
      BY <2>1, <3>8 DEF vars, worker
    <3> QED BY <1>1, <3>1, <3>2, <3>3, <3>4, <3>5, <3>6, <3>7, <3>8 DEF Next
  <2> QED BY <2>2, <2>3, <2>4, <2>5, <2>6
<1>2. SInv /\ [Next]_vars => [\A s \in Slaves : Confirmed(s)]_vars
  BY <1>1
<1> QED BY <1>2, SelectionInvariant, PTL DEF Spec, AffinityOutlivesOthers
==============================================================================
