------------------------ MODULE SlaveMessages_proofs ------------------------
(* Theorems about SlaveMessages: that SlaveInv (module SlaveInvariant) is     *)
(* inductive for every number of threads, calls and troubles, every set of    *)
(* messages and every script, and that the properties of SlaveMessages        *)
(* follow from it.                                                            *)
EXTENDS SlaveInvariant, SequenceTheorems, FiniteSetTheorems, TLAPS

------------------------------------------------------------------------------
(* Numbers and constants.                                                     *)

(* A set of numbers has a least one.                                          *)
LEMMA LeastNumber ==
    ASSUME NEW S \in SUBSET Nat, S # {}
    PROVE  Min(S) \in S /\ \A n \in S : Min(S) <= n
<1> DEFINE R == {ss \in Nat \X Nat : ss[1] < ss[2]}
<1>1. IsWellFoundedOn(R, Nat)
  BY NatLessThanWellFounded DEF OpToRel
<1>2. PICK m \in S : \A n \in S : ~(<<n, m>> \in R)
  <2> HIDE DEF R
  <2> QED
    BY <1>1, WFMin
<1>3. \A n \in S : ~(n < m)
  BY <1>2
<1>4. \A n \in S : m <= n
  BY <1>3
<1> QED
  BY <1>4 DEF Min

(* A bounded set of numbers has a greatest one.                               *)
LEMMA GreatestNumber ==
    ASSUME NEW S \in SUBSET Nat, S # {}, NEW b \in Nat, \A n \in S : n <= b
    PROVE  Max(S) \in S /\ \A n \in S : n <= Max(S)
<1> DEFINE B == {k \in Nat : \A n \in S : n <= k}
<1>1. B \in SUBSET Nat /\ b \in B
  OBVIOUS
<1>2. Min(B) \in B /\ \A k \in B : Min(B) <= k
  <2> HIDE DEF B
  <2> QED
    BY <1>1, LeastNumber
<1>3. PICK m \in B : \A k \in B : m <= k
  BY <1>2
<1>4. m \in S
  <2>1. SUFFICES ASSUME m \notin S PROVE FALSE
    OBVIOUS
  <2>2. \A n \in S : n < m
    BY <2>1, <1>3
  <2>3. m - 1 \in B
    <3>1. m # 0
      <4>1. PICK n \in S : TRUE
        OBVIOUS
      <4>2. n < m /\ n \in Nat /\ m \in Nat
        BY <2>2
      <4> QED
        BY <4>2
    <3> QED
      BY <2>2, <3>1, <1>3
  <2> QED
    BY <2>3, <1>3
<1>5. \A n \in S : n <= m
  BY <1>3
<1> QED
  BY <1>4, <1>5 DEF Max

(* Rows are numbers, and no row has the number of a message of the user's.    *)
LEMMA Numbers ==
    /\ Rows \in SUBSET Nat /\ Nothing \notin Rows /\ Rows \in SUBSET MessageIds
    /\ Nothing \in MessageIds /\ MessageIds \in SUBSET Nat
    /\ \A i \in Rows : i <= MaxRows
    /\ Mirrored \in SUBSET Uids
    /\ \A u \in Mirrored : OwnId[u] \in MessageIds /\ OwnId[u] # Nothing /\ OwnId[u] \notin Rows
    /\ \A u, v \in Mirrored : OwnId[u] = OwnId[v] => u = v
BY SlaveAssumption DEF Rows, Nothing, Mirrored, MessageIds

(* The first row of a set of rows.                                            *)
LEMMA LeastRow ==
    ASSUME NEW S \in SUBSET Rows, S # {}
    PROVE  Min(S) \in S /\ \A n \in S : Min(S) <= n
BY LeastNumber, Numbers

(* Somebody is there for Idle and NoRow to name.                              *)
Somebody == CHOOSE u \in Uids : TRUE
LEMMA SomebodyIs == Somebody \in Uids
BY SlaveAssumption DEF Somebody

------------------------------------------------------------------------------
(* Types.                                                                     *)

JobStates == {"idle", "resolve", "lookup", "dispatch", "waiting", "answered", "failed", "mapping"}
JobRec == [at : JobStates, op : Ops, uid : Uids, num : Nat, claimed : BOOLEAN,
           old : MessageIds, dbold : MessageIds, call : 0 .. MaxRows, again : BOOLEAN]
RowStates == {"absent", "queued", "sent", "done", "failed", "held"}
RowRec == [st : RowStates, api : {"send", "edit", "delete", "notice"}, uid : Uids, new : BOOLEAN,
           msg : MessageIds, old : MessageIds, reply : MessageIds, ctx : BOOLEAN,
           callback : BOOLEAN, waiter : BOOLEAN]
LogRec == [main : MessageIds, alt : MessageIds, uid : Uids]

(* The type invariant in these words.                                         *)
LEMMA Types ==
    TypeOK <=>
    /\ script \in Scripts /\ next \in 1 .. Len(script) + 1
    /\ job \in [Threads -> JobRec] /\ pending \in [Uids -> Nat]
    /\ row \in [Rows -> RowRec] /\ shown \subseteq MessageIds /\ log \in Seq(LogRec)
    /\ troubles \in 0 .. MaxTroubles /\ excused \subseteq Uids /\ astray \subseteq Uids
BY DEF TypeOK, JobRec, RowRec, LogRec, JobStates, RowStates

LEMMA IdleType == Idle \in JobRec
<1>1. 0 \in 0 .. MaxRows
  BY SlaveAssumption
<1> QED
  BY <1>1, SomebodyIs, Numbers DEF Idle, JobRec, JobStates, Ops, Somebody, Nothing
LEMMA NoRowType == NoRow \in RowRec
BY SomebodyIs, Numbers DEF NoRow, RowRec, RowStates, Somebody

(* What SendRow and CallRow make.                                             *)
LEMMA SendRowIs ==
    ASSUME TypeOK, NEW t \in Threads, NEW old \in MessageIds, NEW waiter \in BOOLEAN
    PROVE  LET q == SendRow(t, old, waiter)
           IN /\ q \in RowRec /\ q.api = "send" /\ q.new = (job[t].op = "new")
              /\ q.ctx = TRUE /\ q.callback = TRUE /\ q.msg = Nothing
              /\ q.old = IF job[t].dbold # Nothing THEN job[t].dbold ELSE old
<1>1. PICK r \in RowRec : r = NoRow
  BY NoRowType
<1>2. r.msg = Nothing
  BY <1>1 DEF NoRow
<1>3. PICK o \in MessageIds : o = IF job[t].dbold # Nothing THEN job[t].dbold ELSE old
  BY Types DEF JobRec
<1>4. PICK q : q = SendRow(t, old, waiter)
  OBVIOUS
<1>5. PICK n \in BOOLEAN : n = (job[t].op = "new")
  OBVIOUS
<1>6. q = [r EXCEPT !.api = "send", !.new = n,
            !.ctx = TRUE, !.callback = TRUE, !.old = o, !.waiter = waiter]
  BY <1>1, <1>3, <1>4, <1>5 DEF SendRow
<1>7. /\ q \in RowRec /\ q.api = "send" /\ q.new = n /\ q.ctx = TRUE /\ q.callback = TRUE
      /\ q.old = o /\ q.msg = r.msg
  BY <1>1, <1>3, <1>5, <1>6 DEF RowRec
<1> QED
  BY <1>2, <1>3, <1>4, <1>5, <1>7

LEMMA CallRowIs ==
    ASSUME NEW how \in {"send", "edit", "delete", "notice"}, NEW m \in MessageIds
    PROVE  LET q == CallRow(how, m)
           IN /\ q \in RowRec /\ q.api = how /\ q.msg = m /\ q.waiter = TRUE
              /\ q.new = FALSE /\ q.ctx = FALSE /\ q.old = Nothing /\ q.callback = FALSE
<1>1. PICK r \in RowRec : r = NoRow
  BY NoRowType
<1>2. r.new = FALSE /\ r.ctx = FALSE /\ r.old = Nothing /\ r.callback = FALSE
  BY <1>1 DEF NoRow
<1>3. PICK q : q = CallRow(how, m)
  OBVIOUS
<1>4. q = [r EXCEPT !.api = how, !.msg = m, !.waiter = TRUE]
  BY <1>1, <1>3 DEF CallRow
<1> QED
  <2>1. /\ q \in RowRec /\ q.api = how /\ q.msg = m /\ q.waiter = TRUE
        /\ q.new = r.new /\ q.ctx = r.ctx /\ q.old = r.old /\ q.callback = r.callback
    BY <1>1, <1>4 DEF RowRec
  <2> QED
    BY <2>1, <1>2, <1>3

------------------------------------------------------------------------------
(* What a write leaves of the log.                                            *)

(* Entries keep their message and their main id; only entries of u change,    *)
(* and what is added is an entry of u.                                        *)
LogKept(u, m, old) ==
    /\ log' \in Seq(LogRec) /\ Len(log) <= Len(log')
    /\ \A k \in 1 .. Len(log) :
          /\ log'[k].uid = log[k].uid /\ log'[k].main = log[k].main
          /\ log[k].uid # u => log'[k].alt = log[k].alt
          /\ log'[k].alt \in {log[k].alt, m}
    /\ \A k \in 1 .. Len(log') : k > Len(log) =>
          /\ log'[k].uid = u /\ log'[k].main \in {m, old} \ {Nothing}
          /\ log'[k].alt \in {m, Nothing}

(* The id that was read is still there: its entry gets the new one.           *)
LogReplaced(u, m, old) ==
    LET j == Min(Held(old))
    IN /\ Len(log') = Len(log) /\ j \in 1 .. Len(log)
       /\ Holds(log[j], old) /\ log[j].uid = u
       /\ log'[j].alt = IF m = log[j].main THEN log[j].alt ELSE m
       /\ \A k \in 1 .. Len(log) \ {j} : log'[k].alt = log[k].alt

(* A first message has an entry of its own.                                   *)
LogAdded(u, m) ==
    IF \E k \in 1 .. Len(log) : log[k].main = m
    THEN log' = log
    ELSE /\ Len(log') = Len(log) + 1
         /\ \A k \in 1 .. Len(log) : log'[k].alt = log[k].alt
         /\ log'[Len(log')].main = m /\ log'[Len(log')].alt = Nothing

(* Two messages of the slave have no id in common.                            *)
LEMMA OneOwner ==
    ASSUME NEW u \in Uids, NEW v \in Uids, NEW m, m # Nothing, Owns(u, m), Owns(v, m)
    PROVE  u = v
BY Numbers DEF Owns

LEMMA LogWriteEffect ==
    ASSUME TypeOK, LogOwns, NEW u \in Uids, NEW m \in MessageIds \ {Nothing}, NEW old \in MessageIds,
           Owns(u, old), log' = LogWrite(u, m, old)
    PROVE  /\ LogKept(u, m, old)
           /\ Held(old) # {} => LogReplaced(u, m, old)
           /\ old = Nothing => LogAdded(u, m)
           /\ InLog(u)' \/ \E k \in 1 .. Len(log) : log[k].main = m
<1>1. log \in Seq(LogRec) /\ DOMAIN log = 1 .. Len(log) /\ Len(log) \in Nat
      /\ \A k \in 1 .. Len(log) : log[k] \in LogRec
  BY Types, LenProperties, ElementOfSeq
<1>2. ASSUME Held(old) # {}
      PROVE  LogKept(u, m, old) /\ LogReplaced(u, m, old) /\ old # Nothing /\ InLog(u)'
  <2>1. PICK j : j = Min(Held(old))
    OBVIOUS
  <2>2. j \in 1 .. Len(log) /\ Holds(log[j], old) /\ old # Nothing
    <3>1. Held(old) \in SUBSET Nat
      BY <1>1 DEF Held
    <3>2. j \in Held(old)
      BY <3>1, <1>2, <2>1, LeastNumber
    <3> QED
      BY <3>2, <1>1 DEF Held, Holds
  <2>3. log[j].uid = u
    <3>1. Owns(log[j].uid, old)
      BY <2>2, <1>1 DEF LogOwns, Holds
    <3>2. log[j].uid \in Uids
      BY <1>1, <2>2 DEF LogRec
    <3> QED
      BY <3>1, <3>2, <2>2, OneOwner
  <2>4. PICK e \in LogRec : e = log[j]
    BY <1>1, <2>2
  <2>5. PICK a \in MessageIds : a = IF m = log[j].main THEN log[j].alt ELSE m
    BY <2>4 DEF LogRec
  <2>6. PICK f : f = [e EXCEPT !.alt = a, !.uid = u]
    OBVIOUS
  <2>f. f \in LogRec /\ f.main = e.main /\ f.alt = a /\ f.uid = u
    BY <2>4, <2>5, <2>6 DEF LogRec
  <2>7. log' = [log EXCEPT ![j] = f]
    BY <1>2, <2>1, <2>4, <2>5, <2>6 DEF LogWrite
  <2>8. /\ log' \in Seq(LogRec) /\ Len(log') = Len(log)
        /\ \A k \in 1 .. Len(log) : log'[k] = IF k = j THEN f ELSE log[k]
    BY <2>7, <1>1, <2>2, <2>f, ExceptSeq
  <2>9. LogKept(u, m, old)
    BY <2>8, <2>2, <2>3, <2>4, <2>5, <2>f, <1>1 DEF LogKept
  <2>10. LogReplaced(u, m, old)
    BY <2>1, <2>8, <2>2, <2>3, <2>4, <2>5, <2>f, <1>1 DEF LogReplaced
  <2>11. InLog(u)'
    BY <2>8, <2>2, <2>f, <1>1, LenProperties DEF InLog
  <2> QED
    BY <2>9, <2>10, <2>11, <2>2
<1>3. ASSUME NEW e \in LogRec, log' = Append(log, e), e.uid = u, e.main \in {m, old} \ {Nothing},
             e.alt \in {m, Nothing}
      PROVE  /\ LogKept(u, m, old) /\ Len(log') = Len(log) + 1 /\ log'[Len(log')] = e
             /\ \A k \in 1 .. Len(log) : log'[k] = log[k]
             /\ InLog(u)'
  <2>1. /\ log' \in Seq(LogRec) /\ Len(log') = Len(log) + 1
        /\ log'[Len(log) + 1] = e /\ \A k \in 1 .. Len(log) : log'[k] = log[k]
    BY <1>1, <1>3, AppendProperties
  <2>2. InLog(u)'
    BY <2>1, <1>1, <1>3, LenProperties DEF InLog
  <2> QED
    BY <2>1, <2>2, <1>1, <1>3 DEF LogKept
<1>4. ASSUME Held(old) = {}, old # Nothing, old # m
      PROVE  LogKept(u, m, old) /\ InLog(u)'
  <2>1. PICK e \in LogRec : e = [main |-> old, alt |-> m, uid |-> u]
    BY DEF LogRec
  <2>2. log' = Append(log, e)
    BY <1>4, <2>1 DEF LogWrite
  <2> QED
    BY <2>1, <2>2, <1>3, <1>4
<1>5. ASSUME Held(old) = {}, ~(old # Nothing /\ old # m)
      PROVE  /\ LogKept(u, m, old) /\ LogAdded(u, m)
             /\ InLog(u)' \/ \E k \in 1 .. Len(log) : log[k].main = m
  <2>1. CASE \E k \in DOMAIN log : log[k].main = m
    <3>1. log' = log
      BY <1>5, <2>1 DEF LogWrite
    <3> QED
      <4>1. LogKept(u, m, old)
        BY <3>1, <1>1 DEF LogKept
      <4>2. LogAdded(u, m)
        BY <3>1, <2>1, <1>1 DEF LogAdded
      <4> QED
        BY <4>1, <4>2, <2>1, <1>1
  <2>2. CASE ~\E k \in DOMAIN log : log[k].main = m
    <3>1. PICK e \in LogRec : e = [main |-> m, alt |-> Nothing, uid |-> u]
      BY Numbers DEF LogRec
    <3>2. log' = Append(log, e)
      BY <1>5, <2>2, <3>1 DEF LogWrite
    <3> QED
      BY <3>1, <3>2, <2>2, <1>1, <1>3 DEF LogAdded
  <2> QED
    BY <2>1, <2>2
<1>7. old = Nothing => Held(old) = {}
  BY DEF Held, Holds
<1> QED
  BY <1>2, <1>4, <1>5, <1>7

------------------------------------------------------------------------------
(* What a step does to the rows and to the callers.                           *)

(* Rows keep what they are about, and what is done is done.                   *)
RowsGrow ==
    /\ row' \in [Rows -> RowRec]
    /\ \A i \in Rows : row[i].st # "absent" =>
          /\ row'[i].st # "absent" /\ row'[i].uid = row[i].uid /\ row'[i].api = row[i].api
          /\ row'[i].new = row[i].new /\ row'[i].msg = row[i].msg /\ row'[i].old = row[i].old
          /\ row'[i].ctx = row[i].ctx
          /\ row[i].st = "done" => row'[i].st = "done"

(* A call is put at the end of the queue.                                     *)
RowAdded(i, q) ==
    /\ i \in Rows /\ row[i].st = "absent" /\ \A k \in Rows : row[k].st = "absent" => i <= k
    /\ q \in RowRec /\ q.st = "queued"
    /\ row' \in [Rows -> RowRec] /\ row'[i] = q /\ \A k \in Rows \ {i} : row'[k] = row[k]

(* A call gets its result.                                                    *)
RowSettled(i, st) ==
    /\ i \in Rows
    /\ First(i) \/ row[i].st = "sent"
    /\ st \in {"sent", "done", "failed", "held"}
    /\ row' \in [Rows -> RowRec] /\ \A k \in Rows \ {i} : row'[k] = row[k]
    /\ row'[i].st = st /\ row'[i].uid = row[i].uid /\ row'[i].api = row[i].api
    /\ row'[i].new = row[i].new /\ row'[i].msg = row[i].msg /\ row'[i].old = row[i].old
    /\ row'[i].ctx = row[i].ctx /\ row'[i].callback = row[i].callback

(* One caller goes on with its request, or has ended it.                      *)
JobMoves(t) == job' \in [Threads -> JobRec] /\ \A v \in Threads \ {t} : job'[v] = job[v]
JobNow(t, at, old, dbold, call) ==
    /\ JobMoves(t) /\ job'[t].at = at
    /\ job'[t].op = job[t].op /\ job'[t].uid = job[t].uid /\ job'[t].num = job[t].num
    /\ job'[t].claimed = job[t].claimed
    /\ job'[t].old = old /\ job'[t].dbold = dbold /\ job'[t].call = call
JobDone(t) == JobMoves(t) /\ job'[t] = Idle

LEMMA IdleIs ==
    /\ Idle.at = "idle" /\ Idle.op = "new" /\ Idle.claimed = FALSE
    /\ Idle.old = Nothing /\ Idle.dbold = Nothing /\ Idle.uid \in Uids
BY SomebodyIs DEF Idle, Somebody

LEMMA FinishDone ==
    ASSUME TypeOK, NEW t \in Threads, Finish(t)
    PROVE  JobDone(t)
BY Types, IdleType DEF Finish, JobDone, JobMoves

LEMMA SameGrows == ASSUME TypeOK, row' = row PROVE RowsGrow
BY Types DEF RowsGrow

LEMMA AddedGrows ==
    ASSUME TypeOK, NEW i, NEW q, RowAdded(i, q)
    PROVE  RowsGrow
BY Types DEF RowsGrow, RowAdded

LEMMA SettledGrows ==
    ASSUME TypeOK, NEW i, NEW st, RowSettled(i, st), row[i].st # "done"
    PROVE  RowsGrow
BY Types DEF RowsGrow, RowSettled, First, Live

LEMMA EnqueueAdds ==
    ASSUME TypeOK, NEW q \in RowRec, q.st = "queued", Enqueue(q)
    PROVE  \E i \in Rows : i = Min(Free) /\ RowAdded(i, q)
<1>1. PICK i : i = Min(Free)
  OBVIOUS
<1>2. i \in Free /\ \A k \in Free : i <= k
  BY <1>1, LeastRow DEF Enqueue, Free
<1>3. row' = [row EXCEPT ![i] = q]
  BY <1>1 DEF Enqueue
<1> QED
  BY <1>1, <1>2, <1>3, Types DEF RowAdded, Free

(* Put sets the fields that are common to the calls of a request.             *)
LEMMA PutAdds ==
    ASSUME TypeOK, NEW t \in Threads, NEW r \in RowRec, Put(t, r)
    PROVE  \E i \in Rows, q \in RowRec :
              /\ RowAdded(i, q) /\ q.uid = job[t].uid /\ q.api = r.api /\ q.new = r.new
              /\ q.ctx = r.ctx /\ q.msg = r.msg /\ q.old = r.old
              /\ q.callback = (r.callback /\ job[t].op = "new")
              /\ \/ JobNow(t, "waiting", job[t].old, job[t].dbold, i)
                 \/ JobDone(t)
<1>1. PICK u \in Uids : u = job[t].uid
  BY Types DEF JobRec
<1>2. PICK c \in BOOLEAN : c = (r.callback /\ job[t].op = "new")
  OBVIOUS
<1>3. PICK q : q = [r EXCEPT !.st = "queued", !.uid = u, !.callback = c]
  OBVIOUS
<1>4. /\ q \in RowRec /\ q.st = "queued" /\ q.uid = u /\ q.callback = c
      /\ q.api = r.api /\ q.new = r.new /\ q.ctx = r.ctx /\ q.msg = r.msg /\ q.old = r.old
  BY <1>1, <1>2, <1>3 DEF RowRec, RowStates
<1>5. Enqueue(q)
  BY <1>1, <1>2, <1>3 DEF Put
<1>6. PICK i \in Rows : i = Min(Free) /\ RowAdded(i, q)
  BY <1>4, <1>5, EnqueueAdds
<1>7. PICK j \in JobRec : j = job[t]
  BY Types
<1>8. i \in 0 .. MaxRows
  BY <1>6, Numbers, SlaveAssumption
<1>9. PICK w : w = [j EXCEPT !.at = "waiting", !.call = i]
  OBVIOUS
<1>10. /\ w \in JobRec /\ w.at = "waiting" /\ w.op = j.op /\ w.uid = j.uid /\ w.num = j.num
       /\ w.claimed = j.claimed /\ w.old = j.old /\ w.dbold = j.dbold /\ w.call = i
  BY <1>7, <1>8, <1>9 DEF JobRec, JobStates
<1>11. job' = [job EXCEPT ![t] = w] \/ job' = [job EXCEPT ![t] = Idle]
  BY <1>6, <1>7, <1>9 DEF Put
<1>12. JobNow(t, "waiting", job[t].old, job[t].dbold, i) \/ JobDone(t)
  BY <1>7, <1>10, <1>11, Types, IdleType DEF JobNow, JobDone, JobMoves
<1> QED
  BY <1>1, <1>2, <1>4, <1>6, <1>12

------------------------------------------------------------------------------
(* What steps leave of the invariant: the queue.                              *)

LEMMA OwnsKept ==
    ASSUME RowsGrow, NEW u, NEW m, Owns(u, m)
    PROVE  Owns(u, m)'
BY DEF Owns, RowsGrow

LEMMA QueueKept ==
    ASSUME QueueInv, row' = row
    PROVE  QueueInv'
BY DEF QueueInv, RowShape, QueueOrder

LEMMA QueueAdded ==
    ASSUME TypeOK, QueueInv, NEW i, NEW q, RowAdded(i, q),
           q.ctx <=> q.api = "send", q.callback => q.new,
           q.new => q.api = "send" /\ q.uid \notin Mirrored, q.api = "edit" => q.msg # Nothing
    PROVE  QueueInv'
<1>1. RowShape'
  BY DEF RowAdded, QueueInv, RowShape
<1>2. QueueOrder'
  <2>1. SUFFICES ASSUME NEW a \in Rows, NEW b \in Rows, a < b
                 PROVE  /\ row'[a].st = "absent" => row'[b].st = "absent"
                        /\ row'[a].st = "queued" => row'[b].st \in {"queued", "absent"}
    BY DEF QueueOrder
  <2>2. a \in Nat /\ b \in Nat /\ i \in Nat
    BY Numbers DEF RowAdded
  <2>3. CASE a = i
    BY <2>1, <2>2, <2>3 DEF RowAdded, QueueInv, QueueOrder
  <2>4. CASE b = i
    BY <2>1, <2>2, <2>4 DEF RowAdded, QueueInv, QueueOrder
  <2>5. CASE a # i /\ b # i
    BY <2>1, <2>5 DEF RowAdded, QueueInv, QueueOrder
  <2> QED
    BY <2>3, <2>4, <2>5
<1> QED
  BY <1>1, <1>2 DEF QueueInv

LEMMA QueueSettled ==
    ASSUME TypeOK, QueueInv, NEW i, NEW st, RowSettled(i, st), st = "sent" => row[i].ctx
    PROVE  QueueInv'
<1>1. RowShape'
  BY DEF RowSettled, QueueInv, RowShape, First, Live
<1>2. QueueOrder'
  <2>1. SUFFICES ASSUME NEW a \in Rows, NEW b \in Rows, a < b
                 PROVE  /\ row'[a].st = "absent" => row'[b].st = "absent"
                        /\ row'[a].st = "queued" => row'[b].st \in {"queued", "absent"}
    BY DEF QueueOrder
  <2>2. a \in Nat /\ b \in Nat /\ i \in Nat
    <3>1. i \in Rows
      BY DEF RowSettled
    <3> QED
      BY <3>1, Numbers
  <2>3. CASE a = i
    BY <2>1, <2>3 DEF RowSettled
  <2>4. CASE b = i
    <3>1. row'[a] = row[a]
      BY <2>1, <2>2, <2>4 DEF RowSettled
    <3>2. row[a].st # "absent"
      BY <2>1, <2>4 DEF RowSettled, QueueInv, QueueOrder, First, Live
    <3>3. row[a].st # "queued"
      BY <2>1, <2>2, <2>4 DEF RowSettled, QueueInv, QueueOrder, First, Live
    <3> QED
      BY <3>1, <3>2, <3>3
  <2>5. CASE a # i /\ b # i
    BY <2>1, <2>5 DEF RowSettled, QueueInv, QueueOrder
  <2> QED
    BY <2>3, <2>4, <2>5
<1> QED
  BY <1>1, <1>2 DEF QueueInv

------------------------------------------------------------------------------
(* What steps leave of the invariant: the log, the callers, the claims.       *)

(* Nothing that was sent gets done without the log.                           *)
LEMMA LogUnchanged ==
    ASSUME SlaveInv, log' = log, RowsGrow, astray \subseteq astray',
           \A i \in Rows : row[i].st # "done" /\ row'[i].st = "done" => row'[i].api # "send"
    PROVE  LogOwns' /\ LogFound' /\ OneCanonicalRow' /\ NewestInLog'
<1>1. LogOwns'
  <2>1. SUFFICES ASSUME NEW k \in DOMAIN log
                 PROVE  /\ log[k].main # Nothing /\ Owns(log[k].uid, log[k].main)'
                        /\ Owns(log[k].uid, log[k].alt)'
    BY DEF LogOwns, Owns
  <2>2. PICK e : e = log[k]
    OBVIOUS
  <2>3. e.main # Nothing /\ Owns(e.uid, e.main) /\ Owns(e.uid, e.alt)
    BY <2>1, <2>2 DEF SlaveInv, IdInv, LogOwns
  <2>4. Owns(e.uid, e.main)' /\ Owns(e.uid, e.alt)'
    BY <2>3, OwnsKept
  <2> QED
    BY <2>2, <2>3, <2>4 DEF Owns
<1>2. OneCanonicalRow'
  BY DEF SlaveInv, LogInv, OneCanonicalRow, Canonical
<1>3. ASSUME NEW u \in Uids
      PROVE  /\ SentFor(u)' = SentFor(u) /\ InLog(u)' = InLog(u) /\ Target(u)' = Target(u)
  BY <1>3 DEF SentFor, RowsGrow, InLog, Target, EntryOf
<1>4. LogFound'
  BY <1>3 DEF SlaveInv, LogInv, LogFound
<1>5. NewestInLog'
  BY <1>3 DEF SlaveInv, LogInv, NewestInLog, Newest
<1> QED
  BY <1>1, <1>2, <1>4, <1>5

(* Rows that were there stay as they are.                                     *)
RowsStay == \A i \in Rows : row[i].st # "absent" => row'[i] = row[i]

LEMMA FitsStays ==
    ASSUME SlaveInv, NEW v \in Threads, job'[v] = job[v], RowsStay, next' \in Nat, next <= next'
    PROVE  CallerFits(v)' /\ CallFits(v)'
<1>1. CallerFits(v) /\ CallFits(v)
  BY DEF SlaveInv, CallerInv, CallersFit
<1>2. CallerFits(v)'
  <2>1. next \in Nat /\ job[v].num \in Nat
    BY Types, SlaveAssumption DEF SlaveInv, JobRec
  <2> QED
    BY <1>1, <2>1 DEF CallerFits, Busy
<1>3. CallFits(v)'
  BY <1>1 DEF CallFits, Calling, Called, RowsStay
<1> QED
  BY <1>2, <1>3

LEMMA OthersFit ==
    ASSUME SlaveInv, NEW t \in Threads, JobMoves(t), RowsStay, next' \in Nat, next <= next',
           CallerFits(t)', CallFits(t)'
    PROVE  CallersFit'
BY FitsStays DEF CallersFit, JobMoves

LEMMA OthersOwn ==
    ASSUME SlaveInv, NEW t \in Threads, JobMoves(t), RowsGrow,
           Owns(job[t].uid, job[t].old)', Owns(job[t].uid, job[t].dbold)'
    PROVE  JobOwns'
<1>1. SUFFICES ASSUME NEW v \in Threads \ {t}
               PROVE  Owns(job[v].uid, job[v].old)' /\ Owns(job[v].uid, job[v].dbold)'
  BY DEF JobOwns
<1>2. PICK j : j = job[v] /\ j = job'[v]
  BY DEF JobMoves
<1>3. Owns(j.uid, j.old) /\ Owns(j.uid, j.dbold)
  BY <1>2 DEF SlaveInv, IdInv, JobOwns
<1>4. Owns(j.uid, j.old)' /\ Owns(j.uid, j.dbold)'
  BY <1>3, OwnsKept
<1> QED
  BY <1>2, <1>4 DEF Owns

(* Rows that are there own what they owned.                                   *)
LEMMA RowsOwn ==
    ASSUME SlaveInv, RowsGrow, NEW i \in Rows, row[i].st # "absent"
    PROVE  Owns(row[i].uid, row[i].old)' /\ Owns(row[i].uid, row[i].msg)'
<1>1. PICK r : r = row[i]
  OBVIOUS
<1>2. Owns(r.uid, r.old) /\ Owns(r.uid, r.msg)
  BY <1>1 DEF SlaveInv, IdInv, RowOwns
<1>3. Owns(r.uid, r.old)' /\ Owns(r.uid, r.msg)'
  BY <1>2, OwnsKept
<1>4. r.uid = row'[i].uid /\ r.old = row'[i].old /\ r.msg = row'[i].msg
  BY <1>1 DEF RowsGrow
<1> QED
  BY <1>3, <1>4 DEF Owns

LEMMA RowsOwnNoMore ==
    ASSUME SlaveInv, RowsGrow, \A i \in Rows : row[i].st = "absent" => row'[i].st = "absent"
    PROVE  RowOwns'
BY RowsOwn DEF RowOwns

(* What was found stays found.                                                *)
LogStays == \A u \in Uids : InLog(u) => InLog(u)'

LEMMA OthersFound ==
    ASSUME SlaveInv, NEW t \in Threads, JobMoves(t), CallerFound(t)'
    PROVE  \A v \in Threads : CallerFound(v)'
BY DEF JobMoves, SlaveInv, LogInv, FollowersFound, CallerFound, Calling

LEMMA RowsFoundNoMore ==
    ASSUME SlaveInv, RowsGrow, \A i \in Rows : row[i].st = "absent" => row'[i].st = "absent"
    PROVE  \A i \in Rows : RowFound(i)'
BY DEF RowFound, RowsGrow, SlaveInv, LogInv, FollowersFound

(* A step that claims nothing, releases nothing, and fails no call.           *)
LEMMA QuietClaims ==
    ASSUME SlaveInv, pending' = pending, excused \subseteq excused',
           \A v \in Threads, u \in Uids :
              /\ Preparing(v, u)' => Preparing(v, u) /\ job'[v].num = job[v].num
              /\ Failing(v, u)' => Failing(v, u) /\ job'[v].num = job[v].num,
           \A i \in Rows, u \in Uids : Outstanding(i, u)' => Outstanding(i, u)
    PROVE  ClaimsAreKept'
<1>1. ASSUME NEW u \in Uids, u \notin excused'
      PROVE  ClaimKept(u)'
  <2>1. ClaimKept(u)
    BY <1>1 DEF SlaveInv, ClaimsAreKept
  <2> HIDE DEF Preparing, Failing, Outstanding
  <2> QED
    BY <2>1 DEF ClaimKept, Nobody
<1> QED
  BY <1>1 DEF ClaimsAreKept

------------------------------------------------------------------------------
(* Steps of callers that leave the queue and the log alone.                   *)

(* A caller goes on, or ends without a claim to release.                      *)
LEMMA CallerMoves ==
    ASSUME SlaveInv, TypeOK', NEW t \in Threads, Busy(t), JobMoves(t),
           UNCHANGED <<row, log, next, pending, excused>>, astray \subseteq astray',
           CallerFits(t)', CallFits(t)',
           Owns(job[t].uid, job[t].old)', Owns(job[t].uid, job[t].dbold)',
           CallerFound(t)',
           \/ job'[t] = Idle
           \/ /\ job'[t].op = job[t].op /\ job'[t].uid = job[t].uid /\ job'[t].num = job[t].num
              /\ job'[t].at # "failed"
              /\ Calling(t) => Calling(t)'
    PROVE  SlaveInv'
<1>1. RowsGrow /\ RowsStay /\ LogStays
  BY SameGrows DEF SlaveInv, RowsStay, LogStays, InLog
<1>2. QueueInv'
  BY QueueKept DEF SlaveInv
<1>3. CallerInv'
  <2>1. next \in Nat
    BY Types, SlaveAssumption DEF SlaveInv
  <2>2. CallersFit'
    BY <1>1, <2>1, OthersFit
  <2> QED
    BY <2>2 DEF CallerInv, SlaveInv, ClaimsAreOld
<1>4. IdInv' /\ LogFound' /\ OneCanonicalRow' /\ NewestInLog'
  <2>1. LogOwns' /\ LogFound' /\ OneCanonicalRow' /\ NewestInLog'
    BY <1>1, LogUnchanged
  <2>2. JobOwns' /\ RowOwns'
    BY <1>1, OthersOwn, RowsOwnNoMore
  <2> QED
    BY <2>1, <2>2 DEF IdInv
<1>5. ClaimsAreKept'
  <2>1. ASSUME NEW v \in Threads, NEW u \in Uids
        PROVE  /\ Preparing(v, u)' => Preparing(v, u) /\ job'[v].num = job[v].num
               /\ Failing(v, u)' => Failing(v, u) /\ job'[v].num = job[v].num
    <3>1. CASE v # t
      BY <3>1 DEF JobMoves, Preparing, Delivers, Failing, Busy, Calling
    <3>2. CASE v = t
      BY <3>2, IdleIs DEF Preparing, Delivers, Failing, Busy, Calling
    <3> QED
      BY <3>1, <3>2
  <2>2. ASSUME NEW i \in Rows, NEW u \in Uids
        PROVE  Outstanding(i, u)' => Outstanding(i, u)
    BY DEF Outstanding
  <2> QED
    BY <2>1, <2>2, QuietClaims
<1>6. FollowersFound'
  BY <1>1, <1>4, OthersFound, RowsFoundNoMore DEF FollowersFound
<1> QED
  BY <1>2, <1>3, <1>4, <1>5, <1>6 DEF SlaveInv, LogInv

(* A caller that has ended fits.                                              *)
LEMMA IdleFits ==
    ASSUME NEW t \in Threads, job'[t] = Idle
    PROVE  /\ CallerFits(t)' /\ CallFits(t)' /\ CallerFound(t)'
           /\ Owns(job[t].uid, job[t].old)' /\ Owns(job[t].uid, job[t].dbold)'
BY IdleIs DEF CallerFits, CallFits, CallerFound, Owns, Busy, Calling

(* What it means to release a claim of one's own.                             *)
Releases(u, num) ==
    /\ pending' \in [Uids -> Nat] /\ pending'[u] = 0
    /\ \A v \in Uids \ {u} : pending'[v] = pending[v]
    /\ excused' = IF \/ pending[u] \notin {0, num}
                     \/ \E i \in Rows : row'[i].st = "queued" /\ row'[i].new /\ row'[i].uid = u
                  THEN excused \cup {u} ELSE excused

LEMMA ReleaseReleases ==
    ASSUME TypeOK, NEW u \in Uids, NEW num, Release(u, num)
    PROVE  Releases(u, num)
BY Types DEF Release, Releases

(* A caller ends and releases its claim: nobody holds another for the         *)
(* message, or it is excused.                                                 *)
LEMMA CallerReleases ==
    ASSUME SlaveInv, TypeOK', NEW t \in Threads, JobDone(t),
           UNCHANGED <<row, log, next>>, astray \subseteq astray',
           job[t].claimed, Releases(job[t].uid, job[t].num),
           job[t].at \in {"resolve", "dispatch", "waiting", "failed"}
    PROVE  SlaveInv'
<1> DEFINE w == job[t].uid
<1>a. w \in Uids /\ Delivers(t, w) /\ JobMoves(t) /\ CallerFits(t) /\ CallFits(t)
  BY Types DEF SlaveInv, JobRec, CallerInv, CallersFit, CallerFits, Delivers, Busy, JobDone
<1>1. RowsGrow /\ RowsStay /\ LogStays
  BY SameGrows DEF SlaveInv, RowsStay, LogStays, InLog
<1>2. QueueInv'
  BY QueueKept DEF SlaveInv
<1>3. CallerInv'
  <2>1. next \in Nat \ {0}
    BY Types, SlaveAssumption DEF SlaveInv
  <2>2. CallersFit'
    BY <1>a, <1>1, <2>1, OthersFit, IdleFits DEF JobDone
  <2>3. ClaimsAreOld'
    BY <1>a, <2>1 DEF ClaimsAreOld, Releases, SlaveInv, CallerInv
  <2> QED
    BY <2>2, <2>3 DEF CallerInv
<1>4. IdInv' /\ LogFound' /\ OneCanonicalRow' /\ NewestInLog'
  <2>1. LogOwns' /\ LogFound' /\ OneCanonicalRow' /\ NewestInLog'
    BY <1>1, LogUnchanged
  <2>2. JobOwns' /\ RowOwns'
    BY <1>a, <1>1, OthersOwn, RowsOwnNoMore, IdleFits DEF JobDone
  <2> QED
    BY <2>1, <2>2 DEF IdInv
<1>5. ASSUME NEW v \in Threads, NEW u \in Uids
      PROVE  /\ Delivers(v, u)' => v # t /\ Delivers(v, u) /\ job'[v] = job[v]
             /\ Preparing(v, u)' => Preparing(v, u) /\ job'[v] = job[v]
             /\ Failing(v, u)' => Failing(v, u) /\ job'[v] = job[v]
  <2>1. CASE v # t
    BY <2>1 DEF JobDone, JobMoves, Preparing, Delivers, Failing, Busy, Calling
  <2>2. CASE v = t
    BY <2>2, IdleIs DEF JobDone, Preparing, Delivers, Failing, Busy
  <2> QED
    BY <2>1, <2>2
<1>6. ASSUME NEW i \in Rows, NEW u \in Uids
      PROVE  Outstanding(i, u)' = Outstanding(i, u)
  BY DEF Outstanding
<1>7. ClaimsAreKept'
  <2>1. SUFFICES ASSUME NEW u \in Uids, u \notin excused' PROVE ClaimKept(u)'
    BY DEF ClaimsAreKept
  <2>2. ClaimKept(u)
    BY <2>1 DEF SlaveInv, ClaimsAreKept, Releases
  <2>3. CASE u # w
    <3>1. pending'[u] = pending[u]
      BY <2>3 DEF Releases
    <3> HIDE DEF w, Preparing, Failing, Outstanding
    <3> QED
      BY <2>2, <3>1, <1>5, <1>6 DEF ClaimKept, Nobody
  <2>4. CASE u = w
    <3>1. /\ pending[u] \in {0, job[t].num}
          /\ \A i \in Rows : ~(row[i].st = "queued" /\ row[i].new /\ row[i].uid = u)
      BY <2>1, <2>4 DEF Releases
    <3>2. \A v \in Threads : v # t => ~Preparing(v, u)
      <4>1. CASE Preparing(t, u)
        BY <2>2, <4>1 DEF ClaimKept
      <4>2. CASE Failing(t, u) /\ pending[u] = job[t].num
        BY <2>2, <4>2 DEF ClaimKept, Nobody
      <4>3. CASE Failing(t, u) /\ pending[u] = 0
        <5>1. ASSUME NEW v \in Threads, Preparing(v, u) PROVE FALSE
          <6>1. pending[u] = job[v].num
            BY <2>2, <5>1 DEF ClaimKept
          <6>2. job[v].num # 0
            BY <5>1 DEF SlaveInv, CallerInv, CallersFit, CallerFits, Preparing, Delivers
          <6> QED
            BY <4>3, <6>1, <6>2
        <5> QED
          BY <5>1
      <4>4. CASE job[t].at = "waiting"
        BY <1>a, <2>4, <3>1, <4>4 DEF CallFits, Calling, Called, Delivers
      <4> QED
        BY <1>a, <2>4, <3>1, <4>1, <4>2, <4>3, <4>4 DEF Preparing, Failing, Calling
    <3>3. \A i \in Rows : ~Outstanding(i, u)
      <4>1. CASE Preparing(t, u)
        BY <2>2, <4>1 DEF ClaimKept
      <4>2. CASE Failing(t, u) /\ pending[u] = job[t].num
        BY <2>2, <4>2 DEF ClaimKept, Nobody
      <4>3. CASE Failing(t, u) /\ pending[u] = 0
        BY <2>2, <4>3 DEF ClaimKept
      <4>4. CASE job[t].at = "waiting"
        BY <1>a, <2>4, <3>1, <4>4 DEF CallFits, Calling, Called, Delivers
      <4> QED
        BY <1>a, <2>4, <3>1, <4>1, <4>2, <4>3, <4>4 DEF Preparing, Failing, Calling
    <3>4. Nobody(u)'
      BY <3>2, <3>3, <1>5, <1>6 DEF Nobody, Preparing
    <3> QED
      BY <3>4 DEF ClaimKept, Nobody
  <2> QED
    BY <2>3, <2>4
<1>9. FollowersFound'
  <2>1. CallerFound(t)'
    BY IdleFits DEF JobDone
  <2> QED
    BY <1>a, <1>1, <1>4, <2>1, OthersFound, RowsFoundNoMore DEF FollowersFound
<1> QED
  BY <1>2, <1>3, <1>4, <1>7, <1>9 DEF SlaveInv, LogInv

------------------------------------------------------------------------------
(* Steps of callers that put a call in the queue.                             *)

(* What a caller may put in the queue, and what it remembers of it.           *)
CallOf(t, q, d) ==
    LET u == job[t].uid
        deliver == job[t].op = "new"
    IN /\ q.uid = u /\ q.new = deliver /\ q.callback = deliver
       /\ deliver => q.api = "send" /\ d = Nothing
       /\ q.ctx <=> q.api = "send"
       /\ q.api = "edit" => q.msg # Nothing
       /\ q.api # "send" => q.msg = job[t].old /\ d = Nothing
       /\ q.api \in {"delete", "notice"} => job[t].op = "removal" \/ KindOf[u] = "sticker"
       /\ Owns(u, q.old) /\ Owns(u, q.msg) /\ Owns(u, d)
       /\ d # Nothing => u \in Mirrored /\ job[t].op = "reaction"
       /\ job[t].old = Nothing /\ job[t].dbold # Nothing => d # Nothing
       /\ q.api = "send" /\ u \in Mirrored => q.old # Nothing

LEMMA QueuesCall ==
    ASSUME SlaveInv, TypeOK', NEW t \in Threads, NEW i, NEW q, NEW d, RowAdded(i, q),
           CallOf(t, q, d), UNCHANGED <<log, astray, next, pending>>,
           job[t].at = "dispatch" \/ Calling(t),
           JobDone(t) \/ JobNow(t, "waiting", job[t].old, d, i),
           \/ job[t].op # "new" /\ excused' = excused
           \/ Preparing(t, job[t].uid) /\ excused' = excused
           \/ Failing(t, job[t].uid) /\ excused' = excused \cup {job[t].uid}
    PROVE  SlaveInv'
<1> DEFINE w == job[t].uid
<1>a. /\ w \in Uids /\ Busy(t) /\ JobMoves(t) /\ i \in Rows /\ q.st = "queued" /\ row'[i] = q
      /\ CallerFits(t) /\ CallFits(t) /\ row[i].st = "absent"
  BY Types DEF SlaveInv, JobRec, CallerInv, CallersFit, JobDone, JobNow, RowAdded, Busy, Calling
<1>b. job[t].op = "new" => w \notin Mirrored
  BY <1>a DEF CallerFits
<1>1. RowsGrow /\ RowsStay /\ LogStays
  BY AddedGrows DEF SlaveInv, RowsStay, LogStays, InLog, RowAdded
<1>2. QueueInv'
  <2>1. /\ q.ctx <=> q.api = "send"
        /\ q.callback => q.new
        /\ q.new => q.api = "send" /\ q.uid \notin Mirrored
        /\ q.api = "edit" => q.msg # Nothing
    BY <1>b DEF CallOf
  <2> QED
    BY <2>1, QueueAdded DEF SlaveInv
<1>3. CallerInv'
  <2>1. next \in Nat \ {0}
    BY Types, SlaveAssumption DEF SlaveInv
  <2>2. CallerFits(t)' /\ CallFits(t)'
    <3>1. CASE JobDone(t)
      BY <3>1, IdleFits DEF JobDone
    <3>2. CASE JobNow(t, "waiting", job[t].old, d, i)
      <4>1. CallerFits(t)'
        BY <1>a, <3>2 DEF JobNow, CallerFits, CallOf, Busy
      <4>2. CallFits(t)'
        BY <1>a, <3>2 DEF JobNow, CallFits, CallOf, Calling, Called
      <4> QED
        BY <4>1, <4>2
    <3> QED
      BY <3>1, <3>2
  <2>3. CallersFit'
    BY <1>a, <1>1, <2>1, <2>2, OthersFit
  <2> QED
    BY <2>3 DEF CallerInv, SlaveInv, ClaimsAreOld
<1>4. LogOwns' /\ LogFound' /\ OneCanonicalRow' /\ NewestInLog'
  <2>1. \A k \in Rows : ~(row[k].st # "done" /\ row'[k].st = "done")
    BY <1>a DEF RowAdded
  <2> QED
    BY <1>1, <2>1, LogUnchanged
<1>5. JobOwns'
  <2>1. Owns(w, job[t].old) /\ Owns(w, d)
    BY DEF SlaveInv, IdInv, JobOwns, CallOf
  <2>2. PICK o, x : o = job[t].old /\ x = w
    OBVIOUS
  <2>3. Owns(x, o)' /\ Owns(x, d)'
    BY <1>1, <2>1, <2>2, OwnsKept
  <2>4. Owns(job[t].uid, job[t].old)' /\ Owns(job[t].uid, job[t].dbold)'
    <3>1. CASE JobDone(t)
      BY <3>1, IdleFits DEF JobDone
    <3>2. CASE JobNow(t, "waiting", job[t].old, d, i)
      BY <2>2, <2>3, <3>2 DEF JobNow, Owns
    <3> QED
      BY <3>1, <3>2
  <2> QED
    BY <1>a, <1>1, <2>4, OthersOwn
<1>6. RowOwns'
  <2>1. SUFFICES ASSUME NEW k \in Rows, row'[k].st # "absent"
                 PROVE  Owns(row[k].uid, row[k].old)' /\ Owns(row[k].uid, row[k].msg)'
    BY DEF RowOwns
  <2>2. CASE k = i
    <3>1. PICK x : x = w
      OBVIOUS
    <3>2. Owns(x, q.old) /\ Owns(x, q.msg)
      BY <3>1 DEF CallOf
    <3>3. Owns(x, q.old)' /\ Owns(x, q.msg)'
      BY <1>1, <3>2, OwnsKept
    <3>4. row'[k].uid = x /\ row'[k].old = q.old /\ row'[k].msg = q.msg
      BY <1>a, <2>2, <3>1 DEF CallOf
    <3> QED
      BY <3>3, <3>4 DEF Owns
  <2>3. CASE k # i
    BY <1>1, <2>1, <2>3, RowsOwn DEF RowAdded
  <2> QED
    BY <2>2, <2>3
<1>7. ASSUME NEW v \in Threads, NEW u \in Uids
      PROVE  /\ Preparing(v, u)' => v # t /\ Preparing(v, u) /\ job'[v] = job[v]
             /\ Failing(v, u)' => v # t /\ Failing(v, u) /\ job'[v] = job[v]
  <2>1. CASE v # t
    BY <1>a, <2>1 DEF JobMoves, Preparing, Delivers, Failing, Busy, Calling
  <2>2. CASE v = t
    BY <1>a, <2>2, IdleIs DEF JobDone, JobNow, Preparing, Delivers, Failing, Busy, Calling
  <2> QED
    BY <2>1, <2>2
<1>8. ASSUME NEW k \in Rows, NEW u \in Uids
      PROVE  Outstanding(k, u)' => Outstanding(k, u) \/ (k = i /\ q.new /\ u = w)
  <2>1. CASE k = i
    BY <1>a, <2>1 DEF Outstanding, CallOf
  <2>2. CASE k # i
    BY <2>2 DEF Outstanding, RowAdded
  <2> QED
    BY <2>1, <2>2
<1>9. q.new <=> job[t].op = "new"
  BY DEF CallOf
<1>10. job[t].op = "new" => Preparing(t, w) \/ Failing(t, w)
  OBVIOUS
<1>11. ClaimsAreKept'
  <2>1. SUFFICES ASSUME NEW u \in Uids, u \notin excused' PROVE ClaimKept(u)'
    BY DEF ClaimsAreKept
  <2>2. ClaimKept(u) /\ pending'[u] = pending[u]
    BY <2>1 DEF SlaveInv, ClaimsAreKept
  <2>3. CASE ~q.new \/ u # w
    <3>1. \A k \in Rows : Outstanding(k, u)' => Outstanding(k, u)
      BY <1>8, <2>3
    <3> HIDE DEF w, Preparing, Failing, Outstanding
    <3> QED
      BY <2>2, <3>1, <1>7 DEF ClaimKept, Nobody
  <2>4. CASE q.new /\ u = w
    <3>1. Preparing(t, u)
      BY <1>9, <1>10, <2>1, <2>4
    <3>2. \A k \in Rows : Outstanding(k, u)' => k = i
      BY <1>8, <2>2, <3>1 DEF ClaimKept
    <3>3. \A v \in Threads : ~Preparing(v, u)'
      BY <1>7, <2>2, <3>1 DEF ClaimKept
    <3>4. \A v \in Threads : Failing(v, u)' => pending'[u] # job'[v].num
      BY <1>7, <2>2, <3>1 DEF ClaimKept, Nobody
    <3>5. pending'[u] # 0
      <4>1. pending[u] = job[t].num
        BY <2>2, <3>1 DEF ClaimKept
      <4>2. job[t].num # 0
        BY <1>a DEF CallerFits
      <4> QED
        BY <4>1, <4>2, <2>2
    <3> HIDE DEF w, Preparing, Failing, Outstanding
    <3> QED
      BY <3>2, <3>3, <3>4, <3>5 DEF ClaimKept
  <2> QED
    BY <2>3, <2>4
<1>13. FollowersFound'
  <2>1. CallerFound(t)
    BY DEF SlaveInv, LogInv, FollowersFound
  <2>2. CallerFound(t)'
    <3>1. CASE JobDone(t)
      BY <3>1, IdleFits DEF JobDone
    <3>2. CASE JobNow(t, "waiting", job[t].old, d, i)
      BY <1>a, <2>1, <3>2 DEF JobNow, CallerFound, CallOf
    <3> QED
      BY <3>1, <3>2
  <2>3. \A v \in Threads : CallerFound(v)'
    BY <1>a, <2>2, OthersFound
  <2>4. ASSUME NEW k \in Rows PROVE RowFound(k)'
    <3>1. CASE k = i
      BY <1>a, <3>1 DEF RowFound, CallOf
    <3>2. CASE k # i
      BY <3>2 DEF RowFound, RowAdded, SlaveInv, LogInv, FollowersFound
    <3> QED
      BY <3>1, <3>2
  <2> QED
    BY <2>3, <2>4 DEF FollowersFound
<1> QED
  BY <1>2, <1>3, <1>4, <1>5, <1>6, <1>11, <1>13 DEF SlaveInv, LogInv, IdInv

------------------------------------------------------------------------------
(* The steps of callers: send_message, send_status and what they call.        *)

LEMMA TypesNow ==
    ASSUME TypeOK, script' = script, next' \in 1 .. Len(script) + 1,
           job' \in [Threads -> JobRec], pending' \in [Uids -> Nat], row' \in [Rows -> RowRec],
           shown' \subseteq MessageIds, log' \in Seq(LogRec), troubles' \in 0 .. MaxTroubles,
           excused' \subseteq Uids, astray' \subseteq Uids
    PROVE  TypeOK'
BY DEF TypeOK, JobRec, RowRec, LogRec, JobStates, RowStates

LEMMA TroubleType ==
    ASSUME TypeOK, Trouble \/ UNCHANGED troubles
    PROVE  troubles' \in 0 .. MaxTroubles
BY Types, SlaveAssumption DEF Trouble

(* What is in the log of a message, and the message an edit is about.         *)
LEMMA EntryIs ==
    ASSUME TypeOK, NEW u \in Uids
    PROVE  /\ Logged(u) <=> InLog(u)
           /\ InLog(u) => /\ EntryOf(u) \in 1 .. Len(log) /\ log[EntryOf(u)].uid = u
                          /\ \A k \in 1 .. Len(log) : log[k].uid = u => k <= EntryOf(u)
<1>1. DOMAIN log = 1 .. Len(log) /\ Len(log) \in Nat
  BY Types, LenProperties
<1>2. PICK S : S = {k \in DOMAIN log : log[k].uid = u}
  OBVIOUS
<1>3. EntryOf(u) = IF S = {} THEN 0 ELSE Max(S)
  BY <1>2 DEF EntryOf
<1>4. S # {} => Max(S) \in S /\ \A n \in S : n <= Max(S)
  <2>1. S \in SUBSET Nat /\ \A n \in S : n <= Len(log)
    BY <1>1, <1>2
  <2> QED
    BY <1>1, <2>1, GreatestNumber
<1> QED
  BY <1>1, <1>2, <1>3, <1>4 DEF Logged, InLog

LEMMA TargetIs ==
    ASSUME SlaveInv, NEW u \in Uids, Logged(u)
    PROVE  /\ Target(u) \in MessageIds \ {Nothing} /\ Owns(u, Target(u))
           /\ log[EntryOf(u)].main \in MessageIds \ {Nothing} /\ Owns(u, log[EntryOf(u)].main)
<1>1. EntryOf(u) \in DOMAIN log /\ log[EntryOf(u)].uid = u /\ log[EntryOf(u)] \in LogRec
  BY EntryIs, Types, LenProperties, ElementOfSeq DEF SlaveInv
<1>2. /\ log[EntryOf(u)].main # Nothing /\ Owns(u, log[EntryOf(u)].main)
      /\ Owns(u, log[EntryOf(u)].alt)
  BY <1>1 DEF SlaveInv, IdInv, LogOwns
<1> QED
  BY <1>1, <1>2 DEF Target, LogRec

(* A request that is taken up, with the claim it makes.                       *)
LEMMA ArriveStep ==
    ASSUME SlaveInv, NEW t \in Threads, Arrive(t)
    PROVE  SlaveInv'
<1>1. PICK q \in [op : Ops, uid : Uids] : q = script[next] /\ (q.op = "new" => q.uid \notin Mirrored)
  <2>1. script \in Scripts /\ next \in 1 .. Len(script)
    BY Types, SlaveAssumption DEF SlaveInv, Arrive
  <2> QED
    <3>1. script \in Seq([op : Ops, uid : Uids])
          /\ \A k \in DOMAIN script : script[k].op = "new" => script[k].uid \notin Mirrored
      BY <2>1, SlaveAssumption
    <3>2. DOMAIN script = 1 .. Len(script) /\ script[next] \in [op : Ops, uid : Uids]
      BY <2>1, <3>1, ElementOfSeq, LenProperties
    <3> QED
      BY <2>1, <3>1, <3>2
<1>2. PICK w : w = q.uid
  OBVIOUS
<1>3. next \in Nat \ {0} /\ next' = next + 1 /\ next' \in 1 .. Len(script) + 1 /\ next' \in Nat
  BY Types, SlaveAssumption DEF SlaveInv, Arrive
<1>4. PICK j : j = [Idle EXCEPT !.op = q.op, !.uid = q.uid, !.num = next, !.claimed = Claims(q.op),
                               !.at = IF q.op \in {"removal", "reaction"} THEN "lookup" ELSE "resolve"]
  OBVIOUS
<1>5. /\ j \in JobRec /\ j.op = q.op /\ j.uid = w /\ j.num = next /\ j.claimed = (q.op = "new")
      /\ j.at = (IF q.op \in {"removal", "reaction"} THEN "lookup" ELSE "resolve")
      /\ j.old = Nothing /\ j.dbold = Nothing
  <2>1. PICK id \in JobRec : id = Idle
    BY IdleType
  <2>2. PICK c \in BOOLEAN : c = Claims(q.op) /\ c = (q.op = "new")
    BY DEF Claims
  <2>3. PICK a \in JobStates : a = IF q.op \in {"removal", "reaction"} THEN "lookup" ELSE "resolve"
    BY DEF JobStates
  <2>4. j = [id EXCEPT !.op = q.op, !.uid = q.uid, !.num = next, !.claimed = c, !.at = a]
    BY <1>4, <2>1, <2>2, <2>3
  <2>5. id.old = Nothing /\ id.dbold = Nothing
    BY <2>1, IdleIs
  <2>6. /\ j \in JobRec /\ j.op = q.op /\ j.uid = w /\ j.num = next /\ j.claimed = c
        /\ j.at = a /\ j.old = id.old /\ j.dbold = id.dbold
    BY <1>1, <1>2, <1>3, <2>1, <2>2, <2>3, <2>4 DEF JobRec
  <2> QED
    BY <2>2, <2>3, <2>5, <2>6
<1>6. \/ UNCHANGED <<job, pending>>
      \/ /\ q.op = "new" => pending[w] = 0
         /\ job' = [job EXCEPT ![t] = j]
         /\ pending' = IF q.op = "new" THEN [pending EXCEPT ![w] = next] ELSE pending
  BY <1>1, <1>2, <1>4 DEF Arrive, Claims
<1>7. UNCHANGED <<script, row, shown, log, troubles, excused, astray>> /\ ~Busy(t)
  BY DEF Arrive, Busy, ghosts
<1>8. JobMoves(t) /\ job'[t] \in {job[t], j} /\ w \in Uids
      /\ pending' \in [Uids -> Nat]
  <2>1. w \in Uids
    BY <1>1, <1>2
  <2> QED
    BY <1>3, <1>5, <1>6, <2>1, Types DEF SlaveInv, JobMoves
<1>9. TypeOK'
  <2> QED
    BY <1>3, <1>7, <1>8, Types, TypesNow DEF SlaveInv, JobMoves
<1>10. RowsGrow /\ RowsStay /\ LogStays
  BY <1>7, SameGrows DEF SlaveInv, RowsStay, LogStays, InLog
<1>11. QueueInv'
  BY <1>7, <1>8, QueueKept DEF SlaveInv
<1>12. CallerInv'
  <2>1. CallerFits(t)' /\ CallFits(t)'
    <3>1. CASE job'[t] = job[t]
      BY <1>3, <1>10, <3>1, FitsStays
    <3>2. CASE job'[t] = j
      <4>1. next \in 1 .. next' - 1
        BY <1>3
      <4>2. j.at # "idle" /\ j.at \in {"lookup", "resolve"}
        BY <1>5
      <4>3. j.op = "new" => j.uid \notin Mirrored /\ j.at # "lookup"
        BY <1>1, <1>2, <1>5
      <4>4. CallerFits(t)'
        BY <1>5, <3>2, <4>1, <4>2, <4>3 DEF CallerFits, Busy
      <4>5. CallFits(t)'
        BY <3>2, <4>2 DEF CallFits, Calling
      <4> QED
        BY <4>4, <4>5
    <3> QED
      BY <1>8, <3>1, <3>2
  <2>2. CallersFit'
    BY <1>3, <1>8, <1>10, <2>1, OthersFit
  <2>3. ClaimsAreOld'
    BY <1>3, <1>6, <1>8, Types DEF ClaimsAreOld, SlaveInv, CallerInv
  <2> QED
    BY <2>2, <2>3 DEF CallerInv
<1>13. IdInv' /\ LogFound' /\ OneCanonicalRow' /\ NewestInLog'
  <2>1. LogOwns' /\ LogFound' /\ OneCanonicalRow' /\ NewestInLog'
    BY <1>7, <1>8, <1>10, LogUnchanged
  <2>2. Owns(job[t].uid, job[t].old)' /\ Owns(job[t].uid, job[t].dbold)'
    <3>1. CASE job'[t] = job[t]
      BY <1>7, <3>1 DEF SlaveInv, IdInv, JobOwns, Owns
    <3>2. CASE job'[t] = j
      BY <1>5, <3>2 DEF Owns
    <3> QED
      BY <1>8, <3>1, <3>2
  <2>3. JobOwns' /\ RowOwns'
    BY <1>7, <1>8, <1>10, <2>2, OthersOwn, RowsOwnNoMore
  <2> QED
    BY <2>1, <2>3 DEF IdInv
<1>14. FollowersFound'
  <2>1. CallerFound(t)'
    <3>1. CASE job'[t] = job[t]
      BY <1>7, <3>1 DEF CallerFound, Calling, Busy
    <3>2. CASE job'[t] = j
      BY <1>5, <3>2 DEF CallerFound, Calling
    <3> QED
      BY <1>8, <3>1, <3>2
  <2> QED
    BY <1>7, <1>8, <1>10, <1>13, <2>1, OthersFound, RowsFoundNoMore DEF FollowersFound
<1>15. ASSUME NEW v \in Threads, NEW u \in Uids
       PROVE  v # t => /\ Preparing(v, u)' = Preparing(v, u)
                       /\ Failing(v, u)' = Failing(v, u) /\ job'[v] = job[v]
  BY <1>8 DEF JobMoves, Preparing, Delivers, Failing, Busy, Calling
<1>16. ASSUME NEW i \in Rows, NEW u \in Uids
       PROVE  Outstanding(i, u)' = Outstanding(i, u)
  BY <1>7 DEF Outstanding
<1>17. ClaimsAreKept'
  <2>1. CASE job' = job \/ q.op # "new"
    <3>1. pending' = pending
      <4>1. job[t] # j
        BY <1>5, <1>7 DEF Busy
      <4> QED
        BY <1>6, <2>1, <4>1, Types DEF SlaveInv
    <3>2. ASSUME NEW v \in Threads, NEW u \in Uids, Delivers(v, u)' PROVE job'[v] = job[v]
      BY <1>5, <1>8, <1>15, <2>1, <3>2 DEF Delivers
    <3>3. ASSUME NEW v \in Threads, NEW u \in Uids
          PROVE  /\ Preparing(v, u)' => Preparing(v, u) /\ job'[v].num = job[v].num
                 /\ Failing(v, u)' => Failing(v, u) /\ job'[v].num = job[v].num
      BY <3>2 DEF Preparing, Delivers, Failing, Busy, Calling
    <3> QED
      BY <1>7, <1>8, <1>16, <3>1, <3>3, QuietClaims
  <2>2. CASE job' # job /\ q.op = "new"
    <3>1. pending[w] = 0 /\ job'[t] = j /\ pending' = [pending EXCEPT ![w] = next]
      BY <1>6, <2>2, Types DEF SlaveInv
    <3>2. /\ pending'[w] = next /\ \A u \in Uids \ {w} : pending'[u] = pending[u]
      BY <1>8, <3>1, Types DEF SlaveInv
    <3>3. ASSUME NEW u \in Uids PROVE (Delivers(t, u)' <=> u = w) /\ ~Failing(t, u)'
      BY <1>5, <2>2, <3>1 DEF Delivers, Failing, Busy
    <3>4. ASSUME NEW u \in Uids, u \notin excused' PROVE ClaimKept(u)'
      <4>1. ClaimKept(u)
        BY <1>7, <3>4 DEF SlaveInv, ClaimsAreKept
      <4>2. CASE u # w
        <5>1. ~Preparing(t, u)'
          BY <3>3, <4>2 DEF Preparing
        <5> HIDE DEF Preparing, Failing, Outstanding
        <5> QED
          BY <4>1, <4>2, <5>1, <3>2, <3>3, <1>15, <1>16 DEF ClaimKept, Nobody
      <4>3. CASE u = w
        <5>1. \A i \in Rows : ~Outstanding(i, u)
          BY <3>1, <4>1, <4>3 DEF ClaimKept
        <5>2. \A v \in Threads : Busy(v) => job[v].num \in 1 .. next - 1
          BY DEF SlaveInv, CallerInv, CallersFit, CallerFits
        <5>3. \A v \in Threads : ~Preparing(v, u)
          BY <3>1, <4>1, <4>3, <5>2 DEF ClaimKept, Preparing, Delivers
        <5>4. \A v \in Threads : Preparing(v, u)' => v = t
          BY <1>15, <5>3
        <5>5. job'[t].num = next
          BY <1>5, <3>1
        <5>6. \A v \in Threads : Failing(v, u)' => pending'[u] # job'[v].num
          <6>1. ASSUME NEW v \in Threads, Failing(v, u)' PROVE pending'[u] # job'[v].num
            <7>1. v # t /\ job'[v] = job[v] /\ Busy(v)
              BY <6>1, <3>3, <1>15 DEF Failing, Delivers
            <7> QED
              BY <7>1, <5>2, <3>2, <4>3, <1>3
          <6> QED
            BY <6>1
        <5> HIDE DEF Preparing, Failing, Outstanding
        <5> QED
          BY <4>3, <5>1, <5>4, <5>5, <5>6, <3>2, <1>3, <1>16 DEF ClaimKept
      <4> QED
        BY <4>2, <4>3
    <3> QED
      BY <3>4 DEF ClaimsAreKept
  <2> QED
    BY <2>1, <2>2
<1> QED
  BY <1>9, <1>11, <1>12, <1>13, <1>14, <1>17 DEF SlaveInv, LogInv

(* A caller ends; what it had claimed it releases.                            *)
LEMMA EndStep ==
    ASSUME SlaveInv, NEW t \in Threads, FinishReleasing(t), Trouble \/ UNCHANGED troubles,
           UNCHANGED <<script, next, row, shown, log, astray>>,
           job[t].at \in {"resolve", "dispatch", "waiting", "failed"}
    PROVE  SlaveInv'
<1>1. JobDone(t)
  BY FinishDone DEF FinishReleasing, SlaveInv
<1>2. job[t].uid \in Uids /\ job[t].num \in Nat /\ Busy(t)
  BY Types DEF SlaveInv, JobRec, Busy
<1>3. CASE job[t].claimed
  <2>1. Releases(job[t].uid, job[t].num)
    <3>1. PICK u \in Uids, n \in Nat : u = job[t].uid /\ n = job[t].num
      BY <1>2
    <3>2. Release(u, n)
      BY <1>3, <3>1 DEF FinishReleasing
    <3>3. Releases(u, n)
      BY <3>2, ReleaseReleases DEF SlaveInv
    <3> QED
      BY <3>1, <3>3
  <2>2. TypeOK'
    <3>1. pending' \in [Uids -> Nat] /\ excused' \subseteq Uids
      BY <2>1, <1>2, Types DEF Releases, SlaveInv
    <3> QED
      BY <1>1, <3>1, Types, TroubleType, TypesNow DEF SlaveInv, JobDone, JobMoves
  <2> QED
    BY <1>1, <1>3, <2>1, <2>2, CallerReleases
<1>4. CASE ~job[t].claimed
  <2>1. UNCHANGED <<pending, excused>>
    BY <1>4 DEF FinishReleasing, KeepClaims
  <2>2. TypeOK'
    BY <1>1, <2>1, Types, TroubleType, TypesNow DEF SlaveInv, JobDone, JobMoves
  <2> QED
    BY <1>1, <1>2, <2>1, <2>2, IdleFits, CallerMoves DEF JobDone
<1> QED
  BY <1>3, <1>4

LEMMA ResolveStep ==
    ASSUME SlaveInv, NEW t \in Threads, Resolve(t)
    PROVE  SlaveInv'
<1>1. CASE FinishReleasing(t) /\ UNCHANGED row
  BY <1>1, EndStep DEF Resolve
<1>2. CASE /\ job' = [job EXCEPT ![t].at = IF job[t].op \in {"edit", "editmedia"} THEN "lookup"
                                           ELSE "dispatch"]
           /\ KeepClaims /\ UNCHANGED row
  <2>1. PICK a \in {"lookup", "dispatch"} :
                a = IF job[t].op \in {"edit", "editmedia"} THEN "lookup" ELSE "dispatch"
    OBVIOUS
  <2>2. JobNow(t, a, job[t].old, job[t].dbold, job[t].call)
    BY <1>2, <2>1, Types DEF SlaveInv, JobNow, JobMoves, JobRec, JobStates
  <2>3. /\ Busy(t) /\ ~Calling(t) /\ CallerFits(t) /\ job[t].at = "resolve"
        /\ UNCHANGED <<script, next, row, shown, log, troubles, astray, pending, excused>>
    BY <1>2 DEF Resolve, Busy, Calling, SlaveInv, CallerInv, CallersFit, KeepClaims
  <2>4. job[t].op \in Ops
    BY Types DEF SlaveInv, JobRec
  <2>5. TypeOK'
    BY <2>2, <2>3, Types, TypesNow DEF SlaveInv, JobNow, JobMoves
  <2>6. CallerFits(t)' /\ CallFits(t)' /\ CallerFound(t)'
    BY <2>1, <2>2, <2>3, <2>4 DEF JobNow, CallerFits, CallFits, CallerFound, Busy, Calling, Ops
  <2>7. Owns(job[t].uid, job[t].old)' /\ Owns(job[t].uid, job[t].dbold)'
    BY <2>2, <2>3 DEF JobNow, CallerFits, Owns
  <2> QED
    BY <2>1, <2>2, <2>3, <2>5, <2>6, <2>7, CallerMoves DEF JobNow
<1> QED
  BY <1>1, <1>2 DEF Resolve

LEMMA LookUpStep ==
    ASSUME SlaveInv, NEW t \in Threads, LookUp(t)
    PROVE  SlaveInv'
<1>1. PICK u \in Uids : u = job[t].uid
  BY Types DEF SlaveInv, JobRec
<1>2. /\ Busy(t) /\ ~Calling(t) /\ CallerFits(t) /\ job[t].at = "lookup" /\ job[t].op # "new"
      /\ job[t].old = Nothing /\ job[t].dbold = Nothing
      /\ UNCHANGED <<script, next, row, shown, log, troubles, pending, excused, astray>>
  BY <1>1, Types DEF LookUp, ghosts, Busy, Calling, SlaveInv, CallerInv, CallersFit, CallerFits
<1>3. CASE JobDone(t)
  <2>1. TypeOK'
    BY <1>2, <1>3, Types, TypesNow DEF SlaveInv, JobDone, JobMoves
  <2> QED
    BY <1>2, <1>3, <2>1, IdleFits, CallerMoves DEF JobDone
<1>4. ASSUME NEW o \in MessageIds, NEW d \in MessageIds,
             JobNow(t, "dispatch", o, d, job[t].call), Owns(u, o), Owns(u, d),
             d # Nothing => o = Nothing /\ u \in Mirrored /\ job[t].op = "reaction",
             u \in Mirrored => o # Nothing \/ d # Nothing
      PROVE  SlaveInv'
  <2>1. TypeOK'
    BY <1>2, <1>4, Types, TypesNow DEF SlaveInv, JobNow, JobMoves
  <2>2. CallerFits(t)' /\ CallFits(t)'
    BY <1>1, <1>2, <1>4 DEF JobNow, CallerFits, CallFits, Busy, Calling
  <2>3. CallerFound(t)'
    BY <1>1, <1>2, <1>4 DEF JobNow, CallerFound
  <2>4. Owns(job[t].uid, job[t].old)' /\ Owns(job[t].uid, job[t].dbold)'
    BY <1>1, <1>2, <1>4 DEF JobNow, Owns
  <2> QED
    BY <1>2, <1>4, <2>1, <2>2, <2>3, <2>4, CallerMoves DEF JobNow
<1>5. CASE Logged(u)
  <2>2. PICK m, n : m = log[EntryOf(u)].main /\ n = Target(u)
    OBVIOUS
  <2>3. m \in MessageIds \ {Nothing} /\ n \in MessageIds \ {Nothing} /\ Owns(u, m) /\ Owns(u, n)
    BY <1>5, <2>2, TargetIs
  <2>4. PICK k \in MessageIds \ {Nothing} : k \in {m, n} /\ k = ReactionTarget(u)
    BY <2>2, <2>3 DEF ReactionTarget
  <2>5. PICK j \in JobRec : j = job[t]
    BY Types DEF SlaveInv
  <2>6. \/ job' = [job EXCEPT ![t] = [j EXCEPT !.at = "dispatch", !.dbold = m]]
           /\ u \in Mirrored /\ job[t].op = "reaction"
        \/ job' = [job EXCEPT ![t] = [j EXCEPT !.at = "dispatch", !.old = k]]
        \/ job' = [job EXCEPT ![t] = [j EXCEPT !.at = "dispatch", !.old = n]]
    BY <1>1, <1>5, <2>2, <2>4, <2>5, Types DEF LookUp, SlaveInv
  <2>7. ASSUME NEW o \in MessageIds \ {Nothing}, job' = [job EXCEPT ![t] = [j EXCEPT !.at = "dispatch", !.old = o]]
        PROVE  JobNow(t, "dispatch", o, Nothing, job[t].call)
    <3>1. PICK f : f = [j EXCEPT !.at = "dispatch", !.old = o]
      OBVIOUS
    <3>2. /\ f \in JobRec /\ f.at = "dispatch" /\ f.op = j.op /\ f.uid = j.uid /\ f.num = j.num
          /\ f.claimed = j.claimed /\ f.old = o /\ f.dbold = j.dbold /\ f.call = j.call
      BY <2>5, <3>1 DEF JobRec, JobStates
    <3> QED
      BY <1>2, <2>5, <2>7, <3>1, <3>2, Types DEF JobNow, JobMoves, SlaveInv
  <2>8. ASSUME job' = [job EXCEPT ![t] = [j EXCEPT !.at = "dispatch", !.dbold = m]]
        PROVE  JobNow(t, "dispatch", Nothing, m, job[t].call)
    <3>1. PICK f : f = [j EXCEPT !.at = "dispatch", !.dbold = m]
      OBVIOUS
    <3>2. /\ f \in JobRec /\ f.at = "dispatch" /\ f.op = j.op /\ f.uid = j.uid /\ f.num = j.num
          /\ f.claimed = j.claimed /\ f.old = j.old /\ f.dbold = m /\ f.call = j.call
      BY <2>3, <2>5, <3>1 DEF JobRec, JobStates
    <3> QED
      BY <1>2, <2>5, <2>8, <3>1, <3>2, Types DEF JobNow, JobMoves, SlaveInv
  <2>9. Owns(u, Nothing) /\ Nothing \in MessageIds /\ Owns(u, k)
    BY <2>3, <2>4, Numbers DEF Owns
  <2> QED
    BY <1>4, <2>3, <2>4, <2>6, <2>7, <2>8, <2>9
<1>6. CASE ~Logged(u)
  <2>1. u \notin Mirrored
    BY <1>6, EntryIs DEF SlaveInv, LogInv, LogFound
  <2>2. CASE Finish(t)
    BY <1>3, <2>2, FinishDone DEF SlaveInv
  <2>3. CASE job' = [job EXCEPT ![t].at = "dispatch"]
    <3>1. JobNow(t, "dispatch", Nothing, Nothing, job[t].call)
      BY <1>2, <2>3, Types DEF SlaveInv, JobNow, JobMoves, JobRec, JobStates
    <3>2. Owns(u, Nothing) /\ Nothing \in MessageIds
      BY Numbers DEF Owns
    <3> QED
      BY <1>4, <2>1, <3>1, <3>2
  <2> QED
    BY <1>1, <1>6, <2>2, <2>3 DEF LookUp
<1> QED
  BY <1>5, <1>6

(* What a caller may pass to Put.                                             *)
PutOf(t, r) ==
    LET u == job[t].uid
        deliver == job[t].op = "new"
    IN /\ r.new = deliver
       /\ deliver => r.callback /\ r.api = "send"
       /\ r.ctx <=> r.api = "send"
       /\ r.api = "edit" => r.msg # Nothing
       /\ r.api # "send" => r.msg = job[t].old /\ job[t].dbold = Nothing
       /\ r.api \in {"delete", "notice"} => job[t].op = "removal" \/ KindOf[u] = "sticker"
       /\ Owns(u, r.old) /\ Owns(u, r.msg)
       /\ r.api = "send" /\ u \in Mirrored => r.old # Nothing

LEMMA PutStep ==
    ASSUME SlaveInv, NEW t \in Threads, NEW r \in RowRec, Put(t, r), PutOf(t, r),
           UNCHANGED <<script, next, pending, shown, log, troubles, ghosts>>,
           job[t].at = "dispatch" \/ (Calling(t) /\ job[t].op # "new")
    PROVE  SlaveInv'
<1>1. PICK i \in Rows, q \in RowRec :
          /\ RowAdded(i, q) /\ q.uid = job[t].uid /\ q.api = r.api /\ q.new = r.new
          /\ q.ctx = r.ctx /\ q.msg = r.msg /\ q.old = r.old
          /\ q.callback = (r.callback /\ job[t].op = "new")
          /\ JobNow(t, "waiting", job[t].old, job[t].dbold, i) \/ JobDone(t)
  BY PutAdds DEF SlaveInv
<1>2. PICK d \in MessageIds : d = job[t].dbold
  BY Types DEF SlaveInv, JobRec
<1>3. CallerFits(t) /\ Owns(job[t].uid, job[t].dbold)
  BY DEF SlaveInv, CallerInv, CallersFit, IdInv, JobOwns
<1>4. CallOf(t, q, d)
  BY <1>1, <1>2, <1>3 DEF CallOf, PutOf, CallerFits
<1>5. TypeOK'
  BY <1>1, Types, TypesNow DEF SlaveInv, RowAdded, JobNow, JobDone, JobMoves, ghosts
<1>6. job[t].op # "new" \/ Preparing(t, job[t].uid)
  BY DEF Preparing, Delivers, Busy, Calling
<1> QED
  BY <1>1, <1>2, <1>4, <1>5, <1>6, QueuesCall DEF ghosts

LEMMA DispatchStep ==
    ASSUME SlaveInv, NEW t \in Threads, Dispatch(t)
    PROVE  SlaveInv'
<1>1. PICK u \in Uids, o \in MessageIds, d \in MessageIds :
          u = job[t].uid /\ o = job[t].old /\ d = job[t].dbold
  BY Types DEF SlaveInv, JobRec
<1>2. /\ job[t].at = "dispatch" /\ CallerFits(t) /\ Owns(u, o) /\ Owns(u, d)
      /\ CallerFound(t)
      /\ UNCHANGED <<script, next, pending, shown, log, troubles, ghosts>>
  BY <1>1 DEF Dispatch, SlaveInv, CallerInv, CallersFit, IdInv, JobOwns, LogInv, FollowersFound
<1>3. /\ d # Nothing => o = Nothing /\ u \in Mirrored /\ job[t].op = "reaction"
      /\ job[t].op = "new" => o = Nothing /\ d = Nothing
      /\ u \in Mirrored => ~Resends(t)
  BY <1>1, <1>2 DEF CallerFits, Mirrored, Resends
<1>4. u \in Mirrored => o # Nothing \/ d # Nothing
  BY <1>1, <1>2 DEF CallerFound
<1>5. ASSUME NEW r \in RowRec, Put(t, r), r.api \in {"edit", "delete", "notice"}, r.msg = o,
             r.new = FALSE, r.ctx = FALSE, r.old = Nothing,
             IF r.api = "edit" THEN o # Nothing ELSE job[t].op = "removal"
      PROVE  SlaveInv'
  <2>1. job[t].op # "new" /\ d = Nothing
    BY <1>3, <1>5
  <2>2. PutOf(t, r)
    BY <1>1, <1>2, <1>5, <2>1 DEF PutOf, Owns
  <2> QED
    BY <1>2, <1>5, <2>2, PutStep
<1>6. ASSUME NEW waiter \in BOOLEAN, Put(t, SendRow(t, Nothing, waiter)), o = Nothing \/ Resends(t)
      PROVE  SlaveInv'
  <2>1. PICK r \in RowRec : r = SendRow(t, Nothing, waiter)
    BY <1>6, SendRowIs, Numbers DEF SlaveInv
  <2>2. /\ r.api = "send" /\ r.new = (job[t].op = "new") /\ r.ctx = TRUE /\ r.callback = TRUE
        /\ r.msg = Nothing /\ r.old = IF d # Nothing THEN d ELSE Nothing
    <3>1. TypeOK /\ Nothing \in MessageIds
      BY Numbers DEF SlaveInv
    <3>2. /\ r.api = "send" /\ r.new = (job[t].op = "new") /\ r.ctx = TRUE /\ r.callback = TRUE
          /\ r.msg = Nothing
          /\ r.old = IF job[t].dbold # Nothing THEN job[t].dbold ELSE Nothing
      BY <1>6, <2>1, <3>1, SendRowIs
    <3> QED
      BY <1>1, <3>2
  <2>4. PutOf(t, r)
    BY <1>1, <1>2, <1>3, <1>4, <1>6, <2>2 DEF PutOf, Owns
  <2> QED
    BY <1>2, <1>6, <2>1, <2>4, PutStep
<1>7. ASSUME KindOf[u] = "location", o # Nothing,
             Put(t, [SendRow(t, o, TRUE) EXCEPT !.reply = IF SameChat(t) THEN o ELSE Nothing])
      PROVE  SlaveInv'
  <2>1. PICK p \in RowRec : p = SendRow(t, o, TRUE)
    BY SendRowIs DEF SlaveInv
  <2>2. /\ p.api = "send" /\ p.new = (job[t].op = "new") /\ p.ctx = TRUE /\ p.callback = TRUE
        /\ p.msg = Nothing /\ p.old = o
    BY <1>1, <1>3, <1>7, <2>1, SendRowIs DEF SlaveInv
  <2>3. PICK c \in MessageIds : c = IF SameChat(t) THEN o ELSE Nothing
    BY Numbers
  <2>4. PICK r : r = [p EXCEPT !.reply = c]
    OBVIOUS
  <2>5. /\ r \in RowRec /\ r.api = p.api /\ r.new = p.new /\ r.ctx = p.ctx
        /\ r.callback = p.callback /\ r.msg = p.msg /\ r.old = p.old
    BY <2>1, <2>3, <2>4 DEF RowRec
  <2>6. PutOf(t, r)
    BY <1>1, <1>2, <1>3, <1>7, <2>2, <2>5 DEF PutOf, Owns
  <2>7. Put(t, r)
    BY <1>7, <2>1, <2>3, <2>4
  <2> QED
    BY <1>2, <2>5, <2>6, <2>7, PutStep
<1>o. o \in MessageIds
  BY <1>1
<1>8. CASE Put(t, CallRow("edit", o)) /\ o # Nothing
  <2>1. PICK r \in RowRec : r = CallRow("edit", o)
    BY <1>o, CallRowIs
  <2>2. r.api = "edit" /\ r.msg = o /\ r.new = FALSE /\ r.ctx = FALSE /\ r.old = Nothing
    BY <1>o, <2>1, CallRowIs
  <2> QED
    BY <1>5, <1>8, <2>1, <2>2
<1>9. CASE Put(t, CallRow("delete", o)) /\ job[t].op = "removal"
  <2>1. PICK r \in RowRec : r = CallRow("delete", o)
    BY <1>o, CallRowIs
  <2>2. r.api = "delete" /\ r.msg = o /\ r.new = FALSE /\ r.ctx = FALSE /\ r.old = Nothing
    BY <1>o, <2>1, CallRowIs
  <2> QED
    BY <1>5, <1>9, <2>1, <2>2
<1>10. CASE Put(t, CallRow("notice", o)) /\ job[t].op = "removal"
  <2>1. PICK r \in RowRec : r = CallRow("notice", o)
    BY <1>o, CallRowIs
  <2>2. r.api = "notice" /\ r.msg = o /\ r.new = FALSE /\ r.ctx = FALSE /\ r.old = Nothing
    BY <1>o, <2>1, CallRowIs
  <2> QED
    BY <1>5, <1>10, <2>1, <2>2
<1> QED
  BY <1>1, <1>6, <1>7, <1>8, <1>9, <1>10 DEF Dispatch

LEMMA DispatchFailsStep ==
    ASSUME SlaveInv, NEW t \in Threads, DispatchFails(t)
    PROVE  SlaveInv'
BY EndStep DEF DispatchFails

LEMMA TimesOutStep ==
    ASSUME SlaveInv, NEW t \in Threads, TimesOut(t)
    PROVE  SlaveInv'
BY EndStep DEF TimesOut

(* The answer is done with, or goes to the log next.                          *)
LEMMA AnsweredStep ==
    ASSUME SlaveInv, NEW t \in Threads, Answered(t)
    PROVE  SlaveInv'
<1>1. PICK j \in JobRec : j = job[t]
  BY Types DEF SlaveInv
<1>2. /\ Busy(t) /\ Calling(t) /\ CallerFits(t) /\ CallFits(t) /\ job[t].at = "answered"
      /\ Owns(j.uid, j.old) /\ Owns(j.uid, j.dbold)
      /\ CallerFound(t)
      /\ UNCHANGED <<script, next, row, shown, log, troubles, astray, pending, excused>>
  BY <1>1 DEF Answered, Busy, Calling, SlaveInv, CallerInv, CallersFit, ghosts, IdInv, JobOwns,
              LogInv, FollowersFound
<1>3. CASE job' = [job EXCEPT ![t] = Idle]
  <2>1. JobDone(t)
    BY <1>3, FinishDone DEF Finish, SlaveInv
  <2>2. TypeOK'
    BY <1>2, <2>1, Types, TypesNow DEF SlaveInv, JobDone, JobMoves
  <2> QED
    BY <1>2, <2>1, <2>2, IdleFits, CallerMoves DEF JobDone
<1>4. CASE /\ job' = [job EXCEPT ![t] = [j EXCEPT !.at = "mapping"]]
           /\ ~row[j.call].ctx /\ j.op # "removal"
  <2>1. PICK f : f = [j EXCEPT !.at = "mapping"]
    OBVIOUS
  <2>2. /\ f \in JobRec /\ f.at = "mapping" /\ f.op = j.op /\ f.uid = j.uid /\ f.num = j.num
        /\ f.claimed = j.claimed /\ f.old = j.old /\ f.dbold = j.dbold /\ f.call = j.call
    BY <1>1, <2>1 DEF JobRec, JobStates
  <2>3. JobNow(t, "mapping", j.old, j.dbold, j.call)
    BY <1>1, <1>4, <2>1, <2>2, Types DEF JobNow, JobMoves, SlaveInv
  <2>4. TypeOK'
    BY <1>2, <2>3, Types, TypesNow DEF SlaveInv, JobNow, JobMoves
  <2>5. CallerFits(t)' /\ CallFits(t)' /\ CallerFound(t)'
    <3>1. CallerFits(t)'
      BY <1>1, <1>2, <2>3 DEF JobNow, CallerFits, Busy
    <3>2. CallFits(t)'
      BY <1>1, <1>2, <1>4, <2>3 DEF JobNow, CallFits, Calling, Called
    <3>3. CallerFound(t)'
      BY <1>1, <1>2, <2>3 DEF JobNow, CallerFound, Calling
    <3> QED
      BY <3>1, <3>2, <3>3
  <2>6. Owns(job[t].uid, job[t].old)' /\ Owns(job[t].uid, job[t].dbold)'
    <3>1. PICK u, o, d : u = j.uid /\ o = j.old /\ d = j.dbold
      OBVIOUS
    <3>2. Owns(u, o) /\ Owns(u, d) /\ row' = row
      BY <1>2, <3>1
    <3>3. job'[t].uid = u /\ job'[t].old = o /\ job'[t].dbold = d
      BY <1>1, <2>3, <3>1 DEF JobNow
    <3> QED
      BY <3>2, <3>3 DEF Owns
  <2>7. Calling(t)' /\ job'[t].at # "failed" /\ job'[t].uid = j.uid
    BY <1>1, <2>3 DEF JobNow, Calling
  <2> QED
    BY <1>1, <1>2, <2>3, <2>4, <2>5, <2>6, <2>7, CallerMoves DEF JobNow
<1> QED
  BY <1>1, <1>3, <1>4, Types DEF Answered, SlaveInv

LEMMA EditCaptionStep ==
    ASSUME SlaveInv, NEW t \in Threads, EditCaption(t)
    PROVE  SlaveInv'
<1>1. PICK m \in MessageIds : m = row[job[t].call].msg
  <2>1. job[t].call \in Rows
    BY DEF EditCaption, SlaveInv, CallerInv, CallersFit, CallFits, Calling
  <2> QED
    BY <2>1, Types DEF SlaveInv, RowRec
<1>2. PICK r \in RowRec : r = CallRow("edit", m)
  BY CallRowIs
<1>3. /\ r.api = "edit" /\ r.msg = m /\ r.new = FALSE /\ r.ctx = FALSE /\ r.old = Nothing
      /\ r.callback = FALSE
  BY <1>2, CallRowIs
<1>4. /\ Calling(t) /\ CallFits(t) /\ job[t].op = "editmedia" /\ Called(t).api = "edit"
      /\ Owns(job[t].uid, job[t].old)
      /\ UNCHANGED <<script, next, pending, shown, log, troubles, ghosts>>
  BY DEF EditCaption, Calling, Called, SlaveInv, CallerInv, CallersFit, IdInv, JobOwns
<1>5. m # Nothing /\ m = job[t].old /\ job[t].dbold = Nothing
  BY <1>1, <1>4 DEF CallFits, Called, SlaveInv, QueueInv, RowShape
<1>6. PutOf(t, r)
  BY <1>3, <1>4, <1>5 DEF PutOf, Owns
<1>7. Put(t, r)
  BY <1>1, <1>2 DEF EditCaption
<1> QED
  BY <1>4, <1>6, <1>7, PutStep

LEMMA NoticeInsteadStep ==
    ASSUME SlaveInv, NEW t \in Threads, job[t].at = "failed", NoticeInstead(t),
           UNCHANGED <<script, next, shown, log, troubles, astray>>
    PROVE  SlaveInv'
<1>1. PICK m \in MessageIds : m = row[job[t].call].msg
  <2>1. job[t].call \in Rows
    BY DEF SlaveInv, CallerInv, CallersFit, CallFits, Calling
  <2> QED
    BY <2>1, Types DEF SlaveInv, RowRec
<1>2. PICK r \in RowRec : r = CallRow("notice", m)
  BY CallRowIs
<1>3. /\ r.api = "notice" /\ r.msg = m /\ r.new = FALSE /\ r.ctx = FALSE /\ r.old = Nothing
      /\ r.callback = FALSE
  BY <1>2, CallRowIs
<1>4. /\ Calling(t) /\ CallFits(t) /\ CallerFits(t) /\ Called(t).api \in {"edit", "delete"}
      /\ Called(t).api = "edit" => KindOf[job[t].uid] = "sticker"
      /\ Owns(job[t].uid, job[t].old)
      /\ UNCHANGED <<script, next, pending, shown, log, troubles, ghosts>>
  BY DEF NoticeInstead, KeepClaims, Calling, Called, SlaveInv, CallerInv, CallersFit, IdInv, JobOwns,
         ghosts
<1>5. m = job[t].old /\ job[t].dbold = Nothing /\ job[t].op # "new"
  BY <1>1, <1>4 DEF CallFits, Called
<1>6. job[t].op = "removal" \/ KindOf[job[t].uid] = "sticker"
  BY <1>4 DEF CallFits
<1>7. PutOf(t, r)
  BY <1>3, <1>4, <1>5, <1>6 DEF PutOf, Owns
<1>8. Put(t, r)
  BY <1>1, <1>2 DEF NoticeInstead
<1> QED
  BY <1>4, <1>5, <1>7, <1>8, PutStep

(* A caller sends anew, or instead.                                           *)
LEMMA SendsAgain ==
    ASSUME SlaveInv, NEW t \in Threads, job[t].at = "failed",
           Enqueue([SendRow(t, job[t].old, TRUE) EXCEPT !.st = "queued", !.uid = job[t].uid,
                           !.callback = job[t].op = "new"])
    PROVE  \E i \in Rows, q \in RowRec :
              /\ i = Min(Free) /\ i \in 0 .. MaxRows /\ RowAdded(i, q) /\ q.uid = job[t].uid
              /\ q.new = (job[t].op = "new") /\ q.callback = (job[t].op = "new")
              /\ q.api = "send" /\ q.ctx = TRUE /\ q.msg = Nothing
              /\ q.old = IF job[t].dbold # Nothing THEN job[t].dbold ELSE job[t].old
<1>1. PICK u \in Uids, o \in MessageIds, d \in MessageIds, n \in BOOLEAN :
          u = job[t].uid /\ o = job[t].old /\ d = job[t].dbold /\ n = (job[t].op = "new")
  BY Types DEF SlaveInv, JobRec
<1>2. TypeOK /\ o \in MessageIds
  BY <1>1 DEF SlaveInv
<1>3. PICK p \in RowRec : p = SendRow(t, o, TRUE)
  BY <1>2, SendRowIs
<1>4. /\ p.new = (job[t].op = "new") /\ p.api = "send" /\ p.ctx = TRUE /\ p.msg = Nothing
      /\ p.old = IF job[t].dbold # Nothing THEN job[t].dbold ELSE o
  BY <1>2, <1>3, SendRowIs
<1>5. PICK q : q = [p EXCEPT !.st = "queued", !.uid = u, !.callback = n]
  OBVIOUS
<1>6. /\ q \in RowRec /\ q.st = "queued" /\ q.uid = u /\ q.callback = n
      /\ q.new = p.new /\ q.api = p.api /\ q.ctx = p.ctx /\ q.msg = p.msg /\ q.old = p.old
  BY <1>1, <1>3, <1>5 DEF RowRec, RowStates
<1>7. Enqueue(q)
  BY <1>1, <1>3, <1>5
<1>8. PICK i \in Rows : i = Min(Free) /\ RowAdded(i, q)
  BY <1>2, <1>6, <1>7, EnqueueAdds
<1>9. i \in 0 .. MaxRows
  BY <1>8, Numbers, SlaveAssumption
<1> QED
  BY <1>1, <1>4, <1>6, <1>8, <1>9

LEMMA SendInsteadStep ==
    ASSUME SlaveInv, NEW t \in Threads, job[t].at = "failed", SendInstead(t),
           UNCHANGED <<script, next, shown, log, troubles, astray>>
    PROVE  SlaveInv'
<1>1. PICK i \in Rows, q \in RowRec :
          /\ i = Min(Free) /\ i \in 0 .. MaxRows /\ RowAdded(i, q) /\ q.uid = job[t].uid
          /\ q.new = (job[t].op = "new") /\ q.callback = (job[t].op = "new")
          /\ q.api = "send" /\ q.ctx = TRUE /\ q.msg = Nothing
          /\ q.old = IF job[t].dbold # Nothing THEN job[t].dbold ELSE job[t].old
  BY SendsAgain DEF SendInstead
<1>2. PICK j \in JobRec : j = job[t]
  BY Types DEF SlaveInv
<1>3. /\ Calling(t) /\ CallerFits(t) /\ Owns(j.uid, j.old) /\ KindOf[j.uid] = "image"
      /\ UNCHANGED <<script, next, pending, shown, log, troubles, astray>>
  BY <1>2 DEF SendInstead, Calling, SlaveInv, CallerInv, CallersFit, IdInv, JobOwns
<1>4. j.dbold = Nothing /\ (j.op = "new" => j.old = Nothing)
  BY <1>2, <1>3 DEF CallerFits, Mirrored
<1>5. j.uid \notin Mirrored
  BY <1>3 DEF Mirrored
<1>6. CallOf(t, q, j.dbold)
  BY <1>1, <1>2, <1>3, <1>4, <1>5 DEF CallOf, Owns
<1>7. JobNow(t, "waiting", j.old, j.dbold, i)
  <2>1. PICK a \in BOOLEAN : a = (row[job[t].call].api = "send")
    OBVIOUS
  <2>2. PICK f : f = [j EXCEPT !.at = "waiting", !.call = i, !.again = a]
    OBVIOUS
  <2>3. /\ f \in JobRec /\ f.at = "waiting" /\ f.op = j.op /\ f.uid = j.uid /\ f.num = j.num
        /\ f.claimed = j.claimed /\ f.old = j.old /\ f.dbold = j.dbold /\ f.call = i
    BY <1>1, <1>2, <2>1, <2>2 DEF JobRec, JobStates
  <2>4. job' = [job EXCEPT ![t] = f]
    BY <1>1, <1>2, <2>1, <2>2, Types DEF SendInstead, SlaveInv
  <2> QED
    BY <1>2, <2>3, <2>4, Types DEF JobNow, JobMoves, SlaveInv
<1>8. \/ job[t].op # "new" /\ excused' = excused
      \/ Failing(t, job[t].uid) /\ excused' = excused \cup {job[t].uid}
  BY DEF SendInstead, Failing, Delivers, Busy
<1>9. TypeOK'
  <2>1. excused' \subseteq Uids
    BY <1>2, <1>8, Types DEF SlaveInv, JobRec
  <2> QED
    BY <1>1, <1>3, <1>7, <2>1, Types, TypesNow DEF SlaveInv, RowAdded, JobNow, JobMoves
<1> QED
  BY <1>1, <1>2, <1>3, <1>6, <1>7, <1>8, <1>9, QueuesCall

LEMMA AnswerAnewStep ==
    ASSUME SlaveInv, NEW t \in Threads, job[t].at = "failed", AnswerAnew(t),
           UNCHANGED <<script, next, shown, log, troubles, astray>>
    PROVE  SlaveInv'
<1>1. PICK i \in Rows, q \in RowRec :
          /\ i = Min(Free) /\ i \in 0 .. MaxRows /\ RowAdded(i, q) /\ q.uid = job[t].uid
          /\ q.new = (job[t].op = "new") /\ q.callback = (job[t].op = "new")
          /\ q.api = "send" /\ q.ctx = TRUE /\ q.msg = Nothing
          /\ q.old = IF job[t].dbold # Nothing THEN job[t].dbold ELSE job[t].old
  <2>1. Enqueue([SendRow(t, job[t].old, TRUE) EXCEPT !.st = "queued", !.uid = job[t].uid,
                        !.callback = job[t].op = "new"])
    <3>1. (job[t].op = "new") = FALSE
      BY DEF AnswerAnew
    <3> QED
      BY <3>1 DEF AnswerAnew
  <2> QED
    BY <2>1, SendsAgain
<1>2. PICK j \in JobRec : j = job[t]
  BY Types DEF SlaveInv
<1>3. /\ Calling(t) /\ CallerFits(t) /\ CallFits(t) /\ Owns(j.uid, j.old) /\ j.op = "reaction"
      /\ j.uid \in Mirrored /\ Called(t).api = "edit"
      /\ UNCHANGED <<script, next, pending, shown, log, troubles, astray, excused>>
  BY <1>2 DEF AnswerAnew, KeepClaims, Calling, Called, SlaveInv, CallerInv, CallersFit, IdInv, JobOwns
<1>4. j.dbold = Nothing
  BY <1>2, <1>3 DEF CallFits
<1>5. j.old # Nothing
  BY <1>2, <1>3, <1>4 DEF SlaveInv, LogInv, FollowersFound, CallerFound
<1>6. CallOf(t, q, j.old)
  BY <1>1, <1>2, <1>3, <1>4, <1>5 DEF CallOf, Owns
<1>7. JobNow(t, "waiting", j.old, j.old, i)
  <2>1. PICK f : f = [j EXCEPT !.at = "waiting", !.call = i, !.dbold = j.old]
    OBVIOUS
  <2>2. /\ f \in JobRec /\ f.at = "waiting" /\ f.op = j.op /\ f.uid = j.uid /\ f.num = j.num
        /\ f.claimed = j.claimed /\ f.old = j.old /\ f.dbold = j.old /\ f.call = i
    BY <1>1, <1>2, <2>1 DEF JobRec, JobStates
  <2>3. job' = [job EXCEPT ![t] = f]
    BY <1>1, <1>2, <2>1, Types DEF AnswerAnew, SlaveInv
  <2> QED
    BY <1>2, <2>2, <2>3, Types DEF JobNow, JobMoves, SlaveInv
<1>8. TypeOK'
  BY <1>1, <1>3, <1>7, Types, TypesNow DEF SlaveInv, RowAdded, JobNow, JobMoves
<1> QED
  BY <1>1, <1>2, <1>3, <1>6, <1>7, <1>8, QueuesCall

LEMMA FailedStep ==
    ASSUME SlaveInv, NEW t \in Threads, Failed(t)
    PROVE  SlaveInv'
<1>1. CASE GiveUp(t)
  BY <1>1, EndStep DEF Failed, GiveUp
<1> QED
  BY <1>1, SendInsteadStep, NoticeInsteadStep, AnswerAnewStep DEF Failed

------------------------------------------------------------------------------
(* Steps that write the log.                                                  *)

InLogIfSent(u) == u \in Mirrored \/ SentFor(u) # {} => InLog(u)

(* What a write for one message leaves of the others.                         *)
LEMMA LogWritten ==
    ASSUME SlaveInv, RowsGrow, NEW u \in Uids, NEW m \in MessageIds, NEW old \in MessageIds,
           LogKept(u, m, old), Owns(u, old)', Owns(u, m)', astray \subseteq astray',
           \A i \in Rows : row[i].st # "done" /\ row'[i].st = "done" => row'[i].uid = u
    PROVE  /\ LogOwns' /\ LogStays
           /\ \A v \in Uids \ {u} : SentFor(v)' = SentFor(v)
           /\ \A v \in Uids \ {u} : v \notin astray' =>
                 Newest(v)' /\ (v \in Mirrored => Canonical(v)')
<1>1. /\ DOMAIN log = 1 .. Len(log) /\ DOMAIN log' = 1 .. Len(log')
      /\ Len(log) \in Nat /\ Len(log') \in Nat /\ Len(log) <= Len(log')
  BY Types, LenProperties DEF SlaveInv, LogKept
<1>2. LogOwns'
  <2>1. SUFFICES ASSUME NEW k \in DOMAIN log'
                 PROVE  /\ log'[k].main # Nothing /\ Owns(log[k].uid, log[k].main)'
                        /\ Owns(log[k].uid, log[k].alt)'
    BY DEF LogOwns
  <2>2. CASE k <= Len(log)
    <3>1. PICK e : e = log[k]
      OBVIOUS
    <3>2. k \in DOMAIN log /\ e.main # Nothing /\ Owns(e.uid, e.main) /\ Owns(e.uid, e.alt)
      BY <1>1, <2>2, <3>1 DEF SlaveInv, IdInv, LogOwns
    <3>3. Owns(e.uid, e.main)' /\ Owns(e.uid, e.alt)'
      BY <3>2, OwnsKept
    <3>4. /\ log'[k].uid = e.uid /\ log'[k].main = e.main
          /\ log'[k].alt = e.alt \/ (log'[k].alt = m /\ e.uid = u)
      BY <1>1, <2>2, <3>1 DEF LogKept
    <3> QED
      BY <3>2, <3>3, <3>4 DEF Owns
  <2>3. CASE k > Len(log)
    <3>1. /\ log'[k].uid = u /\ log'[k].main \in {m, old} \ {Nothing}
          /\ log'[k].alt \in {m, Nothing}
      BY <1>1, <2>3 DEF LogKept
    <3> QED
      BY <3>1 DEF Owns
  <2> QED
    BY <1>1, <2>2, <2>3
<1>3. LogStays
  BY <1>1 DEF LogStays, InLog, LogKept
<1>5. ASSUME NEW v \in Uids \ {u} PROVE SentFor(v)' = SentFor(v)
  BY <1>5 DEF SentFor, RowsGrow
<1>4. ASSUME NEW v \in Uids \ {u}, v \notin astray'
      PROVE  Newest(v)' /\ (v \in Mirrored => Canonical(v)')
  <2>1. Newest(v) /\ InLogIfSent(v) /\ (v \in Mirrored => Canonical(v))
    BY <1>4 DEF SlaveInv, LogInv, LogFound, InLogIfSent, NewestInLog, OneCanonicalRow
  <2>2. \A k \in DOMAIN log' : log'[k].uid = v =>
           /\ k \in DOMAIN log /\ log[k].uid = v /\ log'[k].main = log[k].main
           /\ log'[k].alt = log[k].alt
    BY <1>1, <1>4 DEF LogKept
  <2>3. \A k \in DOMAIN log : k \in DOMAIN log' /\ log'[k].uid = log[k].uid
                              /\ log'[k].main = log[k].main
    BY <1>1 DEF LogKept
  <2>6. v \in Mirrored => Canonical(v)'
    BY <2>1, <2>2, <2>3 DEF Canonical
  <2>7. Newest(v)'
    <3>1. SentFor(v)' = SentFor(v)
      BY <1>4, <1>5
    <3>3. {k \in DOMAIN log : log[k].uid = v}' = {k \in DOMAIN log : log[k].uid = v}
      BY <2>2, <2>3
    <3>4. EntryOf(v)' = EntryOf(v)
      BY <3>3 DEF EntryOf
    <3>5. ASSUME InLog(v) PROVE Target(v)' = Target(v)
      <4>1. EntryOf(v) \in DOMAIN log /\ log[EntryOf(v)].uid = v
        BY <1>1, <3>5, EntryIs DEF SlaveInv
      <4>2. /\ log'[EntryOf(v)].main = log[EntryOf(v)].main
            /\ log'[EntryOf(v)].alt = log[EntryOf(v)].alt
        BY <2>2, <2>3, <4>1
      <4> QED
        BY <3>4, <4>2 DEF Target
    <3> QED
      BY <2>1, <3>1, <3>5 DEF Newest, InLogIfSent
  <2> QED
    BY <2>6, <2>7
<1> QED
  BY <1>2, <1>3, <1>4, <1>5

(* An edit in place leaves the log as it was.                                 *)
LEMMA LogSame ==
    ASSUME TypeOK, NEW u, NEW m, LogKept(u, m, m), LogReplaced(u, m, m)
    PROVE  log' = log
<1>1. /\ DOMAIN log = 1 .. Len(log) /\ log \in Seq(LogRec) /\ log' \in Seq(LogRec)
      /\ Len(log') = Len(log) /\ DOMAIN log' = 1 .. Len(log)
  BY Types, LenProperties DEF LogKept, LogReplaced
<1>2. ASSUME NEW k \in 1 .. Len(log) PROVE log'[k] = log[k]
  <2>1. log[k] \in LogRec /\ log'[k] \in LogRec
    BY <1>1, <1>2, ElementOfSeq
  <2>2. log'[k].uid = log[k].uid /\ log'[k].main = log[k].main
    BY <1>1, <1>2 DEF LogKept
  <2>3. log'[k].alt = log[k].alt
    BY <1>2 DEF LogReplaced, Holds
  <2> QED
    BY <2>1, <2>2, <2>3 DEF LogRec
<1> QED
  BY <1>1, <1>2, SeqEqual

(* A caller has written the log, and ends.                                    *)
LEMMA CallerLogs ==
    ASSUME SlaveInv, TypeOK', NEW t \in Threads, Busy(t), JobDone(t), NEW u \in Uids,
           UNCHANGED <<row, next, pending, excused>>, astray \subseteq astray',
           LogOwns', LogStays,
           \A v \in Uids : v \notin astray' => Newest(v)' /\ (v \in Mirrored => Canonical(v)')
    PROVE  SlaveInv'
<1>1. RowsGrow /\ RowsStay /\ JobMoves(t)
  BY SameGrows DEF SlaveInv, RowsStay, JobDone
<1>2. QueueInv'
  BY QueueKept DEF SlaveInv
<1>3. CallerInv'
  <2>1. next \in Nat
    BY Types, SlaveAssumption DEF SlaveInv
  <2>2. CallersFit'
    BY <1>1, <2>1, OthersFit, IdleFits DEF JobDone
  <2> QED
    BY <2>2 DEF CallerInv, SlaveInv, ClaimsAreOld
<1>4. JobOwns' /\ RowOwns'
  BY <1>1, OthersOwn, RowsOwnNoMore, IdleFits DEF JobDone
<1>5. ClaimsAreKept'
  <2>1. ASSUME NEW v \in Threads, NEW x \in Uids
        PROVE  /\ Preparing(v, x)' => Preparing(v, x) /\ job'[v].num = job[v].num
               /\ Failing(v, x)' => Failing(v, x) /\ job'[v].num = job[v].num
    <3>1. CASE v # t
      BY <1>1, <3>1 DEF JobMoves, Preparing, Delivers, Failing, Busy, Calling
    <3>2. CASE v = t
      BY <3>2, IdleIs DEF JobDone, Preparing, Delivers, Failing, Busy, Calling
    <3> QED
      BY <3>1, <3>2
  <2>2. ASSUME NEW i \in Rows, NEW x \in Uids
        PROVE  Outstanding(i, x)' => Outstanding(i, x)
    BY DEF Outstanding
  <2> QED
    BY <2>1, <2>2, QuietClaims
<1>6. FollowersFound'
  BY <1>1, OthersFound, RowsFoundNoMore, IdleFits DEF FollowersFound, JobDone
<1>7. LogFound' /\ OneCanonicalRow' /\ NewestInLog'
  <2>1. Mirrored \subseteq Uids
    BY Numbers
  <2>2. LogFound'
    BY DEF SlaveInv, LogInv, LogFound, LogStays, SentFor
  <2> QED
    BY <2>1, <2>2 DEF OneCanonicalRow, NewestInLog
<1> QED
  BY <1>2, <1>3, <1>4, <1>5, <1>6, <1>7 DEF SlaveInv, LogInv, IdInv

(* What a caller writes to the log is about a message that is there already.  *)
LEMMA MapAnswerStep ==
    ASSUME SlaveInv, NEW t \in Threads, MapAnswer(t)
    PROVE  SlaveInv'
<1>1. PICK j \in JobRec : j = job[t]
  BY Types DEF SlaveInv
<1>2. /\ Busy(t) /\ Calling(t) /\ CallerFits(t) /\ CallFits(t) /\ j.at = "mapping"
      /\ Owns(j.uid, j.old) /\ Owns(j.uid, j.dbold)
      /\ UNCHANGED <<script, next, pending, row, shown, troubles, excused>> /\ Finish(t)
  BY <1>1 DEF MapAnswer, Busy, Calling, SlaveInv, CallerInv, CallersFit, IdInv, JobOwns
<1>3. PICK i \in Rows, r \in RowRec : i = j.call /\ r = row[i]
  BY <1>1, <1>2, Types DEF CallFits, SlaveInv
<1>4. /\ r.uid = j.uid /\ r.st = "done" /\ r.api # "send" /\ r.msg = j.old /\ j.dbold = Nothing
      /\ j.op # "new"
      /\ r.api # "edit" => KindOf[j.uid] = "sticker"
  <2>1. r.uid = j.uid /\ r.st \in {"done", "sent"} /\ ~r.ctx /\ j.op # "removal"
        /\ (r.new <=> j.op = "new") /\ (r.api # "send" => r.msg = j.old /\ j.dbold = Nothing)
        /\ (r.api \in {"delete", "notice"} => KindOf[j.uid] = "sticker")
    BY <1>1, <1>2, <1>3 DEF CallFits, Called
  <2>2. r.api # "send" /\ r.st # "sent" /\ (r.new => r.api = "send")
    BY <1>3, <2>1 DEF SlaveInv, QueueInv, RowShape
  <2>3. r.api \in {"send", "edit", "delete", "notice"}
    BY DEF RowRec
  <2> QED
    BY <2>1, <2>2, <2>3
<1>5. PICK u \in Uids, old \in MessageIds : u = j.uid /\ old = j.old
  BY DEF JobRec
<1>6. PICK m : m = IF r.api = "edit" THEN old ELSE i
  OBVIOUS
<1>7. m \in MessageIds \ {Nothing} /\ Owns(u, m) /\ Owns(u, old)
  <2>1. r.api = "edit" => old # Nothing
    BY <1>3, <1>4, <1>5 DEF SlaveInv, QueueInv, RowShape
  <2>2. Owns(u, i) /\ i \in MessageIds \ {Nothing}
    BY <1>3, <1>4, <1>5, Numbers DEF Owns
  <2> QED
    BY <1>2, <1>5, <1>6, <2>1, <2>2
<1>8. log' = LogWrite(u, m, old) /\ astray' = astray \cup LateFor(u, m, old)
  BY <1>1, <1>3, <1>4, <1>5, <1>6 DEF MapAnswer
<1>9. /\ LogKept(u, m, old)
      /\ Held(old) # {} => LogReplaced(u, m, old)
  BY <1>7, <1>8, LogWriteEffect DEF SlaveInv, IdInv
<1>10. JobDone(t) /\ RowsGrow /\ astray \subseteq astray' /\ astray' \subseteq Uids
       /\ log' \in Seq(LogRec)
  BY <1>2, <1>8, <1>9, FinishDone, SameGrows, Types DEF SlaveInv, LateFor, LogKept
<1>11. TypeOK'
  BY <1>2, <1>10, Types, TypesNow DEF SlaveInv, JobDone, JobMoves
<1>12. Owns(u, old)' /\ Owns(u, m)'
  BY <1>7, <1>10, OwnsKept
<1>13. /\ LogOwns' /\ LogStays
       /\ \A v \in Uids \ {u} : v \notin astray' => Newest(v)' /\ (v \in Mirrored => Canonical(v)')
  BY <1>2, <1>7, <1>9, <1>10, <1>12, LogWritten
<1>14. ASSUME u \notin astray'
       PROVE  Newest(u)' /\ (u \in Mirrored => Canonical(u)')
  <2>1. Newest(u) /\ (u \in Mirrored => Canonical(u)) /\ ~OutOfOrder(u, m, old)
    BY <1>8, <1>14 DEF SlaveInv, LogInv, NewestInLog, OneCanonicalRow, LateFor
  <2>2. CASE r.api = "edit"
    <3>1. Held(old) # {}
      BY <1>6, <1>7, <2>1, <2>2 DEF OutOfOrder
    <3>2. log' = log
      BY <1>6, <1>9, <2>2, <3>1, LogSame DEF SlaveInv
    <3>3. Newest(u)' = Newest(u) /\ Canonical(u)' = Canonical(u)
      BY <1>2, <3>2 DEF Newest, SentFor, Target, EntryOf, Canonical
    <3> QED
      BY <2>1, <3>3
  <2>3. CASE KindOf[u] = "sticker"
    BY <2>3 DEF Mirrored, Newest
  <2> QED
    BY <1>4, <1>5, <2>2, <2>3
<1> QED
  BY <1>2, <1>10, <1>11, <1>13, <1>14, CallerLogs

(* Every step of a caller.                                                    *)
LEMMA CallerStepKeeps ==
    ASSUME SlaveInv, NEW t \in Threads, CallerStep(t) \/ TimesOut(t)
    PROVE  SlaveInv'
BY ArriveStep, ResolveStep, LookUpStep, DispatchStep, DispatchFailsStep, AnsweredStep,
   EditCaptionStep, MapAnswerStep, FailedStep, TimesOutStep DEF CallerStep

------------------------------------------------------------------------------
(* The steps of the worker.                                                   *)

(* Who waits for a call goes on when it has its result.                       *)
Waiters(i, at) ==
    /\ at \in {"answered", "failed"} /\ job' \in [Threads -> JobRec]
    /\ \A v \in Threads :
          /\ job'[v].op = job[v].op /\ job'[v].uid = job[v].uid /\ job'[v].num = job[v].num
          /\ job'[v].claimed = job[v].claimed /\ job'[v].call = job[v].call
          /\ job'[v].old = job[v].old /\ job'[v].dbold = job[v].dbold
          /\ job'[v].at = IF job[v].at = "waiting" /\ job[v].call = i THEN at ELSE job[v].at

LEMMA WaitersGoOn ==
    ASSUME TypeOK, NEW i, NEW at \in {"answered", "failed"}, job' = WaiterOf(i, at)
    PROVE  Waiters(i, at)
<1>1. ASSUME NEW v \in Threads
      PROVE  /\ job'[v] \in JobRec
             /\ job'[v].op = job[v].op /\ job'[v].uid = job[v].uid /\ job'[v].num = job[v].num
             /\ job'[v].claimed = job[v].claimed /\ job'[v].call = job[v].call
             /\ job'[v].old = job[v].old /\ job'[v].dbold = job[v].dbold
             /\ job'[v].at = IF job[v].at = "waiting" /\ job[v].call = i THEN at ELSE job[v].at
  <2>1. PICK j \in JobRec : j = job[v]
    BY <1>1, Types
  <2>2. PICK f : f = [j EXCEPT !.at = at]
    OBVIOUS
  <2>3. /\ f \in JobRec /\ f.at = at /\ f.op = j.op /\ f.uid = j.uid /\ f.num = j.num
        /\ f.claimed = j.claimed /\ f.old = j.old /\ f.dbold = j.dbold /\ f.call = j.call
    BY <2>1, <2>2 DEF JobRec, JobStates
  <2>4. job'[v] = IF j.at = "waiting" /\ j.call = i THEN f ELSE j
    BY <1>1, <2>1, <2>2 DEF WaiterOf
  <2> QED
    BY <2>1, <2>3, <2>4
<1>2. job' \in [Threads -> JobRec]
  BY <1>1 DEF WaiterOf
<1> QED
  BY <1>1, <1>2 DEF Waiters

LEMMA NobodyWaits ==
    ASSUME SlaveInv, NEW i \in Rows, row[i].st = "sent", job' = job
    PROVE  Waiters(i, "answered")
<1>1. \A v \in Threads : ~(job[v].at = "waiting" /\ job[v].call = i)
  BY DEF SlaveInv, CallerInv, CallersFit, CallFits, Calling, Called
<1> QED
  BY <1>1, Types DEF Waiters, SlaveInv

LEMMA RowSettles ==
    ASSUME TypeOK, NEW i \in Rows, NEW st \in {"sent", "done", "failed", "held"},
           First(i) \/ row[i].st = "sent", row' = [row EXCEPT ![i].st = st]
    PROVE  RowSettled(i, st)
<1>1. PICK r \in RowRec : r = row[i]
  BY Types
<1>2. PICK f : f = [r EXCEPT !.st = st]
  OBVIOUS
<1>3. /\ f \in RowRec /\ f.st = st /\ f.uid = r.uid /\ f.api = r.api /\ f.new = r.new /\ f.msg = r.msg
      /\ f.old = r.old /\ f.ctx = r.ctx /\ f.callback = r.callback
  BY <1>1, <1>2 DEF RowRec, RowStates
<1>4. row' = [row EXCEPT ![i] = f]
  BY <1>1, <1>2, Types
<1> QED
  BY <1>1, <1>3, <1>4, Types DEF RowSettled

(* What a call's result does to the claims.                                   *)
Resolved(i, st, at) ==
    /\ RowSettled(i, st) /\ Waiters(i, at)
    /\ at = "failed" <=> st \in {"failed", "held"}
    /\ row[i].st = "sent" => st = "done"
    /\ \/ UNCHANGED <<pending, excused>> /\ (row[i].callback => st \in {"sent", "held"})
       \/ /\ row[i].callback /\ st \in {"done", "failed"}
          /\ Releases(row[i].uid, pending[row[i].uid])

LEMMA ResultCallers ==
    ASSUME SlaveInv, NEW i \in Rows, NEW st, NEW at, Resolved(i, st, at), next' = next,
           st = "sent" => row[i].ctx
    PROVE  QueueInv' /\ CallerInv' /\ JobOwns' /\ RowOwns' /\ RowsGrow
<1>1. RowsGrow
  BY SettledGrows DEF SlaveInv, Resolved, RowSettled, First, Live
<1>2. QueueInv'
  BY QueueSettled DEF SlaveInv, Resolved
<1>3. ASSUME NEW v \in Threads
      PROVE  CallerFits(v)' /\ CallFits(v)'
  <2>1. CallerFits(v) /\ CallFits(v)
    BY DEF SlaveInv, CallerInv, CallersFit
  <2>2. CallerFits(v)'
    BY <2>1 DEF CallerFits, Busy, Resolved, Waiters
  <2>3. CallFits(v)'
    <3>1. SUFFICES ASSUME Calling(v)' PROVE CallFits(v)'
      BY DEF CallFits
    <3>2. Calling(v) /\ job[v].call \in Rows /\ job'[v].call = job[v].call
      BY <2>1, <3>1 DEF Calling, CallFits, Resolved, Waiters
    <3>3. PICK r, q : r = row[job[v].call] /\ q = row'[job[v].call]
      OBVIOUS
    <3>4. /\ q.uid = r.uid /\ q.new = r.new /\ q.api = r.api /\ q.msg = r.msg /\ q.ctx = r.ctx
          /\ q.callback = r.callback /\ (job[v].call # i => q.st = r.st)
          /\ (job[v].call = i => q.st = st)
      BY <3>2, <3>3 DEF Resolved, RowSettled
    <3>5. CASE job[v].call # i
      <4>1. job'[v].at = job[v].at
        BY <3>5 DEF Resolved, Waiters
      <4> QED
        BY <2>1, <3>2, <3>3, <3>4, <3>5, <4>1 DEF CallFits, Called, Calling, Resolved, Waiters
    <3>6. CASE job[v].call = i /\ job[v].at = "waiting"
      <4>1. job'[v].at = at /\ at \in {"answered", "failed"}
        BY <3>6 DEF Resolved, Waiters
      <4>2. at = "answered" => st \in {"done", "sent"}
        BY <4>1 DEF Resolved, RowSettled
      <4>3. at = "failed" => st \in {"failed", "held"}
        BY DEF Resolved
      <4> QED
        BY <2>1, <3>2, <3>3, <3>4, <3>6, <4>1, <4>2, <4>3 DEF CallFits, Called, Calling, Resolved, Waiters
    <3>7. CASE job[v].call = i /\ job[v].at # "waiting"
      <4>1. job'[v].at = job[v].at
        BY <3>7 DEF Resolved, Waiters
      <4>2. r.st \in {"queued", "sent"} /\ (r.st = "sent" => st = "done")
        BY <3>3, <3>7 DEF Resolved, RowSettled, First, Live
      <4>3. job[v].at \in {"answered", "mapping"}
        BY <2>1, <3>2, <3>3, <3>7, <4>2 DEF CallFits, Called, Calling
      <4>4. st = "done"
        BY <2>1, <3>2, <3>3, <4>2, <4>3 DEF CallFits, Called
      <4> QED
        BY <2>1, <3>2, <3>3, <3>4, <3>7, <4>1, <4>3, <4>4 DEF CallFits, Called, Calling, Resolved, Waiters
    <3> QED
      BY <3>5, <3>6, <3>7
  <2> QED
    BY <2>2, <2>3
<1>4. ClaimsAreOld'
  <2>1. next \in Nat \ {0}
    BY Types, SlaveAssumption DEF SlaveInv
  <2> QED
    BY <2>1 DEF ClaimsAreOld, SlaveInv, CallerInv, Resolved, Releases
<1>5. ASSUME NEW v \in Threads
      PROVE  Owns(job[v].uid, job[v].old)' /\ Owns(job[v].uid, job[v].dbold)'
  <2>1. PICK u, o, d : u = job[v].uid /\ o = job[v].old /\ d = job[v].dbold
    OBVIOUS
  <2>2. Owns(u, o) /\ Owns(u, d)
    BY <2>1 DEF SlaveInv, IdInv, JobOwns
  <2>3. Owns(u, o)' /\ Owns(u, d)'
    BY <1>1, <2>2, OwnsKept
  <2>4. job'[v].uid = u /\ job'[v].old = o /\ job'[v].dbold = d
    BY <2>1 DEF Resolved, Waiters
  <2> QED
    BY <2>3, <2>4 DEF Owns
<1>6. RowOwns'
  <2>1. \A k \in Rows : row[k].st = "absent" => row'[k].st = "absent"
    BY DEF Resolved, RowSettled, First, Live
  <2> QED
    BY <1>1, <2>1, RowsOwnNoMore
<1> QED
  BY <1>1, <1>2, <1>3, <1>4, <1>5, <1>6 DEF CallerInv, CallersFit, JobOwns

LEMMA ResultClaims ==
    ASSUME SlaveInv, NEW i \in Rows, NEW st, NEW at, Resolved(i, st, at)
    PROVE  ClaimsAreKept'
<1>1. PICK w : w = row[i].uid
  OBVIOUS
<1>2. /\ row[i].callback => row[i].new
      /\ row[i].st \in {"queued", "sent"} /\ row'[i].st = st /\ st # "queued"
      /\ row'[i].new = row[i].new /\ row'[i].uid = w /\ row'[i].callback = row[i].callback
  BY <1>1 DEF SlaveInv, QueueInv, RowShape, Resolved, RowSettled, First, Live
<1>3. ASSUME NEW v \in Threads, NEW u \in Uids
      PROVE  /\ Preparing(v, u)' = Preparing(v, u) /\ Delivers(v, u)' = Delivers(v, u)
             /\ job'[v].num = job[v].num
             /\ Failing(v, u)' =>
                   \/ Failing(v, u)
                   \/ Delivers(v, u) /\ at = "failed" /\ row[i].st = "queued" /\ row[i].new
                      /\ u = w /\ row[i].callback
  <2>1. CASE job[v].at = "waiting" /\ job[v].call = i
    <3>1. job'[v].at = at /\ at \in {"answered", "failed"} /\ job'[v].op = job[v].op
          /\ job'[v].uid = job[v].uid /\ job'[v].num = job[v].num
      BY <2>1 DEF Resolved, Waiters
    <3>2. /\ row[i].uid = job[v].uid /\ row[i].st = "queued"
          /\ job[v].op = "new" => row[i].new /\ row[i].callback
      BY <2>1 DEF SlaveInv, CallerInv, CallersFit, CallFits, Called, Calling
    <3> QED
      BY <1>1, <2>1, <3>1, <3>2 DEF Preparing, Delivers, Failing, Busy, Calling
  <2>2. CASE ~(job[v].at = "waiting" /\ job[v].call = i)
    <3>1. job'[v].at = job[v].at /\ job'[v].op = job[v].op
          /\ job'[v].uid = job[v].uid /\ job'[v].num = job[v].num
      BY <2>2 DEF Resolved, Waiters
    <3> QED
      BY <3>1 DEF Preparing, Delivers, Failing, Busy, Calling
  <2> QED
    BY <2>1, <2>2
<1>4. ASSUME NEW k \in Rows, NEW u \in Uids
      PROVE  Outstanding(k, u)' => Outstanding(k, u)
  <2>1. CASE k = i
    <3>1. st = "sent" => row[i].st = "queued"
      BY <1>2 DEF Resolved
    <3> QED
      BY <1>1, <1>2, <2>1, <3>1 DEF Outstanding
  <2>2. CASE k # i
    BY <2>2 DEF Outstanding, Resolved, RowSettled
  <2> QED
    BY <2>1, <2>2
<1>5. ASSUME NEW u \in Uids, u \notin excused' PROVE ClaimKept(u)'
  <2>1. ClaimKept(u)
    BY <1>5 DEF SlaveInv, ClaimsAreKept, Resolved, Releases
  <2>2. CASE u = w /\ row[i].callback
    <3>1. Outstanding(i, u)
      BY <1>1, <1>2, <2>2 DEF Outstanding
    <3>2. /\ \A v \in Threads : ~Preparing(v, u)
          /\ \A k \in Rows : Outstanding(k, u) => k = i
      BY <2>1, <3>1 DEF ClaimKept
    <3>3. CASE pending'[u] = pending[u] /\ st \in {"sent", "held"}
      <4>1. \A v \in Threads : Failing(v, u)' /\ pending'[u] = job'[v].num => Nobody(u)'
        <5>1. SUFFICES ASSUME NEW v \in Threads, Failing(v, u)', pending'[u] = job'[v].num
                       PROVE  Nobody(u)'
          OBVIOUS
        <5>2. CASE Failing(v, u)
          BY <1>3, <2>1, <3>1, <3>3, <5>1, <5>2 DEF ClaimKept, Nobody
        <5>3. CASE at = "failed"
          <6>1. st = "held"
            BY <3>3, <5>3 DEF Resolved
          <6>2. ~Outstanding(i, u)'
            BY <1>2, <6>1 DEF Outstanding
          <6> HIDE DEF Preparing, Outstanding
          <6> QED
            BY <1>3, <1>4, <3>2, <6>2 DEF Nobody
        <5> QED
          BY <1>3, <5>1, <5>2, <5>3
      <4> HIDE DEF Preparing, Outstanding, Failing
      <4> QED
        BY <1>3, <1>4, <2>1, <3>2, <3>3, <4>1 DEF ClaimKept
    <3>4. CASE st \in {"done", "failed"}
      <4>1. ~Outstanding(i, u)'
        BY <1>2, <3>4 DEF Outstanding
      <4>2. Nobody(u)'
        <5> HIDE DEF Preparing, Outstanding
        <5> QED
          BY <1>3, <1>4, <3>2, <4>1 DEF Nobody
      <4> HIDE DEF Preparing, Outstanding, Failing
      <4> QED
        BY <4>2 DEF ClaimKept, Nobody
    <3> QED
      BY <2>2, <3>3, <3>4 DEF Resolved
  <2>3. CASE ~(u = w /\ row[i].callback)
    <3>1. pending'[u] = pending[u]
      BY <1>1, <2>3 DEF Resolved, Releases
    <3>2. \A v \in Threads : Failing(v, u)' => Failing(v, u)
      BY <1>3, <2>3
    <3> HIDE DEF Preparing, Outstanding, Failing
    <3> QED
      BY <1>3, <1>4, <2>1, <3>1, <3>2 DEF ClaimKept, Nobody
  <2> QED
    BY <2>2, <2>3
<1> QED
  BY <1>5 DEF ClaimsAreKept

(* What is found stays found.                                                 *)
LEMMA ResultFound ==
    ASSUME SlaveInv, NEW i \in Rows, NEW st, NEW at, Resolved(i, st, at), RowsGrow
    PROVE  FollowersFound'
<1>1. \A v \in Threads : CallerFound(v)'
  BY DEF SlaveInv, LogInv, FollowersFound, CallerFound, Resolved, Waiters, Calling
<1>2. \A k \in Rows : row[k].st = "absent" => row'[k].st = "absent"
  BY DEF Resolved, RowSettled, First, Live
<1> QED
  BY <1>1, <1>2, RowsFoundNoMore DEF FollowersFound

(* A result that does not touch the log.                                      *)
LEMMA UnloggedResult ==
    ASSUME SlaveInv, TypeOK', NEW i \in Rows, NEW st, NEW at, Resolved(i, st, at), next' = next,
           log' = log, astray \subseteq astray', st = "sent" => row[i].ctx,
           st = "done" => ~row[i].ctx
    PROVE  SlaveInv'
<1>1. QueueInv' /\ CallerInv' /\ JobOwns' /\ RowOwns' /\ RowsGrow
  BY ResultCallers
<1>2. ClaimsAreKept'
  BY ResultClaims
<1>3. /\ LogOwns' /\ LogFound' /\ OneCanonicalRow' /\ NewestInLog'
  <2>1. ASSUME NEW k \in Rows, row[k].st # "done", row'[k].st = "done"
        PROVE  row'[k].api # "send"
    BY <2>1 DEF Resolved, RowSettled, SlaveInv, QueueInv, RowShape, First, Live
  <2> QED
    BY <1>1, <2>1, LogUnchanged
<1>4. FollowersFound'
  BY <1>1, ResultFound
<1> QED
  BY <1>1, <1>2, <1>3, <1>4 DEF SlaveInv, LogInv, IdInv

(* The last entry of a message, in the log after a step as well.              *)
LEMMA LastEntry ==
    ASSUME NEW l \in Seq(LogRec), NEW u, NEW k \in DOMAIN l, l[k].uid = u,
           \A n \in DOMAIN l : l[n].uid = u => n <= k
    PROVE  Max({n \in DOMAIN l : l[n].uid = u}) = k
<1>1. PICK S : S = {n \in DOMAIN l : l[n].uid = u}
  OBVIOUS
<1>2. DOMAIN l = 1 .. Len(l) /\ Len(l) \in Nat
  BY LenProperties
<1>3. S \in SUBSET Nat /\ S # {} /\ k \in Nat /\ k \in S /\ \A n \in S : n <= k
  BY <1>1, <1>2
<1>4. Max(S) \in S /\ \A n \in S : n <= Max(S)
  BY <1>3, GreatestNumber
<1>5. Max(S) = k
  <2>1. Max(S) \in Nat /\ Max(S) <= k /\ k <= Max(S)
    BY <1>3, <1>4
  <2> QED
    BY <1>3, <2>1
<1> QED
  BY <1>1, <1>5

(* The message a call has sent is the newest one in the log.                  *)
LEMMA OwnEntry ==
    ASSUME SlaveInv, NEW i \in Rows, NEW w \in Uids, NEW old \in MessageIds,
           w = row[i].uid, old = row[i].old, row[i].st # "done", row[i].ctx, row[i].st # "absent",
           RowSettled(i, "done"), log' = LogWrite(w, i, old),
           astray' = astray \cup LateFor(w, i, old), w \notin astray'
    PROVE  Newest(w)' /\ (w \in Mirrored => Canonical(w)')
<1>1. /\ row[i].api = "send" /\ w \notin astray /\ ~OutOfOrder(w, i, old) /\ Owns(w, old)
      /\ i \in MessageIds \ {Nothing} /\ i \in Nat /\ i # Nothing
  BY Numbers DEF SlaveInv, QueueInv, RowShape, IdInv, RowOwns, LateFor
<1>2. RowFound(i) /\ (w \in Mirrored => Canonical(w))
  BY <1>1 DEF SlaveInv, LogInv, FollowersFound, OneCanonicalRow
<1>d. i # old
  BY <1>1, Numbers DEF Owns
<1>3. /\ LogKept(w, i, old)
      /\ old # Nothing => LogReplaced(w, i, old) /\ Min(Held(old)) = EntryOf(w)
      /\ old = Nothing => LogAdded(w, i)
      /\ \A k \in SentFor(w) : ~(k > i)
  BY <1>1, <1>d, LogWriteEffect DEF SlaveInv, IdInv, OutOfOrder
<1>4. /\ DOMAIN log = 1 .. Len(log) /\ DOMAIN log' = 1 .. Len(log')
      /\ Len(log) \in Nat /\ Len(log') \in Nat /\ Len(log) <= Len(log') /\ log' \in Seq(LogRec)
  BY <1>3, Types, LenProperties DEF SlaveInv, LogKept
<1>5. \A k \in DOMAIN log : log[k].main # i
  <2>1. ASSUME NEW k \in DOMAIN log, log[k].main = i PROVE FALSE
    <3>1. Owns(log[k].uid, i)
      BY <2>1 DEF SlaveInv, IdInv, LogOwns
    <3> QED
      BY <1>1, <3>1, Numbers DEF Owns
  <2> QED
    BY <2>1
<1>6. Max(SentFor(w)') = i
  <2>1. PICK S : S = SentFor(w)'
    OBVIOUS
  <2>2. i \in S /\ S \in SUBSET Nat
    BY <1>1, <2>1, Numbers DEF SentFor, RowSettled
  <2>3. \A k \in S : k <= i
    <3>1. ASSUME NEW k \in S, k # i PROVE k \in SentFor(w)
      BY <2>1, <3>1 DEF SentFor, RowSettled
    <3> QED
      BY <1>1, <1>3, <2>2, <3>1
  <2>4. Max(S) \in S /\ \A n \in S : n <= Max(S)
    BY <1>1, <2>2, <2>3, GreatestNumber
  <2>5. Max(S) = i
    <3>1. Max(S) \in Nat /\ Max(S) <= i /\ i <= Max(S)
      BY <2>2, <2>3, <2>4
    <3> QED
      BY <1>1, <3>1
  <2> QED
    BY <2>1, <2>5
<1>7. CASE old = Nothing
  <2>1. /\ Len(log') = Len(log) + 1 /\ log'[Len(log')].main = i /\ log'[Len(log')].alt = Nothing
        /\ log'[Len(log')].uid = w /\ Len(log') \in DOMAIN log'
    BY <1>3, <1>4, <1>5, <1>7 DEF LogAdded, LogKept
  <2>2. w \notin Mirrored
    BY <1>1, <1>2, <1>7 DEF RowFound
  <2>3. \A n \in DOMAIN log' : log'[n].uid = w => n <= Len(log')
    BY <1>4
  <2>4. Max({n \in DOMAIN log' : log'[n].uid = w}) = Len(log')
    BY <1>4, <2>1, <2>3, LastEntry
  <2>5. EntryOf(w)' = Len(log')
    BY <2>1, <2>4 DEF EntryOf
  <2>6. Target(w)' = i
    BY <2>1, <2>5 DEF Target
  <2> QED
    BY <1>6, <2>2, <2>6 DEF Newest
<1>8. CASE old # Nothing
  <2>1. PICK j \in 1 .. Len(log) : /\ j = Min(Held(old)) /\ log[j].uid = w
                                   /\ log'[j].alt = IF i = log[j].main THEN log[j].alt ELSE i
    BY <1>3, <1>8 DEF LogReplaced
  <2>2. /\ log'[j].alt = i /\ j \in DOMAIN log /\ j \in DOMAIN log' /\ DOMAIN log' = DOMAIN log
        /\ \A k \in DOMAIN log : log'[k].uid = log[k].uid /\ log'[k].main = log[k].main
    BY <1>3, <1>4, <1>5, <1>8, <2>1 DEF LogReplaced, LogKept
  <2>3. w \in Mirrored => Canonical(w)'
    BY <1>2, <2>2 DEF Canonical
  <2>4. EntryOf(w) = j /\ \A n \in DOMAIN log : log[n].uid = w => n <= j
    <3>1. InLog(w)
      BY <2>1, <2>2 DEF InLog
    <3> QED
      BY <1>3, <1>4, <1>8, <2>1, <3>1, EntryIs DEF SlaveInv
  <2>5. Max({n \in DOMAIN log' : log'[n].uid = w}) = j
    <3>1. log'[j].uid = w /\ \A n \in DOMAIN log' : log'[n].uid = w => n <= j
      BY <2>1, <2>2, <2>4
    <3>2. PICK l \in Seq(LogRec) : l = log'
      BY <1>4
    <3>3. j \in DOMAIN l /\ l[j].uid = w /\ \A n \in DOMAIN l : l[n].uid = w => n <= j
      BY <2>2, <3>1, <3>2
    <3>4. Max({n \in DOMAIN l : l[n].uid = w}) = j
      BY <3>3, LastEntry
    <3> QED
      BY <3>2, <3>4
  <2>6. EntryOf(w)' = j
    BY <2>1, <2>2, <2>5 DEF EntryOf
  <2>7. Target(w)' = i
    BY <1>1, <2>2, <2>6 DEF Target
  <2> QED
    BY <1>6, <2>3, <2>7 DEF Newest
<1> QED
  BY <1>7, <1>8

(* A result that the log gets, at once or when it is reconciled.              *)
LEMMA LoggedResult ==
    ASSUME SlaveInv, TypeOK', NEW i \in Rows, row[i].ctx, Resolved(i, "done", "answered"),
           next' = next, log' = LogWrite(row[i].uid, i, row[i].old),
           astray' = astray \cup LateFor(row[i].uid, i, row[i].old)
    PROVE  SlaveInv'
<1>1. PICK w \in Uids, old \in MessageIds : w = row[i].uid /\ old = row[i].old
  BY Types DEF SlaveInv, RowRec
<1>2. /\ row[i].st \in {"queued", "sent"} /\ RowSettled(i, "done") /\ astray \subseteq astray'
      /\ i \in MessageIds \ {Nothing}
  BY Numbers DEF Resolved, RowSettled, First, Live
<1>3. QueueInv' /\ CallerInv' /\ JobOwns' /\ RowOwns' /\ RowsGrow
  BY <1>2, ResultCallers
<1>4. ClaimsAreKept'
  BY <1>2, ResultClaims
<1>5. Owns(w, old) /\ LogKept(w, i, old) /\ InLog(w)'
  <2>1. Owns(w, old)
    BY <1>1, <1>2 DEF SlaveInv, IdInv, RowOwns
  <2>2. \A k \in DOMAIN log : log[k].main # i
    <3>1. \A k \in DOMAIN log : Owns(log[k].uid, log[k].main)
      BY DEF SlaveInv, IdInv, LogOwns
    <3> QED
      BY <1>2, <3>1, Numbers DEF Owns
  <2>3. DOMAIN log = 1 .. Len(log)
    BY Types, LenProperties DEF SlaveInv
  <2> QED
    BY <1>1, <1>2, <2>1, <2>2, <2>3, LogWriteEffect DEF SlaveInv, IdInv
<1>6. Owns(w, old)' /\ Owns(w, i)'
  <2>1. Owns(w, old)'
    BY <1>3, <1>5, OwnsKept
  <2>2. Owns(w, i)'
    BY <1>1, <1>2 DEF Owns, RowSettled
  <2> QED
    BY <2>1, <2>2
<1>7. /\ LogOwns' /\ LogStays
      /\ \A v \in Uids \ {w} : SentFor(v)' = SentFor(v)
      /\ \A v \in Uids \ {w} : v \notin astray' => Newest(v)' /\ (v \in Mirrored => Canonical(v)')
  <2>1. \A k \in Rows : row[k].st # "done" /\ row'[k].st = "done" => row'[k].uid = w
    BY <1>1, <1>2 DEF RowSettled
  <2>2. i \in MessageIds
    BY <1>2
  <2> QED
    BY <1>2, <1>3, <1>5, <1>6, <2>1, <2>2, LogWritten
<1>8. w \notin astray' => Newest(w)' /\ (w \in Mirrored => Canonical(w)')
  BY <1>1, <1>2, OwnEntry
<1>9. LogFound'
  <2>1. SUFFICES ASSUME NEW v \in Uids, v \in Mirrored \/ SentFor(v)' # {} PROVE InLog(v)'
    BY DEF LogFound
  <2>2. CASE v = w
    BY <1>5, <2>2
  <2>3. CASE v # w
    BY <1>7, <2>1, <2>3 DEF SlaveInv, LogInv, LogFound, LogStays
  <2> QED
    BY <2>2, <2>3
<1>10. OneCanonicalRow' /\ NewestInLog'
  <2>1. Mirrored \subseteq Uids
    BY Numbers
  <2> QED
    BY <1>7, <1>8, <2>1 DEF OneCanonicalRow, NewestInLog
<1>11. FollowersFound'
  BY <1>3, ResultFound
<1> QED
  BY <1>3, <1>4, <1>7, <1>9, <1>10, <1>11 DEF SlaveInv, LogInv, IdInv

(* What ReleaseBy does, if the call has a claim to release.                   *)
LEMMA ReleasesBy ==
    ASSUME SlaveInv, NEW i \in Rows, ReleaseBy(i)
    PROVE  /\ pending' \in [Uids -> Nat] /\ excused' \subseteq Uids
           /\ \/ UNCHANGED <<pending, excused>> /\ ~row[i].callback
              \/ row[i].callback /\ Releases(row[i].uid, pending[row[i].uid])
<1>1. CASE ~row[i].callback
  BY <1>1, Types DEF ReleaseBy, KeepClaims, SlaveInv
<1>2. CASE row[i].callback
  <2>1. PICK u \in Uids, n \in Nat : u = row[i].uid /\ n = pending[u]
    BY Types DEF SlaveInv, RowRec
  <2>2. Release(u, n)
    BY <1>2, <2>1 DEF ReleaseBy
  <2>3. Releases(u, n)
    BY <2>1, <2>2, ReleaseReleases DEF SlaveInv
  <2> QED
    BY <1>2, <2>1, <2>3, Types DEF Releases, SlaveInv
<1> QED
  BY <1>1, <1>2

(* The type of what a worker's step leaves.                                   *)
LEMMA ResultTypes ==
    ASSUME SlaveInv, NEW i, NEW st, NEW at, RowSettled(i, st), Waiters(i, at),
           UNCHANGED <<script, next>>, shown' \subseteq MessageIds, log' \in Seq(LogRec),
           Trouble \/ UNCHANGED troubles, pending' \in [Uids -> Nat], excused' \subseteq Uids,
           astray' \subseteq Uids
    PROVE  TypeOK'
BY Types, TroubleType, TypesNow DEF SlaveInv, RowSettled, Waiters

(* The log a worker writes.                                                   *)
LEMMA ResultLog ==
    ASSUME SlaveInv, NEW i \in Rows, row[i].st # "absent",
           log' = LogWrite(row[i].uid, i, row[i].old),
           astray' = astray \cup LateFor(row[i].uid, i, row[i].old)
    PROVE  log' \in Seq(LogRec) /\ astray' \subseteq Uids
<1>1. PICK w \in Uids, old \in MessageIds : w = row[i].uid /\ old = row[i].old
  BY Types DEF SlaveInv, RowRec
<1>2. Owns(w, old) /\ i \in MessageIds \ {Nothing}
  BY <1>1, Numbers DEF SlaveInv, IdInv, RowOwns
<1>3. LogKept(w, i, old)
  BY <1>1, <1>2, LogWriteEffect DEF SlaveInv, IdInv
<1> QED
  BY <1>1, <1>3, Types DEF LogKept, LateFor, SlaveInv

LEMMA AcceptStep ==
    ASSUME SlaveInv, NEW i \in Rows, Accept(i)
    PROVE  SlaveInv'
<1>1. /\ First(i) /\ row[i].st = "queued" /\ UNCHANGED <<script, next>>
      /\ Waiters(i, "answered")
  BY WaitersGoOn DEF Accept, First, Live, SlaveInv
<1>2. shown' \subseteq MessageIds
  BY Numbers, Types DEF Accept, SlaveInv
<1>3. CASE /\ ~row[i].ctx /\ row' = [row EXCEPT ![i].st = "done"] /\ KeepClaims
           /\ UNCHANGED <<log, troubles, astray>>
  <2>1. RowSettled(i, "done") /\ ~row[i].callback
    BY <1>1, <1>3, RowSettles DEF SlaveInv, QueueInv, RowShape
  <2>2. TypeOK'
    BY <1>1, <1>2, <1>3, <2>1, ResultTypes, Types DEF SlaveInv, KeepClaims
  <2>3. Resolved(i, "done", "answered")
    BY <1>1, <1>3, <2>1 DEF Resolved, KeepClaims
  <2> QED
    BY <1>1, <1>3, <2>2, <2>3, UnloggedResult
<1>4. CASE /\ row[i].ctx /\ row' = [row EXCEPT ![i].st = "done"]
           /\ log' = LogWrite(row[i].uid, i, row[i].old)
           /\ ReleaseBy(i) /\ astray' = astray \cup LateFor(row[i].uid, i, row[i].old)
           /\ UNCHANGED troubles
  <2>1. RowSettled(i, "done")
    BY <1>1, <1>4, RowSettles DEF SlaveInv
  <2>2. /\ pending' \in [Uids -> Nat] /\ excused' \subseteq Uids
        /\ \/ UNCHANGED <<pending, excused>> /\ ~row[i].callback
           \/ row[i].callback /\ Releases(row[i].uid, pending[row[i].uid])
    BY <1>4, ReleasesBy
  <2>3. TypeOK'
    BY <1>1, <1>2, <1>4, <2>1, <2>2, ResultTypes, ResultLog
  <2>4. Resolved(i, "done", "answered")
    BY <1>1, <2>1, <2>2 DEF Resolved
  <2> QED
    BY <1>1, <1>4, <2>3, <2>4, LoggedResult
<1>5. CASE /\ row[i].ctx /\ row' = [row EXCEPT ![i].st = "sent"]
           /\ Trouble /\ KeepClaims /\ UNCHANGED <<log, astray>>
  <2>1. RowSettled(i, "sent")
    BY <1>1, <1>5, RowSettles DEF SlaveInv
  <2>3. TypeOK'
    BY <1>1, <1>2, <1>5, <2>1, ResultTypes, Types DEF SlaveInv, KeepClaims
  <2>4. Resolved(i, "sent", "answered")
    BY <1>1, <1>5, <2>1 DEF Resolved, KeepClaims
  <2> QED
    BY <1>1, <1>5, <2>3, <2>4, UnloggedResult
<1> QED
  BY <1>3, <1>4, <1>5 DEF Accept

LEMMA ReconcileStep ==
    ASSUME SlaveInv, NEW i \in Rows, Reconcile(i)
    PROVE  SlaveInv'
<1>1. /\ row[i].st = "sent" /\ UNCHANGED <<script, next, job, shown, troubles>>
      /\ row' = [row EXCEPT ![i].st = "done"]
      /\ log' = LogWrite(row[i].uid, i, row[i].old)
      /\ ReleaseBy(i) /\ astray' = astray \cup LateFor(row[i].uid, i, row[i].old)
  BY DEF Reconcile
<1>2. Waiters(i, "answered") /\ RowSettled(i, "done") /\ row[i].ctx
  BY <1>1, NobodyWaits, RowSettles DEF SlaveInv, QueueInv, RowShape
<1>3. /\ pending' \in [Uids -> Nat] /\ excused' \subseteq Uids
      /\ \/ UNCHANGED <<pending, excused>> /\ ~row[i].callback
         \/ row[i].callback /\ Releases(row[i].uid, pending[row[i].uid])
  BY <1>1, ReleasesBy
<1>4. TypeOK'
  BY <1>1, <1>2, <1>3, ResultTypes, ResultLog, Types DEF SlaveInv
<1>5. Resolved(i, "done", "answered")
  BY <1>1, <1>2, <1>3 DEF Resolved
<1> QED
  BY <1>1, <1>2, <1>4, <1>5, LoggedResult

LEMMA RefuseStep ==
    ASSUME SlaveInv, NEW i \in Rows, Refuse(i)
    PROVE  SlaveInv'
<1>1. /\ First(i) /\ row[i].st = "queued" /\ UNCHANGED <<script, next, shown, log, astray>>
      /\ row' = [row EXCEPT ![i].st = "failed"] /\ Waiters(i, "failed") /\ ReleaseBy(i)
      /\ Trouble \/ UNCHANGED troubles
  BY WaitersGoOn DEF Refuse, First, Live, SlaveInv
<1>2. RowSettled(i, "failed")
  BY <1>1, RowSettles DEF SlaveInv
<1>3. /\ pending' \in [Uids -> Nat] /\ excused' \subseteq Uids
      /\ \/ UNCHANGED <<pending, excused>> /\ ~row[i].callback
         \/ row[i].callback /\ Releases(row[i].uid, pending[row[i].uid])
  BY <1>1, ReleasesBy
<1>4. TypeOK'
  BY <1>1, <1>2, <1>3, ResultTypes, Types DEF SlaveInv
<1>5. Resolved(i, "failed", "failed")
  BY <1>1, <1>2, <1>3 DEF Resolved
<1> QED
  BY <1>1, <1>4, <1>5, UnloggedResult

LEMMA UncertainStep ==
    ASSUME SlaveInv, NEW i \in Rows, Uncertain(i)
    PROVE  SlaveInv'
<1>1. /\ First(i) /\ row[i].st = "queued" /\ Trouble
      /\ UNCHANGED <<script, next, pending, shown, log, excused, astray>>
      /\ row' = [row EXCEPT ![i].st = "held"] /\ Waiters(i, "failed")
  BY WaitersGoOn DEF Uncertain, First, Live, SlaveInv, ghosts
<1>2. RowSettled(i, "held")
  BY <1>1, RowSettles DEF SlaveInv
<1>3. TypeOK'
  BY <1>1, <1>2, ResultTypes, Types DEF SlaveInv
<1>4. Resolved(i, "held", "failed")
  BY <1>1, <1>2 DEF Resolved
<1> QED
  BY <1>1, <1>3, <1>4, UnloggedResult

------------------------------------------------------------------------------
(* The other steps, and the initial states.                                   *)

(* A step that changes nothing the invariant speaks of.                       *)
LEMMA Unmoved ==
    ASSUME SlaveInv, TypeOK', UNCHANGED <<next, job, pending, row, log, excused, astray>>
    PROVE  SlaveInv'
<1>1. RowsGrow /\ LogStays
  BY SameGrows DEF SlaveInv, LogStays, InLog
<1>2. QueueInv'
  BY QueueKept DEF SlaveInv
<1>3. CallerInv'
  BY DEF SlaveInv, CallerInv, CallersFit, CallerFits, CallFits, Busy, Calling, Called, ClaimsAreOld
<1>4. LogOwns' /\ LogFound' /\ OneCanonicalRow' /\ NewestInLog'
  BY <1>1, LogUnchanged
<1>5. JobOwns' /\ RowOwns'
  BY DEF SlaveInv, IdInv, JobOwns, RowOwns, Owns
<1>6. ClaimsAreKept'
  BY QuietClaims DEF Preparing, Delivers, Failing, Busy, Calling, Outstanding
<1>7. FollowersFound'
  <2>1. \A v \in Threads : CallerFound(v)'
    BY DEF SlaveInv, LogInv, FollowersFound, CallerFound, Calling
  <2> QED
    BY <1>1, <2>1, RowsFoundNoMore DEF FollowersFound
<1> QED
  BY <1>2, <1>3, <1>4, <1>5, <1>6, <1>7 DEF SlaveInv, LogInv, IdInv

LEMMA UserDeletesStep ==
    ASSUME SlaveInv, NEW m, UserDeletes(m)
    PROVE  SlaveInv'
<1>1. TypeOK'
  BY Types, TroubleType, TypesNow DEF SlaveInv, UserDeletes, ghosts
<1> QED
  BY <1>1, Unmoved DEF UserDeletes, ghosts

(* What is in memory is lost: nobody is on the way with a message, and what   *)
(* is in the queue has no claim.                                              *)
LEMMA CrashStep ==
    ASSUME SlaveInv, Crash
    PROVE  SlaveInv'
<1>1. /\ \A v \in Threads : job'[v] = Idle
      /\ job' \in [Threads -> JobRec] /\ pending' \in [Uids -> Nat]
      /\ \A u \in Uids : pending'[u] = 0
      /\ UNCHANGED <<script, next, shown, log, astray>> /\ Trouble
  BY IdleType DEF Crash
<1>2. ASSUME NEW i \in Rows
      PROVE  /\ row'[i] \in RowRec /\ row'[i].st = row[i].st /\ row'[i].uid = row[i].uid
             /\ row'[i].api = row[i].api /\ row'[i].new = row[i].new /\ row'[i].msg = row[i].msg
             /\ row'[i].old = row[i].old /\ row'[i].ctx = row[i].ctx /\ row'[i].callback = FALSE
  <2>1. PICK r \in RowRec : r = row[i]
    BY <1>2, Types DEF SlaveInv
  <2>2. PICK f : f = [r EXCEPT !.callback = FALSE, !.waiter = FALSE]
    OBVIOUS
  <2>3. /\ f \in RowRec /\ f.st = r.st /\ f.uid = r.uid /\ f.api = r.api /\ f.new = r.new
        /\ f.msg = r.msg /\ f.old = r.old /\ f.ctx = r.ctx /\ f.callback = FALSE
    BY <2>1, <2>2 DEF RowRec
  <2>4. row'[i] = f
    BY <1>2, <2>1, <2>2 DEF Crash
  <2> QED
    BY <2>1, <2>3, <2>4
<1>3. row' \in [Rows -> RowRec]
  BY <1>2 DEF Crash
<1>4. RowsGrow /\ LogStays
  BY <1>1, <1>2, <1>3 DEF RowsGrow, LogStays, InLog
<1>5. excused' \subseteq Uids /\ excused \subseteq excused'
      /\ \A i \in Rows : row[i].st = "queued" => row[i].uid \in excused'
  BY Types DEF Crash, Live, SlaveInv, RowRec
<1>6. TypeOK'
  BY <1>1, <1>3, <1>5, Types, TroubleType, TypesNow DEF SlaveInv
<1>7. QueueInv'
  <2>1. RowShape'
    <3>1. SUFFICES ASSUME NEW i \in Rows
                   PROVE  /\ row'[i].st # "absent" => (row'[i].ctx <=> row'[i].api = "send")
                          /\ row'[i].st = "sent" => row'[i].ctx
                          /\ row'[i].callback => row'[i].new
                          /\ row'[i].new => /\ row'[i].st # "absent" /\ row'[i].api = "send"
                                            /\ row'[i].uid \notin Mirrored
                          /\ row'[i].api = "edit" => row'[i].msg # Nothing
      BY DEF RowShape
    <3>2. /\ row[i].st # "absent" => (row[i].ctx <=> row[i].api = "send")
          /\ row[i].st = "sent" => row[i].ctx
          /\ row[i].new => /\ row[i].st # "absent" /\ row[i].api = "send"
                           /\ row[i].uid \notin Mirrored
          /\ row[i].api = "edit" => row[i].msg # Nothing
      BY DEF SlaveInv, QueueInv, RowShape
    <3>3. /\ row'[i].st = row[i].st /\ row'[i].uid = row[i].uid /\ row'[i].api = row[i].api
          /\ row'[i].new = row[i].new /\ row'[i].msg = row[i].msg /\ row'[i].ctx = row[i].ctx
          /\ row'[i].callback = FALSE
      BY <1>2
    <3> QED
      BY <3>2, <3>3
  <2>2. QueueOrder'
    BY <1>2 DEF SlaveInv, QueueInv, QueueOrder
  <2> QED
    BY <2>1, <2>2 DEF QueueInv
<1>8. CallerInv'
  <2>1. \A u \in Uids : pending'[u] < next'
    BY <1>1, Types, SlaveAssumption DEF SlaveInv
  <2>2. \A v \in Threads : CallerFits(v)' /\ CallFits(v)'
    BY <1>1, IdleFits
  <2> QED
    BY <2>1, <2>2 DEF CallerInv, CallersFit, ClaimsAreOld
<1>9. LogOwns' /\ LogFound' /\ OneCanonicalRow' /\ NewestInLog'
  BY <1>1, <1>2, <1>4, LogUnchanged
<1>10. JobOwns' /\ RowOwns'
  <2>1. JobOwns'
    BY <1>1, IdleFits DEF JobOwns
  <2>2. \A k \in Rows : row[k].st = "absent" => row'[k].st = "absent"
    BY <1>2
  <2> QED
    BY <1>4, <2>1, <2>2, RowsOwnNoMore
<1>11. ASSUME NEW v \in Threads, NEW u \in Uids
       PROVE  ~Preparing(v, u)' /\ ~Delivers(v, u)' /\ ~Failing(v, u)'
  BY <1>1, IdleIs DEF Preparing, Delivers, Failing, Busy
<1>12. ASSUME NEW u \in Uids, u \notin excused' PROVE ClaimKept(u)'
  <2>1. \A i \in Rows : ~Outstanding(i, u)'
    BY <1>2, <1>5, <1>12 DEF Outstanding
  <2> HIDE DEF Preparing, Failing, Outstanding
  <2> QED
    BY <1>11, <2>1 DEF ClaimKept
<1>14. FollowersFound'
  <2>1. \A v \in Threads : CallerFound(v)'
    BY <1>1, IdleFits
  <2>2. \A k \in Rows : row[k].st = "absent" => row'[k].st = "absent"
    BY <1>2
  <2> QED
    BY <1>4, <2>1, <2>2, RowsFoundNoMore DEF FollowersFound
<1> QED
  BY <1>6, <1>7, <1>8, <1>9, <1>10, <1>12, <1>14 DEF SlaveInv, LogInv, IdInv, ClaimsAreKept

(* A finite set as a sequence of its elements, each of them once.             *)
LEMMA SetToSeqIs ==
    ASSUME NEW S, IsFiniteSet(S)
    PROVE  /\ SetToSeq(S) \in Seq(S)
           /\ \A i, k \in DOMAIN SetToSeq(S) : SetToSeq(S)[i] = SetToSeq(S)[k] => i = k
           /\ \A x \in S : \E i \in DOMAIN SetToSeq(S) : SetToSeq(S)[i] = x
<1>1. PICK n \in Nat : n = Cardinality(S) /\ ExistsBijection(1 .. n, S)
  BY FS_CardinalityType
<1>2. \E f \in [1 .. n -> S] : IsInjective(f)
  BY <1>1 DEF ExistsBijection, Bijection, Injection
<1>3. PICK l : l = SetToSeq(S)
  OBVIOUS
<1>4. l \in [1 .. n -> S] /\ IsInjective(l)
  BY <1>1, <1>2, <1>3 DEF SetToSeq
<1>5. l \in Seq(S)
  BY <1>1, <1>4, SeqDef
<1>6. l \in Injection(1 .. n, S)
  BY <1>4 DEF Injection
<1>7. l \in Surjection(1 .. n, S)
  <2>1. Cardinality(1 .. n) = n
    BY <1>1, FS_Interval
  <2> QED
    BY <1>1, <1>6, <2>1, FS_Injection
<1> QED
  BY <1>3, <1>4, <1>5, <1>7 DEF Surjection, IsInjective

LEMMA SlaveInit == Init => SlaveInv
<1>1. SUFFICES ASSUME Init PROVE SlaveInv
  OBVIOUS
<1> DEFINE Own(u) == [main |-> OwnId[u], alt |-> Nothing, uid |-> u]
<1>2. PICK S : S = {Own(u) : u \in Mirrored}
  OBVIOUS
<1>3. IsFiniteSet(S)
  <2>1. IsFiniteSet(Mirrored)
    BY SlaveAssumption, Numbers, FS_Subset
  <2>2. PICK f : f = [u \in Mirrored |-> Own(u)]
    OBVIOUS
  <2>3. f \in Surjection(Mirrored, S)
    BY <1>2, <2>2 DEF Surjection
  <2> QED
    BY <2>1, <2>3, FS_Surjection
<1>4. /\ log \in Seq(S) /\ \A i, k \in DOMAIN log : log[i] = log[k] => i = k
      /\ \A x \in S : \E i \in DOMAIN log : log[i] = x
  <2>1. log = SetToSeq(S)
    BY <1>1, <1>2 DEF Init
  <2> QED
    BY <1>3, <2>1, SetToSeqIs
<1>5. S \subseteq LogRec
  BY <1>2, Numbers DEF LogRec
<1>6. ASSUME NEW k \in DOMAIN log
      PROVE  /\ log[k].uid \in Mirrored /\ log[k].main = OwnId[log[k].uid] /\ log[k].alt = Nothing
             /\ log[k] = Own(log[k].uid)
  <2>1. log[k] \in S
    BY <1>4, <1>6, ElementOfSeq, LenProperties
  <2> QED
    BY <1>2, <2>1
<1>7. ASSUME NEW u \in Mirrored PROVE \E i \in DOMAIN log : log[i] = Own(u)
  BY <1>2, <1>4, <1>7
<1>8. ASSUME NEW i \in DOMAIN log, NEW k \in DOMAIN log, log[i].uid = log[k].uid PROVE i = k
  BY <1>4, <1>6, <1>8
<1>9. /\ \A i \in Rows : row[i] = NoRow
      /\ NoRow.st = "absent" /\ NoRow.new = FALSE /\ NoRow.callback = FALSE /\ NoRow.api = "send"
      /\ \A t \in Threads : job[t] = Idle
      /\ \A u \in Uids : pending[u] = 0
      /\ next = 1 /\ astray = {} /\ excused = {} /\ troubles = 0 /\ script \in Scripts
  BY <1>1 DEF Init, NoRow
<1>10. TypeOK
  <2>1. next \in 1 .. Len(script) + 1
    <3>1. Len(script) \in Nat
      BY <1>9, SlaveAssumption, LenProperties
    <3> QED
      BY <1>9, <3>1
  <2>2. log \in Seq(LogRec)
    BY <1>4, <1>5, SeqMonotonic
  <2>3. job \in [Threads -> JobRec] /\ row \in [Rows -> RowRec] /\ pending \in [Uids -> Nat]
    BY <1>1, IdleType, NoRowType DEF Init
  <2>4. shown \subseteq MessageIds
    BY <1>1, Numbers DEF Init
  <2>5. troubles \in 0 .. MaxTroubles
    BY <1>9, SlaveAssumption
  <2> QED
    BY <1>9, <2>1, <2>2, <2>3, <2>4, <2>5, Types
<1>11. QueueInv
  BY <1>9 DEF QueueInv, RowShape, QueueOrder
<1>12. CallerInv
  <2>1. CallersFit
    BY <1>9, IdleIs DEF CallersFit, CallerFits, CallFits, Busy, Calling
  <2>2. ClaimsAreOld
    BY <1>9 DEF ClaimsAreOld
  <2> QED
    BY <2>1, <2>2 DEF CallerInv
<1>13. IdInv
  <2>1. LogOwns
    BY <1>6, Numbers DEF LogOwns, Owns
  <2>2. JobOwns
    BY <1>9, IdleIs DEF JobOwns, Owns
  <2>3. RowOwns
    BY <1>9 DEF RowOwns
  <2> QED
    BY <2>1, <2>2, <2>3 DEF IdInv
<1>14. ASSUME NEW t \in Threads, NEW u PROVE ~Delivers(t, u)
  BY <1>9, IdleIs DEF Delivers, Busy
<1>15. ClaimsAreKept
  BY <1>9, <1>14 DEF ClaimsAreKept, ClaimKept, Preparing, Failing, Outstanding
<1>16. LogInv
  <2>1. LogFound
    BY <1>7, <1>9 DEF LogFound, InLog, SentFor
  <2>2. FollowersFound
    <3>1. \A t \in Threads : CallerFound(t)
      BY <1>9, IdleIs DEF CallerFound, Calling
    <3>2. \A i \in Rows : RowFound(i)
      BY <1>9 DEF RowFound
    <3> QED
      BY <3>1, <3>2 DEF FollowersFound
  <2>4. OneCanonicalRow
    <3>1. ASSUME NEW u \in Mirrored PROVE Canonical(u)
      <4>1. PICK i \in DOMAIN log : log[i] = Own(u)
        BY <1>7, <3>1
      <4>2. log[i].main = OwnId[u] /\ log[i].uid = u
        BY <4>1
      <4> QED
        BY <1>8, <4>2 DEF Canonical
    <3> QED
      BY <3>1 DEF OneCanonicalRow
  <2>5. NewestInLog
    BY <1>9 DEF NewestInLog, Newest, SentFor
  <2> QED
    BY <2>1, <2>2, <2>4, <2>5 DEF LogInv
<1> QED
  BY <1>10, <1>11, <1>12, <1>13, <1>15, <1>16 DEF SlaveInv

------------------------------------------------------------------------------
(* The theorems.                                                              *)

LEMMA SlaveStep == SlaveInv /\ [Next]_vars => SlaveInv'
<1>1. SUFFICES ASSUME SlaveInv, [Next]_vars PROVE SlaveInv'
  OBVIOUS
<1>2. CASE UNCHANGED vars
  <2>1. TypeOK'
    BY <1>1, <1>2, Types, TypesNow DEF SlaveInv, vars
  <2> QED
    BY <1>1, <1>2, <2>1, Unmoved DEF vars
<1>3. CASE \E t \in Threads : CallerStep(t) \/ TimesOut(t)
  BY <1>1, <1>3, CallerStepKeeps
<1>4. CASE \E i \in Rows : WorkerStep(i) \/ UserDeletes(i)
  BY <1>1, <1>4, AcceptStep, ReconcileStep, RefuseStep, UncertainStep, UserDeletesStep
     DEF WorkerStep
<1>5. CASE Crash
  BY <1>1, <1>5, CrashStep
<1> QED
  BY <1>1, <1>2, <1>3, <1>4, <1>5 DEF Next

(* SlaveInv holds in every state the program reaches: claims, queue, callers  *)
(* and log stay in step, whatever threads, Telegram, users and crashes do.    *)
THEOREM SlaveInvTheorem == Spec => []SlaveInv
<1> QED
  BY SlaveInit, SlaveStep, PTL DEF Spec

(* Queue and log agree: a message delivered twice is not queued a second time *)
(* while the first call is there, and a user's message keeps its one row in   *)
(* the log however many answers carry its reactions.                          *)
THEOREM MessageInvTheorem == Spec => []MessageInv
<1>1. SlaveInv => MessageInv
  <2>1. SUFFICES ASSUME SlaveInv PROVE MessageInv
    OBVIOUS
  <2>2. OnePendingCall
    <3>1. SUFFICES ASSUME NEW i \in Rows, NEW k \in Rows, i # k, Live(i), Live(k),
                          row[i].new, row[k].new, row[i].uid = row[k].uid
                   PROVE  row[i].uid \in excused
      BY DEF OnePendingCall
    <3>2. PICK u \in Uids : u = row[i].uid
      BY <2>1, Types DEF SlaveInv, RowRec
    <3>3. Outstanding(i, u) /\ Outstanding(k, u)
      BY <3>1, <3>2 DEF Outstanding, Live
    <3> QED
      BY <2>1, <3>1, <3>2, <3>3 DEF SlaveInv, ClaimsAreKept, ClaimKept
  <2> QED
    BY <2>1, <2>2 DEF MessageInv, SlaveInv, LogInv
<1> QED
  BY <1>1, SlaveInvTheorem, PTL

(* An edit, a removal or a reaction finds a message that was sent for its     *)
(* own message of the slave, and the newest one: also when it came before the *)
(* original was logged, when the message was delivered again, when the        *)
(* process died, and whoever of worker and callers wrote the log, unless an   *)
(* answer was logged out of order.                                            *)
THEOREM NewestIsFoundTheorem == Spec => []NewestIsFound
<1>1. SlaveInv => NewestIsFound
  <2>1. SUFFICES ASSUME SlaveInv, NEW u \in Uids, SentFor(u) # {}, KindOf[u] # "sticker"
                 PROVE  /\ Logged(u) /\ (Target(u) \in Rows => row[Target(u)].uid = u)
                        /\ u \in astray \/ Target(u) = Max(SentFor(u))
    BY DEF NewestIsFound
  <2>2. Logged(u)
    BY <2>1, EntryIs DEF SlaveInv, LogInv, LogFound
  <2>3. Target(u) \in Rows => row[Target(u)].uid = u
    BY <2>1, <2>2, TargetIs, Numbers DEF Owns
  <2> QED
    BY <2>1, <2>2, <2>3 DEF SlaveInv, LogInv, NewestInLog, Newest
<1> QED
  BY <1>1, SlaveInvTheorem, PTL
==============================================================================
