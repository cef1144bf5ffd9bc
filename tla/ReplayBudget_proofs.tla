------------------------- MODULE ReplayBudget_proofs -------------------------
(* Theorems about ReplayBudget: for any rows found, calls, sizes, failures    *)
(* and crashes the files beside the table are those its rows and calls need,  *)
(* and rows above the budget are kept as they are.  The invariant is BInv of  *)
(* BudgetInvariant.                                                           *)
EXTENDS BudgetInvariant, FiniteSetTheorems, TLAPS

------------------------------------------------------------------------------
(* Names and permits.                                                         *)

(* A finite set has a subset of every size up to its own.                     *)
LEMMA SubsetOfSize ==
    ASSUME NEW S, IsFiniteSet(S), NEW n \in Nat, n <= Cardinality(S)
    PROVE  \E T \in SUBSET S : Cardinality(T) = n
<1>1. Cardinality(S) \in Nat /\ ExistsBijection(1 .. Cardinality(S), S)
  BY FS_CardinalityType
<1>2. PICK f \in Bijection(1 .. Cardinality(S), S) : TRUE
  BY <1>1 DEF ExistsBijection
<1>3. f \in [1 .. Cardinality(S) -> S] /\ \A x, y \in 1 .. Cardinality(S) : f[x] = f[y] => x = y
  BY <1>2 DEF Bijection, Injection, IsInjective
<1> DEFINE T == {f[x] : x \in 1 .. n}
           g == [x \in 1 .. n |-> f[x]]
<1>4. 1 .. n \subseteq 1 .. Cardinality(S)
  BY <1>1
<1>5. T \in SUBSET S
  BY <1>3, <1>4
<1>6. g \in Bijection(1 .. n, T)
  <2>1. g \in [1 .. n -> T] /\ \A y \in T : \E x \in 1 .. n : g[x] = y
    OBVIOUS
  <2>2. \A x, y \in 1 .. n : g[x] = g[y] => x = y
    BY <1>3, <1>4
  <2> QED
    BY <2>1, <2>2 DEF Bijection, Injection, IsInjective, Surjection
<1>7. Cardinality(T) = n
  <2>1. ExistsBijection(1 .. n, T)
    BY <1>6 DEF ExistsBijection
  <2> QED
    BY <2>1, FS_CountingElements
<1> QED
  BY <1>5, <1>7

LEMMA IdsFinite == IsFiniteSet(Ids) /\ \A S \in SUBSET Ids : IsFiniteSet(S)
<1>1. 1 \in Int /\ MaxRows \in Int
  BY BudgetAssumption
<1>2. IsFiniteSet(Ids)
  BY <1>1, FS_Interval DEF Ids
<1> QED
  BY <1>2, FS_Subset

(* The calls in flight may be one more while there is a permit, and may       *)
(* always be fewer.                                                           *)
LEMMA OneMoreCall ==
    ASSUME inFlight \in SUBSET Ids, HasPermit, NEW i \in Ids
    PROVE  Cardinality(inFlight \union {i}) <= Workers
<1>1. IsFiniteSet(inFlight)
  BY IdsFinite
<1>2. Cardinality(inFlight) \in Nat
  BY <1>1, FS_CardinalityType
<1>3. \/ Cardinality(inFlight \union {i}) = Cardinality(inFlight)
      \/ Cardinality(inFlight \union {i}) = Cardinality(inFlight) + 1
  BY <1>1, FS_AddElement
<1> QED
  BY <1>2, <1>3, ReplayAssumption DEF HasPermit

LEMMA FewerCalls ==
    ASSUME inFlight \in SUBSET Ids, NEW S \in SUBSET inFlight, NEW n \in Nat, Cardinality(inFlight) <= n
    PROVE  Cardinality(S) <= n /\ Cardinality(inFlight) \in Nat /\ Cardinality(S) \in Nat
<1>1. IsFiniteSet(inFlight)
  BY IdsFinite
<1>2. Cardinality(S) <= Cardinality(inFlight) /\ Cardinality(inFlight) \in Nat
  BY <1>1, FS_Subset, FS_CardinalityType
<1>3. Cardinality(S) \in Nat
  BY IdsFinite, FS_CardinalityType
<1> QED
  BY <1>2, <1>3

------------------------------------------------------------------------------
(* Rows.                                                                      *)

LEMMA RowFields ==
    ASSUME NEW row \in Row
    PROVE  /\ row.st \in {"absent", "queued", "sent_pending", "removed"}
           /\ row.media \in SUBSET Names /\ row.kept \in BOOLEAN
           /\ row.opaque \in Nat /\ row.inline \in Nat /\ row.meta \in Nat
           /\ row.ver \in 0 .. 2
  BY BudgetAssumption DEF Row, Sizes

LEMMA NoRowType == NoRow \in Row /\ NoRow.media = {} /\ NoRow.st = "absent"
<1>1. (CHOOSE ch \in Chats : TRUE) \in Chats
  BY BudgetAssumption
<1>2. 0 \in Sizes
  BY BudgetAssumption DEF Sizes
<1> QED
  BY <1>1, <1>2 DEF NoRow, Row

(* A row keeps its request, its files and its size.                           *)
Alike(r, q) ==
    /\ r.media = q.media /\ r.ver = q.ver /\ r.kept = q.kept /\ r.chat = q.chat
    /\ r.opaque = q.opaque /\ r.inline = q.inline /\ r.meta = q.meta

(* The transactions that remove a row, and the one that holds it or not.      *)
LEMMA RemoveEffect ==
    ASSUME StoreTypeOK, NEW i \in Ids, Delete(i) \/ DeleteKeepingMedia(i)
    PROVE  /\ rows' \in [Ids -> Row]
           /\ \A j \in Ids : Alike(rows'[j], rows[j]) /\ (j # i => rows'[j] = rows[j])
           /\ rows'[i].st = "removed"
<1>1. rows \in [Ids -> Row] /\ rows[i] \in Row
  BY DEF StoreTypeOK
<1> DEFINE q == [rows[i] EXCEPT !.st = "removed"]
<1>2. q \in Row /\ q.st = "removed" /\ Alike(q, rows[i])
  BY <1>1 DEF Row, Alike
<1>3. rows' = [rows EXCEPT ![i] = q]
  BY DEF Delete, DeleteKeepingMedia
<1>4. rows' \in [Ids -> Row] /\ rows'[i] = q /\ \A j \in Ids \ {i} : rows'[j] = rows[j]
  BY <1>1, <1>2, <1>3
<1> QED
  BY <1>2, <1>4 DEF Alike

LEMMA HeldEffect ==
    ASSUME StoreTypeOK, NEW i \in Ids, NEW h \in BOOLEAN, rows' = [rows EXCEPT ![i].held = h]
    PROVE  /\ rows' \in [Ids -> Row]
           /\ \A j \in Ids : /\ Alike(rows'[j], rows[j]) /\ rows'[j].st = rows[j].st
                             /\ j # i => rows'[j] = rows[j]
<1>1. rows \in [Ids -> Row] /\ rows[i] \in Row
  BY DEF StoreTypeOK
<1> DEFINE q == [rows[i] EXCEPT !.held = h]
<1>2. q \in Row /\ q.st = rows[i].st /\ Alike(q, rows[i])
  BY <1>1 DEF Row, Alike
<1>3. rows' = [rows EXCEPT ![i] = q]
  OBVIOUS
<1>4. rows' \in [Ids -> Row] /\ rows'[i] = q /\ \A j \in Ids \ {i} : rows'[j] = rows[j]
  BY <1>1, <1>2, <1>3
<1> QED
  BY <1>2, <1>4 DEF Alike

LEMMA HoldEffect ==
    ASSUME StoreTypeOK, NEW i \in Ids, NEW h \in BOOLEAN, Hold(i, h)
    PROVE  /\ rows' \in [Ids -> Row]
           /\ \A j \in Ids : /\ Alike(rows'[j], rows[j]) /\ rows'[j].st = rows[j].st
                             /\ j # i => rows'[j] = rows[j]
  BY HeldEffect DEF Hold

(* Files written: none of them was there.                                     *)
LEMMA StoreEffect ==
    ASSUME StoreTypeOK, NEW i \in Ids, NEW n \in Nat, StoreMediaStream(i, n)
    PROVE  \E new \in SUBSET Names :
              /\ new \cap files = {}
              /\ files' = files \union new
              /\ draft' = [row |-> i, new |-> new]
              /\ draft = NoDraft /\ UNCHANGED <<rows, trash, swept>>
<1> DEFINE new == CHOOSE S \in SUBSET Unused : Cardinality(S) = n
<1>1. IsFiniteSet(Unused)
  BY BudgetAssumption, FS_Subset DEF Unused
<1>2. \E S \in SUBSET Unused : Cardinality(S) = n
  <2>1. n <= Cardinality(Unused)
    <3>1. Cardinality(Unused) \in Nat
      BY <1>1, FS_CardinalityType
    <3> QED
      BY <3>1 DEF StoreMediaStream
  <2> QED
    BY <1>1, <2>1, SubsetOfSize
<1>3. new \in SUBSET Unused
  BY <1>2
<1>4. files' = files \union new /\ draft' = [row |-> i, new |-> new]
  BY DEF StoreMediaStream
<1> HIDE DEF new
<1> QED
  BY <1>3, <1>4 DEF StoreMediaStream, Unwritten, Unused

(* A row is written together with the files drafted for it.                   *)
LEMMA CommitEffect ==
    ASSUME StoreTypeOK, NEW row \in Row, draft.row \in Ids, CommitDraft(row)
    PROVE  /\ rows' \in [Ids -> Row] /\ rows'[draft.row] = row
           /\ \A j \in Ids : j # draft.row => rows'[j] = rows[j]
           /\ draft' = NoDraft
  BY DEF StoreTypeOK, CommitDraft

(* Nothing is drafted.                                                        *)
LEMMA NoDraftType ==
    /\ NoDraft \in [row : 0 .. MaxRows, new : SUBSET Names]
    /\ NoDraft.new = {} /\ NoDraft.row \notin Ids
  BY BudgetAssumption DEF NoDraft, Ids

------------------------------------------------------------------------------
(* Files and their owners.  Each transaction is of one of these kinds.        *)

Files == FilesOwned /\ NoOrphans
StillUp == UNCHANGED swept /\ (life' = "up" => life = "up")
MediaKept == \A i \in Ids : rows'[i].media = rows[i].media

(* Nothing happens to files.                                                  *)
LEMMA FilesKept ==
    ASSUME Files, StillUp, UNCHANGED <<files, draft, trash>>, MediaKept,
           \A i \in Ids : Owner(i)' <=> Owner(i)
    PROVE  Files'
<1>1. FilesOwned'
  BY DEF Files, FilesOwned, MediaKept
<1>2. NoOrphans'
  BY DEF Files, NoOrphans, MediaKept, StillUp
<1> QED
  BY <1>1, <1>2 DEF Files

(* Rows give up their files: what they had is unlinked next.                  *)
LEMMA FilesDiscarded ==
    ASSUME Files, StillUp, UNCHANGED <<files, draft>>, MediaKept,
           NEW S \in SUBSET Ids, \A i \in S : Owner(i),
           \A i \in Ids : Owner(i)' <=> Owner(i) /\ i \notin S,
           trash' = trash \union UNION {rows[i].media : i \in S}
    PROVE  Files'
<1>1. \A f : f \in trash' <=> f \in trash \/ \E i \in S : f \in rows[i].media
  OBVIOUS
<1>2. \A i \in S : rows[i].media \subseteq files \ (trash \union draft.new)
  BY DEF Files, FilesOwned
<1>3. trash' \subseteq files' /\ draft.new \subseteq files \ trash'
  BY <1>1, <1>2 DEF Files, FilesOwned
<1>4. ASSUME NEW i \in Ids, Owner(i)'
      PROVE  rows[i].media \subseteq files \ (trash' \union draft.new)
  <2>1. Owner(i) /\ i \notin S
    BY <1>4
  <2>2. rows[i].media \subseteq files \ (trash \union draft.new)
    BY <2>1 DEF Files, FilesOwned
  <2>3. \A j \in S : rows[i].media \cap rows[j].media = {}
    BY <2>1 DEF Files, FilesOwned
  <2> QED
    BY <2>2, <2>3, <1>1
<1>5. \A i, j \in Ids : i # j /\ Owner(i)' /\ Owner(j)' => rows[i].media \cap rows[j].media = {}
  BY DEF Files, FilesOwned
<1>6. FilesOwned'
  BY <1>3, <1>4, <1>5 DEF FilesOwned, MediaKept
<1>7. NoOrphans'
  <2> SUFFICES ASSUME life' = "up", swept', NEW f \in files'
               PROVE  f \in trash' \union draft'.new \/ \E i \in Ids : Owner(i)' /\ f \in rows'[i].media
    BY DEF NoOrphans
  <2>1. f \in trash \union draft.new \/ \E i \in Ids : Owner(i) /\ f \in rows[i].media
    BY DEF Files, NoOrphans, StillUp
  <2> QED
    BY <2>1, <1>1 DEF MediaKept
<1> QED
  BY <1>6, <1>7 DEF Files

(* Files are written.                                                         *)
LEMMA FilesWritten ==
    ASSUME Files, StillUp, UNCHANGED <<rows, trash>>, \A i \in Ids : Owner(i)' <=> Owner(i),
           NEW new, new \cap files = {}, files' = files \union new,
           draft'.new = new, draft.new = {}
    PROVE  Files'
<1>1. FilesOwned'
  BY DEF Files, FilesOwned
<1>2. NoOrphans'
  BY DEF Files, NoOrphans, StillUp
<1> QED
  BY <1>1, <1>2 DEF Files

(* The row that is written owns them, or nobody does and they are removed.    *)
LEMMA FilesCommitted ==
    ASSUME Files, StillUp, UNCHANGED <<files, trash>>, draft'.new = {},
           NEW k \in Ids, Owner(k)', rows'[k].media = draft.new,
           Owner(k) => rows[k].media = {},
           \A i \in Ids : i # k => (Owner(i)' <=> Owner(i)) /\ rows'[i].media = rows[i].media
    PROVE  Files'
<1>1. FilesOwned'
  BY DEF Files, FilesOwned
<1>2. NoOrphans'
  BY DEF Files, NoOrphans, StillUp
<1> QED
  BY <1>1, <1>2 DEF Files

LEMMA FilesRolledBack ==
    ASSUME Files, StillUp, UNCHANGED trash, MediaKept, \A i \in Ids : Owner(i)' <=> Owner(i),
           files' = files \ draft.new, draft'.new = {}
    PROVE  Files'
<1>1. FilesOwned'
  BY DEF Files, FilesOwned, MediaKept
<1>2. NoOrphans'
  BY DEF Files, NoOrphans, StillUp, MediaKept
<1> QED
  BY <1>1, <1>2 DEF Files

(* What was removed is unlinked.                                              *)
LEMMA FilesUnlinked ==
    ASSUME Files, StillUp, UNCHANGED <<rows, draft>>, \A i \in Ids : Owner(i)' <=> Owner(i),
           files' = files \ trash, trash' = {}
    PROVE  Files'
<1>1. FilesOwned'
  BY DEF Files, FilesOwned
<1>2. NoOrphans'
  BY DEF Files, NoOrphans, StillUp
<1> QED
  BY <1>1, <1>2 DEF Files

------------------------------------------------------------------------------
(* Steps that leave the store and the calls alone.                            *)

Places == {"clear", "lock", "harvest", "sweep", "reconcile", "retries", "heads", "wait", "drain"}

LoopTypes ==
    /\ life \in {"up", "stopping", "down"} /\ pc \in Places
    /\ todo \in SUBSET Ids /\ inHand \in 0 .. MaxRows
    /\ event \in BOOLEAN /\ deadline \in BOOLEAN
    /\ later \in SUBSET Ids /\ quarantined \in SUBSET Ids
    /\ troubles \in 0 .. MaxTroubles /\ starts \in 0 .. MaxStarts
CallTypes ==
    /\ done \in SUBSET inFlight /\ inFlight \in SUBSET Ids /\ retries \in SUBSET Ids
    /\ Cardinality(inFlight) <= Workers

LEMMA TypesSplit == TypeOK <=> StoreTypeOK /\ LoopTypes /\ CallTypes
  BY DEF TypeOK, LoopTypes, CallTypes, Places

LEMMA Parts ==
    ASSUME BInv
    PROVE  /\ StoreTypeOK /\ LoopTypes /\ CallTypes /\ Files /\ InlineOwnsNone
           /\ CallsKept /\ WorkAhead /\ Drafted /\ DownIsEmpty
  BY TypesSplit DEF BInv, Control, Files

LEMMA Whole ==
    ASSUME StoreTypeOK', LoopTypes', CallTypes', Files', InlineOwnsNone',
           CallsKept', WorkAhead', Drafted', DownIsEmpty'
    PROVE  BInv'
<1>1. TypeOK'
  BY DEF TypeOK, LoopTypes, CallTypes, Places
<1> QED
  BY <1>1 DEF BInv, Control, Files

(* Adverse events are counted.                                                *)
LEMMA TroubleType ==
    ASSUME troubles \in 0 .. MaxTroubles, Trouble \/ UNCHANGED troubles
    PROVE  troubles' \in 0 .. MaxTroubles
  BY ReplayAssumption DEF Trouble

(* While the worker has the lock only its own conversion is being written.    *)
LEMMA WorkerAlone ==
    ASSUME BInv
    PROVE  /\ pc \in {"harvest", "reconcile", "retries", "drain"} /\ life # "down" => Unwritten
           /\ pc # "heads" => inHand = 0
           /\ pc = "heads" => life # "down"
<1>1. WorkAhead /\ Drafted /\ DownIsEmpty
  BY Parts
<1> QED
  BY <1>1 DEF WorkAhead, Drafted, DownIsEmpty, WorkerLocks

Quiet ==
    /\ UNCHANGED <<store, inFlight, retries, inHand, starts>>
    /\ life' \in {life, "stopping"} /\ pc' \in Places
    /\ life = "down" => life' = "down" /\ pc' = pc
    /\ todo' \in SUBSET Ids /\ later' \in SUBSET Ids /\ quarantined' \in SUBSET Ids
    /\ done' \in SUBSET inFlight
    /\ event' \in BOOLEAN /\ deadline' \in BOOLEAN
    /\ Trouble \/ UNCHANGED troubles

LEMMA QuietStep == ASSUME BInv, Quiet, WorkAhead', Drafted' PROVE BInv'
<1>0. /\ StoreTypeOK /\ LoopTypes /\ CallTypes /\ Files /\ InlineOwnsNone
      /\ CallsKept /\ DownIsEmpty
  BY Parts
<1>1. UNCHANGED <<rows, files, draft, trash, swept, inFlight, retries>>
  BY DEF Quiet, store
<1>2. StoreTypeOK' /\ InlineOwnsNone'
  BY <1>0, <1>1 DEF StoreTypeOK, InlineOwnsNone
<1>3. LoopTypes'
  BY <1>0, TroubleType DEF LoopTypes, Quiet
<1>4. CallTypes'
  BY <1>0, <1>1 DEF CallTypes, Quiet
<1>5. CallsKept'
  BY <1>0, <1>1 DEF CallsKept, Oversized
<1>6. DownIsEmpty'
  BY <1>0, <1>1 DEF DownIsEmpty, Quiet, LoopTypes
<1>7. Files'
  <2>1. \A i \in Ids : Owner(i)' <=> Owner(i)
    BY <1>1 DEF Owner, InTable
  <2>2. StillUp /\ MediaKept
    BY <1>0, <1>1 DEF StillUp, MediaKept, Quiet, LoopTypes
  <2> QED
    BY <2>1, <2>2, <1>0, <1>1, FilesKept
<1> QED
  BY <1>2, <1>3, <1>4, <1>5, <1>6, <1>7, Whole

(* What lies ahead depends on rows, calls and the place in the loop only.     *)
LEMMA AheadKept ==
    ASSUME BInv, UNCHANGED <<rows, draft, inFlight, retries, inHand>>, pc' = pc,
           todo' \in SUBSET todo, life' = "down" => life = "down", life = "down" => life' = "down"
    PROVE  WorkAhead' /\ Drafted'
<1>0. WorkAhead /\ Drafted
  BY Parts
<1>1. WorkAhead'
  BY <1>0 DEF WorkAhead, Submittable, Queued, Unwritten, HasPermit, Oversized
<1>2. Drafted'
  BY <1>0 DEF Drafted, Submittable, Queued, Unwritten, HasPermit, WorkerLocks
<1> QED
  BY <1>1, <1>2

(* Callbacks and the clock.                                                   *)
LEMMA BackgroundStep ==
    ASSUME BInv, NEW i \in Ids, CallEnds(i) \/ NotBeforeComes(i)
    PROVE  BInv'
<1>0. LoopTypes /\ CallTypes
  BY Parts
<1>1. UNCHANGED <<store, life, pc, todo, inHand, deadline, inFlight, retries, quarantined, troubles, starts>>
  BY DEF CallEnds, NotBeforeComes, loop, calls
<1>2. /\ done' \in SUBSET inFlight /\ later' \in SUBSET Ids /\ event' \in BOOLEAN
  BY <1>0 DEF CallEnds, NotBeforeComes, LoopTypes, CallTypes
<1>3. Quiet
  BY <1>0, <1>1, <1>2 DEF Quiet, LoopTypes
<1>4. UNCHANGED <<rows, draft>>
  BY <1>1 DEF store
<1> QED
  BY <1>1, <1>3, <1>4, AheadKept, QuietStep

(* The worker goes from one part of its loop to the next.                     *)
LoopMoves ==
    \/ ClearEvent \/ HarvestBegins \/ HarvestDone \/ DispatchBegins \/ ReconcileEnds
    \/ HeadsBegin \/ HeadsEnd \/ Wait \/ \E i \in Ids : ReceiptTooLarge(i)

LEMMA HeadsAreQueued ==
    ASSUME NEW S PROVE Heads(S) \in SUBSET Ids /\ \A i \in Heads(S) : Queued(i)
  BY DEF Heads, Ready

LEMMA LoopMovesStep == ASSUME BInv, LoopMoves PROVE BInv'
<1>0. LoopTypes /\ CallTypes /\ WorkAhead /\ Drafted
  BY Parts
<1>1. UNCHANGED <<store, inHand, starts, inFlight, done, retries>> /\ life # "down"
  BY DEF LoopMoves, ClearEvent, HarvestBegins, HarvestDone, DispatchBegins, ReconcileEnds,
         HeadsBegin, HeadsEnd, Wait, ReceiptTooLarge, StopForPersistenceError, At, calls
<1>2. life' \in {life, "stopping"} /\ pc' \in Places
  BY DEF LoopMoves, ClearEvent, HarvestBegins, HarvestDone, DispatchBegins, ReconcileEnds,
         HeadsBegin, HeadsEnd, Wait, ReceiptTooLarge, StopForPersistenceError, At, Places
<1>3. todo' \in SUBSET Ids /\ quarantined' \in SUBSET Ids
  <2>1. \A S : Heads(S) \in SUBSET Ids
    BY HeadsAreQueued
  <2>2. StillQuarantined \in SUBSET Ids
    BY <1>0 DEF StillQuarantined, LoopTypes
  <2> QED
    BY <1>0, <2>1, <2>2
       DEF LoopMoves, ClearEvent, HarvestBegins, HarvestDone, DispatchBegins, ReconcileEnds,
           HeadsBegin, HeadsEnd, Wait, ReceiptTooLarge, StopForPersistenceError, LoopTypes, CallTypes
<1>4. /\ later' \in SUBSET Ids /\ event' \in BOOLEAN /\ deadline' \in BOOLEAN
      /\ UNCHANGED troubles
  BY <1>0 DEF LoopMoves, ClearEvent, HarvestBegins, HarvestDone, DispatchBegins, ReconcileEnds,
              HeadsBegin, HeadsEnd, Wait, ReceiptTooLarge, StopForPersistenceError, LoopTypes, calls
<1>5. Quiet
  BY <1>0, <1>1, <1>2, <1>3, <1>4 DEF Quiet, CallTypes
<1>6. UNCHANGED <<rows, draft>>
  BY <1>1 DEF store
<1>7. inHand = 0
  BY WorkerAlone DEF LoopMoves, ClearEvent, HarvestBegins, HarvestDone, DispatchBegins, ReconcileEnds,
                     HeadsBegin, HeadsEnd, Wait, ReceiptTooLarge, At
<1>8. WorkAhead'
  <2>1. pc' = "retries" => todo' = retries
    BY DEF LoopMoves, ClearEvent, HarvestBegins, HarvestDone, DispatchBegins, ReconcileEnds,
           HeadsBegin, HeadsEnd, Wait, ReceiptTooLarge, StopForPersistenceError, At
  <2>2. pc' = "heads" => \E S : todo' = Heads(S)
    BY DEF LoopMoves, ClearEvent, HarvestBegins, HarvestDone, DispatchBegins, ReconcileEnds,
           HeadsBegin, HeadsEnd, Wait, ReceiptTooLarge, StopForPersistenceError, At
  <2> QED
    BY <2>1, <2>2, <1>1, <1>6, <1>7, HeadsAreQueued DEF WorkAhead, Queued
<1>9. Drafted'
  <2>1. ~Unwritten => pc \in {"clear", "lock", "wait"} /\ pc' \in {"clear", "lock", "wait"}
    BY <1>1, WorkerAlone
       DEF LoopMoves, ClearEvent, HarvestBegins, HarvestDone, DispatchBegins, ReconcileEnds,
           HeadsBegin, HeadsEnd, Wait, ReceiptTooLarge, StopForPersistenceError, At
  <2> QED
    BY <2>1, <1>0, <1>1, <1>6 DEF Drafted, Unwritten, WorkerLocks
<1> QED
  BY <1>5, <1>8, <1>9, QuietStep

LEMMA StopStep == ASSUME BInv, Stop PROVE BInv'
<1>0. LoopTypes /\ CallTypes
  BY Parts
<1>1. Quiet
  BY <1>0 DEF Stop, Quiet, LoopTypes, CallTypes, loop
<1>2. UNCHANGED <<rows, draft>>
  BY DEF Stop, store
<1> QED
  BY <1>0, <1>1, <1>2, AheadKept, QuietStep DEF Stop, loop

(* A row or a delayed media edit is looked at and left for another sweep.     *)
LEMMA PassedStep ==
    ASSUME BInv, NEW i \in Ids, RetryWaits(i) \/ PassOver(i) \/ Quarantine(i) \/ PutOff(i)
    PROVE  BInv'
<1>0. LoopTypes /\ CallTypes
  BY Parts
<1>1. UNCHANGED <<store, life, pc, inHand, event, inFlight, done, retries, later, starts>>
  BY DEF RetryWaits, PassOver, Quarantine, PutOff, Passed, calls
<1>2. todo' = todo \ {i} /\ quarantined' \in SUBSET Ids /\ deadline' \in BOOLEAN
  BY <1>0 DEF RetryWaits, PassOver, Quarantine, PutOff, Passed, LoopTypes
<1>3. Trouble \/ UNCHANGED troubles
  BY DEF RetryWaits, PassOver, Quarantine, PutOff
<1>4. Quiet
  BY <1>0, <1>1, <1>2, <1>3 DEF Quiet, LoopTypes, CallTypes
<1>5. UNCHANGED <<rows, draft>>
  BY <1>1 DEF store
<1> QED
  BY <1>1, <1>2, <1>4, <1>5, AheadKept, QuietStep

------------------------------------------------------------------------------
(* Harvest.                                                                   *)

(* Calls that stay as they are keep their rows.                               *)
LEMMA CallsStay ==
    ASSUME CallsKept, inFlight' \in SUBSET inFlight, retries' \in SUBSET retries,
           \A j \in inFlight' \union retries' : rows'[j].st = rows[j].st /\ Alike(rows'[j], rows[j])
    PROVE  CallsKept'
<1>1. \A j \in inFlight' \union retries' : Oversized(j)' <=> Oversized(j)
  BY DEF Oversized, StoredSize, Alike
<1> QED
  BY <1>1 DEF CallsKept, Alike

(* Rows keep their media and their version.                                   *)
LEMMA InlineStays ==
    ASSUME InlineOwnsNone, \A j \in Ids : Alike(rows'[j], rows[j])
    PROVE  InlineOwnsNone' /\ MediaKept
  BY DEF InlineOwnsNone, MediaKept, Alike

(* What every harvest does to the loop and to the calls in flight.            *)
LEMMA HarvestedEffect ==
    ASSUME BInv, NEW i \in Ids, Harvested(i), UNCHANGED <<draft, swept>>,
           retries' \in SUBSET Ids, later' \in SUBSET Ids, deadline' \in BOOLEAN,
           Trouble \/ UNCHANGED troubles
    PROVE  /\ LoopTypes' /\ CallTypes' /\ WorkAhead' /\ Drafted' /\ DownIsEmpty'
           /\ StillUp /\ i \in inFlight /\ i \notin retries /\ Owner(i)
           /\ rows[i].st = IF rows[i].kept THEN "queued" ELSE "removed"
<1>0. LoopTypes /\ CallTypes /\ CallsKept /\ WorkAhead /\ Drafted /\ DownIsEmpty
  BY Parts
<1>1. /\ i \in inFlight /\ i \notin retries /\ Owner(i)
      /\ rows[i].st = IF rows[i].kept THEN "queued" ELSE "removed"
  BY <1>0 DEF Harvested, CallTypes, CallsKept, Owner
<1>2. /\ pc \in {"harvest", "drain"} /\ life # "down" /\ UNCHANGED <<life, pc, inHand>>
      /\ inFlight' = inFlight \ {i} /\ done' = done \ {i} /\ todo' = todo \ {i}
      /\ event' = TRUE /\ UNCHANGED <<quarantined, starts>>
  BY DEF Harvested, At
<1>3. Unwritten /\ inHand = 0
  BY <1>2, WorkerAlone
<1>4. LoopTypes'
  BY <1>0, <1>2, TroubleType DEF LoopTypes
<1>5. CallTypes'
  <2>1. Workers \in Nat /\ inFlight' \in SUBSET inFlight
    BY <1>2, ReplayAssumption
  <2>2. Cardinality(inFlight') <= Workers
    BY <1>0, <2>1, FewerCalls DEF CallTypes
  <2> QED
    BY <1>0, <1>2, <2>2 DEF CallTypes
<1>6. WorkAhead' /\ Drafted' /\ DownIsEmpty'
  BY <1>2, <1>3 DEF WorkAhead, Drafted, DownIsEmpty, Unwritten
<1> QED
  BY <1>1, <1>2, <1>4, <1>5, <1>6 DEF StillUp

(* A call is over: its row goes and its files with it.                        *)
LEMMA HarvestTerminalStep == ASSUME BInv, NEW i \in Ids, HarvestTerminal(i) PROVE BInv'
<1>0. StoreTypeOK /\ LoopTypes /\ CallTypes /\ CallsKept /\ Files /\ InlineOwnsNone
  BY Parts
<1>1. /\ Harvested(i) /\ UNCHANGED <<deadline, retries, later, troubles, files, draft, swept>>
      /\ inFlight' = inFlight \ {i}
      /\ trash' = trash \union UNION {rows[k].media : k \in {i}}
  BY DEF HarvestTerminal, Delete, CleanupPayloadMedia, Harvested
<1>2. /\ LoopTypes' /\ CallTypes' /\ WorkAhead' /\ Drafted' /\ DownIsEmpty'
      /\ StillUp /\ i \in inFlight /\ i \notin retries /\ Owner(i)
      /\ rows[i].st = IF rows[i].kept THEN "queued" ELSE "removed"
  BY <1>0, <1>1, HarvestedEffect DEF LoopTypes, CallTypes
<1>3. /\ rows' \in [Ids -> Row]
      /\ \A j \in Ids : Alike(rows'[j], rows[j]) /\ (j # i => rows'[j] = rows[j])
      /\ rows'[i].st = "removed"
  <2>1. CASE rows[i].kept
    BY <2>1, <1>0, RemoveEffect DEF HarvestTerminal
  <2>2. CASE ~rows[i].kept
    BY <2>2, <1>0, <1>2 DEF HarvestTerminal, CleanupPayloadMedia, StoreTypeOK, Alike
  <2> QED
    BY <2>1, <2>2
<1>4. \A j \in Ids : Owner(j)' <=> Owner(j) /\ j \notin {i}
  BY <1>1, <1>2, <1>3 DEF Owner, InTable
<1>5. InlineOwnsNone' /\ MediaKept
  BY <1>0, <1>3, InlineStays
<1>6. Files'
  BY <1>0, <1>1, <1>2, <1>4, <1>5, FilesDiscarded
<1>7. StoreTypeOK'
  <2>1. rows[i].media \in SUBSET Names
    BY <1>0, RowFields DEF StoreTypeOK
  <2> QED
    BY <1>0, <1>1, <1>3, <2>1 DEF StoreTypeOK
<1>8. CallsKept'
  BY <1>0, <1>1, <1>2, <1>3, CallsStay DEF CallTypes
<1> QED
  BY <1>2, <1>5, <1>6, <1>7, <1>8, Whole

(* A call is to be made again, or nobody knows whether it was made: its row   *)
(* is in the table still.                                                     *)
LEMMA HarvestHeldStep ==
    ASSUME BInv, NEW i \in Ids, HarvestRetry(i) \/ HarvestUncertain(i)
    PROVE  BInv'
<1>0. StoreTypeOK /\ LoopTypes /\ CallTypes /\ CallsKept /\ Files /\ InlineOwnsNone
  BY Parts
<1>1. /\ Harvested(i) /\ UNCHANGED <<retries, files, draft, trash, swept>> /\ rows[i].kept
      /\ inFlight' = inFlight \ {i} /\ Trouble
  BY DEF HarvestRetry, HarvestUncertain, Hold, Harvested
<1>2. later' \in SUBSET Ids /\ deadline' \in BOOLEAN
  BY <1>0 DEF HarvestRetry, HarvestUncertain, LoopTypes
<1>3. /\ LoopTypes' /\ CallTypes' /\ WorkAhead' /\ Drafted' /\ DownIsEmpty'
      /\ StillUp /\ i \in inFlight /\ i \notin retries /\ Owner(i)
      /\ rows[i].st = "queued"
  BY <1>0, <1>1, <1>2, HarvestedEffect DEF CallTypes
<1>4. /\ rows' \in [Ids -> Row]
      /\ \A j \in Ids : /\ Alike(rows'[j], rows[j]) /\ rows'[j].st = rows[j].st
                        /\ j # i => rows'[j] = rows[j]
  <2>1. PICK h \in BOOLEAN : Hold(i, h)
    BY DEF HarvestRetry, HarvestUncertain
  <2> QED
    BY <2>1, <1>0, HoldEffect
<1>5. \A j \in Ids : Owner(j)' <=> Owner(j)
  BY <1>1, <1>3, <1>4 DEF Owner, InTable
<1>6. InlineOwnsNone' /\ MediaKept
  BY <1>0, <1>4, InlineStays
<1>7. Files'
  BY <1>0, <1>1, <1>3, <1>5, <1>6, FilesKept
<1>8. StoreTypeOK'
  BY <1>0, <1>1, <1>4 DEF StoreTypeOK
<1>9. CallsKept'
  BY <1>0, <1>1, <1>4, CallsStay DEF CallTypes
<1> QED
  BY <1>3, <1>6, <1>7, <1>8, <1>9, Whole

(* A media edit waits to be made again, without a row.                        *)
LEMMA HarvestMediaRetryStep == ASSUME BInv, NEW i \in Ids, HarvestMediaRetry(i) PROVE BInv'
<1>0. StoreTypeOK /\ LoopTypes /\ CallTypes /\ CallsKept /\ Files /\ InlineOwnsNone
  BY Parts
<1>1. /\ Harvested(i) /\ UNCHANGED <<rows, files, draft, trash, swept, later>> /\ ~rows[i].kept
      /\ inFlight' = inFlight \ {i} /\ retries' = retries \union {i}
      /\ Trouble /\ deadline' = TRUE
  BY DEF HarvestMediaRetry, store, Harvested
<1>2. /\ LoopTypes' /\ CallTypes' /\ WorkAhead' /\ Drafted' /\ DownIsEmpty'
      /\ StillUp /\ i \in inFlight /\ i \notin retries /\ Owner(i)
  BY <1>0, <1>1, HarvestedEffect DEF LoopTypes, CallTypes
<1>3. \A j \in Ids : Owner(j)' <=> Owner(j)
  BY <1>1, <1>2 DEF Owner, InTable
<1>4. MediaKept /\ InlineOwnsNone' /\ StoreTypeOK'
  BY <1>0, <1>1 DEF MediaKept, InlineOwnsNone, StoreTypeOK
<1>5. Files'
  BY <1>0, <1>1, <1>2, <1>3, <1>4, FilesKept
<1>6. CallsKept'
  BY <1>0, <1>1, <1>2 DEF CallsKept, Oversized
<1> QED
  BY <1>2, <1>4, <1>5, <1>6, Whole

------------------------------------------------------------------------------
(* Receipts and delayed media edits.                                          *)

(* A step that removes a row which no call stands for.                        *)
LEMMA RowRemoved ==
    ASSUME BInv, NEW i \in Ids, InTable(i), i \notin inFlight \union retries, i # inHand,
           Delete(i), UNCHANGED <<life, pc, inHand, inFlight, done, retries, later, quarantined, starts>>,
           life # "down", Unwritten, Trouble \/ UNCHANGED troubles,
           event' \in BOOLEAN, deadline' \in BOOLEAN,
           todo' \in SUBSET todo, pc = "heads" => i \notin todo'
    PROVE  BInv'
<1>0. /\ StoreTypeOK /\ LoopTypes /\ CallTypes /\ CallsKept /\ Files /\ InlineOwnsNone
      /\ WorkAhead /\ Drafted /\ DownIsEmpty
  BY Parts
<1>1. /\ UNCHANGED <<files, draft, swept>>
      /\ trash' = trash \union UNION {rows[k].media : k \in {i}}
  BY DEF Delete
<1>2. /\ rows' \in [Ids -> Row]
      /\ \A j \in Ids : Alike(rows'[j], rows[j]) /\ (j # i => rows'[j] = rows[j])
      /\ rows'[i].st = "removed"
  BY <1>0, RemoveEffect
<1>3. \A j \in Ids : Owner(j)' <=> Owner(j) /\ j \notin {i}
  BY <1>2 DEF Owner, InTable
<1>4. InlineOwnsNone' /\ MediaKept
  BY <1>0, <1>2, InlineStays
<1>5. StillUp /\ Owner(i)
  BY <1>1 DEF StillUp, Owner
<1>6. Files'
  BY <1>0, <1>1, <1>3, <1>4, <1>5, FilesDiscarded
<1>7. StoreTypeOK'
  <2>1. rows[i].media \in SUBSET Names
    BY <1>0, RowFields DEF StoreTypeOK
  <2> QED
    BY <1>0, <1>1, <1>2, <2>1 DEF StoreTypeOK
<1>8. CallsKept'
  BY <1>0, <1>2, CallsStay DEF CallTypes, Alike
<1>9. LoopTypes' /\ CallTypes'
  BY <1>0, TroubleType DEF LoopTypes, CallTypes
<1>10. WorkAhead'
  <2>1. ASSUME inHand # 0
        PROVE  pc' = "heads" /\ Unwritten' /\ Submittable(inHand)'
    <3>1. inHand \in Ids /\ rows'[inHand] = rows[inHand]
      BY <2>1, <1>0, <1>2 DEF LoopTypes, Ids
    <3> QED
      BY <2>1, <3>1, <1>0, <1>1 DEF WorkAhead, Submittable, Queued, HasPermit, Unwritten
  <2>2. \A j \in todo' : pc = "heads" => rows'[j] = rows[j]
    BY <1>0, <1>2 DEF LoopTypes
  <2>3. inHand' = inHand
    OBVIOUS
  <2> QED
    BY <2>1, <2>2, <2>3, <1>0 DEF WorkAhead, Queued
<1>11. Drafted' /\ DownIsEmpty'
  BY <1>0, <1>1 DEF Drafted, Unwritten, DownIsEmpty
<1> QED
  BY <1>4, <1>6, <1>7, <1>8, <1>9, <1>10, <1>11, Whole

LEMMA ReconcileReceiptStep == ASSUME BInv, NEW i \in Ids, ReconcileReceipt(i) PROVE BInv'
<1>0. LoopTypes /\ CallsKept
  BY Parts
<1>1. /\ rows[i].st = "sent_pending" /\ pc = "reconcile" /\ life # "down" /\ Delete(i)
      /\ UNCHANGED <<life, pc, todo, inHand, event, deadline, inFlight, done, retries, later,
                     quarantined, troubles, starts>>
  BY DEF ReconcileReceipt, At, loop, calls
<1>2. Unwritten /\ inHand = 0
  BY <1>1, WorkerAlone
<1>3. i \notin inFlight \union retries /\ InTable(i) /\ i # inHand
  BY <1>0, <1>1, <1>2, BudgetAssumption DEF CallsKept, InTable, Ids
<1>4. event' \in BOOLEAN /\ deadline' \in BOOLEAN
  BY <1>0, <1>1 DEF LoopTypes
<1> QED
  BY <1>1, <1>2, <1>3, <1>4, RowRemoved

(* A delayed media edit is made again.                                        *)
LEMMA RetryAgainStep == ASSUME BInv, NEW i \in Ids, RetryAgain(i) PROVE BInv'
<1>0. /\ StoreTypeOK /\ LoopTypes /\ CallTypes /\ CallsKept /\ Files /\ InlineOwnsNone
      /\ WorkAhead /\ Drafted /\ DownIsEmpty
  BY Parts
<1>1. /\ pc = "retries" /\ life # "down" /\ i \in todo /\ HasPermit
      /\ inFlight' = inFlight \union {i} /\ retries' = retries \ {i} /\ todo' = todo \ {i}
      /\ UNCHANGED <<rows, files, draft, trash, swept, life, pc, inHand, event, deadline, done, later,
                     quarantined, troubles, starts>>
  BY DEF RetryAgain, At, store
<1>2. i \in retries /\ Unwritten /\ inHand = 0
  BY <1>0, <1>1, WorkerAlone DEF WorkAhead
<1>3. \A j \in Ids : Owner(j)' <=> Owner(j)
  BY <1>1, <1>2 DEF Owner, InTable
<1>4. MediaKept /\ InlineOwnsNone' /\ StoreTypeOK' /\ StillUp
  BY <1>0, <1>1 DEF MediaKept, InlineOwnsNone, StoreTypeOK, StillUp
<1>5. Files'
  BY <1>0, <1>1, <1>3, <1>4, FilesKept
<1>6. LoopTypes'
  BY <1>0, <1>1 DEF LoopTypes
<1>7. CallTypes'
  <2>1. Cardinality(inFlight \union {i}) <= Workers
    BY <1>0, <1>1, OneMoreCall DEF CallTypes
  <2> QED
    BY <1>0, <1>1, <2>1 DEF CallTypes
<1>8. CallsKept'
  BY <1>0, <1>1, <1>2 DEF CallsKept, Oversized
<1>9. WorkAhead' /\ Drafted' /\ DownIsEmpty'
  BY <1>0, <1>1, <1>2 DEF WorkAhead, Drafted, DownIsEmpty, Unwritten
<1> QED
  BY <1>4, <1>5, <1>6, <1>7, <1>8, <1>9, Whole

(* A delayed media edit that fails, and all of them at the stop, give up      *)
(* their files; their rows are gone already.                                  *)
LEMMA RetriesEnd ==
    ASSUME BInv, NEW S \in SUBSET retries, CleanupPayloadMedia(S), retries' = retries \ S,
           UNCHANGED <<life, inHand, event, deadline, inFlight, done, later, quarantined, starts>>,
           Trouble \/ UNCHANGED troubles, Unwritten, inHand = 0, life # "down",
           todo' \in SUBSET Ids, pc' \in Places, pc' # "heads",
           pc' = "retries" => todo' \subseteq retries'
    PROVE  BInv'
<1>0. /\ StoreTypeOK /\ LoopTypes /\ CallTypes /\ CallsKept /\ Files /\ InlineOwnsNone
      /\ WorkAhead /\ Drafted /\ DownIsEmpty
  BY Parts
<1>1. /\ UNCHANGED <<rows, files, draft, swept>>
      /\ trash' = trash \union UNION {rows[k].media : k \in S}
  BY DEF CleanupPayloadMedia
<1>2. S \in SUBSET Ids /\ \A k \in S : Owner(k) /\ ~InTable(k) /\ k \notin inFlight
  BY <1>0 DEF CallTypes, CallsKept, Owner, InTable
<1>3. \A j \in Ids : Owner(j)' <=> Owner(j) /\ j \notin S
  BY <1>1, <1>2 DEF Owner, InTable
<1>4. MediaKept /\ InlineOwnsNone' /\ StillUp
  BY <1>0, <1>1 DEF MediaKept, InlineOwnsNone, StillUp
<1>5. Files'
  BY <1>0, <1>1, <1>2, <1>3, <1>4, FilesDiscarded
<1>6. StoreTypeOK'
  <2>1. \A k \in S : rows[k].media \in SUBSET Names
    BY <1>0, <1>2, RowFields DEF StoreTypeOK
  <2> QED
    BY <1>0, <1>1, <2>1 DEF StoreTypeOK
<1>7. LoopTypes' /\ CallTypes'
  BY <1>0, TroubleType DEF LoopTypes, CallTypes
<1>8. CallsKept'
  BY <1>0, <1>1 DEF CallsKept, Oversized
<1>9. WorkAhead' /\ Drafted' /\ DownIsEmpty'
  BY <1>0, <1>1 DEF WorkAhead, Drafted, DownIsEmpty, Unwritten
<1> QED
  BY <1>4, <1>5, <1>6, <1>7, <1>8, <1>9, Whole

LEMMA FailBlockingRetryStep == ASSUME BInv, NEW i \in Ids, FailBlockingRetry(i) PROVE BInv'
<1>0. LoopTypes /\ CallTypes /\ WorkAhead
  BY Parts
<1>1. pc = "retries" /\ life # "down" /\ i \in todo /\ todo' = todo \ {i} /\ pc' = pc
  BY DEF FailBlockingRetry, At
<1>2. {i} \in SUBSET retries /\ Unwritten /\ inHand = 0
  BY <1>0, <1>1, WorkerAlone DEF WorkAhead
<1>3. retries' = retries \ {i} /\ todo' \subseteq retries' /\ todo' \in SUBSET Ids
  BY <1>0, <1>1 DEF FailBlockingRetry, WorkAhead, LoopTypes
<1> QED
  BY <1>1, <1>2, <1>3, RetriesEnd DEF FailBlockingRetry, Places

LEMMA DrainBeginsStep == ASSUME BInv, DrainBegins PROVE BInv'
<1>0. LoopTypes
  BY Parts
<1>1. pc = "clear" /\ life # "down" /\ Unwritten /\ pc' = "drain" /\ retries' = retries \ retries
  BY DEF DrainBegins, At
<1>2. inHand = 0
  BY <1>1, WorkerAlone
<1>3. todo' \in SUBSET Ids
  BY <1>0 DEF DrainBegins, LoopTypes
<1> QED
  BY <1>1, <1>2, <1>3, RetriesEnd DEF DrainBegins, Places

------------------------------------------------------------------------------
(* Heads.                                                                     *)

(* A head of a free destination is queued, and no call of its is under way.   *)
LEMMA FreeHead ==
    ASSUME BInv, NEW i \in Ids, Head(i), Free(i)
    PROVE  /\ pc = "heads" /\ life # "down" /\ i \in todo /\ Unwritten /\ inHand = 0
           /\ Queued(i) /\ InTable(i) /\ i \notin inFlight \union retries
<1>1. WorkAhead
  BY Parts
<1>2. i \notin inFlight \union retries
  BY DEF Free, Busy, RetryChats
<1> QED
  BY <1>1, <1>2 DEF Head, At, WorkAhead, Queued, InTable

(* A head is removed, or what it holds, and the sweep goes on.                *)
LEMMA HeadRemoved ==
    ASSUME BInv, NEW i \in Ids, Head(i), Free(i), Delete(i), Passed(i),
           UNCHANGED <<life, inFlight, done, retries, later, quarantined, starts>>,
           Trouble \/ UNCHANGED troubles, event' \in BOOLEAN, deadline' \in BOOLEAN
    PROVE  BInv'
<1>1. /\ pc = "heads" /\ life # "down" /\ Unwritten /\ inHand = 0
      /\ InTable(i) /\ i \notin inFlight \union retries
  BY FreeHead
<1>2. todo' = todo \ {i} /\ UNCHANGED <<pc, inHand>> /\ i # inHand
  BY <1>1, BudgetAssumption DEF Passed, Ids
<1> QED
  BY <1>1, <1>2, RowRemoved

(* The sweep goes on without it, for lack of its sender or of a thread.       *)
LEMMA HeadPassed ==
    ASSUME BInv, NEW i \in Ids, Head(i), UNCHANGED <<store, life, inFlight, done, retries, later, quarantined, starts>>,
           Passed(i), Trouble \/ UNCHANGED troubles, event' \in BOOLEAN, deadline' \in BOOLEAN
    PROVE  BInv'
<1>0. LoopTypes /\ CallTypes
  BY Parts
<1>1. Quiet
  BY <1>0 DEF Quiet, Passed, LoopTypes, CallTypes
<1>2. UNCHANGED <<rows, draft>>
  BY DEF store
<1> QED
  BY <1>1, <1>2, AheadKept, QuietStep DEF Passed

LEMMA NotSubmittedStep == ASSUME BInv, NEW i \in Ids, NotSubmitted(i) PROVE BInv'
<1>0. LoopTypes
  BY Parts
<1>1. /\ Head(i) /\ Free(i) /\ Trouble /\ Passed(i)
      /\ UNCHANGED <<life, inFlight, done, retries, later, quarantined, starts>>
  BY DEF NotSubmitted, Chosen, Admitted, calls
<1>2. event' \in BOOLEAN /\ deadline' \in BOOLEAN
  BY <1>0 DEF NotSubmitted, LoopTypes
<1>3. UNCHANGED store \/ Delete(i)
  BY DEF NotSubmitted
<1> QED
  BY <1>1, <1>2, <1>3, HeadPassed, HeadRemoved

(* A head is held for the operator and the sweep goes on.                     *)
LEMMA HeadHeld ==
    ASSUME BInv, NEW i \in Ids, Head(i), Free(i), Hold(i, TRUE), Passed(i), event' \in BOOLEAN,
           UNCHANGED <<life, deadline, inFlight, done, retries, later, quarantined, starts>>,
           Trouble \/ UNCHANGED troubles
    PROVE  BInv'
<1>0. /\ StoreTypeOK /\ LoopTypes /\ CallTypes /\ CallsKept /\ Files /\ InlineOwnsNone
      /\ WorkAhead /\ Drafted /\ DownIsEmpty
  BY Parts
<1>1. UNCHANGED <<files, draft, trash, swept>>
  BY DEF Hold
<1>2. pc = "heads" /\ life # "down" /\ Unwritten /\ inHand = 0
  BY FreeHead
<1>3. /\ rows' \in [Ids -> Row]
      /\ \A j \in Ids : Alike(rows'[j], rows[j]) /\ rows'[j].st = rows[j].st
  BY <1>0, HoldEffect
<1>4. \A j \in Ids : Owner(j)' <=> Owner(j)
  BY <1>1, <1>3 DEF Owner, InTable
<1>5. InlineOwnsNone' /\ MediaKept
  BY <1>0, <1>3, InlineStays
<1>6. StillUp
  BY <1>1 DEF StillUp
<1>7. Files'
  BY <1>0, <1>1, <1>4, <1>5, <1>6, FilesKept
<1>8. StoreTypeOK' /\ LoopTypes' /\ CallTypes'
  BY <1>0, <1>1, <1>3, TroubleType DEF StoreTypeOK, LoopTypes, CallTypes, Passed
<1>9. CallsKept'
  BY <1>0, <1>1, <1>3, CallsStay DEF CallTypes
<1>10. WorkAhead' /\ Drafted' /\ DownIsEmpty'
  BY <1>0, <1>1, <1>2, <1>3 DEF WorkAhead, Drafted, DownIsEmpty, Unwritten, Passed, Queued, LoopTypes
<1> QED
  BY <1>5, <1>7, <1>8, <1>9, <1>10, Whole

(* A row that no release knows is held.                                       *)
LEMMA UndecodableStep == ASSUME BInv, NEW i \in Ids, Undecodable(i) PROVE BInv'
<1>1. /\ Head(i) /\ Free(i) /\ Hold(i, TRUE) /\ Passed(i) /\ event' = TRUE
      /\ UNCHANGED <<life, deadline, inFlight, done, retries, later, quarantined, troubles, starts>>
  BY DEF Undecodable, Chosen, Admitted, calls
<1> QED
  BY <1>1, HeadHeld

LEMMA SenderGoneStep == ASSUME BInv, NEW i \in Ids, SenderGone(i) PROVE BInv'
<1>0. LoopTypes /\ CallTypes
  BY Parts
<1>1. Head(i) /\ Free(i) /\ Trouble
  BY DEF SenderGone, Chosen, Admitted
<1>2. CASE StopForPersistenceError /\ UNCHANGED store
  <2>1. life # "down" /\ Unwritten /\ inHand = 0
    BY <1>1, FreeHead
  <2>2. Quiet
    BY <1>0, <1>1, <1>2, <2>1 DEF StopForPersistenceError, Quiet, LoopTypes, CallTypes, Places
  <2>3. WorkAhead' /\ Drafted'
    BY <1>2, <2>1 DEF StopForPersistenceError, WorkAhead, Drafted, Unwritten, store
  <2> QED
    BY <2>2, <2>3, QuietStep
<1>3. CASE /\ Hold(i, TRUE) \/ Delete(i)
           /\ Passed(i) /\ event' = TRUE
           /\ UNCHANGED <<life, deadline, calls, quarantined, starts>>
  <2>1. UNCHANGED <<life, deadline, inFlight, done, retries, later, quarantined, starts>>
    BY <1>3 DEF calls
  <2>2. event' \in BOOLEAN /\ deadline' \in BOOLEAN
    BY <1>0, <1>3, <2>1 DEF LoopTypes
  <2> QED
    BY <1>1, <1>3, <2>1, <2>2, HeadRemoved, HeadHeld
<1> QED
  BY <1>2, <1>3 DEF SenderGone

(* A row is given to a thread: it stays in the table, held, or it is removed  *)
(* and the call keeps its files.                                              *)
LEMMA SubmitsStep ==
    ASSUME BInv, NEW i \in Ids, Submits(i), pc = "heads", life # "down", Unwritten,
           Submittable(i), ~Oversized(i)
    PROVE  BInv'
<1>0. /\ StoreTypeOK /\ LoopTypes /\ CallTypes /\ CallsKept /\ Files /\ InlineOwnsNone
      /\ WorkAhead /\ Drafted /\ DownIsEmpty
  BY Parts
<1>1. /\ inFlight' = inFlight \union {i} /\ todo' = todo \ {i} /\ inHand' = 0
      /\ UNCHANGED <<life, pc, event, deadline, done, retries, later, quarantined, troubles, starts>>
      /\ UNCHANGED <<files, draft, trash, swept>>
  BY DEF Submits, Hold, DeleteKeepingMedia
<1>2. Queued(i) /\ i \notin inFlight \union retries /\ HasPermit
  BY DEF Submittable
<1>3. /\ rows' \in [Ids -> Row]
      /\ \A j \in Ids : Alike(rows'[j], rows[j]) /\ (j # i => rows'[j] = rows[j])
      /\ rows'[i].st = IF rows[i].kept THEN "queued" ELSE "removed"
  <2>1. CASE rows[i].kept
    <3>1. Hold(i, TRUE)
      BY <2>1 DEF Submits
    <3> QED
      BY <2>1, <3>1, <1>0, <1>2, HoldEffect DEF Queued
  <2>2. CASE ~rows[i].kept
    <3>1. DeleteKeepingMedia(i)
      BY <2>2 DEF Submits
    <3> QED
      BY <2>2, <3>1, <1>0, RemoveEffect
  <2> QED
    BY <2>1, <2>2
<1>4. \A j \in Ids : Owner(j)' <=> Owner(j)
  BY <1>1, <1>2, <1>3 DEF Owner, InTable, Queued
<1>5. InlineOwnsNone' /\ MediaKept
  BY <1>0, <1>3, InlineStays
<1>6. StillUp
  BY <1>1 DEF StillUp
<1>7. Files'
  BY <1>0, <1>1, <1>4, <1>5, <1>6, FilesKept
<1>8. StoreTypeOK' /\ LoopTypes'
  BY <1>0, <1>1, <1>3, BudgetAssumption DEF StoreTypeOK, LoopTypes
<1>9. CallTypes'
  <2>1. Cardinality(inFlight \union {i}) <= Workers
    BY <1>0, <1>2, OneMoreCall DEF CallTypes
  <2> QED
    BY <1>0, <1>1, <2>1 DEF CallTypes
<1>10. CallsKept'
  <2>1. \A j \in Ids : Oversized(j)' <=> Oversized(j)
    BY <1>3 DEF Oversized, StoredSize, Alike
  <2>2. \A j \in inFlight \union retries : j \in Ids /\ j # i
    BY <1>0, <1>2 DEF CallTypes
  <2> QED
    BY <1>0, <1>1, <1>2, <1>3, <2>1, <2>2 DEF CallsKept, Alike
<1>11. WorkAhead' /\ Drafted' /\ DownIsEmpty'
  BY <1>0, <1>1, <1>3 DEF WorkAhead, Drafted, DownIsEmpty, Unwritten, Queued, LoopTypes
<1> QED
  BY <1>5, <1>7, <1>8, <1>9, <1>10, <1>11, Whole

LEMMA DispatchStep == ASSUME BInv, NEW i \in Ids, Dispatch(i) PROVE BInv'
<1>1. Head(i) /\ Free(i) /\ HasPermit /\ ~Oversized(i) /\ Submits(i)
  BY DEF Dispatch, Chosen, Admitted
<1> QED
  BY <1>1, FreeHead, SubmitsStep DEF Submittable

(* A row that has been converted is submitted, or it has become too large.    *)
LEMMA DispatchRecoveredStep == ASSUME BInv, DispatchRecovered PROVE BInv'
<1>1. LoopTypes /\ WorkAhead
  BY Parts
<1>2. /\ inHand \in Ids /\ pc = "heads" /\ life # "down" /\ Unwritten
      /\ Submittable(inHand) /\ ~Oversized(inHand) /\ Submits(inHand)
  BY <1>1 DEF DispatchRecovered, At, WorkAhead, LoopTypes, Ids
<1> QED
  BY <1>2, SubmitsStep

LEMMA QuarantineRecoveredStep == ASSUME BInv, QuarantineRecovered PROVE BInv'
<1>0. /\ StoreTypeOK /\ LoopTypes /\ CallTypes /\ CallsKept /\ Files /\ InlineOwnsNone
      /\ WorkAhead /\ Drafted /\ DownIsEmpty
  BY Parts
<1>1. /\ inHand \in Ids /\ pc = "heads" /\ quarantined' = quarantined \union {inHand}
      /\ todo' = todo \ {inHand} /\ inHand' = 0
      /\ UNCHANGED <<rows, files, draft, trash, swept>>
      /\ UNCHANGED <<life, pc, event, deadline, inFlight, done, retries, later, troubles, starts>>
  BY <1>0 DEF QuarantineRecovered, At, LoopTypes, Ids, calls, store
<1>2. /\ StillUp /\ MediaKept /\ \A j \in Ids : Owner(j)' <=> Owner(j)
  BY <1>1 DEF StillUp, MediaKept, Owner, InTable
<1>3. Files'
  BY <1>0, <1>1, <1>2, FilesKept
<1>4. StoreTypeOK' /\ CallTypes' /\ InlineOwnsNone'
  BY <1>0, <1>1 DEF StoreTypeOK, CallTypes, InlineOwnsNone
<1>5. LoopTypes'
  BY <1>0, <1>1, BudgetAssumption DEF LoopTypes
<1>6. CallsKept' /\ DownIsEmpty'
  BY <1>0, <1>1 DEF CallsKept, DownIsEmpty, Oversized
<1>7. WorkAhead' /\ Drafted'
  BY <1>0, <1>1 DEF WorkAhead, Drafted, Unwritten, Submittable, Queued, HasPermit
<1> QED
  BY <1>3, <1>4, <1>5, <1>6, <1>7, Whole

------------------------------------------------------------------------------
(* Writing.                                                                   *)

(* A version 1 row is rewritten: its media go to a file first.                *)
LEMMA RecoveryBeginsStep == ASSUME BInv, NEW i \in Ids, RecoveryBegins(i) PROVE BInv'
<1>0. /\ StoreTypeOK /\ LoopTypes /\ CallTypes /\ CallsKept /\ Files /\ InlineOwnsNone
      /\ WorkAhead /\ Drafted /\ DownIsEmpty
  BY Parts
<1>1. /\ Head(i) /\ Free(i) /\ HasPermit
      /\ UNCHANGED <<life, pc, todo, inHand, event, deadline, inFlight, done, retries, later,
                     quarantined, troubles, starts>>
  BY DEF RecoveryBegins, Chosen, Admitted, loop, calls
<1>2. /\ pc = "heads" /\ life # "down" /\ inHand = 0 /\ Queued(i) /\ i \notin inFlight \union retries
  BY <1>1, FreeHead
<1>3. PICK new \in SUBSET Names :
         /\ new \cap files = {} /\ files' = files \union new
         /\ draft' = [row |-> i, new |-> new]
         /\ draft = NoDraft /\ UNCHANGED <<rows, trash, swept>>
  BY <1>0, StoreEffect DEF RecoveryBegins, StreamLegacyPickle
<1>4. \A j \in Ids : Owner(j)' <=> Owner(j)
  BY <1>1, <1>3 DEF Owner, InTable
<1>5. Files'
  <2>1. StillUp /\ draft'.new = new /\ draft.new = {}
    BY <1>1, <1>3, NoDraftType DEF StillUp
  <2> QED
    BY <1>0, <1>3, <1>4, <2>1, FilesWritten
<1>6. StoreTypeOK' /\ InlineOwnsNone'
  <2>1. draft' \in [row : 0 .. MaxRows, new : SUBSET Names]
    BY <1>3, BudgetAssumption DEF Ids
  <2> QED
    BY <1>0, <1>3, <2>1 DEF StoreTypeOK, InlineOwnsNone
<1>7. LoopTypes' /\ CallTypes' /\ CallsKept' /\ DownIsEmpty'
  BY <1>0, <1>1, <1>3 DEF LoopTypes, CallTypes, CallsKept, DownIsEmpty, Oversized
<1>8. WorkAhead'
  BY <1>0, <1>1, <1>2, <1>3 DEF WorkAhead, Queued
<1>9. Drafted'
  BY <1>1, <1>2, <1>3 DEF Drafted, Submittable, Queued, HasPermit
<1> QED
  BY <1>5, <1>6, <1>7, <1>8, <1>9, Whole

(* What the row becomes.                                                      *)
LEMMA CompactedType ==
    ASSUME NEW r \in Row, Streamable(r), NEW new \in SUBSET Names, NEW grown \in Growth
    PROVE  /\ Compacted(r, new, grown) \in Row /\ Compacted(r, new, grown).media = new
           /\ Compacted(r, new, grown).ver = 2 /\ Compacted(r, new, grown).st = r.st
<1> DEFINE q == [r EXCEPT !.ver = 2, !.inline = 0, !.media = new, !.opaque = r.opaque + grown]
<1>1. r.opaque \in Nat /\ r.meta \in Nat /\ r.opaque + r.meta <= Budget /\ Budget \in Nat \ {0}
  BY RowFields, BudgetAssumption DEF Streamable, Fits
<1>2. 0 \in Sizes /\ 2 \in 0 .. 2 /\ r.opaque + grown \in Sizes
  BY <1>1 DEF Sizes, Growth
<1>3. q \in Row
  BY <1>2 DEF Row
<1>4. q.media = new /\ q.ver = 2 /\ q.st = r.st
  BY DEF Row
<1> QED
  BY <1>3, <1>4 DEF Compacted

LEMMA RecoveryCommitsStep == ASSUME BInv, NEW i \in Ids, RecoveryCommits(i) PROVE BInv'
<1>0. /\ StoreTypeOK /\ LoopTypes /\ CallTypes /\ CallsKept /\ Files /\ InlineOwnsNone
      /\ WorkAhead /\ Drafted /\ DownIsEmpty
  BY Parts
<1>1. /\ pc = "heads" /\ life # "down" /\ draft.row = i /\ Streamable(rows[i])
      /\ inHand' = i
      /\ UNCHANGED <<life, pc, todo, event, deadline, inFlight, done, retries, later,
                     quarantined, troubles, starts>>
  BY DEF RecoveryCommits, At, RecoverLegacyMediaPayload, calls
<1>g. PICK grown \in Growth : CommitDraft(Compacted(rows[i], draft.new, grown))
  BY DEF RecoveryCommits, RecoverLegacyMediaPayload
<1>c. UNCHANGED <<files, trash, swept>>
  BY <1>g DEF CommitDraft
<1>2. ~Unwritten /\ Submittable(i)
  BY <1>0, <1>1, NoDraftType DEF Unwritten, Drafted
<1>3. rows[i] \in Row /\ draft.new \in SUBSET Names
  BY <1>0 DEF StoreTypeOK
<1> DEFINE q == Compacted(rows[i], draft.new, grown)
<1>4. /\ q \in Row /\ q.media = draft.new /\ q.ver = 2 /\ q.st = rows[i].st
  BY <1>1, <1>3, CompactedType
<1> HIDE DEF q
<1>5. /\ rows' \in [Ids -> Row] /\ rows'[i] = q /\ draft' = NoDraft
      /\ \A j \in Ids : j # i => rows'[j] = rows[j]
  BY <1>0, <1>1, <1>g, <1>4, CommitEffect DEF q
<1>6. rows[i].media = {} /\ Queued(i) /\ i \notin inFlight \union retries
  BY <1>0, <1>1, <1>2 DEF InlineOwnsNone, Streamable, Submittable
<1>7. Files'
  <2>1. \A j \in Ids : j # i => (Owner(j)' <=> Owner(j)) /\ rows'[j].media = rows[j].media
    BY <1>1, <1>5 DEF Owner, InTable
  <2>2. Owner(i)' /\ draft'.new = {} /\ StillUp
    BY <1>1, <1>c, <1>4, <1>5, <1>6, NoDraftType DEF Owner, InTable, Queued, StillUp
  <2> QED
    BY <1>0, <1>1, <1>c, <1>4, <1>5, <1>6, <2>1, <2>2, FilesCommitted
<1>8. StoreTypeOK' /\ InlineOwnsNone'
  BY <1>0, <1>1, <1>c, <1>4, <1>5, NoDraftType DEF StoreTypeOK, InlineOwnsNone
<1>9. LoopTypes' /\ CallTypes' /\ DownIsEmpty'
  BY <1>0, <1>1, BudgetAssumption DEF LoopTypes, CallTypes, DownIsEmpty, Ids
<1>10. CallsKept'
  <2>1. \A j \in inFlight \union retries : rows'[j] = rows[j]
    BY <1>0, <1>5, <1>6 DEF CallTypes
  <2> QED
    BY <1>0, <1>1, <2>1 DEF CallsKept, Oversized
<1>11. WorkAhead'
  <2>1. Queued(i)'
    BY <1>4, <1>5, <1>6 DEF Queued
  <2>2. i \notin inFlight' \union retries' /\ HasPermit'
    BY <1>1, <1>2, <1>6 DEF Submittable, HasPermit
  <2>3. \A j \in todo' : Queued(j)'
    BY <1>0, <1>1, <1>5, <2>1 DEF WorkAhead, Queued, LoopTypes
  <2>4. Submittable(i)'
    BY <2>1, <2>2 DEF Submittable
  <2> QED
    BY <1>1, <1>5, <2>1, <2>3, <2>4 DEF WorkAhead, Unwritten
<1>12. Drafted'
  BY <1>5 DEF Drafted, Unwritten
<1> QED
  BY <1>7, <1>8, <1>9, <1>10, <1>11, <1>12, Whole

(* What was written for a row that is not is removed at once.                 *)
LEMMA RolledBack ==
    ASSUME BInv, life # "down", files' = files \ draft.new, draft' = NoDraft, rows' \in [Ids -> Row],
           \A j \in Ids : Alike(rows'[j], rows[j]) /\ rows'[j].st = rows[j].st,
           UNCHANGED <<trash, swept, inHand, inFlight, done, retries, starts>>,
           life' \in {life, "stopping"}, pc' = pc \/ (pc' = "wait" /\ inHand = 0),
           todo' \in SUBSET todo, later' \in SUBSET Ids, quarantined' \in SUBSET Ids,
           event' \in BOOLEAN, deadline' \in BOOLEAN, Trouble \/ UNCHANGED troubles
    PROVE  BInv'
<1>0. /\ StoreTypeOK /\ LoopTypes /\ CallTypes /\ CallsKept /\ Files /\ InlineOwnsNone
      /\ WorkAhead /\ Drafted /\ DownIsEmpty
  BY Parts
<1>1. \A j \in Ids : Owner(j)' <=> Owner(j)
  BY DEF Owner, InTable
<1>2. StillUp /\ draft'.new = {}
  BY NoDraftType DEF StillUp
<1>3. InlineOwnsNone' /\ MediaKept
  BY <1>0, InlineStays
<1>4. Files'
  BY <1>0, <1>1, <1>2, <1>3, FilesRolledBack
<1>5. StoreTypeOK'
  BY <1>0, NoDraftType DEF StoreTypeOK
<1>6. LoopTypes' /\ CallTypes'
  BY <1>0, TroubleType DEF LoopTypes, CallTypes, Places
<1>7. CallsKept' /\ DownIsEmpty'
  BY <1>0, CallsStay DEF CallTypes, DownIsEmpty
<1>8. Unwritten' /\ Drafted'
  BY NoDraftType DEF Drafted, Unwritten
<1>9. WorkAhead'
  <2>1. pc' = "retries" => todo' \subseteq retries'
    BY <1>0 DEF WorkAhead
  <2>2. pc' = "heads" => \A j \in todo' : Queued(j)'
    <3>1. ASSUME pc' = "heads", NEW j \in todo' PROVE Queued(j)'
      <4>1. pc = "heads" /\ j \in todo /\ j \in Ids
        BY <3>1, <1>0 DEF LoopTypes
      <4> QED
        BY <4>1, <1>0 DEF WorkAhead, Queued
    <3> QED
      BY <3>1
  <2>3. ASSUME inHand' # 0 PROVE pc' = "heads" /\ Submittable(inHand)'
    <3>1. inHand # 0 /\ pc' = pc /\ inHand \in Ids
      BY <2>3, <1>0 DEF LoopTypes, Ids
    <3>2. pc = "heads" /\ Submittable(inHand)
      BY <3>1, <1>0 DEF WorkAhead
    <3> QED
      BY <3>1, <3>2 DEF Submittable, Queued, HasPermit
  <2> QED
    BY <2>1, <2>2, <2>3, <1>8 DEF WorkAhead
<1> QED
  BY <1>3, <1>4, <1>5, <1>6, <1>7, <1>8, <1>9, Whole

LEMMA RecoveryFailsStep == ASSUME BInv, NEW i \in Ids, RecoveryFails(i) PROVE BInv'
<1>0. StoreTypeOK /\ LoopTypes /\ WorkAhead
  BY Parts
<1>1. /\ life # "down" /\ files' = files \ draft.new /\ draft' = NoDraft /\ UNCHANGED <<trash, swept>>
  BY DEF RecoveryFails, RecoveryTooLarge, RecoveryInvalid, RecoveryStops, Converting, At, CleanupCreatedMedia
<1>2. inHand = 0
  BY <1>0, NoDraftType DEF RecoveryFails, RecoveryTooLarge, RecoveryInvalid, RecoveryStops, Converting,
                           WorkAhead, Unwritten
<1>3. CASE RecoveryTooLarge(i)
  <2>1. /\ UNCHANGED <<rows, inHand, inFlight, done, retries, starts, life, pc, later, event, deadline, troubles>>
        /\ todo' = todo \ {i} /\ quarantined' = quarantined \union {i}
    BY <1>3 DEF RecoveryTooLarge, CleanupCreatedMedia, Passed, calls
  <2>2. rows' \in [Ids -> Row] /\ \A j \in Ids : Alike(rows'[j], rows[j]) /\ rows'[j].st = rows[j].st
    BY <1>0, <2>1 DEF StoreTypeOK, Alike
  <2>3. /\ quarantined' \in SUBSET Ids /\ todo' \in SUBSET todo /\ later' \in SUBSET Ids
        /\ event' \in BOOLEAN /\ deadline' \in BOOLEAN
    BY <1>0, <2>1 DEF LoopTypes
  <2> QED
    BY <1>1, <2>1, <2>2, <2>3, RolledBack
<1>4. CASE RecoveryInvalid(i)
  <2>1. /\ rows' = [rows EXCEPT ![i].held = TRUE] /\ Trouble
        /\ UNCHANGED <<inHand, inFlight, done, retries, starts, life, pc, later, deadline, quarantined>>
        /\ todo' = todo \ {i} /\ event' = TRUE
    BY <1>4 DEF RecoveryInvalid, Passed, calls
  <2>2. rows' \in [Ids -> Row] /\ \A j \in Ids : Alike(rows'[j], rows[j]) /\ rows'[j].st = rows[j].st
    BY <1>0, <2>1, HeldEffect
  <2>3. /\ quarantined' \in SUBSET Ids /\ todo' \in SUBSET todo /\ later' \in SUBSET Ids
        /\ event' \in BOOLEAN /\ deadline' \in BOOLEAN
    BY <1>0, <2>1 DEF LoopTypes
  <2> QED
    BY <1>1, <2>1, <2>2, <2>3, RolledBack
<1>5. CASE RecoveryStops(i)
  <2>1. /\ UNCHANGED <<rows, inHand, inFlight, done, retries, starts, deadline, quarantined>>
        /\ life' = "stopping" /\ pc' = "wait" /\ todo' = {} /\ later' = {} /\ event' = TRUE /\ Trouble
    BY <1>5 DEF RecoveryStops, CleanupCreatedMedia, StopForPersistenceError
  <2>2. rows' \in [Ids -> Row] /\ \A j \in Ids : Alike(rows'[j], rows[j]) /\ rows'[j].st = rows[j].st
    BY <1>0, <2>1 DEF StoreTypeOK, Alike
  <2>3. /\ quarantined' \in SUBSET Ids /\ todo' \in SUBSET todo /\ later' \in SUBSET Ids
        /\ event' \in BOOLEAN /\ deadline' \in BOOLEAN
    BY <1>0, <2>1 DEF LoopTypes
  <2> QED
    BY <1>1, <1>2, <2>1, <2>2, <2>3, RolledBack
<1> QED
  BY <1>3, <1>4, <1>5 DEF RecoveryFails

LEMMA EnqueueFailsStep == ASSUME BInv, EnqueueFails PROVE BInv'
<1>0. StoreTypeOK /\ LoopTypes
  BY Parts
<1>1. /\ files' = files \ draft.new /\ draft' = NoDraft /\ Trouble /\ life # "down"
      /\ UNCHANGED <<rows, trash, swept, life, pc, todo, inHand, event, deadline, inFlight, done, retries,
                     later, quarantined, starts>>
  BY DEF EnqueueFails, CleanupCreatedMedia, loop, calls
<1>2. rows' \in [Ids -> Row] /\ \A j \in Ids : Alike(rows'[j], rows[j]) /\ rows'[j].st = rows[j].st
  BY <1>0, <1>1 DEF StoreTypeOK, Alike
<1>3. /\ quarantined' \in SUBSET Ids /\ todo' \in SUBSET todo /\ later' \in SUBSET Ids
      /\ event' \in BOOLEAN /\ deadline' \in BOOLEAN
  BY <1>0, <1>1 DEF LoopTypes
<1> QED
  BY <1>1, <1>2, <1>3, RolledBack

(* A caller writes the files of its request, then the row.                    *)
LEMMA EnqueueBeginsStep == ASSUME BInv, NEW i \in Ids, NEW c \in Calls, EnqueueBegins(i, c) PROVE BInv'
<1>0. /\ StoreTypeOK /\ LoopTypes /\ CallTypes /\ CallsKept /\ Files /\ InlineOwnsNone
      /\ WorkAhead /\ Drafted /\ DownIsEmpty
  BY Parts
<1>1. /\ life = "up" /\ ~WorkerLocks /\ rows[i].st = "absent" /\ StoreMediaStream(i, c.files)
      /\ UNCHANGED <<life, pc, todo, inHand, event, deadline, inFlight, done, retries, later,
                     quarantined, troubles, starts>>
  BY DEF EnqueueBegins, LockFree, Prepare, NextId, loop, calls
<1>2. c.files \in Nat
  BY ReplayAssumption
<1>3. PICK new \in SUBSET Names :
         /\ new \cap files = {} /\ files' = files \union new
         /\ draft' = [row |-> i, new |-> new]
         /\ draft = NoDraft /\ UNCHANGED <<rows, trash, swept>>
  BY <1>0, <1>1, <1>2, StoreEffect
<1>4. \A j \in Ids : Owner(j)' <=> Owner(j)
  BY <1>1, <1>3 DEF Owner, InTable
<1>5. Files'
  <2>1. StillUp /\ draft'.new = new /\ draft.new = {}
    BY <1>1, <1>3, NoDraftType DEF StillUp
  <2> QED
    BY <1>0, <1>3, <1>4, <2>1, FilesWritten
<1>6. StoreTypeOK' /\ InlineOwnsNone'
  <2>1. draft' \in [row : 0 .. MaxRows, new : SUBSET Names]
    BY <1>3, BudgetAssumption DEF Ids
  <2> QED
    BY <1>0, <1>3, <2>1 DEF StoreTypeOK, InlineOwnsNone
<1>7. LoopTypes' /\ CallTypes' /\ CallsKept' /\ DownIsEmpty'
  BY <1>0, <1>1, <1>3 DEF LoopTypes, CallTypes, CallsKept, DownIsEmpty, Oversized
<1>8. pc # "heads" /\ pc # "retries" /\ inHand = 0
  BY <1>1, WorkerAlone DEF WorkerLocks
<1>9. WorkAhead'
  BY <1>1, <1>8 DEF WorkAhead
<1>10. Drafted'
  BY <1>1, <1>3, <1>8 DEF Drafted, WorkerLocks
<1> QED
  BY <1>5, <1>6, <1>7, <1>9, <1>10, Whole

LEMMA FreshRowType ==
    ASSUME NEW c \in Calls, draft.new \in SUBSET Names
    PROVE  /\ FreshRow(c) \in Row /\ FreshRow(c).media = draft.new
           /\ FreshRow(c).ver = 2 /\ FreshRow(c).st = "queued"
<1>1. /\ c.chat \in Chats /\ c.prio \in {0, 1} /\ c.kept \in BOOLEAN
      /\ c.opaque \in Sizes /\ c.meta \in Sizes
  BY ReplayAssumption
<1>2. 0 \in Sizes /\ 2 \in 0 .. 2
  BY BudgetAssumption DEF Sizes
<1> DEFINE r == NoRow
           q == [r EXCEPT !.st = "queued", !.chat = c.chat, !.prio = c.prio, !.kept = c.kept,
                          !.opaque = c.opaque, !.meta = c.meta, !.media = draft.new]
<1>3. r \in Row /\ r.ver = 2
  BY NoRowType DEF NoRow
<1>4. FreshRow(c) = q
  BY DEF FreshRow
<1> HIDE DEF r
<1>5. q \in Row /\ q.media = draft.new /\ q.ver = 2 /\ q.st = "queued"
  BY <1>1, <1>3 DEF Row
<1> QED
  BY <1>4, <1>5

(* The row a caller is about to write.                                        *)
LEMMA CallersRow ==
    ASSUME BInv, NEW c \in Calls, EnqueueRequests(c)
    PROVE  /\ pc \notin {"heads", "retries"} /\ inHand = 0 /\ ~WorkerLocks
           /\ draft.row \in Ids /\ rows[draft.row].st = "absent"
           /\ draft.row \notin inFlight \union retries
<1>1. Drafted /\ CallsKept
  BY Parts
<1>2. pc \notin {"heads", "retries"} /\ ~WorkerLocks /\ ~Unwritten /\ life # "down"
  BY DEF EnqueueRequests, WorkerLocks
<1>3. draft.row \in Ids /\ rows[draft.row].st = "absent"
  BY <1>1, <1>2 DEF Drafted
<1> QED
  BY <1>1, <1>2, <1>3, WorkerAlone DEF CallsKept

LEMMA EnqueueRequestsStep == ASSUME BInv, NEW c \in Calls, EnqueueRequests(c) PROVE BInv'
<1>0. /\ StoreTypeOK /\ LoopTypes /\ CallTypes /\ CallsKept /\ Files /\ InlineOwnsNone
      /\ WorkAhead /\ Drafted /\ DownIsEmpty
  BY Parts
<1>1. /\ CommitDraft(FreshRow(c)) /\ event' = TRUE
      /\ UNCHANGED <<life, pc, todo, inHand, deadline, inFlight, done, retries, later,
                     quarantined, troubles, starts>>
      /\ UNCHANGED <<files, trash, swept>>
  BY DEF EnqueueRequests, EnqueueMany, CommitDraft, loop, calls
<1> DEFINE q == FreshRow(c)
<1>k. PICK k \in Ids : k = draft.row
  BY CallersRow
<1>2. /\ pc \notin {"heads", "retries"} /\ inHand = 0
      /\ k \in Ids /\ rows[k].st = "absent" /\ k \notin inFlight \union retries
  BY <1>k, CallersRow
<1>3. q \in Row /\ q.media = draft.new /\ q.ver = 2 /\ q.st = "queued"
  BY <1>0, FreshRowType DEF StoreTypeOK
<1> HIDE DEF q
<1>4. /\ rows' \in [Ids -> Row] /\ rows'[k] = q /\ draft' = NoDraft
      /\ \A j \in Ids : j # k => rows'[j] = rows[j]
  BY <1>0, <1>1, <1>k, <1>3, CommitEffect DEF q
<1>5. Files'
  <2>1. \A j \in Ids : j # k => (Owner(j)' <=> Owner(j)) /\ rows'[j].media = rows[j].media
    BY <1>1, <1>4 DEF Owner, InTable
  <2>2. Owner(k)' /\ ~Owner(k)
    <3>1. rows'[k].st = "queued" /\ rows[k].st = "absent" /\ k \notin inFlight \union retries
      BY <1>2, <1>3, <1>4
    <3>2. Owner(k)'
      BY <3>1 DEF Owner, InTable
    <3>3. ~Owner(k)
      BY <3>1 DEF Owner, InTable
    <3> QED
      BY <3>2, <3>3
  <2>3. draft'.new = {} /\ StillUp /\ UNCHANGED <<files, trash>>
    BY <1>1, <1>4, NoDraftType DEF StillUp
  <2>4. k \in Ids /\ rows'[k].media = draft.new
    BY <1>2, <1>3, <1>4
  <2>5. Owner(k) => rows[k].media = {}
    BY <2>2
  <2> QED
    BY <1>0, <2>1, <2>2, <2>3, <2>4, <2>5, FilesCommitted
<1>6. StoreTypeOK' /\ InlineOwnsNone'
  BY <1>0, <1>1, <1>2, <1>3, <1>4, NoDraftType DEF StoreTypeOK, InlineOwnsNone
<1>7. LoopTypes' /\ CallTypes' /\ DownIsEmpty'
  BY <1>0, <1>1 DEF LoopTypes, CallTypes, DownIsEmpty
<1>8. CallsKept'
  <2>1. \A j \in inFlight \union retries : rows'[j] = rows[j]
    BY <1>0, <1>2, <1>4 DEF CallTypes
  <2> QED
    BY <1>0, <1>1, <2>1 DEF CallsKept, Oversized
<1>9. WorkAhead' /\ Drafted'
  BY <1>1, <1>2, <1>4 DEF WorkAhead, Drafted, Unwritten
<1> QED
  BY <1>5, <1>6, <1>7, <1>8, <1>9, Whole

LEMMA UnlinkStep == ASSUME BInv, UnlinkRemoved PROVE BInv'
<1>0. /\ StoreTypeOK /\ LoopTypes /\ CallTypes /\ CallsKept /\ Files /\ InlineOwnsNone
      /\ WorkAhead /\ Drafted /\ DownIsEmpty
  BY Parts
<1>1. /\ files' = files \ trash /\ trash' = {} /\ UNCHANGED <<rows, draft, swept>>
      /\ UNCHANGED <<life, pc, todo, inHand, event, deadline, inFlight, done, retries, later,
                     quarantined, troubles, starts>>
  BY DEF UnlinkRemoved, Unlink, loop, calls
<1>2. \A j \in Ids : Owner(j)' <=> Owner(j)
  BY <1>1 DEF Owner, InTable
<1>3. Files'
  <2>1. StillUp
    BY <1>1 DEF StillUp
  <2> QED
    BY <1>0, <1>1, <1>2, <2>1, FilesUnlinked
<1>4. StoreTypeOK' /\ InlineOwnsNone'
  BY <1>0, <1>1 DEF StoreTypeOK, InlineOwnsNone
<1>5. LoopTypes' /\ CallTypes' /\ DownIsEmpty' /\ CallsKept'
  BY <1>0, <1>1 DEF LoopTypes, CallTypes, DownIsEmpty, CallsKept, Oversized
<1>6. WorkAhead' /\ Drafted'
  BY <1>1, AheadKept
<1> QED
  BY <1>3, <1>4, <1>5, <1>6, Whole

------------------------------------------------------------------------------
(* Stop, crash and start.                                                     *)

(* A process that is gone leaves the store as it is.                          *)
LEMMA ProcessGoneStep == ASSUME BInv, ProcessGone PROVE BInv'
<1>0. /\ StoreTypeOK /\ LoopTypes /\ CallTypes /\ CallsKept /\ Files /\ InlineOwnsNone
      /\ WorkAhead /\ Drafted /\ DownIsEmpty
  BY Parts
<1>1. /\ life' = "down" /\ pc' = "clear" /\ todo' = {} /\ inHand' = 0 /\ event' = FALSE /\ deadline' = FALSE
      /\ inFlight' = {} /\ done' = {} /\ retries' = {} /\ later' = {} /\ quarantined' = {}
      /\ UNCHANGED <<rows, files, draft, trash, swept, troubles, starts>>
  BY DEF ProcessGone, store
<1>2. \A j \in Ids : Owner(j)' => Owner(j)
  BY <1>1 DEF Owner, InTable
<1>3. Files'
  BY <1>0, <1>1, <1>2 DEF Files, FilesOwned, NoOrphans
<1>4. StoreTypeOK' /\ InlineOwnsNone'
  BY <1>0, <1>1 DEF StoreTypeOK, InlineOwnsNone
<1>5. LoopTypes'
  <2>1. 0 \in 0 .. MaxRows /\ life' \in {"up", "stopping", "down"} /\ pc' \in Places
    BY <1>1, BudgetAssumption DEF Places
  <2> QED
    BY <1>0, <1>1, <2>1 DEF LoopTypes
<1>6. CallTypes'
  BY <1>1, FS_EmptySet, ReplayAssumption DEF CallTypes
<1>7. CallsKept' /\ WorkAhead' /\ Drafted' /\ DownIsEmpty'
  BY <1>0, <1>1 DEF CallsKept, WorkAhead, Drafted, DownIsEmpty, Unwritten
<1> QED
  BY <1>3, <1>4, <1>5, <1>6, <1>7, Whole

(* The start removes orphans only if it can look into every row; what rows    *)
(* name stays.                                                                *)
LEMMA StartStep == ASSUME BInv, Start PROVE BInv'
<1>0. /\ StoreTypeOK /\ LoopTypes /\ CallTypes /\ CallsKept /\ Files /\ InlineOwnsNone
      /\ WorkAhead /\ Drafted /\ DownIsEmpty
  BY Parts
<1>1. /\ life = "down" /\ life' = "up" /\ starts' = starts + 1 /\ starts < MaxStarts
      /\ UNCHANGED <<pc, todo, inHand, event, deadline, inFlight, done, retries, later,
                     quarantined, troubles>>
      /\ swept' = CanSweep /\ draft' = NoDraft /\ trash' = {} /\ UNCHANGED rows
  BY DEF Start, Open, loop, calls
<1>2. inFlight = {} /\ retries = {} /\ pc = "clear" /\ inHand = 0
  BY <1>0, <1>1, WorkerAlone DEF DownIsEmpty
<1> DEFINE named == UNION {rows[i].media : i \in {j \in {k \in Ids : InTable(k) /\ rows[k].ver = 2} : Inspectable(j)}}
<1>3. files' = IF CanSweep THEN files \cap named ELSE files
  BY DEF Start, Open
<1>4. ASSUME NEW i \in Ids, Owner(i)' PROVE InTable(i) /\ rows[i].media \subseteq files'
  <2>1. InTable(i)
    BY <1>1, <1>2, <1>4 DEF Owner, InTable
  <2>2. rows[i].media \subseteq files
    BY <1>0, <2>1 DEF Files, FilesOwned, Owner
  <2>3. ASSUME CanSweep PROVE rows[i].media \subseteq named
    <3>1. Inspectable(i)
      BY <2>1, <2>3 DEF CanSweep
    <3>2. rows[i].ver = 1 => rows[i].media = {}
      BY <1>0 DEF InlineOwnsNone
    <3>3. rows[i].ver = 1 \/ rows[i].ver = 2
      BY <3>1 DEF Inspectable
    <3> QED
      BY <2>1, <3>1, <3>2, <3>3
  <2> HIDE DEF named
  <2> QED
    BY <2>1, <2>2, <2>3, <1>3
<1>5. FilesOwned'
  <2>1. trash' \subseteq files' /\ draft'.new \subseteq files' \ trash'
    BY <1>1, NoDraftType
  <2>2. \A i \in Ids : Owner(i)' => rows'[i].media \subseteq files' \ (trash' \union draft'.new)
    BY <1>1, <1>4, NoDraftType
  <2>3. \A i, j \in Ids : i # j /\ Owner(i)' /\ Owner(j)' => rows'[i].media \cap rows'[j].media = {}
    BY <1>0, <1>1, <1>4 DEF Files, FilesOwned, Owner
  <2> QED
    BY <2>1, <2>2, <2>3 DEF FilesOwned
<1>6. NoOrphans'
  <2> SUFFICES ASSUME CanSweep, NEW f \in files'
               PROVE  \E i \in Ids : Owner(i)' /\ f \in rows'[i].media
    BY <1>1 DEF NoOrphans
  <2>1. \E i \in Ids : InTable(i) /\ f \in rows[i].media
    BY <1>3
  <2> QED
    BY <2>1, <1>1 DEF Owner, InTable
<1>7. StoreTypeOK'
  <2>1. files' \in SUBSET Names
    BY <1>0, <1>3 DEF StoreTypeOK
  <2>2. swept' \in BOOLEAN
    BY <1>1 DEF CanSweep
  <2> QED
    BY <1>0, <1>1, <2>1, <2>2, NoDraftType DEF StoreTypeOK
<1>8. LoopTypes' /\ CallTypes' /\ InlineOwnsNone'
  BY <1>0, <1>1, ReplayAssumption DEF LoopTypes, CallTypes, InlineOwnsNone
<1>9. CallsKept' /\ WorkAhead' /\ Drafted' /\ DownIsEmpty'
  BY <1>1, <1>2 DEF CallsKept, WorkAhead, Drafted, DownIsEmpty, Unwritten
<1> QED
  BY <1>5, <1>6, <1>7, <1>8, <1>9, Whole DEF Files

------------------------------------------------------------------------------
(* The whole.                                                                 *)

(* A table found, with just the files its rows name.                          *)
LEMMA BudgetStarts == Init => BInv
<1> SUFFICES ASSUME Init PROVE BInv
  OBVIOUS
<1>1. PICK old \in Found : rows = [i \in Ids |-> IF i \in DOMAIN old THEN old[i] ELSE NoRow]
  BY DEF Init
<1>2. Table(old)
  BY ReplayAssumption
<1>3. /\ files = Referenced /\ draft = NoDraft /\ trash = {} /\ swept = CanSweep
      /\ life = "up" /\ pc = "clear" /\ todo = {} /\ inHand = 0
      /\ event = FALSE /\ deadline = FALSE
      /\ inFlight = {} /\ done = {} /\ retries = {} /\ later = {}
      /\ quarantined = {} /\ troubles = 0 /\ starts = 0
  BY DEF Init
<1>4. \A i \in Ids : rows[i] \in Row /\ (rows[i].ver = 1 => rows[i].media = {})
  BY <1>1, <1>2, NoRowType DEF Table
<1>5. \A i, j \in Ids : i # j => rows[i].media \cap rows[j].media = {}
  BY <1>1, <1>2, NoRowType DEF Table
<1>6. rows \in [Ids -> Row] /\ \A i \in Ids : rows[i].media \in SUBSET Names
  BY <1>1, <1>4, RowFields
<1>7. \A f : f \in files <=> \E i \in Ids : InTable(i) /\ f \in rows[i].media
  BY <1>3 DEF Referenced
<1>8. StoreTypeOK
  <2>1. files \in SUBSET Names
    BY <1>6, <1>7
  <2>2. swept \in BOOLEAN
    BY <1>3 DEF CanSweep
  <2> QED
    BY <1>3, <1>6, <2>1, <2>2, NoDraftType DEF StoreTypeOK
<1>9. LoopTypes
  <2>1. 0 \in 0 .. MaxRows /\ 0 \in 0 .. MaxTroubles /\ 0 \in 0 .. MaxStarts
    BY BudgetAssumption, ReplayAssumption
  <2> QED
    BY <1>3, <2>1 DEF LoopTypes, Places
<1>10. CallTypes
  BY <1>3, FS_EmptySet, ReplayAssumption DEF CallTypes
<1>11. FilesOwned /\ NoOrphans /\ InlineOwnsNone
  <2>1. \A i \in Ids : Owner(i) => InTable(i)
    BY <1>3 DEF Owner
  <2>2. FilesOwned
    BY <1>3, <1>5, <1>7, <2>1, NoDraftType DEF FilesOwned
  <2>3. NoOrphans
    BY <1>7 DEF NoOrphans, Owner
  <2> QED
    BY <1>4, <2>2, <2>3 DEF InlineOwnsNone
<1>12. CallsKept /\ WorkAhead /\ Drafted /\ DownIsEmpty
  BY <1>3 DEF CallsKept, WorkAhead, Drafted, DownIsEmpty, Unwritten
<1> QED
  BY <1>8, <1>9, <1>10, <1>11, <1>12, TypesSplit DEF BInv, Control

LEMMA BudgetStutters == ASSUME BInv, UNCHANGED vars PROVE BInv'
<1>0. LoopTypes /\ CallTypes
  BY Parts
<1>1. /\ UNCHANGED <<store, life, pc, todo, inHand, event, deadline, inFlight, done, retries, later,
                     quarantined, troubles, starts>>
      /\ UNCHANGED <<rows, draft>>
  BY DEF vars, loop, calls, store
<1>2. Quiet
  BY <1>0, <1>1 DEF Quiet, LoopTypes, CallTypes
<1> QED
  BY <1>0, <1>1, <1>2, AheadKept, QuietStep DEF LoopTypes

(* Every step of the worker, the callers and the clock keeps the invariant.   *)
LEMMA WorkerSteps == ASSUME BInv, Worker PROVE BInv'
<1>1. ASSUME NEW i \in Ids, HarvestRow(i) PROVE BInv'
  BY <1>1, HarvestTerminalStep, HarvestHeldStep, HarvestMediaRetryStep DEF HarvestRow
<1>2. ASSUME NEW i \in Ids, RetryRow(i) PROVE BInv'
  BY <1>2, RetryAgainStep, PassedStep, FailBlockingRetryStep DEF RetryRow
<1>3. ASSUME NEW i \in Ids, HeadRow(i) PROVE BInv'
  BY <1>3, PassedStep, SenderGoneStep, UndecodableStep, DispatchStep, NotSubmittedStep,
     RecoveryBeginsStep, RecoveryCommitsStep, RecoveryFailsStep DEF HeadRow
<1>4. ASSUME NEW i \in Ids, ReconcileReceipt(i) PROVE BInv'
  BY <1>4, ReconcileReceiptStep
<1>5. CASE LoopMoves
  BY <1>5, LoopMovesStep
<1>6. CASE DispatchRecovered \/ QuarantineRecovered \/ DrainBegins \/ DrainEnds \/ UnlinkRemoved
  BY <1>6, DispatchRecoveredStep, QuarantineRecoveredStep, DrainBeginsStep, ProcessGoneStep, UnlinkStep DEF DrainEnds
<1> QED
  BY <1>1, <1>2, <1>3, <1>4, <1>5, <1>6 DEF Worker, LoopMoves

LEMMA BudgetSteps == ASSUME BInv, Next PROVE BInv'
<1>1. CASE Worker
  BY <1>1, WorkerSteps
<1>2. CASE Caller
  BY <1>2, EnqueueFailsStep, EnqueueRequestsStep DEF Caller
<1>3. CASE Stop \/ Crash \/ Start
  BY <1>3, StopStep, ProcessGoneStep, StartStep DEF Crash
<1>4. ASSUME NEW i \in Ids, CallEnds(i) \/ NotBeforeComes(i) \/ \E c \in Calls : EnqueueBegins(i, c)
      PROVE  BInv'
  BY <1>4, BackgroundStep, EnqueueBeginsStep
<1> QED
  BY <1>1, <1>2, <1>3, <1>4 DEF Next

(* The inductive invariant: every file has one owner, and who may write what  *)
(* at each place of the worker's loop.                                        *)
THEOREM BudgetInductive == Spec => []BInv
<1>1. Init => BInv
  BY BudgetStarts
<1>2. BInv /\ [Next]_vars => BInv'
  BY BudgetSteps, BudgetStutters
<1> QED
  BY <1>1, <1>2, PTL DEF Spec

(* For any rows found, requests and sizes, and through every refusal, failed  *)
(* transaction, stop, crash and start: the files the table and the calls in   *)
(* flight name are there, after a start that could look into every row there  *)
(* are no others, and what is waiting to be unlinked is nobody's.             *)
THEOREM FilesAgreeTheorem == Spec => []FilesAgree
<1>1. ASSUME BInv PROVE FilesAgree
  <2>1. TypeOK /\ Files /\ CallTypes
    BY <1>1, Parts DEF BInv
  <2>2. RowHasItsFiles
    BY <2>1 DEF RowHasItsFiles, Files, FilesOwned, Owner
  <2>3. NoFileLeaks
    <3> SUFFICES ASSUME life = "up", swept, NEW f \in files
                 PROVE  f \in Referenced \union draft.new \union trash
                               \union UNION {rows[i].media : i \in inFlight \union retries}
      BY DEF NoFileLeaks
    <3>1. f \in trash \union draft.new \/ \E i \in Ids : Owner(i) /\ f \in rows[i].media
      BY <2>1 DEF Files, NoOrphans
    <3> QED
      BY <3>1 DEF Owner, Referenced
  <2>4. TrashIsGarbage
    <3>1. ASSUME NEW i \in Ids, Owner(i) PROVE trash \cap rows[i].media = {}
      BY <2>1, <3>1 DEF Files, FilesOwned
    <3>2. \A i \in inFlight \union retries : i \in Ids /\ Owner(i)
      BY <2>1 DEF Owner, CallTypes
    <3> QED
      BY <3>1, <3>2 DEF TrashIsGarbage, Referenced, Owner
  <2> QED
    BY <2>1, <2>2, <2>3, <2>4 DEF FilesAgree
<1> QED
  BY <1>1, BudgetInductive, PTL

------------------------------------------------------------------------------
(* Rows above the budget.                                                     *)

Unreplayable(i) ==
    \/ Queued(i) /\ Oversized(i) /\ ~Streamable(rows[i])
    \/ rows[i].st = "sent_pending" /\ ~Fits(rows[i].meta)
HeldAtMost(i) == rows[i].ver = 1 /\ rows'[i] = [rows[i] EXCEPT !.held = TRUE]
Retained == \A i \in Ids : Unreplayable(i) => rows'[i] = rows[i] \/ HeldAtMost(i)

LEMMA OnlyHeld ==
    ASSUME StoreTypeOK, NEW i \in Ids, rows[i].ver = 1, rows' = [rows EXCEPT ![i].held = TRUE]
    PROVE  Retained
  BY DEF Retained, HeldAtMost, StoreTypeOK

(* A transaction touches one row at most.                                     *)
LEMMA OneRowTouched ==
    ASSUME StoreTypeOK, NEW i \in Ids, ~Unreplayable(i),
           \/ Delete(i) \/ DeleteKeepingMedia(i) \/ \E h \in BOOLEAN : Hold(i, h)
           \/ UNCHANGED rows
    PROVE  Retained
  BY RemoveEffect, HoldEffect DEF Retained

(* What is submitted, refused or held fits the budget.                        *)
LEMMA ChosenFits ==
    ASSUME BInv, NEW i \in Ids, Chosen(i), ~NeedsRecovery(i)
    PROVE  ~Unreplayable(i)
<1>1. Head(i) /\ Free(i) /\ ~Oversized(i)
  BY DEF Chosen, Admitted
<1>2. Queued(i)
  BY <1>1, FreeHead
<1> QED
  BY <1>1, <1>2 DEF Unreplayable, Queued

LEMMA SubmitsTouches == ASSUME NEW i, Submits(i) PROVE (\E h \in BOOLEAN : Hold(i, h)) \/ DeleteKeepingMedia(i)
  BY DEF Submits

LEMMA HeadRetains == ASSUME BInv, NEW i \in Ids, HeadRow(i) PROVE Retained
<1>0. StoreTypeOK
  BY Parts
<1>1. CASE \/ PassOver(i) \/ Quarantine(i) \/ PutOff(i) \/ RecoveryBegins(i)
           \/ RecoveryTooLarge(i) \/ RecoveryStops(i)
  BY <1>1 DEF PassOver, Quarantine, PutOff, RecoveryBegins, StreamLegacyPickle, StoreMediaStream,
              RecoveryTooLarge, RecoveryStops, CleanupCreatedMedia, store, Retained
<1>7. CASE RecoveryInvalid(i)
  <2>1. rows[i].ver = 1
    BY <1>7 DEF RecoveryInvalid, Converting
  <2>2. rows' = [rows EXCEPT ![i].held = TRUE]
    BY <1>7 DEF RecoveryInvalid
  <2> QED
    BY <1>0, <2>1, <2>2, OnlyHeld
<1>2. CASE SenderGone(i)
  <2>1. CASE NeedsRecovery(i)
    <3>1. rows[i].ver = 1 /\ (Hold(i, TRUE) \/ UNCHANGED rows)
      BY <1>2, <2>1 DEF SenderGone, NeedsRecovery, store
    <3> QED
      BY <1>0, <3>1, OnlyHeld DEF Hold, Retained
  <2>2. CASE ~NeedsRecovery(i)
    <3>1. Chosen(i) /\ (Delete(i) \/ Hold(i, TRUE))
      BY <1>2, <2>2 DEF SenderGone
    <3> QED
      BY <1>0, <2>2, <3>1, ChosenFits, OneRowTouched
  <2> QED
    BY <2>1, <2>2
<1>3. CASE Undecodable(i)
  BY <1>0, <1>3, ChosenFits, OneRowTouched DEF Undecodable
<1>4. CASE Dispatch(i)
  BY <1>0, <1>4, ChosenFits, SubmitsTouches, OneRowTouched DEF Dispatch
<1>5. CASE NotSubmitted(i)
  <2>1. Chosen(i) /\ ~NeedsRecovery(i) /\ (UNCHANGED rows \/ Delete(i))
    BY <1>5 DEF NotSubmitted, store
  <2> QED
    BY <1>0, <2>1, ChosenFits, OneRowTouched
<1>6. CASE RecoveryCommits(i)
  <2>1. /\ \E q : CommitDraft(q)
        /\ draft.row = i /\ Streamable(rows[i])
        /\ pc = "heads" /\ life # "down" /\ ~Unwritten
    <3>1. draft.row = i /\ Streamable(rows[i]) /\ \E q : CommitDraft(q)
      BY <1>6 DEF RecoveryCommits, RecoverLegacyMediaPayload
    <3>2. ~Unwritten
      BY <3>1, NoDraftType DEF Unwritten
    <3> QED
      BY <1>6, <3>1, <3>2 DEF RecoveryCommits, At
  <2>2. Queued(i)
    BY <2>1, Parts DEF Drafted, Submittable
  <2>3. ~Unreplayable(i)
    BY <2>1, <2>2 DEF Unreplayable, Queued
  <2>4. \A j \in Ids : j # i => rows'[j] = rows[j]
    BY <1>0, <2>1 DEF CommitDraft, StoreTypeOK
  <2> QED
    BY <2>3, <2>4 DEF Retained
<1> QED
  BY <1>1, <1>2, <1>3, <1>4, <1>5, <1>6, <1>7 DEF HeadRow, RecoveryFails

LEMMA HarvestRetains == ASSUME BInv, NEW i \in Ids, HarvestRow(i) PROVE Retained
<1>0. StoreTypeOK /\ CallTypes /\ CallsKept
  BY Parts
<1>1. i \in inFlight
  BY <1>0 DEF HarvestRow, HarvestTerminal, HarvestRetry, HarvestUncertain, HarvestMediaRetry,
              Harvested, CallTypes
<1>2. ~Unreplayable(i)
  BY <1>0, <1>1 DEF CallsKept, Unreplayable
<1>3. Delete(i) \/ (\E h \in BOOLEAN : Hold(i, h)) \/ UNCHANGED rows
  BY DEF HarvestRow, HarvestTerminal, HarvestRetry, HarvestUncertain, HarvestMediaRetry,
         CleanupPayloadMedia, store
<1> QED
  BY <1>0, <1>2, <1>3, OneRowTouched

LEMMA WorkerRetains == ASSUME BInv, Worker PROVE Retained
<1>0. StoreTypeOK
  BY Parts
<1>1. ASSUME NEW i \in Ids, ReconcileReceipt(i) PROVE Retained
  <2>1. ~Unreplayable(i) /\ Delete(i)
    BY <1>1 DEF ReconcileReceipt, Unreplayable, Queued
  <2> QED
    BY <1>0, <2>1, OneRowTouched
<1>2. ASSUME NEW i \in Ids, RetryRow(i) PROVE Retained
  BY <1>2 DEF RetryRow, RetryAgain, RetryWaits, FailBlockingRetry, CleanupPayloadMedia, store, Retained
<1>3. CASE LoopMoves
  BY <1>3 DEF LoopMoves, ClearEvent, HarvestBegins, HarvestDone, DispatchBegins, ReconcileEnds,
              HeadsBegin, HeadsEnd, Wait, ReceiptTooLarge, store, Retained
<1>4. CASE QuarantineRecovered \/ DrainBegins \/ DrainEnds \/ UnlinkRemoved
  BY <1>4 DEF QuarantineRecovered, DrainBegins, CleanupPayloadMedia, DrainEnds, ProcessGone, UnlinkRemoved, Unlink, store, Retained
<1>5. CASE DispatchRecovered
  <2>1. PICK i \in Ids : i = inHand
    BY <1>5, Parts DEF DispatchRecovered, LoopTypes, Ids
  <2>2. ~Unreplayable(i)
    BY <1>5, <2>1, Parts DEF DispatchRecovered, WorkAhead, Submittable, Queued, Unreplayable
  <2>3. (\E h \in BOOLEAN : Hold(i, h)) \/ DeleteKeepingMedia(i)
    BY <1>5, <2>1, SubmitsTouches DEF DispatchRecovered
  <2> QED
    BY <1>0, <2>2, <2>3, OneRowTouched
<1> QED
  BY <1>1, <1>2, <1>3, <1>4, <1>5, HarvestRetains, HeadRetains DEF Worker, LoopMoves

(* A queued row that cannot be brought under the budget, and a receipt above  *)
(* it, stay as they are at every step, for any sizes: the sweep passes them   *)
(* over or, for a row of version 1, holds them, and no harvest, retry,        *)
(* conversion, stop or start touches them.                                    *)
THEOREM OversizedRetainedTheorem == Spec => OversizedRetained
<1>1. ASSUME BInv, Next PROVE Retained
  <2>1. CASE Worker
    BY <1>1, <2>1, WorkerRetains
  <2>2. CASE Caller
    <3>1. CASE EnqueueFails
      BY <3>1 DEF EnqueueFails, CleanupCreatedMedia, Retained
    <3>2. ASSUME NEW c \in Calls, EnqueueRequests(c) PROVE Retained
      <4>1. draft.row \in Ids /\ rows[draft.row].st = "absent"
        BY <1>1, <3>2, CallersRow
      <4>2. \A j \in Ids : j # draft.row => rows'[j] = rows[j]
        BY <1>1, <3>2, <4>1, Parts DEF EnqueueRequests, EnqueueMany, CommitDraft, StoreTypeOK
      <4> QED
        BY <4>1, <4>2 DEF Retained, Unreplayable, Queued
    <3> QED
      BY <2>2, <3>1, <3>2 DEF Caller
  <2>3. CASE Stop \/ Crash \/ Start
    BY <2>3 DEF Stop, Crash, ProcessGone, Start, Open, store, Retained
  <2>4. ASSUME NEW i \in Ids, CallEnds(i) \/ NotBeforeComes(i) \/ \E c \in Calls : EnqueueBegins(i, c)
        PROVE  Retained
    BY <2>4 DEF CallEnds, NotBeforeComes, EnqueueBegins, Prepare, StoreMediaStream, store, Retained
  <2> QED
    BY <1>1, <2>1, <2>2, <2>3, <2>4 DEF Next
<1>2. ASSUME BInv, [Next]_vars
      PROVE  [\A i \in Ids :
                  \/ Queued(i) /\ Oversized(i) /\ ~Streamable(rows[i])
                  \/ rows[i].st = "sent_pending" /\ ~Fits(rows[i].meta)
                  => \/ rows'[i] = rows[i]
                     \/ rows[i].ver = 1 /\ rows'[i] = [rows[i] EXCEPT !.held = TRUE]]_vars
  BY <1>1, <1>2 DEF Retained, Unreplayable, HeldAtMost
<1> QED
  BY <1>2, BudgetInductive, PTL DEF Spec, OversizedRetained
==============================================================================
