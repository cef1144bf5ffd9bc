------------------------ MODULE HistoryHandoff_proofs ------------------------
(* Theorems about HistoryHandoff: for any links, chats, histories, pages,     *)
(* crashes and failures the handoff hands nothing over twice and skips        *)
(* nothing, and it implements HistoryReplay.  The invariants are HInv and     *)
(* RInv of HistoryInvariant.                                                  *)
EXTENDS HistoryInvariant, FiniteSetTheorems, WellFoundedInduction, TLAPS

------------------------------------------------------------------------------
(* Types.                                                                     *)

(* The fields of staged entries, their keys and their places.                 *)
LEMMA EntryFields ==
    ASSUME NEW e \in Entry
    PROVE  /\ e.id \in Nat \ {0} /\ e.link \in Links /\ e.gen \in Generations
           /\ e.pos \in Nat \ {0} /\ e.gen \in Nat
           /\ KeyOf(e) \in Generations \X (Nat \ {0}) /\ KeyOf(e) \in Nat \X Nat
           /\ PlaceOf(e) \in Nat \X Nat
           /\ KeyOf(e)[1] = e.gen
  BY HandoffAssumption DEF Entry, Generations, KeyOf, PlaceOf

(* Two entries with one key have one id.                                      *)
LEMMA KeyHasId ==
    ASSUME NEW e \in Entry, NEW f \in Entry, KeyOf(e) = KeyOf(f)
    PROVE  e.id = f.id /\ e.gen = f.gen
  BY DEF KeyOf

(* The order of places and of keys is total.                                  *)
LEMMA BelowOrder ==
    ASSUME NEW a \in Nat \X Nat, NEW b \in Nat \X Nat, NEW c \in Nat \X Nat
    PROVE  /\ ~Below(a, a)
           /\ Below(a, b) => ~Below(b, a)
           /\ Below(a, b) /\ Below(b, c) => Below(a, c)
           /\ ~Below(b, a) /\ Below(b, c) => Below(a, c) \/ ~Below(a, b)
           /\ Below(a, b) /\ ~Below(a, c) => ~Below(b, c)
  BY DEF Below

(* The fields of a thread's locals.                                           *)
LEMMA WorkerFields ==
    ASSUME NEW w \in Worker
    PROVE  /\ w.at \in Phases /\ w.link \in Links /\ w.gen \in Generations
           /\ w.after \in Nat \X Nat /\ w.page \subseteq Entry /\ w.last \in BOOLEAN
           /\ w.keys \subseteq Nat \X Nat /\ w.batch \subseteq Entry
           /\ w.after[1] \in Nat
  BY DEF Worker

(* A free thread.                                                             *)
LEMMA FreeFields ==
    /\ Free \in Worker /\ Free.at = "free" /\ Free.page = {} /\ Free.batch = {}
    /\ Free.keys = {} /\ Free.gen = 0
  <1>1. AnyLink \in Links
    BY HandoffAssumption DEF AnyLink
  <1> QED
    BY <1>1, HandoffAssumption DEF Free, Worker, Phases, Generations

(* What a thread of a target changes is its own.                              *)
LEMMA OwnLocals ==
    ASSUME TypeOK, NEW t \in Targets, NEW w \in Worker, Proceed(t, w)
    PROVE  /\ worker' \in [Targets -> Worker]
           /\ worker'[t] = w
           /\ \A u \in Targets : u # t => worker'[u] = worker[u]
  BY DEF TypeOK, Proceed

------------------------------------------------------------------------------
(* Steps of one thread that commit nothing to the queue.                      *)

(* An entry may go if no thread of another chat holds it, nobody stages its   *)
(* generation, and a reader would find it handed over or empty.               *)
MayGo(e, t) ==
    /\ TargetOf[e.link] = t
    /\ ~Staging(e.gen)
    /\ Visible(e) => Handed(e) \/ Kind(e) = "empty"

(* What a thread newly knows it read from the tables.                         *)
Learns(t, w) ==
    /\ w.at # "stage"
    /\ w.at = "obsolete" => worker[t].at = "obsolete" /\ w.link = worker[t].link /\ w.gen = worker[t].gen
    /\ \A k \in w.keys : k \in worker[t].keys \union owned
    /\ \A e \in w.page \union w.batch : e \in Held(t) \/ (e \in entries /\ Visible(e))

Bounded == crashes \in 0 .. MaxCrashes /\ failures \in 0 .. MaxFailures

(* The step of t that removes entries and keys and replaces its locals by w.  *)
Quiet(t, w) ==
    /\ Proceed(t, w)
    /\ up' = up
    /\ UNCHANGED <<published, handed, used, waiting>>
    /\ entries' \subseteq entries
    /\ \A e \in entries \ entries' : MayGo(e, t)
    /\ owned' \subseteq owned
    /\ \A e \in entries' : KeyOf(e) \in owned => KeyOf(e) \in owned'
    /\ Learns(t, w)

(* Such a step keeps the invariant if it keeps that of its own thread.        *)
LEMMA QuietStep ==
    ASSUME HInv, NEW t \in Targets, NEW w \in Worker, Quiet(t, w), Bounded',
           ThreadHolds(t)', ThreadKnows(t)'
    PROVE  HInv'
<1>a. TypeOK /\ entries \subseteq Entry
  BY DEF HInv, TypeOK
<1>b. /\ worker'[t] = w
      /\ \A u \in Targets : u # t => worker'[u] = worker[u]
  BY <1>a, OwnLocals DEF Quiet
<1>c. \A g : Unbegun(g)' <=> Unbegun(g)
  BY DEF Quiet, Unbegun
<1>1. TypeOK'
  BY <1>a, OwnLocals DEF TypeOK, Bounded, Quiet, Positions
<1>d. \A u \in Targets : \A g : StagedBy(u, g)' => StagedBy(u, g) /\ u # t
  BY <1>b DEF Quiet, Learns, StagedBy
<1>e. \A g : Staging(g)' => Staging(g)
  BY <1>d DEF Staging
<1>f. \A g \in Generations : Unhanded(g) => Unhanded(g)'
  <2> SUFFICES ASSUME NEW g \in Generations, Unhanded(g) PROVE Unhanded(g)'
    OBVIOUS
  <2>1. \A l \in Links : published'[l] # g
    BY DEF Quiet, Unhanded
  <2>2. \A l \in Links : \A p \in Positions(l) : handed'[l][g][p] = 0
    BY DEF Quiet, Unhanded
  <2>3. \A k \in owned' : k[1] # g
    BY DEF Quiet, Unhanded
  <2>4. \A u \in Targets : \A k \in worker'[u].keys : k[1] # g
    BY <1>b DEF Quiet, Learns, Unhanded
  <2>5. \A e \in w.page \union w.batch : e.gen # g
    <3> SUFFICES ASSUME NEW e \in w.page \union w.batch PROVE e.gen # g
      OBVIOUS
    <3>1. CASE e \in Held(t)
      BY <3>1 DEF Unhanded
    <3>2. CASE e \in entries /\ Visible(e)
      BY <3>2, <1>a, EntryFields DEF Unhanded, Visible
    <3> QED
      BY <3>1, <3>2 DEF Quiet, Learns
  <2>6. \A u \in Targets : \A e \in Held(u)' : e.gen # g
    BY <2>5, <1>b DEF Unhanded, Held
  <2> QED
    BY <2>1, <2>2, <2>3, <2>4, <2>6 DEF Unhanded, Positions
<1>2. InvisibleUnhanded'
  BY <1>c, <1>e, <1>f DEF HInv, InvisibleUnhanded, Quiet
<1>3. JobsAlone'
  <2>1. \A u \in Targets : worker'[u].at = "stage" => u # t /\ worker'[u] = worker[u]
    BY <1>b DEF Quiet, Learns
  <2>2. \A u \in Targets : worker'[u].at = "obsolete" =>
            worker[u].at = "obsolete" /\ worker'[u].link = worker[u].link
    BY <1>b DEF Quiet, Learns
  <2> QED
    BY <2>1, <2>2, <1>d DEF HInv, JobsAlone, Quiet, StagedBy
<1>4. \A u \in Targets : StagedSoFar(u)'
  <2> SUFFICES ASSUME NEW u \in Targets PROVE StagedSoFar(u)'
    OBVIOUS
  <2>1. CASE u = t
    BY <2>1, <1>b DEF HInv, StagedSoFar, Quiet, Learns
  <2>2. CASE u # t
    <3>1. worker[u].at = "stage" => \A e \in entries : e.gen = worker[u].gen => e \in entries'
      BY DEF Quiet, MayGo, Staging, StagedBy
    <3> QED
      BY <2>2, <3>1, <1>b DEF HInv, StagedSoFar, Quiet, Positions
  <2> QED
    BY <2>1, <2>2
<1>5. StagedOnce'
  BY DEF HInv, StagedOnce, Quiet
<1>6. \A u \in Targets : ThreadHolds(u)'
  <2> SUFFICES ASSUME NEW u \in Targets, u # t PROVE ThreadHolds(u)'
    OBVIOUS
  <2>1. \A e \in Held(u) : e \in entries => e \in entries'
    BY DEF HInv, ThreadHolds, Quiet, MayGo
  <2>2. worker'[u] = worker[u] /\ Held(u)' = Held(u) /\ up' = up
    BY <1>b DEF Held, Quiet
  <2> QED
    BY <2>1, <2>2 DEF HInv, ThreadHolds, Quiet, Held, Positions, KeyOf, PlaceOf, First
<1>7. \A u \in Targets : ThreadKnows(u)'
  <2> SUFFICES ASSUME NEW u \in Targets, u # t PROVE ThreadKnows(u)'
    OBVIOUS
  <2>1. worker'[u] = worker[u]
    BY <1>b
  <2>2. \A k : NoEntryHas(k) => NoEntryHas(k)'
    BY DEF NoEntryHas, Quiet, KeyOf
  <2>3. \A e : Handed(e)' = Handed(e)
    BY DEF Handed, Quiet
  <2> QED
    BY <2>1, <2>2, <2>3 DEF HInv, ThreadKnows, KeyOf, First
<1>8. OwnedIfHanded'
  BY DEF HInv, OwnedIfHanded, Quiet, Handed, KeyOf
<1>9. HandedOnce'
  BY DEF HInv, HandedOnce, Quiet, Positions
<1>10. NothingSkipped'
  <2>2. \A e \in entries : Visible(e) /\ ~Handed(e) /\ Kind(e) # "empty" => e \in entries'
    BY DEF Quiet, MayGo
  <2>4. published' = published /\ handed' = handed
    BY DEF Quiet
  <2> SUFFICES ASSUME NEW l \in Links, published[l] # 0, NEW p \in Positions(l),
                      ~(handed[l][published[l]][p] > 0), History[l][p] # "empty"
               PROVE  \E e \in entries' : e.link = l /\ e.gen = published[l] /\ e.pos = p
    BY <2>4 DEF NothingSkipped, Positions
  <2>5. PICK e \in entries : e.link = l /\ e.gen = published[l] /\ e.pos = p
    BY DEF HInv, NothingSkipped
  <2>6. e \in entries'
    BY <2>2, <2>5 DEF Visible, Handed, Kind
  <2> QED
    BY <2>5, <2>6
<1> QED
  BY <1>1, <1>2, <1>3, <1>4, <1>5, <1>6, <1>7, <1>8, <1>9, <1>10 DEF HInv

(* What the invariant says of one thread, with the types of its locals.       *)
LEMMA OwnState ==
    ASSUME HInv, NEW t \in Targets
    PROVE  /\ TypeOK /\ Bounded /\ entries \subseteq Entry
           /\ owned \subseteq Generations \X (Nat \ {0}) /\ owned \subseteq Nat \X Nat
           /\ worker[t] \in Worker
           /\ ThreadHolds(t) /\ ThreadKnows(t) /\ StagedSoFar(t)
  BY HandoffAssumption DEF HInv, TypeOK, Bounded, Generations

(* Nobody stages the generation of an entry that a thread holds.              *)
LEMMA HeldIsNotStaged ==
    ASSUME HInv, NEW t \in Targets, NEW e \in Held(t)
    PROVE  ~Staging(e.gen)
<1>1. e \in Entry
  BY OwnState, WorkerFields DEF Held
<1> QED
  BY <1>1, EntryFields DEF HInv, InvisibleUnhanded, Unhanded

(* DropObsolete removes entries of other generations of the link that was     *)
(* just published.                                                            *)
LEMMA DropObsoleteStep ==
    ASSUME HInv, NEW t \in Targets, DropObsolete(t) PROVE HInv'
<1> DEFINE v == worker[t]
<1>0. v \in Worker /\ At(t, "obsolete") /\ Held(t) = {}
  BY OwnState DEF DropObsolete, At, ThreadHolds, Paging
<1>1. PICK w \in Worker :
          /\ Proceed(t, w)
          /\ w = v \/ w = Free \/ w = [v EXCEPT !.at = "keys", !.after = <<0, 0>>]
  <2>1. CASE worker' = worker
    BY <2>1, <1>0, OwnState DEF Proceed, TypeOK
  <2>2. CASE Release(t)
    BY <2>2, FreeFields DEF Release
  <2>3. CASE Proceed(t, [v EXCEPT !.at = "keys", !.after = <<0, 0>>])
    BY <2>3, <1>0 DEF Worker, Phases
  <2> QED
    BY <2>1, <2>2, <2>3 DEF DropObsolete
<1>2. w.page = {} /\ w.batch = {} /\ w.keys \subseteq v.keys
  BY <1>0, <1>1, FreeFields DEF Held, Worker
<1>3. w.at \in {"obsolete", "free", "keys"}
  BY <1>0, <1>1, FreeFields DEF At, Worker
<1>4. w.at = "obsolete" => w = v
  BY <1>0, <1>1, FreeFields DEF At, Worker
<1>5. \A e \in entries \ entries' : MayGo(e, t)
  <2> SUFFICES ASSUME NEW e \in entries \ entries' PROVE MayGo(e, t)
    OBVIOUS
  <2>1. e.link = v.link /\ e.gen # v.gen
    BY DEF DropObsolete
  <2>2. TargetOf[v.link] = t /\ published[v.link] = v.gen
    BY <1>0, OwnState DEF HInv, JobsAlone, StagedSoFar, At
  <2>3. ASSUME NEW u \in Targets, StagedBy(u, e.gen) PROVE FALSE
    <3>1. e.link = worker[u].link /\ TargetOf[worker[u].link] = u
      BY <2>3 DEF HInv, JobsAlone, StagedSoFar, StagedBy
    <3> QED
      BY <3>1, <2>1, <2>2, <2>3, <1>0 DEF StagedBy, At
  <2> QED
    BY <2>1, <2>2, <2>3 DEF MayGo, Staging, Visible
<1>6. Quiet(t, w)
  BY <1>1, <1>2, <1>3, <1>4, <1>5, <1>0 DEF DropObsolete, Quiet, Learns, NoTrouble, Held, At
<1>7. worker'[t] = w /\ up' /\ Bounded'
  BY <1>1, OwnState, OwnLocals DEF DropObsolete, NoTrouble, At, Bounded
<1>8. ThreadHolds(t)' /\ ThreadKnows(t)'
  BY <1>7, <1>2, <1>3 DEF ThreadHolds, ThreadKnows, Held, Paging, Gathering
<1> QED
  BY <1>6, <1>7, <1>8, QuietStep

(* Cleaning up keys.                                                          *)
LEMMA ReadKeysStep ==
    ASSUME HInv, NEW t \in Targets, ReadKeys(t) PROVE HInv'
<1> DEFINE v == worker[t]
<1>0. v \in Worker /\ At(t, "keys") /\ Held(t) = {}
  BY OwnState DEF ReadKeys, At, ThreadHolds, Paging
<1>1. PICK w \in Worker :
          /\ Proceed(t, w)
          /\ w.page = v.page /\ w.batch = v.batch
          /\ w.at \in {"pick", "present"}
          /\ w.keys \subseteq v.keys \union owned
  <2>1. CASE ToPhase(t, "pick")
    BY <2>1, <1>0 DEF ToPhase, Worker, Phases
  <2>2. ASSUME NEW K \in SUBSET owned, NEW k \in K,
               Proceed(t, [v EXCEPT !.at = "present", !.keys = K, !.after = k])
        PROVE  \E w \in Worker : /\ Proceed(t, w)
                                  /\ w.page = v.page /\ w.batch = v.batch
                                  /\ w.at \in {"pick", "present"}
                                  /\ w.keys \subseteq v.keys \union owned
    <3> DEFINE w == [v EXCEPT !.at = "present", !.keys = K, !.after = k]
    <3>1. w \in Worker
      BY <1>0, OwnState DEF Worker, Phases
    <3> QED
      BY <3>1, <2>2, <1>0 DEF Worker
  <2> QED
    BY <2>1, <2>2 DEF ReadKeys, FirstPage
<1>2. Quiet(t, w)
  BY <1>1, <1>0 DEF ReadKeys, OnlyReads, durable, NoTrouble, Quiet, Learns, Held, At
<1>3. worker'[t] = w /\ up' /\ Bounded'
  BY <1>1, OwnState, OwnLocals DEF ReadKeys, OnlyReads, NoTrouble, At, Bounded
<1>4. ThreadHolds(t)' /\ ThreadKnows(t)'
  BY <1>3, <1>1, <1>0 DEF ThreadHolds, ThreadKnows, Held, Paging, Gathering
<1> QED
  BY <1>2, <1>3, <1>4, QuietStep

(* The keys whose entries are gone are about to be forgotten.                 *)
LEMMA ReadPresentStep ==
    ASSUME HInv, NEW t \in Targets, ReadPresent(t) PROVE HInv'
<1> DEFINE v == worker[t]
           w == [v EXCEPT !.at = "forget", !.keys = @ \ {KeyOf(e) : e \in entries}]
<1>0. v \in Worker /\ At(t, "present") /\ Held(t) = {}
  BY OwnState DEF ReadPresent, At, ThreadHolds, Paging
<1>1. /\ w \in Worker /\ w.page = {} /\ w.batch = {} /\ w.at = "forget"
      /\ w.keys = v.keys \ {KeyOf(e) : e \in entries}
  BY <1>0 DEF Worker, Phases, Held
<1>2. Quiet(t, w)
  BY <1>1, <1>0 DEF ReadPresent, OnlyReads, durable, NoTrouble, Quiet, Learns, Held, At
<1>3. worker'[t] = w /\ up' /\ Bounded' /\ entries' = entries
  BY <1>1, OwnState, OwnLocals DEF ReadPresent, OnlyReads, NoTrouble, durable, At, Bounded
<1>4. ThreadHolds(t)' /\ ThreadKnows(t)'
  BY <1>3, <1>1 DEF ThreadHolds, ThreadKnows, Held, Paging, Gathering, NoEntryHas, KeyOf
<1> QED
  BY <1>1, <1>2, <1>3, <1>4, QuietStep

(* Forgetting them forgets no key of an entry.                                *)
LEMMA ForgetStaleStep ==
    ASSUME HInv, NEW t \in Targets, ForgetStale(t) PROVE HInv'
<1> DEFINE v == worker[t]
           w == [v EXCEPT !.at = "keys", !.keys = {}]
<1>0. v \in Worker /\ At(t, "forget") /\ Held(t) = {} /\ \A k \in v.keys : NoEntryHas(k)
  BY OwnState DEF ForgetStale, At, ThreadHolds, ThreadKnows, Paging
<1>1. /\ w \in Worker /\ w.page = {} /\ w.batch = {} /\ w.at = "keys" /\ w.keys = {}
  BY <1>0 DEF Worker, Phases, Held
<1>2. Quiet(t, w)
  BY <1>1, <1>0 DEF ForgetStale, NoTrouble, Quiet, Learns, Held, At, NoEntryHas
<1>3. worker'[t] = w /\ up' /\ Bounded'
  BY <1>1, OwnState, OwnLocals DEF ForgetStale, NoTrouble, At, Bounded
<1>4. ThreadHolds(t)' /\ ThreadKnows(t)'
  BY <1>3, <1>1 DEF ThreadHolds, ThreadKnows, Held, Paging, Gathering
<1> QED
  BY <1>1, <1>2, <1>3, <1>4, QuietStep

------------------------------------------------------------------------------
(* Reading pages.                                                             *)

(* A link is started without anything in memory.                              *)
LEMMA PickLinkStep ==
    ASSUME HInv, NEW t \in Targets, PickLink(t) PROVE HInv'
<1> DEFINE v == worker[t]
<1>0. v \in Worker /\ At(t, "pick") /\ Held(t) = {} /\ entries \subseteq Entry
  BY OwnState DEF PickLink, At, ThreadHolds, Paging
<1>1. PICK w \in Worker :
          /\ Proceed(t, w)
          /\ w.page = {} /\ w.batch = {} /\ w.keys = {}
          /\ w.at \in {"free", "page"}
  <2>1. CASE Release(t)
    BY <2>1, FreeFields DEF Release
  <2>2. ASSUME NEW e \in VisibleOf(t), StartLink(t, e)
        PROVE  \E w \in Worker : /\ Proceed(t, w)
                                  /\ w.page = {} /\ w.batch = {} /\ w.keys = {}
                                  /\ w.at \in {"free", "page"}
    <3> DEFINE w == [Free EXCEPT !.at = "page", !.link = e.link]
    <3>1. e.link \in Links
      BY <1>0, EntryFields DEF VisibleOf
    <3>2. w \in Worker /\ w.page = {} /\ w.batch = {} /\ w.keys = {} /\ w.at = "page"
      BY <3>1, FreeFields DEF Worker, Phases
    <3> QED
      BY <3>2, <2>2 DEF StartLink
  <2> QED
    BY <2>1, <2>2 DEF PickLink
<1>2. Quiet(t, w)
  BY <1>1, <1>0 DEF PickLink, OnlyReads, durable, NoTrouble, Quiet, Learns, Held, At
<1>3. worker'[t] = w /\ up' /\ Bounded'
  BY <1>1, OwnState, OwnLocals DEF PickLink, OnlyReads, NoTrouble, At, Bounded
<1>4. ThreadHolds(t)' /\ ThreadKnows(t)'
  BY <1>3, <1>1 DEF ThreadHolds, ThreadKnows, Held, Paging, Gathering
<1> QED
  BY <1>2, <1>3, <1>4, QuietStep

(* The cursor moves past the page that is read; what the batch holds is       *)
(* before it.                                                                 *)
LEMMA ReadPageStep ==
    ASSUME HInv, NEW t \in Targets, ReadPage(t) PROVE HInv'
<1> DEFINE v == worker[t]
           Rest == {e \in VisibleOf(t) : e.link = v.link /\ Below(v.after, PlaceOf(e))}
<1>0. v \in Worker /\ At(t, "page") /\ v.page = {} /\ v.batch \subseteq entries
      /\ entries \subseteq Entry
  BY OwnState DEF ReadPage, At, ThreadHolds, Gathering
<1> DEFINE P == {e \in Rest : Cardinality({f \in Rest : Below(PlaceOf(f), PlaceOf(e))}) < Page}
           last == Cardinality(P) < Page
<1>p. PICK k \in {v.after} \union {PlaceOf(e) : e \in P} :
          /\ IF P = {} THEN k = v.after ELSE IsLast(k, {PlaceOf(e) : e \in P})
          /\ Proceed(t, [v EXCEPT !.at = "owned", !.page = P, !.last = last, !.after = k])
  BY DEF ReadPage
<1>q. P \subseteq Rest /\ last \in BOOLEAN
  OBVIOUS
<1> HIDE DEF P, last
<1> DEFINE w == [v EXCEPT !.at = "owned", !.page = P, !.last = last, !.after = k]
<1>2. P \subseteq entries /\ \A e \in P : TargetOf[e.link] = t /\ Visible(e) /\ Below(v.after, PlaceOf(e))
  BY <1>q DEF VisibleOf
<1>3. k \in Nat \X Nat
  BY <1>0, <1>p, <1>2, EntryFields, WorkerFields
<1>4. /\ w \in Worker /\ w.at = "owned" /\ w.page = P /\ w.batch = v.batch
      /\ w.keys = v.keys /\ w.after = k
  BY <1>0, <1>2, <1>3, <1>q DEF Worker, Phases
<1>5. Quiet(t, w)
  BY <1>p, <1>0, <1>2, <1>4 DEF ReadPage, OnlyReads, durable, NoTrouble, Quiet, Learns, Held, At
<1>6. worker'[t] = w /\ up' /\ Bounded' /\ entries' = entries
  BY <1>p, <1>4, OwnState, OwnLocals DEF ReadPage, OnlyReads, NoTrouble, durable, At, Bounded
<1>7. \A e \in P : ~Below(k, PlaceOf(e))
  <2> SUFFICES ASSUME NEW e \in P PROVE ~Below(k, PlaceOf(e))
    OBVIOUS
  <2>1. PlaceOf(e) = k \/ Below(PlaceOf(e), k)
    BY <1>p DEF IsLast
  <2>2. PlaceOf(e) \in Nat \X Nat
    BY <1>0, <1>2, EntryFields
  <2> QED
    BY <2>1, <2>2, <1>3, BelowOrder
<1>8. \A e \in v.batch : ~Below(v.after, PlaceOf(e)) /\ PlaceOf(e) \in Nat \X Nat
  BY <1>0, OwnState, EntryFields DEF ThreadHolds, Held
<1>9. v.after = k \/ Below(v.after, k)
  BY <1>p, <1>2
<1>10. \A e \in v.batch : ~Below(k, PlaceOf(e))
  BY <1>8, <1>9, <1>3, <1>0, WorkerFields, BelowOrder
<1>11. P \intersect v.batch = {}
  BY <1>2, <1>8
<1>12. \A e \in P \union v.batch : /\ e \in entries
                                  /\ TargetOf[e.link] = t
                                  /\ e.pos \in Positions(e.link)
                                  /\ \A f \in entries : KeyOf(e) = KeyOf(f) => e = f
  <2>1. \A e \in v.batch : TargetOf[e.link] = t
    BY OwnState DEF ThreadHolds, Held
  <2>2. \A e, f \in entries : KeyOf(e) = KeyOf(f) => e = f
    BY <1>0, KeyHasId, OwnState DEF TypeOK
  <2> QED
    BY <2>1, <2>2, <1>0, <1>2, OwnState DEF TypeOK
<1>13. ThreadHolds(t)'
  BY <1>4, <1>6, <1>7, <1>10, <1>11, <1>12
  DEF ThreadHolds, Held, Paging, Gathering, Positions, KeyOf, PlaceOf
<1>14. ThreadKnows(t)'
  BY <1>4, <1>6 DEF ThreadKnows, Paging
<1> QED
  BY <1>4, <1>5, <1>6, <1>13, <1>14, QuietStep

(* The keys found owned belong to entries that were handed over.              *)
LEMMA ReadOwnedStep ==
    ASSUME HInv, NEW t \in Targets, ReadOwned(t) PROVE HInv'
<1> DEFINE v == worker[t]
           w == [v EXCEPT !.at = "entry", !.keys = owned \intersect {KeyOf(e) : e \in v.page}]
<1>0. v \in Worker /\ At(t, "owned") /\ ThreadHolds(t)
  BY OwnState DEF ReadOwned
<1>1. /\ w \in Worker /\ w.page = v.page /\ w.batch = v.batch /\ w.at = "entry"
      /\ w.after = v.after /\ w.keys \subseteq owned
  BY <1>0, OwnState DEF Worker, Phases
<1>2. Quiet(t, w)
  BY <1>1, <1>0 DEF ReadOwned, OnlyReads, durable, NoTrouble, Quiet, Learns, Held, At
<1>3. worker'[t] = w /\ up' /\ Bounded' /\ entries' = entries /\ handed' = handed
  BY <1>1, OwnState, OwnLocals DEF ReadOwned, OnlyReads, NoTrouble, durable, At, Bounded
<1>4. ThreadHolds(t)'
  BY <1>3, <1>1, <1>0 DEF ThreadHolds, Held, Paging, Gathering, At, Positions, KeyOf, PlaceOf
<1>5. v.page \subseteq entries
  BY <1>0 DEF ThreadHolds, At, Paging
<1>6. \A e \in v.page : KeyOf(e) \in w.keys => Handed(e)
  BY <1>1, <1>5 DEF HInv, OwnedIfHanded
<1>7. ThreadKnows(t)'
  BY <1>3, <1>1, <1>6 DEF ThreadKnows, Paging, Handed, KeyOf
<1> QED
  BY <1>1, <1>2, <1>3, <1>4, <1>7, QuietStep

(* The end of a page.                                                         *)
LEMMA EndOfPageStep ==
    ASSUME HInv, NEW t \in Targets, EndOfPage(t) PROVE HInv'
<1> DEFINE v == worker[t]
<1>0. v \in Worker /\ At(t, "entry") /\ v.page = {} /\ ThreadHolds(t)
  BY OwnState DEF EndOfPage
<1>1. PICK phase \in {"page", "enqueue", "pick"} :
          ToPhase(t, phase) /\ (phase = "pick" => v.batch = {})
  BY DEF EndOfPage
<1> DEFINE w == [v EXCEPT !.at = phase]
<1>2. /\ w \in Worker /\ w.page = {} /\ w.batch = v.batch /\ w.at = phase
      /\ w.after = v.after /\ w.keys = v.keys
  BY <1>0, <1>1 DEF Worker, Phases
<1>3. Quiet(t, w)
  BY <1>1, <1>2, <1>0 DEF EndOfPage, ToPhase, OnlyReads, durable, NoTrouble, Quiet, Learns, Held, At
<1>4. worker'[t] = w /\ up' /\ Bounded' /\ entries' = entries
  BY <1>1, <1>2, OwnState, OwnLocals
  DEF EndOfPage, ToPhase, OnlyReads, NoTrouble, durable, At, Bounded
<1>5. ThreadHolds(t)'
  BY <1>4, <1>2, <1>1, <1>0
  DEF ThreadHolds, Held, Paging, Gathering, At, Positions, KeyOf, PlaceOf
<1>6. ThreadKnows(t)'
  BY <1>4, <1>2, <1>1 DEF ThreadKnows
<1> QED
  BY <1>2, <1>3, <1>4, <1>5, <1>6, QuietStep

------------------------------------------------------------------------------
(* Handling the entries of a page.                                            *)

(* What holds of the first entry of the page that a thread handles.           *)
LEMMA AtHand ==
    ASSUME HInv, NEW t \in Targets, NEW e \in worker[t].page, At(t, "entry")
    PROVE  /\ e \in entries /\ e \in Entry /\ e \notin worker[t].batch
           /\ TargetOf[e.link] = t /\ ~Staging(e.gen)
           /\ KeyOf(e) \in worker[t].keys => Handed(e)
           /\ \A f \in entries : KeyOf(e) = KeyOf(f) => e = f
           /\ worker[t].page \subseteq entries /\ worker[t].batch \subseteq entries
  BY OwnState, HeldIsNotStaged DEF At, Held, ThreadHolds, ThreadKnows, Paging, Gathering

(* An entry that is owned already is deleted, and nothing has its key.        *)
LEMMA DeleteOwnedStep ==
    ASSUME HInv, NEW t \in Targets, NEW e \in worker[t].page, DeleteOwned(t, e) PROVE HInv'
<1> DEFINE v == worker[t]
           w == [v EXCEPT !.at = "disown"]
<1>0. v \in Worker /\ At(t, "entry") /\ ThreadHolds(t) /\ ThreadKnows(t) /\ e = First(v.page)
  BY OwnState DEF DeleteOwned, AtEntry
<1>1. /\ w \in Worker /\ w.page = v.page /\ w.batch = v.batch /\ w.at = "disown"
      /\ w.after = v.after /\ w.keys = v.keys
  BY <1>0 DEF Worker, Phases
<1>h. /\ e \in entries /\ e \notin v.batch /\ TargetOf[e.link] = t
      /\ e.pos \in Positions(e.link) /\ ~Below(v.after, PlaceOf(e))
      /\ \A f \in entries : KeyOf(e) = KeyOf(f) => e = f
      /\ v.page \subseteq entries /\ v.batch \subseteq entries
  BY <1>0, AtHand DEF ThreadHolds, Held
<1>2. MayGo(e, t)
  BY <1>0, AtHand DEF MayGo, DeleteOwned
<1>3. Quiet(t, w)
  BY <1>0, <1>1, <1>2, AtHand DEF DeleteOwned, ToPhase, NoTrouble, Quiet, Learns, Held, KeyOf, At
<1>4. worker'[t] = w /\ up' /\ Bounded' /\ entries' = entries \ {e} /\ handed' = handed
  BY <1>0, <1>1, OwnState, OwnLocals DEF DeleteOwned, ToPhase, NoTrouble, At, Bounded
<1>5. ThreadHolds(t)'
  <2>1. /\ Held(t)' = w.page \union w.batch /\ Held(t) = v.page \union v.batch
        /\ Held(t)' \subseteq Held(t)
    BY <1>1, <1>4 DEF Held
  <2>2. /\ \A f \in Held(t)' : TargetOf[f.link] = t /\ f.pos \in Positions(f.link)'
        /\ \A f \in Held(t)' : ~Below(w.after, PlaceOf(f))
        /\ w.page \intersect w.batch = {}
    BY <2>1, <1>0, <1>1, <1>h DEF ThreadHolds, Positions
  <2>3. \A f \in Held(t)', g \in entries' : KeyOf(f)' = KeyOf(g)' => f = g
    BY <2>1, <1>0, <1>4 DEF ThreadHolds, KeyOf
  <2> QED
    BY <2>2, <2>3, <1>0, <1>1, <1>4, <1>h
    DEF ThreadHolds, Paging, Gathering, KeyOf, PlaceOf, First
<1>6. ThreadKnows(t)'
  <2>1. NoEntryHas(KeyOf(e))'
    BY <1>4, <1>h DEF NoEntryHas, KeyOf
  <2>2. First(w.page) = e
    BY <1>0, <1>1
  <2>3. \A f \in w.page : KeyOf(f) \in w.keys => Handed(f)'
    BY <1>0, <1>1, <1>4 DEF ThreadKnows, Paging, Handed, At
  <2> QED
    BY <2>1, <2>2, <2>3, <1>1, <1>4 DEF ThreadKnows, NoEntryHas, Handed, KeyOf, First
<1> QED
  BY <1>1, <1>3, <1>4, <1>5, <1>6, QuietStep

(* Its key, which belongs to no entry any more, is forgotten.                 *)
LEMMA ForgetOwnedStep ==
    ASSUME HInv, NEW t \in Targets, NEW e \in worker[t].page, ForgetOwned(t, e) PROVE HInv'
<1> DEFINE v == worker[t]
           w == [v EXCEPT !.at = "entry", !.page = @ \ {e}]
<1>0. /\ v \in Worker /\ At(t, "disown") /\ ThreadHolds(t) /\ ThreadKnows(t)
      /\ e = First(v.page) /\ NoEntryHas(KeyOf(e))
  BY OwnState DEF ForgetOwned, ThreadKnows, At
<1>1. /\ w \in Worker /\ w.page = v.page \ {e} /\ w.batch = v.batch /\ w.at = "entry"
      /\ w.after = v.after /\ w.keys = v.keys
  BY <1>0 DEF Worker, Phases
<1>2. Quiet(t, w)
  BY <1>0, <1>1 DEF ForgetOwned, Handled, NoTrouble, Quiet, Learns, Held, NoEntryHas, At
<1>3. worker'[t] = w /\ up' /\ Bounded' /\ entries' = entries /\ handed' = handed
  BY <1>0, <1>1, OwnState, OwnLocals DEF ForgetOwned, Handled, NoTrouble, At, Bounded
<1>4. ThreadHolds(t)'
  BY <1>0, <1>1, <1>3 DEF ThreadHolds, Held, Paging, Gathering, Positions, KeyOf, PlaceOf, At
<1>5. ThreadKnows(t)'
  BY <1>0, <1>1, <1>3 DEF ThreadKnows, Paging, Handed, KeyOf, At
<1> QED
  BY <1>1, <1>2, <1>3, <1>4, <1>5, QuietStep

(* An entry without content is deleted.                                       *)
LEMMA PassOverEmptyStep ==
    ASSUME HInv, NEW t \in Targets, NEW e \in worker[t].page, PassOverEmpty(t, e) PROVE HInv'
<1> DEFINE v == worker[t]
           w == [v EXCEPT !.at = "entry", !.page = @ \ {e}]
<1>0. v \in Worker /\ At(t, "entry") /\ ThreadHolds(t) /\ ThreadKnows(t)
  BY OwnState DEF PassOverEmpty, Prepare, AtEntry
<1>1. /\ w \in Worker /\ w.page = v.page \ {e} /\ w.batch = v.batch /\ w.at = "entry"
      /\ w.after = v.after /\ w.keys = v.keys
  BY <1>0 DEF Worker, Phases
<1>h. /\ e \in entries /\ e \notin v.batch /\ TargetOf[e.link] = t
      /\ e.pos \in Positions(e.link) /\ ~Below(v.after, PlaceOf(e))
      /\ \A f \in entries : KeyOf(e) = KeyOf(f) => e = f
      /\ v.page \subseteq entries /\ v.batch \subseteq entries
  BY <1>0, AtHand DEF ThreadHolds, Held
<1>2. MayGo(e, t)
  BY <1>0, AtHand DEF MayGo, PassOverEmpty
<1>3. Quiet(t, w)
  BY <1>0, <1>1, <1>2 DEF PassOverEmpty, Handled, NoTrouble, Quiet, Learns, Held, At
<1>4. worker'[t] = w /\ up' /\ Bounded' /\ entries' = entries \ {e} /\ handed' = handed
  BY <1>0, <1>1, OwnState, OwnLocals DEF PassOverEmpty, Handled, NoTrouble, At, Bounded
<1>5. ThreadHolds(t)'
  <2>1. /\ Held(t)' = w.page \union w.batch /\ Held(t) = v.page \union v.batch
        /\ Held(t)' \subseteq Held(t)
    BY <1>1, <1>4 DEF Held
  <2>2. /\ \A f \in Held(t)' : TargetOf[f.link] = t /\ f.pos \in Positions(f.link)'
        /\ \A f \in Held(t)' : ~Below(w.after, PlaceOf(f))
        /\ w.page \intersect w.batch = {}
    BY <2>1, <1>0, <1>1, <1>h DEF ThreadHolds, Positions
  <2>3. \A f \in Held(t)', g \in entries' : KeyOf(f)' = KeyOf(g)' => f = g
    BY <2>1, <1>0, <1>4 DEF ThreadHolds, KeyOf
  <2> QED
    BY <2>2, <2>3, <1>0, <1>1, <1>4, <1>h
    DEF ThreadHolds, Paging, Gathering, KeyOf, PlaceOf, First
<1>6. ThreadKnows(t)'
  BY <1>0, <1>1, <1>4 DEF ThreadKnows, Paging, Handed, KeyOf, At
<1> QED
  BY <1>1, <1>3, <1>4, <1>5, <1>6, QuietStep

(* A text moves from the page to the batch.                                   *)
LEMMA AddTextStep ==
    ASSUME HInv, NEW t \in Targets, NEW e \in worker[t].page, AddText(t, e) PROVE HInv'
<1> DEFINE v == worker[t]
           w == [v EXCEPT !.page = @ \ {e}, !.batch = @ \union {e}]
<1>0. v \in Worker /\ At(t, "entry") /\ ThreadHolds(t) /\ ThreadKnows(t) /\ Proceed(t, w)
  BY OwnState DEF AddText, Prepare, AtEntry
<1>1. /\ w \in Worker /\ w.page = v.page \ {e} /\ w.batch = v.batch \union {e}
      /\ w.at = "entry" /\ w.after = v.after /\ w.keys = v.keys
  BY <1>0, WorkerFields DEF Worker, Phases, At
<1>2. Quiet(t, w)
  BY <1>0, <1>1 DEF AddText, OnlyReads, durable, NoTrouble, Quiet, Learns, Held, At
<1>3. worker'[t] = w /\ up' /\ Bounded' /\ entries' = entries /\ handed' = handed
  BY <1>0, <1>1, OwnState, OwnLocals DEF AddText, OnlyReads, durable, NoTrouble, At, Bounded
<1>4. ThreadHolds(t)'
  BY <1>0, <1>1, <1>3, AtHand
  DEF ThreadHolds, Held, Paging, Gathering, Positions, KeyOf, PlaceOf
<1>5. ThreadKnows(t)'
  BY <1>0, <1>1, <1>3 DEF ThreadKnows, Paging, Handed, KeyOf, At
<1> QED
  BY <1>1, <1>2, <1>3, <1>4, <1>5, QuietStep

(* The batch is about to be enqueued.                                         *)
LEMMA FlushTextStep ==
    ASSUME HInv, NEW t \in Targets, NEW e \in worker[t].page, FlushText(t, e) PROVE HInv'
<1> DEFINE v == worker[t]
           w == [v EXCEPT !.at = "enqueue"]
<1>0. v \in Worker /\ At(t, "entry") /\ ThreadHolds(t) /\ ThreadKnows(t) /\ Proceed(t, w)
  BY OwnState DEF FlushText, Prepare, AtEntry, ToPhase
<1>1. /\ w \in Worker /\ w.page = v.page /\ w.batch = v.batch /\ w.at = "enqueue"
      /\ w.after = v.after /\ w.keys = v.keys
  BY <1>0 DEF Worker, Phases
<1>2. Quiet(t, w)
  BY <1>0, <1>1 DEF FlushText, OnlyReads, durable, NoTrouble, Quiet, Learns, Held, At
<1>3. worker'[t] = w /\ up' /\ Bounded' /\ entries' = entries /\ handed' = handed
  BY <1>0, <1>1, OwnState, OwnLocals DEF FlushText, OnlyReads, durable, NoTrouble, At, Bounded
<1>4. ThreadHolds(t)'
  BY <1>0, <1>1, <1>3
  DEF ThreadHolds, Held, Paging, Gathering, Positions, KeyOf, PlaceOf, At
<1>5. ThreadKnows(t)'
  BY <1>0, <1>1, <1>3 DEF ThreadKnows, Paging, Handed, KeyOf, At
<1> QED
  BY <1>1, <1>2, <1>3, <1>4, <1>5, QuietStep

(* A medium goes alone.                                                       *)
LEMMA TakeMediaStep ==
    ASSUME HInv, NEW t \in Targets, NEW e \in worker[t].page, TakeMedia(t, e) PROVE HInv'
<1> DEFINE v == worker[t]
           w == [v EXCEPT !.at = "enqueue", !.page = @ \ {e}, !.batch = {e}]
<1>0. v \in Worker /\ At(t, "entry") /\ ThreadHolds(t) /\ ThreadKnows(t) /\ Proceed(t, w)
  BY OwnState DEF TakeMedia, Prepare, AtEntry
<1>1. /\ w \in Worker /\ w.page = v.page \ {e} /\ w.batch = {e} /\ w.at = "enqueue"
      /\ w.after = v.after /\ w.keys = v.keys
  BY <1>0, WorkerFields DEF Worker, Phases
<1>h. /\ e \in entries /\ e \notin v.batch /\ TargetOf[e.link] = t
      /\ e.pos \in Positions(e.link) /\ ~Below(v.after, PlaceOf(e))
      /\ \A f \in entries : KeyOf(e) = KeyOf(f) => e = f
      /\ v.page \subseteq entries /\ v.batch \subseteq entries
  BY <1>0, AtHand DEF ThreadHolds, Held
<1>2. Quiet(t, w)
  BY <1>0, <1>1 DEF TakeMedia, OnlyReads, durable, NoTrouble, Quiet, Learns, Held, At
<1>3. worker'[t] = w /\ up' /\ Bounded' /\ entries' = entries /\ handed' = handed
  BY <1>0, <1>1, OwnState, OwnLocals DEF TakeMedia, OnlyReads, durable, NoTrouble, At, Bounded
<1>4. ThreadHolds(t)'
  BY <1>0, <1>1, <1>3, <1>h
  DEF ThreadHolds, Held, Paging, Gathering, Positions, KeyOf, PlaceOf
<1>5. ThreadKnows(t)'
  BY <1>0, <1>1, <1>3 DEF ThreadKnows, Paging, Handed, KeyOf, At
<1> QED
  BY <1>1, <1>2, <1>3, <1>4, <1>5, QuietStep

------------------------------------------------------------------------------
(* After the commit.                                                          *)

(* Entries that were handed over are deleted by their ids, which are their    *)
(* own; when none is left no entry has a key of the batch.                    *)
LEMMA DeleteHandedStep ==
    ASSUME HInv, NEW t \in Targets, DeleteHanded(t) PROVE HInv'
<1> DEFINE v == worker[t]
<1>0. /\ v \in Worker /\ At(t, "delete") /\ ThreadHolds(t) /\ ThreadKnows(t) /\ Bounded
      /\ TypeOK /\ entries \subseteq Entry
  BY OwnState DEF DeleteHanded
<1>1. CASE v.batch \intersect entries = {} /\ ToPhase(t, "release") /\ UNCHANGED entries
  <2> DEFINE w == [v EXCEPT !.at = "release"]
  <2>1. /\ w \in Worker /\ w.page = v.page /\ w.batch = v.batch /\ w.at = "release"
        /\ w.after = v.after /\ w.keys = v.keys
    BY <1>0 DEF Worker, Phases
  <2>2. Quiet(t, w)
    BY <1>0, <1>1, <2>1 DEF DeleteHanded, ToPhase, NoTrouble, Quiet, Learns, Held, At
  <2>3. worker'[t] = w /\ up' /\ Bounded' /\ entries' = entries /\ handed' = handed
    BY <1>0, <1>1, <2>1, OwnLocals DEF DeleteHanded, ToPhase, NoTrouble, At, Bounded
  <2>4. ThreadHolds(t)'
    BY <1>0, <2>1, <2>3
    DEF ThreadHolds, Held, Paging, Gathering, Positions, KeyOf, PlaceOf, At
  <2>5. \A e \in v.batch : NoEntryHas(KeyOf(e))
    BY <1>0, <1>1 DEF ThreadHolds, Held, NoEntryHas
  <2>6. ThreadKnows(t)'
    BY <1>0, <2>1, <2>3, <2>5 DEF ThreadKnows, Paging, Handed, KeyOf, At, NoEntryHas
  <2> QED
    BY <2>1, <2>2, <2>3, <2>4, <2>6, QuietStep
<1>2. ASSUME NEW e \in v.batch \intersect entries,
             entries' = {f \in entries : f.id # e.id}, UNCHANGED worker
      PROVE  HInv'
  <2>1. entries' = entries \ {e}
    BY <1>0, <1>2 DEF TypeOK
  <2>2. e \in Held(t) /\ e \notin v.page /\ Handed(e) /\ TargetOf[e.link] = t
    BY <1>0 DEF ThreadHolds, ThreadKnows, Held, At
  <2>3. MayGo(e, t)
    BY <2>2, HeldIsNotStaged DEF MayGo
  <2>4. Proceed(t, v) /\ worker'[t] = v
    BY <1>0, <1>2 DEF Proceed, TypeOK
  <2>5. Quiet(t, v)
    BY <1>0, <2>1, <2>3, <2>4 DEF DeleteHanded, NoTrouble, Quiet, Learns, Held, At
  <2>6. up' /\ Bounded' /\ handed' = handed
    BY <1>0 DEF DeleteHanded, NoTrouble, At, Bounded
  <2>7. ThreadHolds(t)'
    <3>1. Held(t)' = Held(t)
      BY <2>4 DEF Held
    <3>2. \A f \in Held(t), g \in entries' : KeyOf(f)' = KeyOf(g)' => f = g
      BY <1>0, <2>1 DEF ThreadHolds, KeyOf
    <3>3. v.page \subseteq entries'
      BY <1>0, <2>1, <2>2 DEF ThreadHolds, Paging, At
    <3> QED
      BY <3>1, <3>2, <3>3, <1>0, <2>4, <2>6
      DEF ThreadHolds, Paging, Gathering, Positions, PlaceOf, At
  <2>8. ThreadKnows(t)'
    BY <1>0, <2>4, <2>6 DEF ThreadKnows, Paging, Handed, KeyOf, At
  <2> QED
    BY <1>0, <2>4, <2>5, <2>6, <2>7, <2>8, QuietStep
<1> QED
  BY <1>1, <1>2 DEF DeleteHanded

(* Then their keys are forgotten.                                             *)
LEMMA ForgetHandedStep ==
    ASSUME HInv, NEW t \in Targets, ForgetHanded(t) PROVE HInv'
<1> DEFINE v == worker[t]
           w == [v EXCEPT !.at = "answer"]
<1>0. /\ v \in Worker /\ At(t, "release") /\ ThreadHolds(t) /\ ThreadKnows(t)
      /\ \A e \in v.batch : NoEntryHas(KeyOf(e))
  BY OwnState DEF ForgetHanded, ThreadKnows, At
<1>1. /\ w \in Worker /\ w.page = v.page /\ w.batch = v.batch /\ w.at = "answer"
      /\ w.after = v.after /\ w.keys = v.keys
  BY <1>0 DEF Worker, Phases
<1>2. Quiet(t, w)
  <2>1. \A e \in entries : KeyOf(e) \notin BatchKeys(t)
    BY <1>0 DEF BatchKeys, NoEntryHas
  <2> QED
    BY <2>1, <1>0, <1>1 DEF ForgetHanded, ToPhase, NoTrouble, Quiet, Learns, Held, At
<1>3. worker'[t] = w /\ up' /\ Bounded' /\ entries' = entries /\ handed' = handed
  BY <1>0, <1>1, OwnState, OwnLocals DEF ForgetHanded, ToPhase, NoTrouble, At, Bounded
<1>4. ThreadHolds(t)'
  BY <1>0, <1>1, <1>3
  DEF ThreadHolds, Held, Paging, Gathering, Positions, KeyOf, PlaceOf, At
<1>5. ThreadKnows(t)'
  BY <1>0, <1>1, <1>3 DEF ThreadKnows, Paging, Handed, KeyOf, At
<1> QED
  BY <1>1, <1>2, <1>3, <1>4, <1>5, QuietStep

(* The outcome lets the thread drop its batch.                                *)
LEMMA AnsweredStep ==
    ASSUME HInv, NEW t \in Targets, Answered(t) PROVE HInv'
<1> DEFINE v == worker[t]
           w == [v EXCEPT !.at = "entry", !.batch = {}]
<1>0. v \in Worker /\ At(t, "answer") /\ ThreadHolds(t) /\ ThreadKnows(t)
  BY OwnState DEF Answered
<1>1. /\ w \in Worker /\ w.page = v.page /\ w.batch = {} /\ w.at = "entry"
      /\ w.after = v.after /\ w.keys = v.keys
  BY <1>0 DEF Worker, Phases
<1>2. Quiet(t, w)
  BY <1>0, <1>1 DEF Answered, OnlyReads, durable, NoTrouble, Quiet, Learns, Held, At
<1>3. worker'[t] = w /\ up' /\ Bounded' /\ entries' = entries /\ handed' = handed
  BY <1>0, <1>1, OwnState, OwnLocals DEF Answered, OnlyReads, durable, NoTrouble, At, Bounded
<1>4. ThreadHolds(t)'
  BY <1>0, <1>1, <1>3
  DEF ThreadHolds, Held, Paging, Gathering, Positions, KeyOf, PlaceOf, At
<1>5. ThreadKnows(t)'
  BY <1>0, <1>1, <1>3 DEF ThreadKnows, Paging, Handed, KeyOf, At
<1> QED
  BY <1>1, <1>2, <1>3, <1>4, <1>5, QuietStep

(* A thread that ends forgets what it held; its entries stay.                 *)
LEMMA StepFailsStep ==
    ASSUME HInv, NEW t \in Targets, StepFails(t) PROVE HInv'
<1>0. /\ Free \in Worker /\ Free.at = "free" /\ Free.page = {} /\ Free.batch = {}
      /\ Free.keys = {}
  BY FreeFields
<1>1. Quiet(t, Free)
  BY <1>0 DEF StepFails, GivesUp, Release, durable, Quiet, Learns
<1>2. worker'[t] = Free /\ up'
  BY <1>0, OwnState, OwnLocals DEF StepFails, GivesUp, Release
<1>3. Bounded'
  BY OwnState, HandoffAssumption DEF StepFails, GivesUp, Bounded
<1>4. ThreadHolds(t)' /\ ThreadKnows(t)'
  BY <1>2, <1>0 DEF ThreadHolds, ThreadKnows, Held, Paging, Gathering
<1> QED
  BY <1>0, <1>1, <1>2, <1>3, <1>4, QuietStep

------------------------------------------------------------------------------
(* The commit to the queue.                                                   *)

Same(B, l, g, p) == {e \in B : e.link = l /\ e.gen = g /\ e.pos = p}

(* What Commit adds for a message is 1 if the batch holds it, and 0 if not.   *)
LEMMA CommitAdds ==
    ASSUME HInv, NEW t \in Targets, At(t, "enqueue"), Commit(t),
           NEW l \in Links, NEW g \in Generations, NEW p \in Positions(l)
    PROVE  /\ handed[l][g][p] \in Nat
           /\ Same(worker[t].batch, l, g, p) = {} => handed'[l][g][p] = handed[l][g][p]
           /\ Same(worker[t].batch, l, g, p) # {} => handed'[l][g][p] = handed[l][g][p] + 1
<1> DEFINE S == Same(worker[t].batch, l, g, p)
<1>1. handed'[l][g][p] = handed[l][g][p] + Cardinality(S)
  BY DEF Commit, Same
<1>2. handed[l][g][p] \in Nat
  BY OwnState DEF TypeOK
<1>3. CASE S = {}
  BY <1>1, <1>2, <1>3, FS_EmptySet
<1>4. CASE S # {}
  <2>1. PICK e \in S : TRUE
    BY <1>4
  <2>2. \A f \in S : f = e
    BY OwnState DEF Same, HInv, StagedOnce, ThreadHolds, Gathering, At
  <2>3. S = {e}
    BY <2>2
  <2>4. Cardinality(S) = 1
    BY <2>3, FS_Singleton
  <2> QED
    BY <1>1, <1>2, <1>4, <2>4
<1> QED
  BY <1>2, <1>3, <1>4

(* The commit, after which the thread goes on or ends.                        *)
LEMMA CommitStep ==
    ASSUME HInv, NEW t \in Targets, At(t, "enqueue"), Commit(t),
           NEW w \in Worker, Proceed(t, w), Bounded',
           w = Free \/ w = [worker[t] EXCEPT !.at = "delete"],
           UNCHANGED <<entries, published, used, waiting, up>>
    PROVE  HInv'
<1> DEFINE v == worker[t]
           B == worker[t].batch
<1>0. /\ v \in Worker /\ TypeOK /\ entries \subseteq Entry
      /\ ThreadHolds(t) /\ ThreadKnows(t) /\ B \subseteq entries
  BY OwnState DEF ThreadHolds, At, Gathering
<1>1. /\ worker'[t] = w
      /\ \A u \in Targets : u # t => worker'[u] = worker[u]
      /\ worker' \in [Targets -> Worker]
  BY <1>0, OwnLocals
<1>2. /\ w.at \in {"free", "delete"}
      /\ w.page \subseteq v.page /\ w.batch \subseteq v.batch /\ w.keys \subseteq v.keys
      /\ w.at = "delete" => w.page = v.page /\ w.batch = v.batch /\ w.keys = v.keys /\ w.after = v.after
      /\ w.at = "free" => w = Free /\ w.page = {} /\ w.batch = {}
  BY <1>0, FreeFields DEF Worker, Phases
<1>a. ASSUME NEW e, e.link \in Links, e.gen \in Generations, e.pos \in Positions(e.link)
      PROVE  LET h == handed[e.link][e.gen][e.pos]
                 S == Same(B, e.link, e.gen, e.pos)
             IN  h \in Nat /\ (S = {} => h' = h) /\ (S # {} => h' = h + 1)
  <2> DEFINE l == e.link  g == e.gen  p == e.pos
  <2>1. l \in Links /\ g \in Generations /\ p \in Positions(l)
    BY <1>a
  <2> HIDE DEF l, g, p
  <2>2. /\ handed[l][g][p] \in Nat
        /\ Same(B, l, g, p) = {} => handed'[l][g][p] = handed[l][g][p]
        /\ Same(B, l, g, p) # {} => handed'[l][g][p] = handed[l][g][p] + 1
    BY <2>1, CommitAdds
  <2> QED
    BY <2>2 DEF l, g, p
<1>3. \A e \in entries : /\ KeyOf(e) \in owned' <=> (KeyOf(e) \in owned \/ e \in B)
                         /\ Handed(e)' <=> (Handed(e) \/ e \in B)
  <2> SUFFICES ASSUME NEW e \in entries
               PROVE  /\ KeyOf(e) \in owned' <=> (KeyOf(e) \in owned \/ e \in B)
                      /\ Handed(e)' <=> (Handed(e) \/ e \in B)
    OBVIOUS
  <2>1. \A f \in B : KeyOf(f) = KeyOf(e) => e = f
    BY <1>0 DEF ThreadHolds, Held
  <2>2. e.link \in Links /\ e.gen \in Generations /\ e.pos \in Positions(e.link)
    BY <1>0, EntryFields DEF TypeOK
  <2>3. Same(B, e.link, e.gen, e.pos) # {} <=> e \in B
    BY <1>0 DEF Same, HInv, StagedOnce
  <2>4. Handed(e)' <=> (Handed(e) \/ e \in B)
    <3> DEFINE h == handed[e.link][e.gen][e.pos]
               S == Same(B, e.link, e.gen, e.pos)
    <3>1. h \in Nat /\ (S = {} => h' = h) /\ (S # {} => h' = h + 1)
      BY <2>2, <1>a
    <3>2. (Handed(e)' <=> h' > 0) /\ (Handed(e) <=> h > 0)
      BY DEF Handed
    <3> HIDE DEF h, S
    <3>3. S # {} <=> e \in B
      BY <2>3 DEF S
    <3> QED
      BY <3>1, <3>2, <3>3
  <2> QED
    BY <2>1, <2>4 DEF Commit, BatchKeys
<1>4. \A l \in Links, g \in Generations : \A p \in Positions(l) :
          /\ handed[l][g][p] \in Nat /\ handed'[l][g][p] \in Nat
          /\ handed[l][g][p] > 0 => handed'[l][g][p] > 0
  BY CommitAdds
<1>5. TypeOK'
  <2>1. owned' \subseteq Generations \X (Nat \ {0})
    BY <1>0, EntryFields DEF TypeOK, Commit, BatchKeys
  <2>2. \A l \in Links, g \in Generations : handed'[l][g] \in [Positions(l) -> Nat]
    <3> SUFFICES ASSUME NEW l \in Links, NEW g \in Generations
                 PROVE  handed'[l][g] \in [Positions(l) -> Nat]
      OBVIOUS
    <3>1. handed'[l][g] = [p \in Positions(l) |-> handed[l][g][p] + Cardinality(Same(B, l, g, p))]
      BY DEF Commit, Same
    <3> QED
      BY <3>1, <1>4
  <2> QED
    BY <2>1, <2>2, <1>0, <1>1 DEF TypeOK, Bounded, Positions
<1>6. \A u \in Targets : \A g : StagedBy(u, g)' => StagedBy(u, g) /\ u # t
  BY <1>1, <1>2 DEF StagedBy
<1>7. InvisibleUnhanded'
  <2>1. \A g : Unbegun(g)' <=> Unbegun(g)
    BY DEF Unbegun
  <2>2. \A g : Staging(g)' => Staging(g)
    BY <1>6 DEF Staging
  <2>3. ASSUME NEW g \in Generations, Unhanded(g) PROVE Unhanded(g)'
    <3>1. \A e \in B : e.gen # g /\ KeyOf(e)[1] = e.gen
      BY <2>3, <1>0, EntryFields DEF Unhanded, Held
    <3>2. \A k \in owned' : k[1] # g
      BY <2>3, <3>1 DEF Unhanded, Commit, BatchKeys
    <3>3. \A l \in Links : \A p \in Positions(l) : handed'[l][g][p] = 0
      <4> SUFFICES ASSUME NEW l \in Links, NEW p \in Positions(l) PROVE handed'[l][g][p] = 0
        OBVIOUS
      <4>1. Same(B, l, g, p) = {}
        BY <3>1 DEF Same
      <4> QED
        BY <4>1, <2>3, CommitAdds DEF Unhanded
    <3>4. \A u \in Targets : \A k \in worker'[u].keys : k[1] # g
      BY <2>3, <1>1, <1>2 DEF Unhanded
    <3>5. \A u \in Targets : \A e \in Held(u)' : e.gen # g
      BY <2>3, <1>1, <1>2 DEF Unhanded, Held
    <3> QED
      BY <2>3, <3>2, <3>3, <3>4, <3>5 DEF Unhanded, Positions
  <2> QED
    BY <2>1, <2>2, <2>3 DEF HInv, InvisibleUnhanded
<1>8. JobsAlone'
  <2>1. \A u \in Targets : worker'[u].at \in {"stage", "obsolete"} => u # t /\ worker'[u] = worker[u]
    BY <1>1, <1>2
  <2> QED
    BY <2>1, <1>6 DEF HInv, JobsAlone, StagedBy
<1>9. \A u \in Targets : StagedSoFar(u)'
  BY <1>1, <1>2 DEF HInv, StagedSoFar, Positions
<1>10. StagedOnce'
  BY DEF HInv, StagedOnce
<1>11. \A u \in Targets : ThreadHolds(u)'
  <2> SUFFICES ASSUME NEW u \in Targets PROVE ThreadHolds(u)'
    OBVIOUS
  <2>1. CASE u # t
    BY <2>1, <1>1 DEF HInv, ThreadHolds, Held, Positions, KeyOf, PlaceOf, First
  <2>2. CASE u = t /\ w.at = "delete"
    BY <2>2, <1>0, <1>1, <1>2
    DEF ThreadHolds, Held, Positions, KeyOf, PlaceOf, First, At, Paging, Gathering
  <2>3. CASE u = t /\ w.at = "free"
    BY <2>3, <1>1, <1>2
    DEF ThreadHolds, Held, Paging, Gathering
  <2> QED
    BY <2>1, <2>2, <2>3, <1>2
<1>12. \A u \in Targets : ThreadKnows(u)'
  <2> SUFFICES ASSUME NEW u \in Targets PROVE ThreadKnows(u)'
    OBVIOUS
  <2>1. \A e \in Held(u) : Handed(e) => Handed(e)'
    <3> SUFFICES ASSUME NEW e \in Held(u) PROVE Handed(e) => Handed(e)'
      OBVIOUS
    <3>1. e.link \in Links /\ e.gen \in Generations /\ e.pos \in Positions(e.link)
      BY OwnState, WorkerFields, EntryFields DEF Held, ThreadHolds
    <3> QED
      BY <3>1, <1>4 DEF Handed
  <2>2. \A k : NoEntryHas(k)' <=> NoEntryHas(k)
    BY DEF NoEntryHas, KeyOf
  <2>3. CASE u # t
    BY <2>1, <2>2, <2>3, <1>1 DEF HInv, ThreadKnows, Held, KeyOf, First
  <2>4. CASE u = t /\ w.at = "delete"
    <3>1. \A e \in w.batch : Handed(e)'
      BY <2>4, <1>0, <1>2, <1>3
    <3>2. \A e \in w.page : KeyOf(e) \in w.keys => Handed(e)'
      BY <2>1, <2>4, <1>0, <1>2 DEF ThreadKnows, Held, At, Paging
    <3> QED
      BY <3>1, <3>2, <2>4, <1>1 DEF ThreadKnows, KeyOf
  <2>5. CASE u = t /\ w.at = "free"
    BY <2>5, <1>1 DEF ThreadKnows, Paging
  <2> QED
    BY <2>3, <2>4, <2>5, <1>2
<1>13. OwnedIfHanded'
  BY <1>3 DEF HInv, OwnedIfHanded, KeyOf
<1>14. HandedOnce'
  <2> SUFFICES ASSUME NEW l \in Links, NEW g \in Generations, NEW p \in Positions(l)
               PROVE  handed'[l][g][p] <= 1
    BY DEF HandedOnce, Positions
  <2>1. CASE Same(B, l, g, p) = {}
    BY <2>1, CommitAdds DEF HInv, HandedOnce
  <2>2. CASE Same(B, l, g, p) # {}
    <3>1. PICK e \in B : e.link = l /\ e.gen = g /\ e.pos = p
      BY <2>2 DEF Same
    <3>2. ~Handed(e)
      BY <1>0 DEF HInv, OwnedIfHanded, Commit, BatchKeys
    <3> QED
      BY <2>2, <3>1, <3>2, CommitAdds DEF Handed
  <2> QED
    BY <2>1, <2>2
<1>15. NothingSkipped'
  BY <1>0, <1>4 DEF HInv, NothingSkipped, TypeOK, Positions
<1> QED
  BY <1>5, <1>7, <1>8, <1>9, <1>10, <1>11, <1>12, <1>13, <1>14, <1>15 DEF HInv

(* The thread that learns of its commit.                                      *)
LEMMA EnqueueBatchStep ==
    ASSUME HInv, NEW t \in Targets, EnqueueBatch(t) PROVE HInv'
<1> DEFINE w == [worker[t] EXCEPT !.at = "delete"]
<1>1. w \in Worker
  BY OwnState DEF Worker, Phases
<1>2. Bounded'
  BY OwnState DEF EnqueueBatch, NoTrouble, Bounded
<1> QED
  BY <1>1, <1>2, CommitStep DEF EnqueueBatch, ToPhase, NoTrouble

(* The thread that does not.                                                  *)
LEMMA EnqueuedUnknowinglyStep ==
    ASSUME HInv, NEW t \in Targets, EnqueuedUnknowingly(t) PROVE HInv'
<1>1. Bounded'
  BY OwnState, HandoffAssumption DEF EnqueuedUnknowingly, GivesUp, Bounded
<1> QED
  BY <1>1, FreeFields, CommitStep DEF EnqueuedUnknowingly, GivesUp, Release

------------------------------------------------------------------------------
(* Beginning a replay.                                                        *)

(* A thread whose locals stay is as it was while the tables stay.             *)
LEMMA SameThread ==
    ASSUME NEW t \in Targets, StagedSoFar(t), ThreadHolds(t), ThreadKnows(t),
           worker'[t] = worker[t],
           UNCHANGED <<entries, handed, up>>,
           worker[t].at = "obsolete" => published'[worker[t].link] = published[worker[t].link]
    PROVE  StagedSoFar(t)' /\ ThreadHolds(t)' /\ ThreadKnows(t)'
<1>1. StagedSoFar(t)'
  BY DEF StagedSoFar, Positions
<1>2. ThreadHolds(t)'
  BY DEF ThreadHolds, Held, Positions, KeyOf, PlaceOf, First
<1>3. \A k : NoEntryHas(k)' <=> NoEntryHas(k)
  BY DEF NoEntryHas, KeyOf
<1>4. \A e : Handed(e)' <=> Handed(e)
  BY DEF Handed
<1>5. ThreadKnows(t)'
  BY <1>3, <1>4 DEF ThreadKnows, KeyOf, First
<1> QED
  BY <1>1, <1>2, <1>5

(* A requested replay takes a number that nothing has.                        *)
LEMMA RequestReplayStep ==
    ASSUME HInv, NEW l \in Links, NEW g \in Generations, RequestReplay(l, g) PROVE HInv'
<1> DEFINE job == [target |-> TargetOf[l], link |-> l, gen |-> g]
<1>0. /\ up /\ g # 0 /\ g \notin used /\ TypeOK
      /\ used' = used \union {g} /\ waiting' = waiting \union {job}
      /\ UNCHANGED <<entries, published, owned, handed, worker, up, crashes, failures>>
  BY DEF RequestReplay, NoTrouble, HInv
<1>1. job \in Job
  BY HandoffAssumption DEF Job
<1>2. TypeOK'
  BY <1>0, <1>1 DEF TypeOK, Positions
<1>3. /\ \A h : Unbegun(h)' => Unbegun(h)
      /\ \A h : Staging(h)' <=> Staging(h)
      /\ \A h \in Generations : Unhanded(h)' <=> Unhanded(h)
  BY <1>0 DEF Unbegun, Staging, StagedBy, Unhanded, Held, Positions
<1>4. InvisibleUnhanded'
  BY <1>0, <1>3 DEF HInv, InvisibleUnhanded
<1>5. JobsAlone'
  BY <1>0 DEF HInv, JobsAlone, StagedBy
<1>6. \A t \in Targets : StagedSoFar(t)' /\ ThreadHolds(t)' /\ ThreadKnows(t)'
  BY <1>0, SameThread DEF HInv
<1>7. StagedOnce' /\ OwnedIfHanded' /\ HandedOnce' /\ NothingSkipped'
  BY <1>0 DEF HInv, StagedOnce, OwnedIfHanded, HandedOnce, NothingSkipped, Handed, KeyOf, Positions
<1> QED
  BY <1>2, <1>4, <1>5, <1>6, <1>7 DEF HInv

(* The thread that has the lock is the only one of its generation.            *)
LEMMA TakeLockStep ==
    ASSUME HInv, NEW t \in Targets, TakeLock(t) PROVE HInv'
<1>1. PICK job \in waiting :
          /\ job.target = t
          /\ waiting' = waiting \ {job}
          /\ Proceed(t, [Free EXCEPT !.at = IF job.gen = 0 THEN "keys" ELSE "stage",
                                     !.link = job.link, !.gen = job.gen])
  BY DEF TakeLock
<1> DEFINE g == job.gen
           w == [Free EXCEPT !.at = IF job.gen = 0 THEN "keys" ELSE "stage",
                             !.link = job.link, !.gen = job.gen]
<1>0. /\ UNCHANGED <<entries, published, owned, handed, used, up, crashes, failures>>
      /\ up /\ worker[t].at = "free" /\ TypeOK /\ job \in Job
  BY <1>1 DEF TakeLock, At, durable, NoTrouble, HInv, TypeOK
<1>2. /\ w \in Worker /\ w.page = {} /\ w.batch = {} /\ w.keys = {}
      /\ w.link = job.link /\ w.gen = g /\ w.after[1] = 0
      /\ w.at = IF g = 0 THEN "keys" ELSE "stage"
  BY <1>0, FreeFields DEF Free, Worker, Phases, Job
<1>3. /\ worker'[t] = w
      /\ \A u \in Targets : u # t => worker'[u] = worker[u]
      /\ worker' \in [Targets -> Worker]
  BY <1>0, <1>1, <1>2, OwnLocals
<1> HIDE DEF w
<1>4. TypeOK'
  BY <1>0, <1>1, <1>3 DEF TypeOK, Positions
<1>5. g # 0 => /\ Unbegun(g) /\ Unhanded(g) /\ ~Staging(g) /\ g \in Generations
               /\ ~Unbegun(g)'
               /\ \A e \in entries : e.gen # g
  BY <1>0, <1>1 DEF HInv, InvisibleUnhanded, JobsAlone, Unbegun, Job
<1>6. \A h : Unbegun(h)' => Unbegun(h)
  BY <1>0, <1>1 DEF Unbegun
<1>7. \A u \in Targets, h \in Generations :
          StagedBy(u, h)' => IF u = t THEN h = g /\ g # 0 ELSE StagedBy(u, h)
  <2> SUFFICES ASSUME NEW u \in Targets, NEW h \in Generations, StagedBy(u, h)'
               PROVE  IF u = t THEN h = g /\ g # 0 ELSE StagedBy(u, h)
    OBVIOUS
  <2>1. CASE u = t
    BY <2>1, <1>2, <1>3 DEF StagedBy
  <2>2. CASE u # t
    BY <2>2, <1>3 DEF StagedBy
  <2> QED
    BY <2>1, <2>2
<1>8. \A h \in Generations : Staging(h)' => Staging(h) \/ (h = g /\ g # 0)
  BY <1>7 DEF Staging
<1>9. \A h \in Generations : Unhanded(h) => Unhanded(h)'
  BY <1>0, <1>2, <1>3 DEF Unhanded, Held, Positions
<1>10. InvisibleUnhanded'
  <2> SUFFICES ASSUME NEW h \in Generations
               PROVE  /\ Unbegun(h)' \/ Staging(h)' => Unhanded(h)'
                      /\ Unbegun(h)' => ~Staging(h)' /\ \A e \in entries' : e.gen # h
    BY DEF InvisibleUnhanded
  <2>1. CASE h = g /\ g # 0
    BY <2>1, <1>5, <1>9
  <2>2. CASE ~(h = g /\ g # 0)
    BY <2>2, <1>0, <1>6, <1>8, <1>9 DEF HInv, InvisibleUnhanded
  <2> QED
    BY <2>1, <2>2
<1>11. JobsAlone'
  <2>1. /\ \A i \in waiting' : i.gen # 0 => i.gen \in used' /\ TargetOf[i.link] = i.target
        /\ \A i, j \in waiting' : i.gen = j.gen /\ i.gen # 0 => i = j
    BY <1>0, <1>1 DEF HInv, JobsAlone
  <2>a. /\ TargetOf[w.link] = t \/ w.at = "keys"
        /\ w.gen \in used \/ w.at = "keys"
    BY <1>1, <1>2 DEF HInv, JobsAlone
  <2>2. \A u \in Targets : worker'[u].at \in {"stage", "obsolete"} => TargetOf[worker'[u].link] = u
    BY <2>a, <1>2, <1>3 DEF HInv, JobsAlone
  <2>3. \A u \in Targets : worker'[u].at = "stage" => worker'[u].gen \in used'
    BY <2>a, <1>0, <1>2, <1>3 DEF HInv, JobsAlone
  <2>4. ASSUME NEW u \in Targets, NEW x \in Targets,
               worker'[u].at = "stage", StagedBy(x, worker[u].gen)'
        PROVE  u = x
    <3>1. CASE u = t
      BY <2>4, <3>1, <1>2, <1>3, <1>5 DEF StagedBy, Staging
    <3>2. CASE x = t
      BY <2>4, <3>2, <1>2, <1>3, <1>5 DEF StagedBy, Staging
    <3>3. CASE u # t /\ x # t
      BY <2>4, <3>3, <1>3 DEF StagedBy, HInv, JobsAlone
    <3> QED
      BY <3>1, <3>2, <3>3
  <2>5. \A u, x \in Targets : worker'[u].at = "stage" /\ StagedBy(x, worker[u].gen)' => u = x
    BY <2>4
  <2> QED
    BY <2>1, <2>2, <2>3, <2>5 DEF JobsAlone, StagedBy
<1>12. \A u \in Targets : StagedSoFar(u)'
  <2> SUFFICES ASSUME NEW u \in Targets PROVE StagedSoFar(u)'
    OBVIOUS
  <2>1. CASE u # t
    BY <2>1, <1>0, <1>3, SameThread DEF HInv
  <2>2. CASE u = t
    <3>1. \A p \in Positions(w.link) : p \in Nat \ {0}
      <4>1. History[w.link] \in Seq(Kinds)
        BY <1>2, WorkerFields, HandoffAssumption
      <4> QED
        BY <4>1 DEF Positions
    <3>2. ~(\E p \in Positions(w.link) : p <= w.after[1])
      BY <3>1, <1>2
    <3> QED
      BY <2>2, <3>2, <1>0, <1>2, <1>3, <1>5 DEF StagedSoFar, Positions
  <2> QED
    BY <2>1, <2>2
<1>13. \A u \in Targets : ThreadHolds(u)' /\ ThreadKnows(u)'
  <2> SUFFICES ASSUME NEW u \in Targets PROVE ThreadHolds(u)' /\ ThreadKnows(u)'
    OBVIOUS
  <2>1. CASE u # t
    BY <2>1, <1>0, <1>3, SameThread DEF HInv
  <2>2. CASE u = t
    BY <2>2, <1>0, <1>2, <1>3 DEF ThreadHolds, ThreadKnows, Held, Paging, Gathering
  <2> QED
    BY <2>1, <2>2
<1>14. StagedOnce' /\ OwnedIfHanded' /\ HandedOnce' /\ NothingSkipped'
  BY <1>0 DEF HInv, StagedOnce, OwnedIfHanded, HandedOnce, NothingSkipped, Handed, KeyOf, Positions
<1> QED
  BY <1>4, <1>10, <1>11, <1>12, <1>13, <1>14 DEF HInv

(* The pointer moves when the last message is staged.                         *)
LEMMA PublishStep ==
    ASSUME HInv, NEW t \in Targets, Publish(t) PROVE HInv'
<1> DEFINE v == worker[t]
           w == [v EXCEPT !.at = "obsolete"]
<1>0. /\ UNCHANGED <<entries, owned, handed, used, waiting, up, crashes, failures>>
      /\ up /\ v.at = "stage" /\ TypeOK /\ v \in Worker /\ Proceed(t, w)
      /\ published' = [published EXCEPT ![v.link] = v.gen]
      /\ Len(History[v.link]) <= v.after[1]
      /\ Held(t) = {} /\ StagedSoFar(t)
  BY OwnState DEF Publish, At, ToPhase, NoTrouble, AllStaged, ThreadHolds, Paging
<1>1. /\ w \in Worker /\ w.page = {} /\ w.batch = {} /\ w.keys = v.keys /\ w.link = v.link
      /\ w.gen = v.gen /\ w.at = "obsolete" /\ v.link \in Links /\ v.gen \in Generations
  BY <1>0 DEF Worker, Phases, Held
<1>2. /\ worker'[t] = w
      /\ \A u \in Targets : u # t => worker'[u] = worker[u]
      /\ worker' \in [Targets -> Worker]
  BY <1>0, <1>1, OwnLocals
<1> HIDE DEF w
<1>3. \A l \in Links : published'[l] = IF l = v.link THEN v.gen ELSE published[l]
  BY <1>0 DEF TypeOK
<1>4. TypeOK'
  BY <1>0, <1>1, <1>2 DEF TypeOK, Positions
<1>5. StagedBy(t, v.gen) /\ TargetOf[v.link] = t
  BY <1>0 DEF StagedBy, HInv, JobsAlone
<1>6. \A u \in Targets : \A h : StagedBy(u, h)' => StagedBy(u, h) /\ h # v.gen
  BY <1>0, <1>1, <1>2, <1>5 DEF StagedBy, HInv, JobsAlone
<1>7. /\ \A h : Staging(h)' => Staging(h) /\ h # v.gen
      /\ \A h : Unbegun(h)' <=> Unbegun(h)
      /\ ~Unbegun(v.gen)
  BY <1>0, <1>1, <1>5, <1>6 DEF Staging, Unbegun, HInv, InvisibleUnhanded
<1>8. \A h \in Generations : Unhanded(h) /\ h # v.gen => Unhanded(h)'
  <2> SUFFICES ASSUME NEW h \in Generations, Unhanded(h), h # v.gen PROVE Unhanded(h)'
    OBVIOUS
  <2>1. \A l \in Links : published'[l] # h
    BY <1>3 DEF Unhanded
  <2>2. \A u \in Targets : \A k \in worker'[u].keys : k[1] # h
    BY <1>1, <1>2 DEF Unhanded
  <2>3. \A u \in Targets : \A e \in Held(u)' : e.gen # h
    BY <1>1, <1>2 DEF Unhanded, Held
  <2> QED
    BY <2>1, <2>2, <2>3, <1>0 DEF Unhanded, Positions
<1>9. InvisibleUnhanded'
  BY <1>0, <1>7, <1>8 DEF HInv, InvisibleUnhanded
<1>10. JobsAlone'
  BY <1>0, <1>1, <1>2, <1>5, <1>6 DEF HInv, JobsAlone, StagedBy
<1>a. \A u \in Targets \ {t} :
          worker[u].at = "obsolete" => published'[worker[u].link] = published[worker[u].link]
  <2> SUFFICES ASSUME NEW u \in Targets \ {t}, worker[u].at = "obsolete"
               PROVE  published'[worker[u].link] = published[worker[u].link]
    OBVIOUS
  <2>1. worker[u].link # v.link
    BY <1>5 DEF HInv, JobsAlone
  <2>2. worker[u].link \in Links
    BY OwnState, WorkerFields
  <2> QED
    BY <2>1, <2>2, <1>3
<1>11. \A u \in Targets : StagedSoFar(u)'
  <2> SUFFICES ASSUME NEW u \in Targets PROVE StagedSoFar(u)'
    OBVIOUS
  <2>1. CASE u = t
    BY <2>1, <1>1, <1>2, <1>3 DEF StagedSoFar
  <2>2. CASE u # t
    BY <2>2, <1>a, <1>0, <1>2, SameThread DEF HInv
  <2> QED
    BY <2>1, <2>2
<1>12. \A u \in Targets : ThreadHolds(u)' /\ ThreadKnows(u)'
  <2> SUFFICES ASSUME NEW u \in Targets PROVE ThreadHolds(u)' /\ ThreadKnows(u)'
    OBVIOUS
  <2>1. CASE u # t
    BY <2>1, <1>a, <1>0, <1>2, SameThread DEF HInv
  <2>2. CASE u = t
    BY <2>2, <1>0, <1>1, <1>2 DEF ThreadHolds, ThreadKnows, Held, Paging, Gathering
  <2> QED
    BY <2>1, <2>2
<1>13. StagedOnce' /\ OwnedIfHanded' /\ HandedOnce'
  BY <1>0 DEF HInv, StagedOnce, OwnedIfHanded, HandedOnce, Handed, KeyOf, Positions
<1>14. NothingSkipped'
  <2> SUFFICES ASSUME NEW l \in Links, published'[l] # 0, NEW p \in Positions(l)
               PROVE  \/ handed[l][published'[l]][p] > 0
                      \/ History[l][p] = "empty"
                      \/ \E e \in entries : e.link = l /\ e.gen = published'[l] /\ e.pos = p
    BY <1>0 DEF NothingSkipped, Positions
  <2>1. CASE l = v.link
    <3>1. p <= v.after[1]
      BY <2>1, <1>0, <1>1, WorkerFields, HandoffAssumption DEF Positions
    <3> QED
      BY <2>1, <3>1, <1>0, <1>3 DEF StagedSoFar
  <2>2. CASE l # v.link
    BY <2>2, <1>3 DEF HInv, NothingSkipped
  <2> QED
    BY <2>1, <2>2
<1> QED
  BY <1>4, <1>9, <1>10, <1>11, <1>12, <1>13, <1>14 DEF HInv

(* A batch of messages is staged: new ids, a generation that nothing knows,   *)
(* and positions behind those staged so far.                                  *)
LEMMA StageBatchStep ==
    ASSUME HInv, NEW t \in Targets, StageBatch(t) PROVE HInv'
<1> DEFINE v == worker[t]
           done == v.after[1]
           batch == {p \in Positions(v.link) : done < p /\ p <= done + Page}
           w == [v EXCEPT !.after = <<done + Page, 0>>]
<1>0. /\ UNCHANGED <<published, owned, handed, used, waiting, up, crashes, failures>>
      /\ up /\ v.at = "stage" /\ TypeOK /\ entries \subseteq Entry /\ v \in Worker
      /\ Proceed(t, w) /\ Held(t) = {} /\ StagedSoFar(t)
  BY OwnState DEF StageBatch, At, NoTrouble, ThreadHolds, Paging
<1>1. /\ v.link \in Links /\ v.gen \in Generations \ {0} /\ done \in Nat /\ Page \in Nat \ {0}
      /\ \A p \in Positions(v.link) : p \in Nat \ {0}
  <2>1. v.link \in Links /\ v.gen \in Generations /\ done \in Nat
    BY <1>0, WorkerFields
  <2>2. v.gen # 0
    BY <1>0 DEF HInv, JobsAlone, TypeOK
  <2>3. History[v.link] \in Seq(Kinds)
    BY <2>1, HandoffAssumption
  <2> QED
    BY <2>1, <2>2, <2>3, HandoffAssumption DEF Positions
<1>2. /\ w \in Worker /\ w.page = v.page /\ w.batch = v.batch /\ w.keys = v.keys /\ w.link = v.link
      /\ w.gen = v.gen /\ w.at = v.at /\ w.after[1] = done + Page
  BY <1>0, <1>1 DEF Worker
<1>3. /\ worker'[t] = w
      /\ \A u \in Targets : u # t => worker'[u] = worker[u]
      /\ worker' \in [Targets -> Worker]
  BY <1>0, <1>2, OwnLocals
<1>4. PICK last \in LastId :
          entries' = entries \union
              {[id |-> last + (p - done), link |-> v.link, gen |-> v.gen, pos |-> p] : p \in batch}
  BY DEF StageBatch
<1>5. last \in Nat /\ \A e \in entries : e.id <= last
  BY <1>0, EntryFields DEF LastId
<1> HIDE DEF w
<1> DEFINE New == entries' \ entries
<1>6. /\ \A e \in New : /\ e \in Entry /\ e.link = v.link /\ e.gen = v.gen /\ e.pos \in batch
                        /\ e.id = last + (e.pos - done) /\ e.id > last
      /\ \A e, f \in New : e.pos = f.pos \/ e.id = f.id => e = f
      /\ entries \subseteq entries'
      /\ \A p \in batch : \E e \in entries' : e.link = v.link /\ e.gen = v.gen /\ e.pos = p
  <2> DEFINE r(p) == [id |-> last + (p - done), link |-> v.link, gen |-> v.gen, pos |-> p]
  <2>1. \A p \in batch : /\ r(p) \in Entry /\ r(p).link = v.link /\ r(p).gen = v.gen
                         /\ r(p).pos = p /\ r(p).id = last + (p - done) /\ r(p).id > last
    BY <1>1, <1>5 DEF Entry
  <2>2. entries' = entries \union {r(p) : p \in batch}
    BY <1>4
  <2>3. \A p, q \in batch : p = q \/ r(p).id = r(q).id => r(p) = r(q)
    BY <1>1, <1>5
  <2> HIDE DEF r, batch
  <2>4. \A e \in New : \E p \in batch : e = r(p)
    BY <2>2
  <2> QED
    BY <2>1, <2>2, <2>3, <2>4
<1>7. /\ Unhanded(v.gen) /\ ~Unbegun(v.gen) /\ TargetOf[v.link] = t
      /\ \A u \in Targets : u # t => ~StagedBy(u, v.gen)
  <2>1. StagedBy(t, v.gen)
    BY <1>0 DEF StagedBy
  <2> QED
    BY <2>1, <1>0, <1>1 DEF HInv, InvisibleUnhanded, JobsAlone, Staging, StagedBy
<1>8. TypeOK'
  <2>1. entries' \subseteq Entry
    BY <1>0, <1>6
  <2>2. \A e \in entries' : e.pos \in Positions(e.link)
    BY <1>0, <1>6 DEF TypeOK
  <2>3. \A e, f \in entries' : e.id = f.id => e = f
    <3> SUFFICES ASSUME NEW e \in entries', NEW f \in entries', e.id = f.id PROVE e = f
      OBVIOUS
    <3>1. CASE e \in entries /\ f \in entries
      BY <3>1, <1>0 DEF TypeOK
    <3>2. CASE e \in New /\ f \in New
      BY <3>2, <1>6
    <3>3. CASE (e \in entries /\ f \in New) \/ (e \in New /\ f \in entries)
      BY <3>3, <1>0, <1>5, <1>6, <2>1, EntryFields
    <3> QED
      BY <3>1, <3>2, <3>3
  <2> QED
    BY <2>1, <2>2, <2>3, <1>0, <1>3 DEF TypeOK, Positions
<1>9. \A u \in Targets : worker'[u].at = worker[u].at /\ worker'[u].gen = worker[u].gen
                         /\ worker'[u].link = worker[u].link /\ worker'[u].keys = worker[u].keys
                         /\ Held(u)' = Held(u)
  BY <1>2, <1>3 DEF Held
<1>10. InvisibleUnhanded'
  <2>1. \A h : Unbegun(h)' <=> Unbegun(h)
    BY <1>0 DEF Unbegun
  <2>2. \A h : Staging(h)' <=> Staging(h)
    BY <1>9 DEF Staging, StagedBy
  <2>3. \A h \in Generations : Unhanded(h) => Unhanded(h)'
    BY <1>0, <1>9 DEF Unhanded, Positions
  <2>4. \A h \in Generations : Unbegun(h) => \A e \in entries' : e.gen # h
    BY <1>6, <1>7 DEF HInv, InvisibleUnhanded
  <2> QED
    BY <2>1, <2>2, <2>3, <2>4 DEF HInv, InvisibleUnhanded
<1>11. JobsAlone'
  BY <1>0, <1>9 DEF HInv, JobsAlone, StagedBy
<1>12. \A u \in Targets : StagedSoFar(u)'
  <2> SUFFICES ASSUME NEW u \in Targets PROVE StagedSoFar(u)'
    OBVIOUS
  <2>1. CASE u = t
    <3>1. \A e \in entries' : e.gen = w.gen => e.link = w.link /\ e.pos <= w.after[1]
      <4> SUFFICES ASSUME NEW e \in entries', e.gen = v.gen
                   PROVE  e.link = v.link /\ e.pos <= done + Page
        BY <1>2
      <4>1. CASE e \in entries
        BY <4>1, <1>0, <1>1, EntryFields DEF StagedSoFar
      <4>2. CASE e \in New
        BY <4>2, <1>6
      <4> QED
        BY <4>1, <4>2
    <3>2. ASSUME NEW p \in Positions(w.link), p <= w.after[1]
          PROVE  \E e \in entries' : e.link = w.link /\ e.gen = w.gen /\ e.pos = p
      <4>1. CASE p <= done
        BY <3>2, <4>1, <1>0, <1>2, <1>6 DEF StagedSoFar
      <4>2. CASE ~(p <= done)
        BY <3>2, <4>2, <1>1, <1>2, <1>6
      <4> QED
        BY <4>1, <4>2
    <3> QED
      BY <2>1, <3>1, <3>2, <1>0, <1>2, <1>3 DEF StagedSoFar, Positions
  <2>2. CASE u # t
    <3>1. worker[u].at = "stage" => worker[u].gen # v.gen
      BY <2>2, <1>7 DEF StagedBy
    <3>2. \A e \in entries' : worker[u].at = "stage" /\ e.gen = worker[u].gen => e \in entries
      BY <3>1, <1>6
    <3> QED
      BY <2>2, <3>2, <1>0, <1>3, <1>6 DEF HInv, StagedSoFar, Positions
  <2> QED
    BY <2>1, <2>2
<1>13. StagedOnce'
  <2> SUFFICES ASSUME NEW e \in entries', NEW f \in entries',
                      e.link = f.link, e.gen = f.gen, e.pos = f.pos
               PROVE  e = f
    BY DEF StagedOnce
  <2>1. \A x \in entries, y \in New : x.gen = y.gen => x.pos # y.pos
    BY <1>0, <1>1, <1>6, EntryFields DEF StagedSoFar
  <2>2. CASE e \in entries /\ f \in entries
    BY <2>2 DEF HInv, StagedOnce
  <2>3. CASE e \in New /\ f \in New
    BY <2>3, <1>6
  <2> QED
    BY <2>1, <2>2, <2>3
<1>14. \A e \in New : KeyOf(e) = <<v.gen, e.id>> /\ KeyOf(e)[1] = v.gen
  BY <1>6 DEF KeyOf
<1>15. \A k : NoEntryHas(k) /\ k[1] # v.gen => NoEntryHas(k)'
  BY <1>14 DEF NoEntryHas, KeyOf
<1>16. \A u \in Targets : \A e \in Held(u) : e.gen # v.gen /\ KeyOf(e)[1] # v.gen
  BY <1>7 DEF Unhanded, KeyOf
<1>17. \A u \in Targets : ThreadHolds(u)'
  <2> SUFFICES ASSUME NEW u \in Targets PROVE ThreadHolds(u)'
    OBVIOUS
  <2>1. \A e \in Held(u), f \in entries' : KeyOf(e)' = KeyOf(f)' => e = f
    BY <1>14, <1>16 DEF HInv, ThreadHolds, KeyOf
  <2>2. CASE u = t
    BY <2>1, <2>2, <1>0, <1>2, <1>3, <1>9 DEF ThreadHolds, Held, Paging, Gathering
  <2>3. CASE u # t
    BY <2>1, <2>3, <1>0, <1>3, <1>6, <1>9
    DEF HInv, ThreadHolds, Held, Positions, PlaceOf, First
  <2> QED
    BY <2>2, <2>3
<1>18. \A u \in Targets : ThreadKnows(u)'
  <2> SUFFICES ASSUME NEW u \in Targets PROVE ThreadKnows(u)'
    OBVIOUS
  <2>1. CASE u = t
    BY <2>1, <1>0, <1>2, <1>3 DEF ThreadKnows, Paging
  <2>2. CASE u # t
    <3> DEFINE x == worker[u]
    <3>1. x.at = "forget" => \A k \in x.keys : NoEntryHas(k)'
      BY <1>7, <1>15 DEF HInv, ThreadKnows, Unhanded
    <3>2. x.at = "disown" => NoEntryHas(KeyOf(First(x.page)))'
      <4> DEFINE k == KeyOf(First(x.page))
      <4>1. x.at = "disown" => NoEntryHas(k) /\ k[1] # v.gen
        BY <1>16 DEF HInv, ThreadHolds, ThreadKnows, Held
      <4>2. k' = k
        BY <2>2, <1>3 DEF KeyOf, First
      <4> HIDE DEF k
      <4>3. x.at = "disown" => \A e \in entries' : KeyOf(e) # k
        BY <4>1, <1>14 DEF NoEntryHas
      <4>4. x.at = "disown" => NoEntryHas(k)'
        BY <4>2, <4>3 DEF NoEntryHas, KeyOf
      <4> QED
        BY <4>4 DEF k
    <3>3. x.at = "release" => \A e \in x.batch : NoEntryHas(KeyOf(e))'
      <4>1. x.at = "release" => \A e \in x.batch : e \in Held(u) /\ NoEntryHas(KeyOf(e))
        BY DEF HInv, ThreadKnows, Held
      <4> QED
        BY <4>1, <1>15, <1>16 DEF NoEntryHas, KeyOf
    <3>4. \A e : Handed(e)' <=> Handed(e)
      BY <1>0 DEF Handed
    <3> QED
      BY <2>2, <3>1, <3>2, <3>3, <3>4, <1>3 DEF HInv, ThreadKnows, KeyOf, First, NoEntryHas
  <2> QED
    BY <2>1, <2>2
<1>19. OwnedIfHanded'
  <2>1. \A e \in New : KeyOf(e) \notin owned /\ ~Handed(e)
    <3> SUFFICES ASSUME NEW e \in New PROVE KeyOf(e) \notin owned /\ ~Handed(e)
      OBVIOUS
    <3>1. KeyOf(e) \notin owned
      BY <1>7, <1>14 DEF Unhanded
    <3>2. handed[e.link][e.gen][e.pos] = 0
      BY <1>1, <1>6, <1>7 DEF Unhanded
    <3> QED
      BY <3>1, <3>2 DEF Handed
  <2> QED
    BY <2>1, <1>0 DEF HInv, OwnedIfHanded, Handed, KeyOf
<1>20. HandedOnce' /\ NothingSkipped'
  BY <1>0, <1>6 DEF HInv, HandedOnce, NothingSkipped, Positions
<1> QED
  BY <1>8, <1>10, <1>11, <1>12, <1>13, <1>17, <1>18, <1>19, <1>20 DEF HInv

------------------------------------------------------------------------------
(* The process.                                                               *)

(* A crash leaves the tables.                                                 *)
LEMMA CrashStep ==
    ASSUME HInv, Crash PROVE HInv'
<1>0. /\ UNCHANGED <<entries, published, owned, handed, used, failures>>
      /\ up' = FALSE /\ waiting' = {} /\ worker' = [t \in Targets |-> Free] /\ TypeOK
      /\ crashes' = crashes + 1 /\ crashes < MaxCrashes
  BY DEF Crash, durable, HInv
<1>a. crashes' \in 0 .. MaxCrashes
  BY <1>0, HandoffAssumption DEF TypeOK
<1>b. worker' \in [Targets -> Worker]
  BY FreeFields DEF Crash
<1>1. TypeOK'
  BY <1>0, <1>a, <1>b DEF TypeOK, Positions
<1>2. /\ \A g : Unbegun(g)' => Unbegun(g)
      /\ \A g : ~Staging(g)'
  BY <1>0, FreeFields DEF Unbegun, Staging, StagedBy
<1>3. \A g \in Generations : Unhanded(g) => Unhanded(g)'
  BY <1>0, FreeFields DEF Unhanded, Held, Positions
<1>4. InvisibleUnhanded'
  BY <1>0, <1>2, <1>3 DEF HInv, InvisibleUnhanded
<1>5. JobsAlone'
  BY <1>0, FreeFields DEF JobsAlone
<1>6. \A t \in Targets : StagedSoFar(t)' /\ ThreadHolds(t)' /\ ThreadKnows(t)'
  BY <1>0, FreeFields DEF StagedSoFar, ThreadHolds, ThreadKnows, Held, Paging, Gathering
<1>7. StagedOnce' /\ OwnedIfHanded' /\ HandedOnce' /\ NothingSkipped'
  BY <1>0 DEF HInv, StagedOnce, OwnedIfHanded, HandedOnce, NothingSkipped, Handed, KeyOf, Positions
<1> QED
  BY <1>1, <1>4, <1>5, <1>6, <1>7 DEF HInv

(* A start removes only what is not visible.                                  *)
LEMMA RestartStep ==
    ASSUME HInv, Restart PROVE HInv'
<1>0. /\ UNCHANGED <<published, owned, handed, used, worker, crashes, failures>>
      /\ up' \in BOOLEAN /\ TypeOK /\ \A t \in Targets : worker[t] = Free
      /\ entries' \subseteq entries /\ \A e \in entries : Visible(e) => e \in entries'
      /\ waiting' = {[target |-> t, link |-> AnyLink, gen |-> 0] : t \in Resumable}
      /\ up'
  BY DEF Restart, Reclaimed, HInv, ThreadHolds
<1>1. \A job \in waiting' : job \in Job /\ job.gen = 0
  <2>1. AnyLink \in Links /\ 0 \in Generations /\ Resumable \subseteq Targets
    BY HandoffAssumption DEF AnyLink, Generations, Resumable
  <2> QED
    BY <2>1, <1>0 DEF Job
<1>2. TypeOK'
  BY <1>0, <1>1 DEF TypeOK, Positions
<1>3. /\ \A g : Unbegun(g)' => Unbegun(g)
      /\ \A g : ~Staging(g)'
  BY <1>0, <1>1, FreeFields DEF Unbegun, Staging, StagedBy
<1>4. \A g \in Generations : Unhanded(g) => Unhanded(g)'
  BY <1>0 DEF Unhanded, Held, Positions
<1>5. InvisibleUnhanded'
  BY <1>0, <1>3, <1>4 DEF HInv, InvisibleUnhanded
<1>6. JobsAlone'
  BY <1>0, <1>1, FreeFields DEF JobsAlone
<1>7. \A t \in Targets : StagedSoFar(t)' /\ ThreadHolds(t)' /\ ThreadKnows(t)'
  BY <1>0, FreeFields DEF StagedSoFar, ThreadHolds, ThreadKnows, Held, Paging, Gathering
<1>8. StagedOnce' /\ OwnedIfHanded' /\ HandedOnce'
  BY <1>0 DEF HInv, StagedOnce, OwnedIfHanded, HandedOnce, Handed, KeyOf, Positions
<1>9. NothingSkipped'
  BY <1>0 DEF HInv, NothingSkipped, Visible, Positions
<1> QED
  BY <1>2, <1>5, <1>6, <1>7, <1>8, <1>9 DEF HInv

------------------------------------------------------------------------------
(* The invariant.                                                             *)

(* Entries of an old version are staged, and nothing else is.                 *)
LEMMA InitHolds == Init => HInv
<1> SUFFICES ASSUME Init PROVE HInv
  OBVIOUS
<1>0. /\ entries = Legacy /\ owned = {} /\ used = {} /\ waiting = {} /\ ~up
      /\ published = [l \in Links |-> 0]
      /\ \A l \in Links, g \in Generations : \A p \in Positions(l) : handed[l][g][p] = 0
      /\ \A l \in Links, g \in Generations : handed[l][g] \in [Positions(l) -> Nat]
      /\ worker = [t \in Targets |-> Free] /\ crashes = 0 /\ failures = 0
  BY DEF Init
<1>1. /\ entries \subseteq Entry
      /\ \A e \in entries : e.gen = 0 /\ e.pos \in Positions(e.link)
      /\ \A e, f \in entries : e.id = f.id \/ (e.link = f.link /\ e.pos = f.pos) => e = f
  BY <1>0, HandoffAssumption
<1>2. TypeOK
  <2>1. /\ crashes \in 0 .. MaxCrashes /\ failures \in 0 .. MaxFailures /\ 0 \in Generations
        /\ used \subseteq Generations \ {0} /\ owned \subseteq Generations \X (Nat \ {0})
    BY <1>0, HandoffAssumption DEF Generations
  <2>2. worker \in [Targets -> Worker] /\ published \in [Links -> Generations]
    BY <1>0, <2>1, FreeFields
  <2>3. waiting \subseteq Job /\ up \in BOOLEAN
    BY DEF Init
  <2> QED
    BY <1>0, <1>1, <2>1, <2>2, <2>3 DEF TypeOK
<1>3. InvisibleUnhanded
  <2>1. \A g : ~Staging(g)
    BY <1>0, FreeFields DEF Staging, StagedBy
  <2>2. \A g \in Generations : Unbegun(g) => Unhanded(g) /\ \A e \in entries : e.gen # g
    BY <1>0, <1>1, FreeFields DEF Unbegun, Unhanded, Held
  <2> QED
    BY <2>1, <2>2 DEF InvisibleUnhanded
<1>4. JobsAlone /\ StagedOnce
  BY <1>0, <1>1, FreeFields DEF JobsAlone, StagedOnce
<1>5. \A t \in Targets : StagedSoFar(t) /\ ThreadHolds(t) /\ ThreadKnows(t)
  BY <1>0, FreeFields DEF StagedSoFar, ThreadHolds, ThreadKnows, Held, Paging, Gathering
<1>6. OwnedIfHanded
  <2> SUFFICES ASSUME NEW e \in entries PROVE ~Handed(e)
    BY <1>0 DEF OwnedIfHanded
  <2>1. e.link \in Links /\ e.gen \in Generations /\ e.pos \in Positions(e.link)
    BY <1>1, EntryFields
  <2>2. handed[e.link][e.gen][e.pos] = 0
    BY <2>1, <1>0
  <2> QED
    BY <2>2 DEF Handed
<1>7. HandedOnce /\ NothingSkipped
  BY <1>0 DEF HandedOnce, NothingSkipped
<1> QED
  BY <1>2, <1>3, <1>4, <1>5, <1>6, <1>7 DEF HInv

(* Every step of the program keeps the invariant.                             *)
LEMMA NextKeeps == HInv /\ [Next]_vars => HInv'
<1> SUFFICES ASSUME HInv, [Next]_vars PROVE HInv'
  OBVIOUS
<1>1. CASE UNCHANGED vars
  <2>1. /\ UNCHANGED <<entries, published, owned, handed, used, up, waiting, worker>>
        /\ UNCHANGED <<crashes, failures>>
    BY <1>1 DEF vars, durable
  <2>2. TypeOK' /\ StagedOnce' /\ OwnedIfHanded' /\ HandedOnce' /\ NothingSkipped'
    BY <2>1 DEF HInv, TypeOK, StagedOnce, OwnedIfHanded, HandedOnce, NothingSkipped, Handed,
                KeyOf, Positions
  <2>3. InvisibleUnhanded' /\ JobsAlone'
    BY <2>1 DEF HInv, InvisibleUnhanded, JobsAlone, Unbegun, Unhanded, Staging, StagedBy,
                Held, Positions
  <2>4. \A t \in Targets : StagedSoFar(t)' /\ ThreadHolds(t)' /\ ThreadKnows(t)'
    BY <2>1, SameThread DEF HInv
  <2> QED
    BY <2>2, <2>3, <2>4 DEF HInv
<1>2. ASSUME NEW l \in Links, NEW g \in Generations, RequestReplay(l, g) PROVE HInv'
  BY <1>2, RequestReplayStep
<1>3. ASSUME NEW t \in Targets, ThreadStep(t) PROVE HInv'
  <2>1. CASE TakeLock(t) \/ StageBatch(t) \/ Publish(t) \/ DropObsolete(t)
    BY <2>1, TakeLockStep, StageBatchStep, PublishStep, DropObsoleteStep
  <2>2. CASE ReadKeys(t) \/ ReadPresent(t) \/ ForgetStale(t) \/ PickLink(t)
    BY <2>2, ReadKeysStep, ReadPresentStep, ForgetStaleStep, PickLinkStep
  <2>3. CASE ReadPage(t) \/ ReadOwned(t) \/ EndOfPage(t)
    BY <2>3, ReadPageStep, ReadOwnedStep, EndOfPageStep
  <2>4. ASSUME NEW e \in worker[t].page, HandEntry(t, e) PROVE HInv'
    BY <2>4, DeleteOwnedStep, ForgetOwnedStep, PassOverEmptyStep, AddTextStep, FlushTextStep,
       TakeMediaStep DEF HandEntry
  <2>5. CASE EnqueueBatch(t) \/ DeleteHanded(t) \/ ForgetHanded(t) \/ Answered(t)
    BY <2>5, EnqueueBatchStep, DeleteHandedStep, ForgetHandedStep, AnsweredStep
  <2> QED
    BY <1>3, <2>1, <2>2, <2>3, <2>4, <2>5 DEF ThreadStep
<1>4. ASSUME NEW t \in Targets, EnqueuedUnknowingly(t) \/ StepFails(t) PROVE HInv'
  BY <1>4, EnqueuedUnknowinglyStep, StepFailsStep
<1>5. CASE Crash \/ Restart
  BY <1>5, CrashStep, RestartStep
<1> QED
  BY <1>1, <1>2, <1>3, <1>4, <1>5 DEF Next

(* The inductive invariant holds of every behaviour, for any links, chats,    *)
(* histories, entries of old versions, page size, crashes and failures.       *)
THEOREM HandoffInvariant == Spec => []HInv
  BY InitHolds, NextKeeps, PTL DEF Spec

(* The types of the tables and of the threads' locals.                        *)
THEOREM HandoffTypes == Spec => []TypeOK
<1>1. HInv => TypeOK
  BY DEF HInv
<1> QED
  BY <1>1, HandoffInvariant, PTL

(* _enqueue_history_batch and the cleanup of its keys never commit a message  *)
(* of a replay to the outbound queue twice.                                   *)
THEOREM HandedOnceTheorem == Spec => []HandedOnce
<1>1. HInv => HandedOnce
  BY DEF HInv
<1> QED
  BY <1>1, HandoffInvariant, PTL

(* No message with content of a current replay goes from the staging table    *)
(* before it was committed to the outbound queue.                             *)
THEOREM NothingSkippedTheorem == Spec => []NothingSkipped
<1>1. HInv => NothingSkipped
  BY DEF HInv
<1> QED
  BY <1>1, HandoffInvariant, PTL

(* When Publish moves the pointer of a link, every message of the new         *)
(* generation is staged, and no other step moves it.                          *)
THEOREM PublishedWholeTheorem == Spec => PublishedWhole
<1> DEFINE Whole == \A l \in Links : published'[l] # published[l] =>
                       \A p \in Positions(l) :
                          \E e \in entries : e.link = l /\ e.gen = published'[l] /\ e.pos = p
<1>1. ASSUME HInv, Next PROVE Whole
  <2>1. CASE \E t \in Targets : Publish(t)
    <3>1. PICK t \in Targets : Publish(t)
      BY <2>1
    <3> DEFINE v == worker[t]
    <3>2. /\ v.at = "stage" /\ v.link \in Links /\ v.after[1] \in Nat /\ StagedSoFar(t)
          /\ published' = [published EXCEPT ![v.link] = v.gen]
          /\ Len(History[v.link]) <= v.after[1]
      BY <1>1, <3>1, OwnState, WorkerFields DEF Publish, At, AllStaged
    <3>3. \A l \in Links : published'[l] # published[l] => l = v.link /\ published'[l] = v.gen
      BY <1>1, <3>2 DEF HInv, TypeOK
    <3>4. \A p \in Positions(v.link) : p <= v.after[1]
      BY <3>2, HandoffAssumption DEF Positions
    <3> QED
      BY <3>2, <3>3, <3>4 DEF StagedSoFar
  <2>2. CASE ~\E t \in Targets : Publish(t)
    <3>1. ASSUME NEW t \in Targets, NEW e \in worker[t].page, HandEntry(t, e)
          PROVE  published' = published
      BY <3>1 DEF HandEntry, DeleteOwned, ForgetOwned, PassOverEmpty, AddText, FlushText,
                  TakeMedia, OnlyReads, durable
    <3>2. ASSUME NEW t \in Targets, ThreadStep(t) PROVE published' = published
      <4>1. CASE TakeLock(t) \/ StageBatch(t) \/ DropObsolete(t)
        BY <4>1 DEF TakeLock, StageBatch, DropObsolete, durable
      <4>2. CASE \/ ReadKeys(t) \/ ReadPresent(t) \/ ForgetStale(t) \/ PickLink(t)
                 \/ ReadPage(t) \/ ReadOwned(t) \/ EndOfPage(t)
        BY <4>2 DEF ReadKeys, ReadPresent, ForgetStale, PickLink, ReadPage, ReadOwned,
                    EndOfPage, OnlyReads, durable
      <4>3. CASE EnqueueBatch(t) \/ DeleteHanded(t) \/ ForgetHanded(t) \/ Answered(t)
        BY <4>3 DEF EnqueueBatch, DeleteHanded, ForgetHanded, Answered, OnlyReads, durable
      <4> QED
        BY <2>2, <3>1, <3>2, <4>1, <4>2, <4>3 DEF ThreadStep
    <3>3. CASE \E l \in Links, g \in Generations : RequestReplay(l, g)
      BY <3>3 DEF RequestReplay
    <3>4. CASE \/ \E t \in Targets : EnqueuedUnknowingly(t) \/ StepFails(t)
               \/ Crash \/ Restart
      BY <3>4 DEF EnqueuedUnknowingly, StepFails, Crash, Restart, durable
    <3> QED
      BY <1>1, <3>2, <3>3, <3>4 DEF Next
  <2> QED
    BY <2>1, <2>2
<1>2. HInv /\ [Next]_vars => [Whole]_vars
  BY <1>1
<1> QED
  BY <1>2, HandoffInvariant, PTL DEF Spec, PublishedWhole

------------------------------------------------------------------------------
(* The handoff implements HistoryReplay: whatever is interrupted, a replay is *)
(* replaced as a whole, and its messages reach the outbound queue in their    *)
(* order, each once, with only empty ones passed over.  The proof rests on    *)
(* HInv and on RInv, the order in which a thread works through a link.        *)

------------------------------------------------------------------------------
(* Numbers and pages.                                                         *)

(* A set of numbers has a least one.                                          *)
LEMMA LeastNumber ==
    ASSUME NEW S \in SUBSET Nat, S # {}
    PROVE  \E m \in S : \A n \in S : m <= n
<1> DEFINE R == {ss \in Nat \X Nat : ss[1] < ss[2]}
<1>1. IsWellFoundedOn(R, Nat)
  BY NatLessThanWellFounded DEF OpToRel
<1>2. PICK m \in S : \A n \in S : ~(<<n, m>> \in R)
  <2> HIDE DEF R
  <2> QED
    BY <1>1, WFMin
<1>3. \A n \in S : ~(n < m)
  BY <1>2
<1> QED
  BY <1>3

(* First is the first of a set of entries.                                    *)
LEMMA FirstIsFirst ==
    ASSUME NEW S \in SUBSET Entry, S # {}
    PROVE  First(S) \in S /\ \A f \in S : First(S).pos <= f.pos
<1>1. \A e \in S : e.pos \in Nat
  BY EntryFields
<1>2. PICK m \in {e.pos : e \in S} : \A n \in {e.pos : e \in S} : m <= n
  <2> DEFINE P == {e.pos : e \in S}
  <2>1. P \in SUBSET Nat /\ P # {}
    BY <1>1
  <2> HIDE DEF P
  <2>2. \E m \in P : \A n \in P : m <= n
    BY <2>1, LeastNumber
  <2> QED
    BY <2>2 DEF P
<1>3. \E e \in S : \A f \in S : e.pos <= f.pos
  BY <1>2
<1> QED
  BY <1>3 DEF First

(* The visible entries of a link are finitely many: each has a position of    *)
(* its own.                                                                   *)
LEMMA VisibleIsFinite ==
    ASSUME HInv, NEW l \in Links, NEW S \in SUBSET {e \in entries : e.link = l /\ Visible(e)}
    PROVE  IsFiniteSet(S)
<1> DEFINE N == Positions(l)
           f == [e \in S |-> e.pos]
<1>1. IsFiniteSet(N)
  <2>1. History[l] \in Seq(Kinds)
    BY HandoffAssumption
  <2>2. N = 1 .. Len(History[l]) /\ Len(History[l]) \in Int
    BY <2>1 DEF Positions
  <2> QED
    BY <2>2, FS_Interval
<1>2. \A e \in S : e.pos \in N
  BY DEF HInv, TypeOK
<1>3. \A e1, e2 \in S : e1.pos = e2.pos => e1 = e2
  BY DEF HInv, StagedOnce, Visible
<1>4. f \in Injection(S, N)
  BY <1>2, <1>3 DEF Injection, IsInjective
<1> QED
  BY <1>1, <1>4, FS_Injection

------------------------------------------------------------------------------
(* Steps that a caller does not see, and what they leave of the order.        *)

Pending(l) == {e.pos : e \in Due(l)}

(* A step that a caller may see.                                              *)
Step == [Promise!ReplayNext]_(Promise!promise)

(* Nothing becomes due and nothing that is due goes.                          *)
Unseen ==
    /\ UNCHANGED <<published, handed>>
    /\ \A l \in Links : Due(l)' = Due(l)

(* Such a step is a stutter of the promise.                                   *)
LEMMA UnseenStep == ASSUME Unseen PROVE Step
<1>1. \A l \in Links : Pending(l)' = Pending(l)
  BY DEF Unseen, Pending
<1>2. UNCHANGED Promise!promise
  BY <1>1 DEF Unseen, Promise!promise, Pending, Due
<1> QED
  BY <1>2 DEF Step

(* A step of the thread of t changes the locals of that thread, what is       *)
(* visible in its own chat, and adds nothing visible to the entries.          *)
Undisturbed(t) ==
    /\ \A u \in Targets : u # t => worker'[u] = worker[u]
    /\ \A l \in Links : TargetOf[l] # t =>
          published'[l] = published[l] /\ Due(l)' \subseteq Due(l)
    /\ \A e \in entries' : e \in entries \/ e.gen # published'[e.link]

(* Threads of other chats go on in order.                                     *)
LEMMA OthersInOrder ==
    ASSUME HInv, NEW t \in Targets, Undisturbed(t), NEW u \in Targets, u # t, InOrder(u)
    PROVE  InOrder(u)'
<1> DEFINE w == worker[u]
<1>1. worker'[u] = w /\ Held(u)' = Held(u)
  BY DEF Undisturbed, Held
<1> SUFFICES ASSUME w.at \in Paging PROVE InOrder(u)'
  BY <1>1 DEF InOrder
<1>2. w \in Worker /\ w.link \in Links /\ TargetOf[w.link] = u
  BY OwnState, WorkerFields DEF InOrder
<1>3. published'[w.link] = published[w.link] /\ Due(w.link)' \subseteq Due(w.link)
  BY <1>2 DEF Undisturbed
<1>4. \A e \in Held(u) : e.link = w.link /\ Visible(e) /\ Visible(e)'
  BY <1>3 DEF InOrder, Visible
<1>5. \A e \in Due(w.link)' : e \in Held(u) \/ Below(w.after, PlaceOf(e))
  BY <1>3 DEF InOrder
<1>6. w.at = "answer" => w.batch \intersect entries' = {}
  <2> SUFFICES ASSUME w.at = "answer", NEW e \in w.batch, e \in entries' PROVE FALSE
    OBVIOUS
  <2>1. e.gen = published'[e.link]
    BY <1>4 DEF Held, Visible
  <2>2. e \in entries
    BY <2>1 DEF Undisturbed
  <2> QED
    BY <2>2 DEF InOrder
<1> QED
  BY <1>1, <1>2, <1>4, <1>5, <1>6 DEF InOrder, PlaceOf

(* A thread that goes on in its page lets nothing go that is still due.       *)
LEMMA GoesOnInOrder ==
    ASSUME HInv, NEW t \in Targets, InOrder(t), worker[t].at \in Paging,
           NEW w \in Worker, worker'[t] = w,
           w.link = worker[t].link, w.after = worker[t].after,
           published' = published, Due(w.link)' \subseteq Due(w.link),
           w.page \union w.batch \subseteq Held(t),
           \A e \in Held(t) : e \in Due(w.link)' => e \in w.page \union w.batch,
           \A e \in w.batch, f \in w.page : e.pos < f.pos,
           w.at = "enqueue" => w.batch # {},
           w.at = "answer" => w.batch \intersect entries' = {}
    PROVE  InOrder(t)'
<1>1. Held(t)' = w.page \union w.batch
  BY DEF Held
<1>2. \A e \in w.page \union w.batch : e.link = w.link /\ Visible(e)'
  BY DEF InOrder, Visible
<1>3. \A e \in Due(w.link)' : e \in w.page \union w.batch \/ Below(w.after, PlaceOf(e))
  BY DEF InOrder
<1> QED
  BY <1>1, <1>2, <1>3 DEF InOrder, PlaceOf

(* A thread that leaves its page, or has none, is in order.                   *)
LEMMA IdleIsInOrder ==
    ASSUME NEW t \in Targets, worker'[t].at \notin Paging
    PROVE  InOrder(t)'
  BY DEF InOrder

(* What a step of t has to show.                                              *)
LEMMA OneThread ==
    ASSUME HInv, RInv, NEW t \in Targets, Undisturbed(t), InOrder(t)', HandedIsTable'
    PROVE  RInv'
  BY OthersInOrder DEF RInv

(* A step that touches neither table nor keys.                                *)
LEMMA ReadingIsUnseen ==
    ASSUME UNCHANGED <<entries, published, owned, handed>>
    PROVE  Unseen /\ (HandedIsTable => HandedIsTable')
<1>1. \A l \in Links : Due(l)' = Due(l)
  BY DEF Due, Visible, KeyOf
<1> QED
  BY <1>1 DEF Unseen, HandedIsTable, Positions

(* The same, as a step of one thread.                                         *)
LEMMA ReadingStep ==
    ASSUME HInv, RInv, NEW t \in Targets, NEW w \in Worker, Proceed(t, w),
           UNCHANGED <<entries, published, owned, handed>>, InOrder(t)'
    PROVE  RInv' /\ Step
<1>1. Unseen /\ HandedIsTable'
  BY ReadingIsUnseen DEF RInv
<1>2. \A u \in Targets : u # t => worker'[u] = worker[u]
  BY OwnState, OwnLocals
<1>3. Undisturbed(t)
  BY <1>1, <1>2 DEF Undisturbed, Unseen
<1> QED
  BY <1>1, <1>3, OneThread, UnseenStep

------------------------------------------------------------------------------
(* Steps that only read, or that only end a thread.                           *)

(* A thread that takes the lock has read nothing yet.                         *)
LEMMA TakeLockInOrder ==
    ASSUME HInv, RInv, NEW t \in Targets, TakeLock(t) PROVE RInv' /\ Step
<1>1. PICK job \in waiting :
         Proceed(t, [Free EXCEPT !.at = IF job.gen = 0 THEN "keys" ELSE "stage",
                                 !.link = job.link, !.gen = job.gen])
  BY DEF TakeLock
<1> DEFINE w == [Free EXCEPT !.at = IF job.gen = 0 THEN "keys" ELSE "stage",
                             !.link = job.link, !.gen = job.gen]
<1>2. job.link \in Links /\ job.gen \in Generations
  BY OwnState DEF TypeOK, Job
<1>3. w \in Worker /\ w.at \in {"keys", "stage"}
  BY <1>2, FreeFields DEF Worker, Phases
<1>4. worker'[t] = w
  BY <1>1, <1>3, OwnState, OwnLocals
<1>5. InOrder(t)'
  BY <1>3, <1>4, IdleIsInOrder DEF Paging
<1> QED
  BY <1>1, <1>3, <1>5, ReadingStep DEF TakeLock, durable

(* The cleanup of keys reads.                                                 *)
LEMMA ReadKeysInOrder ==
    ASSUME HInv, RInv, NEW t \in Targets, ReadKeys(t) \/ ReadPresent(t) PROVE RInv' /\ Step
<1> DEFINE v == worker[t]
<1>1. v \in Worker /\ owned \subseteq Nat \X Nat
  BY OwnState
<1>2. PICK w \in Worker : Proceed(t, w) /\ w.at \in {"pick", "present", "forget"}
  <2>1. CASE ToPhase(t, "pick")
    BY <2>1, <1>1 DEF ToPhase, Worker, Phases
  <2>2. ASSUME NEW K \in SUBSET owned, NEW k \in K,
               Proceed(t, [v EXCEPT !.at = "present", !.keys = K, !.after = k])
        PROVE  \E w \in Worker : Proceed(t, w) /\ w.at \in {"pick", "present", "forget"}
    <3> DEFINE w == [v EXCEPT !.at = "present", !.keys = K, !.after = k]
    <3>1. w \in Worker /\ w.at = "present"
      BY <1>1 DEF Worker, Phases
    <3> QED
      BY <3>1, <2>2
  <2>3. CASE ReadPresent(t)
    <3> DEFINE w == [v EXCEPT !.at = "forget", !.keys = @ \ {KeyOf(e) : e \in entries}]
    <3>1. w \in Worker /\ w.at = "forget"
      BY <1>1 DEF Worker, Phases
    <3> QED
      BY <3>1, <2>3 DEF ReadPresent
  <2> QED
    BY <2>1, <2>2, <2>3 DEF ReadKeys, FirstPage
<1>3. InOrder(t)'
  BY <1>2, OwnState, OwnLocals, IdleIsInOrder DEF Paging
<1> QED
  BY <1>2, <1>3, ReadingStep DEF ReadKeys, ReadPresent, OnlyReads, durable

(* A link is started before its first message.                                *)
LEMMA PickLinkInOrder ==
    ASSUME HInv, RInv, NEW t \in Targets, PickLink(t) PROVE RInv' /\ Step
<1>1. CASE Release(t)
  <2>1. worker'[t].at = "free"
    BY <1>1, FreeFields, OwnState, OwnLocals DEF Release
  <2> QED
    BY <1>1, <2>1, FreeFields, IdleIsInOrder, ReadingStep
       DEF Release, Paging, PickLink, OnlyReads, durable
<1>2. ASSUME NEW e \in VisibleOf(t), StartLink(t, e) PROVE RInv' /\ Step
  <2> DEFINE w == [Free EXCEPT !.at = "page", !.link = e.link]
  <2>1. e.link \in Links /\ TargetOf[e.link] = t
    BY OwnState, EntryFields DEF VisibleOf
  <2>2. w \in Worker /\ w.at = "page" /\ w.page = {} /\ w.batch = {} /\ w.after = <<0, 0>>
        /\ w.link = e.link
    BY <2>1, FreeFields DEF Worker, Phases, Free
  <2>3. worker'[t] = w
    BY <1>2, <2>2, OwnState, OwnLocals DEF StartLink
  <2>4. \A f \in Due(e.link)' : Below(<<0, 0>>, PlaceOf(f))
    <3>1. entries' = entries
      BY DEF PickLink, OnlyReads, durable
    <3>2. \A f \in Due(e.link)' : f \in Entry
      BY <3>1, OwnState DEF Due
    <3>3. ASSUME NEW f \in Entry PROVE Below(<<0, 0>>, PlaceOf(f))
      <4>1. f.pos \in Nat \ {0}
        BY EntryFields
      <4>2. 0 < f.pos
        BY <4>1
      <4> QED
        BY <4>2 DEF Below, PlaceOf
    <3> QED
      BY <3>2, <3>3
  <2>5. InOrder(t)'
    BY <2>1, <2>2, <2>3, <2>4 DEF InOrder, Held, PlaceOf
  <2> QED
    BY <1>2, <2>2, <2>5, ReadingStep DEF StartLink, PickLink, OnlyReads, durable
<1> QED
  BY <1>1, <1>2 DEF PickLink

(* The keys of a page are read.                                               *)
LEMMA ReadOwnedInOrder ==
    ASSUME HInv, RInv, NEW t \in Targets, ReadOwned(t) PROVE RInv' /\ Step
<1> DEFINE v == worker[t]
           w == [v EXCEPT !.at = "entry", !.keys = owned \intersect {KeyOf(e) : e \in v.page}]
<1>1. v \in Worker /\ v.at = "owned" /\ InOrder(t) /\ Proceed(t, w)
  BY OwnState DEF ReadOwned, At, RInv
<1>2. /\ w \in Worker /\ w.page = v.page /\ w.batch = v.batch /\ w.at = "entry"
      /\ w.link = v.link /\ w.after = v.after
  BY <1>1, OwnState DEF Worker, Phases
<1>3. /\ UNCHANGED <<entries, published, owned, handed>>
      /\ worker'[t] = w
  BY <1>1, <1>2, OwnState, OwnLocals DEF ReadOwned, OnlyReads, durable
<1>4. Unseen /\ w.link \in Links
  BY <1>3, <1>2, ReadingIsUnseen, WorkerFields
<1>5. \A e \in w.batch, f \in w.page : e.pos < f.pos
  BY <1>1, <1>2 DEF InOrder, Paging
<1>6. InOrder(t)'
  BY <1>1, <1>2, <1>3, <1>4, <1>5, GoesOnInOrder DEF Unseen, Held, Paging
<1> QED
  BY <1>1, <1>2, <1>3, <1>6, ReadingStep

(* At the end of a page a thread that has a batch goes on with it.            *)
LEMMA EndOfPageInOrder ==
    ASSUME HInv, RInv, NEW t \in Targets, EndOfPage(t) PROVE RInv' /\ Step
<1> DEFINE v == worker[t]
<1>0. v \in Worker /\ v.at = "entry" /\ InOrder(t) /\ v.page = {}
  BY OwnState DEF EndOfPage, At, RInv
<1>1. PICK phase \in {"page", "enqueue", "pick"} :
          ToPhase(t, phase) /\ (phase = "enqueue" => v.batch # {})
  BY DEF EndOfPage
<1> DEFINE w == [v EXCEPT !.at = phase]
<1>2. /\ w \in Worker /\ w.page = {} /\ w.batch = v.batch /\ w.at = phase
      /\ w.link = v.link /\ w.after = v.after
  BY <1>0, <1>1 DEF Worker, Phases
<1>3. /\ UNCHANGED <<entries, published, owned, handed>>
      /\ worker'[t] = w /\ Proceed(t, w)
  BY <1>1, <1>2, OwnState, OwnLocals DEF EndOfPage, OnlyReads, durable, ToPhase
<1>4. Unseen /\ w.link \in Links
  BY <1>3, <1>2, ReadingIsUnseen, WorkerFields
<1>5. InOrder(t)'
  BY <1>0, <1>1, <1>2, <1>3, <1>4, GoesOnInOrder DEF Unseen, Held, Paging
<1> QED
  BY <1>2, <1>3, <1>5, ReadingStep

(* The next page lies behind the batch, and what is due behind the page lies  *)
(* behind the new cursor.                                                     *)
LEMMA ReadPageInOrder ==
    ASSUME HInv, RInv, NEW t \in Targets, ReadPage(t) PROVE RInv' /\ Step
<1> DEFINE v == worker[t]
           Rest == {e \in VisibleOf(t) : e.link = v.link /\ Below(v.after, PlaceOf(e))}
           Before(e) == {f \in Rest : Below(PlaceOf(f), PlaceOf(e))}
           P == {e \in Rest : Cardinality(Before(e)) < Page}
           last == Cardinality(P) < Page
<1>0. /\ v \in Worker /\ v.at = "page" /\ InOrder(t) /\ entries \subseteq Entry
      /\ v.page = {} /\ v.batch \subseteq entries /\ v.link \in Links /\ v.after \in Nat \X Nat
  BY OwnState, WorkerFields DEF ReadPage, At, ThreadHolds, Gathering, RInv
<1>p. PICK k \in {v.after} \union {PlaceOf(e) : e \in P} :
          /\ IF P = {} THEN k = v.after ELSE IsLast(k, {PlaceOf(e) : e \in P})
          /\ Proceed(t, [v EXCEPT !.at = "owned", !.page = P, !.last = last, !.after = k])
  BY DEF ReadPage
<1>q. /\ \A e \in P : e \in Rest /\ Cardinality(Before(e)) < Page
      /\ \A e \in Rest : Cardinality(Before(e)) < Page => e \in P
      /\ P \subseteq Rest /\ last \in BOOLEAN
  OBVIOUS
<1>r. \A e \in Rest : e \in entries /\ e \in Entry /\ e.link = v.link /\ Visible(e)
                      /\ Below(v.after, PlaceOf(e)) /\ PlaceOf(e) \in Nat \X Nat
  BY <1>0, EntryFields DEF VisibleOf
<1> HIDE DEF P, last
<1> DEFINE w == [v EXCEPT !.at = "owned", !.page = P, !.last = last, !.after = k]
<1>1. k \in Nat \X Nat
  BY <1>0, <1>p, <1>q, <1>r
<1>2. /\ w \in Worker /\ w.at = "owned" /\ w.page = P /\ w.batch = v.batch
      /\ w.link = v.link /\ w.after = k
  <2>1. P \subseteq Entry
    BY <1>q, <1>r
  <2> QED
    BY <1>0, <1>q, <1>1, <2>1 DEF Worker, Phases
<1>3. /\ UNCHANGED <<entries, published, owned, handed>>
      /\ worker'[t] = w /\ Proceed(t, w)
  BY <1>p, <1>2, OwnState, OwnLocals DEF ReadPage, OnlyReads, durable
<1>4. Unseen
  BY <1>3, ReadingIsUnseen
<1>5. \A e \in v.batch : e \in Entry /\ e.link = v.link /\ Visible(e) /\ ~Below(v.after, PlaceOf(e))
  BY <1>0, OwnState DEF InOrder, Held, Paging, ThreadHolds
<1>6. ASSUME NEW e \in v.batch, NEW f \in P PROVE e.pos < f.pos
  <2>1. e \in entries /\ f \in entries /\ e.link = f.link /\ e.gen = f.gen
    BY <1>0, <1>5, <1>q, <1>r DEF Visible
  <2>2. Below(v.after, PlaceOf(f)) /\ ~Below(v.after, PlaceOf(e))
    BY <1>5, <1>q, <1>r
  <2>3. e.pos # f.pos
    BY <2>1, <2>2 DEF HInv, StagedOnce
  <2>4. e.pos \in Nat /\ f.pos \in Nat /\ e.id \in Nat /\ f.id \in Nat
    BY <1>0, <2>1, EntryFields
  <2>5. e.pos <= f.pos
    BY <2>2, <2>4, <1>0 DEF Below, PlaceOf
  <2> QED
    BY <2>3, <2>4, <2>5
<1>7. ASSUME NEW e \in Rest, e \notin P, P # {} PROVE Below(k, PlaceOf(e))
  <2>1. PICK m \in P : PlaceOf(m) = k
    BY <1>7, <1>p DEF IsLast
  <2>2. m \in Rest /\ Cardinality(Before(m)) < Page
    BY <1>q
  <2>3. e.id # m.id
    BY <1>7, <2>2, <1>r, <1>q DEF HInv, TypeOK
  <2>4. CASE Below(PlaceOf(e), k)
    <3>1. Before(e) \subseteq Before(m)
      BY <2>1, <2>2, <2>4, <1>r, <1>1, BelowOrder
    <3>2. IsFiniteSet(Before(m))
      <4>1. Before(m) \in SUBSET {f \in entries : f.link = v.link /\ Visible(f)}
        BY <1>r
      <4> QED
        BY <4>1, <1>0, VisibleIsFinite
    <3> HIDE DEF Before, Rest
    <3>3. /\ Cardinality(Before(e)) <= Cardinality(Before(m))
          /\ Cardinality(Before(e)) \in Nat /\ Cardinality(Before(m)) \in Nat
      BY <3>1, <3>2, FS_Subset, FS_CardinalityType
    <3>4. Cardinality(Before(e)) < Page
      BY <3>3, <2>2, HandoffAssumption
    <3> QED
      BY <3>4, <1>q, <1>7
  <2>5. e.pos \in Nat /\ m.pos \in Nat /\ e.id \in Nat /\ m.id \in Nat
    BY <2>2, <1>r, EntryFields
  <2>6. Below(PlaceOf(e), PlaceOf(m)) \/ Below(PlaceOf(m), PlaceOf(e))
    BY <2>3, <2>5 DEF Below, PlaceOf
  <2> QED
    BY <2>1, <2>4, <2>6
<1>8. ASSUME NEW e \in Due(v.link) PROVE e \in P \union v.batch \/ Below(k, PlaceOf(e))
  <2>1. e \in v.batch \/ Below(v.after, PlaceOf(e))
    BY <1>0 DEF InOrder, Held, Paging
  <2>2. TargetOf[v.link] = t
    BY <1>0 DEF InOrder, Paging
  <2>3. CASE Below(v.after, PlaceOf(e))
    <3>1. e \in Rest
      BY <2>2, <2>3 DEF Due, VisibleOf
    <3> QED
      BY <3>1, <1>7, <1>p, <2>3
  <2> QED
    BY <2>1, <2>3
<1>9. InOrder(t)'
  <2>1. Held(t)' = P \union v.batch
    BY <1>2, <1>3 DEF Held
  <2>2. \A e \in P \union v.batch : e.link = v.link /\ Visible(e)'
    BY <1>3, <1>5, <1>q, <1>r DEF Visible
  <2>3. TargetOf[v.link] = t
    BY <1>0 DEF InOrder, Paging
  <2>4. \A e \in Due(v.link)' : e \in P \union v.batch \/ Below(k, PlaceOf(e))
    BY <1>2, <1>3, <1>8, <1>4, <1>0 DEF Unseen
  <2> QED
    BY <1>2, <1>3, <1>6, <2>1, <2>2, <2>3, <2>4 DEF InOrder, PlaceOf
<1> QED
  BY <1>2, <1>3, <1>9, ReadingStep

------------------------------------------------------------------------------
(* The entry at hand.                                                         *)

(* It comes before the others of the page, and after those of the batch.      *)
LEMMA FirstIsBefore ==
    ASSUME HInv, RInv, NEW t \in Targets, NEW e \in worker[t].page, AtEntry(t, e)
    PROVE  /\ \A f \in worker[t].page \ {e} : e.pos < f.pos
           /\ \A f \in worker[t].batch : f.pos < e.pos
           /\ e.link = worker[t].link /\ Visible(e) /\ e.link \in Links
           /\ e \in entries /\ worker[t].page \subseteq entries
           /\ worker[t].at = "entry" /\ InOrder(t) /\ worker[t] \in Worker
<1> DEFINE v == worker[t]
<1>1. /\ v \in Worker /\ v.at = "entry" /\ InOrder(t) /\ v.page \subseteq entries
      /\ v.page \subseteq Entry /\ e = First(v.page)
  BY OwnState, WorkerFields DEF AtEntry, At, RInv, ThreadHolds, Paging
<1>2. \A f \in v.page : f.link = v.link /\ Visible(f)
  BY <1>1 DEF InOrder, Held, Paging
<1>3. \A f \in v.page : e.pos <= f.pos
  BY <1>1, FirstIsFirst
<1>4. \A f \in v.page \ {e} : e.pos # f.pos
  BY <1>1, <1>2 DEF HInv, StagedOnce, Visible
<1>5. \A f \in v.page : f.pos \in Nat
  BY <1>1, EntryFields
<1>6. \A f \in v.page \ {e} : e.pos < f.pos
  BY <1>3, <1>4, <1>5
<1>7. \A f \in v.batch : f.pos < e.pos
  BY <1>1 DEF InOrder, Paging
<1> QED
  BY <1>1, <1>2, <1>6, <1>7, WorkerFields

(* A text joins the batch behind the others.                                  *)
LEMMA AddTextInOrder ==
    ASSUME HInv, RInv, NEW t \in Targets, NEW e \in worker[t].page, AddText(t, e)
    PROVE  RInv' /\ Step
<1> DEFINE v == worker[t]
           w == [v EXCEPT !.page = @ \ {e}, !.batch = @ \union {e}]
<1>0. /\ v \in Worker /\ v.at = "entry" /\ InOrder(t) /\ Proceed(t, w)
      /\ \A f \in v.page \ {e} : e.pos < f.pos
  BY FirstIsBefore DEF AddText, Prepare
<1>1. /\ w \in Worker /\ w.page = v.page \ {e} /\ w.batch = v.batch \union {e}
      /\ w.at = "entry" /\ w.link = v.link /\ w.after = v.after
  BY <1>0, WorkerFields DEF Worker
<1>2. /\ UNCHANGED <<entries, published, owned, handed>>
      /\ worker'[t] = w
  BY <1>0, <1>1, OwnState, OwnLocals DEF AddText, OnlyReads, durable
<1>3. Unseen /\ w.link \in Links
  BY <1>1, <1>2, ReadingIsUnseen, WorkerFields
<1>4. \A b \in w.batch, f \in w.page : b.pos < f.pos
  BY <1>0, <1>1 DEF InOrder, Paging
<1>5. InOrder(t)'
  BY <1>0, <1>1, <1>2, <1>3, <1>4, GoesOnInOrder DEF Unseen, Held, Paging
<1> QED
  BY <1>0, <1>1, <1>2, <1>5, ReadingStep

(* The batch goes out before a medium, or before a text that does not fit.    *)
LEMMA FlushTextInOrder ==
    ASSUME HInv, RInv, NEW t \in Targets, NEW e \in worker[t].page, FlushText(t, e)
    PROVE  RInv' /\ Step
<1> DEFINE v == worker[t]
           w == [v EXCEPT !.at = "enqueue"]
<1>0. /\ v \in Worker /\ v.at = "entry" /\ InOrder(t) /\ Proceed(t, w) /\ v.batch # {}
  BY FirstIsBefore DEF FlushText, Prepare, ToPhase
<1>1. /\ w \in Worker /\ w.page = v.page /\ w.batch = v.batch
      /\ w.at = "enqueue" /\ w.link = v.link /\ w.after = v.after
  BY <1>0, WorkerFields DEF Worker, Phases
<1>2. /\ UNCHANGED <<entries, published, owned, handed>>
      /\ worker'[t] = w
  BY <1>0, <1>1, OwnState, OwnLocals DEF FlushText, OnlyReads, durable
<1>3. Unseen /\ w.link \in Links
  BY <1>1, <1>2, ReadingIsUnseen, WorkerFields
<1>4. \A b \in w.batch, f \in w.page : b.pos < f.pos
  BY <1>0, <1>1 DEF InOrder, Paging
<1>5. InOrder(t)'
  BY <1>0, <1>1, <1>2, <1>3, <1>4, GoesOnInOrder DEF Unseen, Held, Paging
<1> QED
  BY <1>0, <1>1, <1>2, <1>5, ReadingStep

(* A medium goes out alone, when no text is left before it.                   *)
LEMMA TakeMediaInOrder ==
    ASSUME HInv, RInv, NEW t \in Targets, NEW e \in worker[t].page, TakeMedia(t, e)
    PROVE  RInv' /\ Step
<1> DEFINE v == worker[t]
           w == [v EXCEPT !.at = "enqueue", !.page = @ \ {e}, !.batch = {e}]
<1>0. /\ v \in Worker /\ v.at = "entry" /\ InOrder(t) /\ Proceed(t, w) /\ v.batch = {}
      /\ \A f \in v.page \ {e} : e.pos < f.pos
  BY FirstIsBefore DEF TakeMedia, Prepare
<1>1. /\ w \in Worker /\ w.page = v.page \ {e} /\ w.batch = {e}
      /\ w.at = "enqueue" /\ w.link = v.link /\ w.after = v.after
  BY <1>0, WorkerFields DEF Worker, Phases
<1>2. /\ UNCHANGED <<entries, published, owned, handed>>
      /\ worker'[t] = w
  BY <1>0, <1>1, OwnState, OwnLocals DEF TakeMedia, OnlyReads, durable
<1>3. Unseen /\ w.link \in Links
  BY <1>1, <1>2, ReadingIsUnseen, WorkerFields
<1>4. \A b \in w.batch, f \in w.page : b.pos < f.pos
  BY <1>0, <1>1
<1>5. InOrder(t)'
  BY <1>0, <1>1, <1>2, <1>3, <1>4, GoesOnInOrder DEF Unseen, Held, Paging
<1> QED
  BY <1>0, <1>1, <1>2, <1>5, ReadingStep

(* The answer to a batch: none of it is staged any more.                      *)
LEMMA AnsweredInOrder ==
    ASSUME HInv, RInv, NEW t \in Targets, Answered(t) PROVE RInv' /\ Step
<1> DEFINE v == worker[t]
           w == [v EXCEPT !.at = "entry", !.batch = {}]
<1>0. v \in Worker /\ v.at = "answer" /\ InOrder(t) /\ Proceed(t, w) /\ v.batch \intersect entries = {}
  BY OwnState DEF Answered, At, RInv, InOrder, Paging
<1>1. /\ w \in Worker /\ w.page = v.page /\ w.batch = {}
      /\ w.at = "entry" /\ w.link = v.link /\ w.after = v.after
  BY <1>0, WorkerFields DEF Worker, Phases
<1>2. /\ UNCHANGED <<entries, published, owned, handed>>
      /\ worker'[t] = w
  BY <1>0, <1>1, OwnState, OwnLocals DEF Answered, OnlyReads, durable
<1>3. Unseen /\ w.link \in Links
  BY <1>1, <1>2, ReadingIsUnseen, WorkerFields
<1>4. \A l : Due(l)' \intersect v.batch = {}
  BY <1>0, <1>2 DEF Due
<1>5. InOrder(t)'
  BY <1>0, <1>1, <1>2, <1>3, <1>4, GoesOnInOrder DEF Unseen, Held, Paging
<1> QED
  BY <1>0, <1>1, <1>2, <1>5, ReadingStep

------------------------------------------------------------------------------
(* Steps that remove what is not due, or what belongs to no entry.            *)

Tidies(t, w) ==
    /\ Proceed(t, w)
    /\ UNCHANGED <<published, handed>>
    /\ entries' \subseteq entries
    /\ owned' \subseteq owned
    /\ \A e \in entries' : KeyOf(e) \in owned => KeyOf(e) \in owned'
    /\ \A e \in entries \ entries' : e \notin Due(e.link)

(* A caller does not see them, nor do other threads.                          *)
LEMMA TidyStep ==
    ASSUME HInv, RInv, NEW t \in Targets, NEW w \in Worker, Tidies(t, w)
    PROVE  /\ Unseen /\ Step /\ worker'[t] = w
           /\ InOrder(t)' => RInv'
<1>1. \A l \in Links : Due(l)' = Due(l)
  <2> SUFFICES ASSUME NEW l \in Links PROVE Due(l)' = Due(l)
    OBVIOUS
  <2>1. ASSUME NEW e \in Due(l) PROVE e \in Due(l)'
    BY <2>1 DEF Tidies, Due, Visible, KeyOf
  <2>2. ASSUME NEW e \in Due(l)' PROVE e \in Due(l)
    BY <2>2 DEF Tidies, Due, Visible, KeyOf
  <2> QED
    BY <2>1, <2>2
<1>2. Unseen
  BY <1>1 DEF Unseen, Tidies
<1>3. worker'[t] = w /\ \A u \in Targets : u # t => worker'[u] = worker[u]
  BY OwnState, OwnLocals DEF Tidies
<1>4. Undisturbed(t)
  BY <1>2, <1>3 DEF Undisturbed, Unseen, Tidies
<1>5. HandedIsTable'
  BY DEF RInv, HandedIsTable, Tidies, Positions
<1> QED
  BY <1>2, <1>3, <1>4, <1>5, UnseenStep, OneThread

(* Entries of other generations than the published one are not due.           *)
LEMMA DropObsoleteInOrder ==
    ASSUME HInv, RInv, NEW t \in Targets, DropObsolete(t) PROVE RInv' /\ Step
<1> DEFINE v == worker[t]
<1>0. v \in Worker /\ v.at = "obsolete" /\ published[v.link] = v.gen
  BY OwnState DEF DropObsolete, At, StagedSoFar
<1>1. PICK w \in Worker : Proceed(t, w) /\ w.at \in {"obsolete", "free", "keys"}
  <2>1. CASE worker' = worker
    BY <2>1, <1>0, OwnState DEF Proceed, TypeOK
  <2>2. CASE Release(t)
    BY <2>2, FreeFields DEF Release
  <2>3. CASE Proceed(t, [v EXCEPT !.at = "keys", !.after = <<0, 0>>])
    <3> DEFINE w == [v EXCEPT !.at = "keys", !.after = <<0, 0>>]
    <3>1. w \in Worker /\ w.at = "keys"
      BY <1>0 DEF Worker, Phases
    <3> QED
      BY <2>3, <3>1
  <2> QED
    BY <2>1, <2>2, <2>3 DEF DropObsolete
<1>2. Tidies(t, w)
  BY <1>0, <1>1 DEF DropObsolete, Tidies, Due, Visible
<1>3. InOrder(t)'
  BY <1>1, <1>2, TidyStep, IdleIsInOrder DEF Paging
<1> QED
  BY <1>2, <1>3, TidyStep

(* Keys that belong to no entry are forgotten.                                *)
LEMMA ForgetStaleInOrder ==
    ASSUME HInv, RInv, NEW t \in Targets, ForgetStale(t) PROVE RInv' /\ Step
<1> DEFINE v == worker[t]
           w == [v EXCEPT !.at = "keys", !.keys = {}]
<1>0. v \in Worker /\ v.at = "forget" /\ \A k \in v.keys : NoEntryHas(k)
  BY OwnState DEF ForgetStale, At, ThreadKnows
<1>1. w \in Worker /\ w.at = "keys"
  BY <1>0 DEF Worker, Phases
<1>2. Tidies(t, w)
  BY <1>0 DEF ForgetStale, Tidies, NoEntryHas
<1>3. InOrder(t)'
  BY <1>1, <1>2, TidyStep, IdleIsInOrder DEF Paging
<1> QED
  BY <1>1, <1>2, <1>3, TidyStep

(* The queue owns the entry that is deleted here.                             *)
LEMMA DeleteOwnedInOrder ==
    ASSUME HInv, RInv, NEW t \in Targets, NEW e \in worker[t].page, DeleteOwned(t, e)
    PROVE  RInv' /\ Step
<1> DEFINE v == worker[t]
           w == [v EXCEPT !.at = "disown"]
<1>0. /\ v \in Worker /\ v.at = "entry" /\ InOrder(t) /\ Proceed(t, w)
      /\ entries' = entries \ {e} /\ UNCHANGED <<published, owned, handed>>
      /\ At(t, "entry") /\ KeyOf(e) \in v.keys
  BY FirstIsBefore DEF DeleteOwned, AtEntry, ToPhase
<1>1. /\ w \in Worker /\ w.page = v.page /\ w.batch = v.batch
      /\ w.at = "disown" /\ w.link = v.link /\ w.after = v.after
  BY <1>0, WorkerFields DEF Worker, Phases
<1>2. KeyOf(e) \in owned
  BY <1>0, AtHand DEF HInv, OwnedIfHanded
<1>3. Tidies(t, w)
  BY <1>0, <1>2 DEF Tidies, Due
<1>4. Unseen /\ worker'[t] = w /\ w.link \in Links
  BY <1>1, <1>3, TidyStep, WorkerFields
<1>5. \A b \in w.batch, f \in w.page : b.pos < f.pos
  BY <1>0, <1>1 DEF InOrder, Paging
<1>6. InOrder(t)'
  BY <1>0, <1>1, <1>4, <1>5, GoesOnInOrder DEF Unseen, Held, Paging
<1> QED
  BY <1>1, <1>3, <1>6, TidyStep

(* Its key goes after it.                                                     *)
LEMMA ForgetOwnedInOrder ==
    ASSUME HInv, RInv, NEW t \in Targets, NEW e \in worker[t].page, ForgetOwned(t, e)
    PROVE  RInv' /\ Step
<1> DEFINE v == worker[t]
           w == [v EXCEPT !.at = "entry", !.page = @ \ {e}]
<1>0. /\ v \in Worker /\ v.at = "disown" /\ InOrder(t) /\ Proceed(t, w)
      /\ UNCHANGED <<entries, published, handed>> /\ owned' = owned \ {KeyOf(e)}
      /\ NoEntryHas(KeyOf(e))
  BY OwnState DEF ForgetOwned, At, Handled, RInv, ThreadKnows
<1>1. /\ w \in Worker /\ w.page = v.page \ {e} /\ w.batch = v.batch
      /\ w.at = "entry" /\ w.link = v.link /\ w.after = v.after
  BY <1>0, WorkerFields DEF Worker, Phases
<1>2. Tidies(t, w)
  BY <1>0 DEF Tidies, NoEntryHas
<1>3. Unseen /\ worker'[t] = w /\ w.link \in Links
  BY <1>1, <1>2, TidyStep, WorkerFields
<1>4. \A b \in w.batch, f \in w.page : b.pos < f.pos
  BY <1>0, <1>1 DEF InOrder, Paging
<1>5. \A l : e \notin Due(l)'
  BY <1>0 DEF Due, NoEntryHas
<1>6. Held(t) \ {e} = w.page \union w.batch
  BY <1>0, <1>1, OwnState DEF Held, ThreadHolds
<1>7. /\ Due(w.link)' \subseteq Due(w.link)
      /\ \A f \in Held(t) : f \in Due(w.link)' => f \in w.page \union w.batch
  BY <1>3, <1>5, <1>6 DEF Unseen
<1>8. published' = published /\ v.at \in Paging
  BY <1>0 DEF Paging
<1>9. InOrder(t)'
  BY <1>0, <1>1, <1>3, <1>4, <1>6, <1>7, <1>8, GoesOnInOrder
<1> QED
  BY <1>1, <1>2, <1>9, TidyStep

(* The entries of a batch that was committed belong to the queue.             *)
LEMMA DeleteHandedInOrder ==
    ASSUME HInv, RInv, NEW t \in Targets, DeleteHanded(t) PROVE RInv' /\ Step
<1> DEFINE v == worker[t]
<1>0. /\ v \in Worker /\ v.at = "delete" /\ InOrder(t) /\ ThreadKnows(t) /\ TypeOK
      /\ UNCHANGED <<published, owned, handed>>
  BY OwnState DEF DeleteHanded, At, RInv
<1>1. PICK w \in Worker :
         /\ Proceed(t, w) /\ w.page = v.page /\ w.batch = v.batch
         /\ w.at \in {"delete", "release"} /\ w.link = v.link /\ w.after = v.after
  <2>1. CASE ToPhase(t, "release")
    <3> DEFINE w == [v EXCEPT !.at = "release"]
    <3>1. /\ w \in Worker /\ w.page = v.page /\ w.batch = v.batch
          /\ w.at = "release" /\ w.link = v.link /\ w.after = v.after
      BY <1>0, WorkerFields DEF Worker, Phases
    <3> QED
      BY <2>1, <3>1 DEF ToPhase
  <2>2. CASE worker' = worker
    BY <2>2, <1>0 DEF Proceed, TypeOK
  <2> QED
    BY <2>1, <2>2 DEF DeleteHanded
<1>2. /\ entries' \subseteq entries
      /\ \A f \in entries \ entries' : f \in v.batch
  <2>1. CASE entries' = entries
    BY <2>1
  <2>2. ASSUME NEW e \in v.batch \intersect entries, entries' = {f \in entries : f.id # e.id}
        PROVE  entries' \subseteq entries /\ \A f \in entries \ entries' : f \in v.batch
    BY <2>2, <1>0 DEF TypeOK
  <2> QED
    BY <2>1, <2>2 DEF DeleteHanded
<1>3. \A f \in entries \ entries' : KeyOf(f) \in owned
  BY <1>0, <1>2 DEF ThreadKnows, HInv, OwnedIfHanded
<1>4. Tidies(t, w)
  BY <1>0, <1>1, <1>2, <1>3 DEF Tidies, Due
<1>5. Unseen /\ worker'[t] = w /\ w.link \in Links
  BY <1>4, TidyStep, WorkerFields
<1>6. \A b \in w.batch, f \in w.page : b.pos < f.pos
  BY <1>0, <1>1 DEF InOrder, Paging
<1>7. InOrder(t)'
  BY <1>0, <1>1, <1>5, <1>6, GoesOnInOrder DEF Unseen, Held, Paging
<1> QED
  BY <1>4, <1>7, TidyStep

(* Their keys go after them.                                                  *)
LEMMA ForgetHandedInOrder ==
    ASSUME HInv, RInv, NEW t \in Targets, ForgetHanded(t) PROVE RInv' /\ Step
<1> DEFINE v == worker[t]
           w == [v EXCEPT !.at = "answer"]
<1>0. /\ v \in Worker /\ v.at = "release" /\ InOrder(t) /\ Proceed(t, w)
      /\ UNCHANGED <<entries, published, handed>> /\ owned' = owned \ BatchKeys(t)
      /\ \A e \in v.batch : NoEntryHas(KeyOf(e))
  BY OwnState DEF ForgetHanded, At, ToPhase, RInv, ThreadKnows
<1>1. /\ w \in Worker /\ w.page = v.page /\ w.batch = v.batch
      /\ w.at = "answer" /\ w.link = v.link /\ w.after = v.after
  BY <1>0, WorkerFields DEF Worker, Phases
<1>2. Tidies(t, w)
  BY <1>0 DEF Tidies, NoEntryHas, BatchKeys
<1>3. Unseen /\ worker'[t] = w /\ w.link \in Links
  BY <1>1, <1>2, TidyStep, WorkerFields
<1>4. \A b \in w.batch, f \in w.page : b.pos < f.pos
  BY <1>0, <1>1 DEF InOrder, Paging
<1>5. w.batch \intersect entries' = {}
  BY <1>0, <1>1 DEF NoEntryHas
<1>6. InOrder(t)'
  BY <1>0, <1>1, <1>3, <1>4, <1>5, GoesOnInOrder DEF Unseen, Held, Paging
<1> QED
  BY <1>1, <1>2, <1>6, TidyStep

------------------------------------------------------------------------------
(* Steps that a caller sees.                                                  *)

PendingOf == [l \in Links |-> Pending(l)]

(* What is pending of a link is a set of its positions.                       *)
LEMMA PendingPositions ==
    ASSUME HInv, NEW l \in Links
    PROVE  Pending(l) \subseteq Positions(l)
  BY DEF HInv, TypeOK, Pending, Due

(* Each is due by one entry.                                                  *)
LEMMA DueByOne ==
    ASSUME HInv, NEW l \in Links, NEW e \in Due(l), NEW f \in Due(l), e.pos = f.pos
    PROVE  e = f
  BY DEF HInv, StagedOnce, Due, Visible

(* An empty message is passed over.                                           *)
LEMMA PassOverEmptyInOrder ==
    ASSUME HInv, RInv, NEW t \in Targets, NEW e \in worker[t].page, PassOverEmpty(t, e)
    PROVE  RInv' /\ Step
<1> DEFINE v == worker[t]
           w == [v EXCEPT !.at = "entry", !.page = @ \ {e}]
<1>0. /\ v \in Worker /\ v.at = "entry" /\ InOrder(t) /\ Proceed(t, w)
      /\ UNCHANGED <<owned, published, handed>> /\ entries' = entries \ {e}
      /\ e \in entries /\ e.link = v.link /\ e.link \in Links /\ Kind(e) = "empty"
      /\ \A f \in v.page \ {e} : e.pos < f.pos
  BY FirstIsBefore DEF PassOverEmpty, Prepare, Handled
<1>1. /\ w \in Worker /\ w.page = v.page \ {e} /\ w.batch = v.batch
      /\ w.at = "entry" /\ w.link = v.link /\ w.after = v.after
  BY <1>0, WorkerFields DEF Worker, Phases
<1>2. worker'[t] = w /\ \A u \in Targets : u # t => worker'[u] = worker[u]
  BY <1>0, <1>1, OwnState, OwnLocals
<1>3. \A l \in Links : Due(l)' = Due(l) \ {e}
  BY <1>0 DEF Due, Visible, KeyOf
<1>4. Undisturbed(t) /\ HandedIsTable'
  <2>1. HandedIsTable'
    BY <1>0 DEF RInv, HandedIsTable, Positions
  <2> QED
    BY <2>1, <1>0, <1>2, <1>3 DEF Undisturbed
<1>5. RInv'
  <2>1. \A b \in w.batch, f \in w.page : b.pos < f.pos
    BY <1>0, <1>1 DEF InOrder, Paging
  <2>2. Held(t) \ {e} \subseteq w.page \union w.batch /\ w.page \union w.batch \subseteq Held(t)
    BY <1>1 DEF Held
  <2>3. /\ Due(w.link)' \subseteq Due(w.link)
        /\ \A f \in Held(t) : f \in Due(w.link)' => f \in w.page \union w.batch
    BY <1>0, <1>1, <1>2, <1>3, <2>2
  <2>4. published' = published /\ v.at \in Paging
    BY <1>0 DEF Paging
  <2>5. InOrder(t)'
    BY <1>0, <1>1, <1>2, <2>1, <2>2, <2>3, <2>4, GoesOnInOrder
  <2> QED
    BY <1>4, <2>5, OneThread
<1>6. Step
  <2>1. CASE e \in Due(e.link)
    <3> DEFINE l == e.link
               p == e.pos
    <3>1. l' = l /\ p' = p
      OBVIOUS
    <3>2. \A k \in Links : k # l => Due(k)' = Due(k)
      BY <1>0, <1>3 DEF Due
    <3>3. Pending(l)' = Pending(l) \ {p}
      BY <1>0, <1>3, <2>1, DueByOne DEF Pending
    <3>4. PendingOf' = [PendingOf EXCEPT ![l] = @ \ {p}]
      BY <1>0, <3>2, <3>3 DEF PendingOf, Pending
    <3>5. p \in Pending(l) /\ History[l][p] = "empty" /\ p \in Positions(l)
      BY <1>0, <2>1, PendingPositions DEF Pending, Kind
    <3>6. Promise!PassOver(l, p)
      BY <1>0, <3>4, <3>5 DEF Promise!PassOver, Promise!Content, PendingOf, Pending, Due
    <3>7. p \in Promise!Positions(l)
      BY <3>5 DEF Promise!Positions, Positions
    <3> QED
      BY <1>0, <3>6, <3>7 DEF Step, Promise!ReplayNext
  <2>2. CASE e \notin Due(e.link)
    <3>1. \A l \in Links : Due(l)' = Due(l)
      BY <1>3, <2>2 DEF Due
    <3> QED
      BY <1>0, <3>1, UnseenStep DEF Unseen
  <2> QED
    BY <2>1, <2>2
<1> QED
  BY <1>5, <1>6

(* The pointer replaces a replay by another as a whole.                       *)
LEMMA PublishInOrder ==
    ASSUME HInv, RInv, NEW t \in Targets, Publish(t) PROVE RInv' /\ Step
<1> DEFINE v == worker[t]
           w == [v EXCEPT !.at = "obsolete"]
<1>0. /\ v \in Worker /\ v.at = "stage" /\ v.link \in Links /\ v.gen \in Generations
      /\ TargetOf[v.link] = t /\ StagedSoFar(t) /\ Proceed(t, w) /\ Unhanded(v.gen)
      /\ UNCHANGED <<entries, owned, handed>>
      /\ published' = [published EXCEPT ![v.link] = v.gen] /\ TypeOK
      /\ Len(History[v.link]) <= v.after[1] /\ v.after[1] \in Nat
  <2>1. v \in Worker /\ v.at = "stage" /\ TypeOK /\ StagedSoFar(t) /\ v.gen \in Generations
    BY OwnState, WorkerFields DEF Publish, At
  <2>2. Unhanded(v.gen)
    BY <2>1 DEF HInv, InvisibleUnhanded, Staging, StagedBy
  <2> QED
    BY <2>1, <2>2, WorkerFields DEF HInv, JobsAlone, Publish, AllStaged, ToPhase
<1>1. w \in Worker /\ w.at = "obsolete"
  BY <1>0 DEF Worker, Phases
<1>2. worker'[t] = w /\ \A u \in Targets : u # t => worker'[u] = worker[u]
  BY <1>0, <1>1, OwnState, OwnLocals
<1>3. \A l \in Links : published'[l] = IF l = v.link THEN v.gen ELSE published[l]
  BY <1>0 DEF TypeOK
<1>4. \A l \in Links : l # v.link => Due(l)' = Due(l)
  BY <1>0, <1>3 DEF Due, Visible, KeyOf
<1>5. RInv'
  <2>1. HandedIsTable'
    BY <1>0 DEF RInv, HandedIsTable, Positions
  <2>2. Undisturbed(t)
    BY <1>0, <1>2, <1>3, <1>4 DEF Undisturbed
  <2>3. InOrder(t)'
    BY <1>1, <1>2, IdleIsInOrder DEF Paging
  <2> QED
    BY <2>1, <2>2, <2>3, OneThread
<1>6. Step
  <2>0. PICK l \in Links, g \in Generations : l = v.link /\ g = v.gen
    BY <1>0
  <2>1. g # published[l]
    BY <1>0, <2>0 DEF Unhanded
  <2>2. Pending(l)' = Positions(l)
    <3>1. Pending(l)' \subseteq Positions(l)
      BY <1>0 DEF Pending, Due, TypeOK, Positions
    <3>2. ASSUME NEW p \in Positions(l) PROVE p \in Pending(l)'
      <4>1. p <= v.after[1]
        BY <1>0, <2>0, HandoffAssumption DEF Positions
      <4>2. PICK e \in entries : e.link = l /\ e.gen = g /\ e.pos = p
        BY <4>1, <1>0, <2>0 DEF StagedSoFar
      <4>3. KeyOf(e) \notin owned
        BY <4>2, <1>0, <2>0, EntryFields DEF TypeOK, Unhanded
      <4>4. e \in Due(l)'
        BY <4>2, <4>3, <1>0, <1>3, <2>0 DEF Due, Visible, KeyOf
      <4> QED
        BY <4>2, <4>4 DEF Pending
    <3> QED
      BY <3>1, <3>2
  <2>3. PendingOf' = [PendingOf EXCEPT ![l] = Positions(l)]
    BY <1>0, <1>4, <2>0, <2>2 DEF PendingOf, Pending
  <2>4. Promise!Replace(l, g)
    BY <1>0, <2>0, <2>1, <2>3 DEF Promise!Replace, Promise!Positions, Positions, PendingOf, Pending, Due
  <2> QED
    BY <2>4 DEF Step, Promise!ReplayNext
<1> QED
  BY <1>5, <1>6

(* What is staged is not visible before it is published.                      *)
LEMMA StageBatchInOrder ==
    ASSUME HInv, RInv, NEW t \in Targets, StageBatch(t) PROVE RInv' /\ Step
<1> DEFINE v == worker[t]
           done == v.after[1]
           batch == {p \in Positions(v.link) : done < p /\ p <= done + Page}
           w == [v EXCEPT !.after = <<done + Page, 0>>]
<1>0. /\ v \in Worker /\ v.at = "stage" /\ v.link \in Links /\ v.gen \in Generations
      /\ Unhanded(v.gen) /\ Proceed(t, w) /\ UNCHANGED <<published, owned, handed>>
      /\ done \in Nat
  <2>1. v \in Worker /\ v.at = "stage" /\ v.gen \in Generations
    BY OwnState, WorkerFields DEF StageBatch, At
  <2>2. Unhanded(v.gen)
    BY <2>1 DEF HInv, InvisibleUnhanded, Staging, StagedBy
  <2> QED
    BY <2>1, <2>2, WorkerFields DEF StageBatch
<1>1. w \in Worker /\ w.at = "stage"
  <2>1. <<done + Page, 0>> \in Nat \X Nat
    BY <1>0, HandoffAssumption
  <2> QED
    BY <1>0, <2>1 DEF Worker
<1>2. worker'[t] = w /\ \A u \in Targets : u # t => worker'[u] = worker[u]
  BY <1>0, <1>1, OwnState, OwnLocals
<1>3. /\ entries \subseteq entries'
      /\ \A e \in entries' \ entries : e.gen = v.gen /\ e.link = v.link
  <2>1. PICK last \in LastId :
           entries' = entries \union
              {[id |-> last + (p - done), link |-> v.link, gen |-> v.gen, pos |-> p] : p \in batch}
    BY DEF StageBatch
  <2> QED
    BY <2>1
<1>4. \A e \in entries' \ entries : e.gen # published[e.link]
  BY <1>0, <1>3 DEF Unhanded
<1>5. \A l \in Links : Due(l)' = Due(l)
  BY <1>0, <1>3, <1>4 DEF Due, Visible, KeyOf
<1>6. Unseen /\ Undisturbed(t) /\ HandedIsTable'
  <2>1. HandedIsTable'
    BY <1>0 DEF RInv, HandedIsTable, Positions
  <2> QED
    BY <2>1, <1>0, <1>2, <1>4, <1>5 DEF Unseen, Undisturbed
<1>7. InOrder(t)'
  BY <1>1, <1>2, IdleIsInOrder DEF Paging
<1> QED
  BY <1>6, <1>7, OneThread, UnseenStep

(* The commit gives the batch to the queue, and nothing with content that is  *)
(* due comes before it and stays.                                             *)
LEMMA CommitInOrder ==
    ASSUME HInv, RInv, NEW t \in Targets, At(t, "enqueue"), Commit(t),
           NEW w \in Worker, Proceed(t, w),
           w = Free \/ w = [worker[t] EXCEPT !.at = "delete"],
           UNCHANGED <<entries, published>>
    PROVE  RInv' /\ Step
<1> DEFINE v == worker[t]
<1>p. PICK B \in SUBSET entries, l \in Links : B = v.batch /\ l = v.link
  BY OwnState, WorkerFields DEF At, ThreadHolds, Gathering
<1>0. /\ v \in Worker /\ v.at = "enqueue" /\ InOrder(t) /\ TargetOf[l] = t /\ B # {}
      /\ \A e \in Held(t) : e.link = l /\ Visible(e)
      /\ \A e \in B, f \in v.page : e.pos < f.pos
      /\ \A e \in Due(l) : e \in Held(t) \/ Below(v.after, PlaceOf(e))
      /\ \A e \in B : ~Below(v.after, PlaceOf(e)) /\ e \in Entry
      /\ TypeOK /\ v.after \in Nat \X Nat
  BY <1>p, OwnState, WorkerFields DEF At, RInv, InOrder, Paging, ThreadHolds, Held
<1>1. worker'[t] = w /\ \A u \in Targets : u # t => worker'[u] = worker[u]
  BY OwnState, OwnLocals
<1>2. B \subseteq Due(l)
  BY <1>p, <1>0 DEF Held, Due, Commit, BatchKeys
<1>3. /\ Due(l)' = Due(l) \ B
      /\ \A k \in Links : k # l => Due(k)' = Due(k)
  <2>1. owned' = owned \union {KeyOf(e) : e \in B}
    BY <1>p DEF Commit, BatchKeys
  <2>2. \A e \in entries : KeyOf(e) \in owned' <=> KeyOf(e) \in owned \/ e \in B
    <3> SUFFICES ASSUME NEW e \in entries, NEW f \in B, KeyOf(e) = KeyOf(f) PROVE e = f
      BY <2>1
    <3>1. e \in Entry /\ f \in Entry /\ e.id = f.id
      BY <1>0, KeyHasId DEF TypeOK
    <3> QED
      BY <3>1, <1>0 DEF TypeOK
  <2> QED
    BY <2>2, <1>0, <1>p DEF Due, Visible, KeyOf, Held
<1>4. ASSUME NEW e \in B, NEW f \in Due(l) \ B PROVE e.pos < f.pos
  <2>1. CASE f \in v.page
    BY <2>1, <1>0, <1>4
  <2>2. CASE f \notin v.page
    <3>1. Below(v.after, PlaceOf(f)) /\ ~Below(v.after, PlaceOf(e))
      BY <2>2, <1>0, <1>p, <1>4 DEF Held
    <3>2. e \in Due(l) /\ e # f
      BY <1>2, <1>4
    <3>3. e.pos # f.pos
      BY <3>2, DueByOne
    <3>4. e.pos \in Nat /\ f.pos \in Nat /\ e.id \in Nat /\ f.id \in Nat
      BY <1>0, EntryFields DEF TypeOK, Due
    <3>5. e.pos <= f.pos
      BY <3>1, <3>4, <1>0 DEF Below, PlaceOf
    <3> QED
      BY <3>3, <3>4, <3>5
  <2> QED
    BY <2>1, <2>2
<1>5. HandedIsTable'
  <2> SUFFICES handed' = [k \in Links |-> [g \in Generations |-> [p \in Positions(k) |->
                             handed'[k][g][p]]]]
    BY DEF HandedIsTable, Positions
  <2> QED
    BY DEF Commit
<1>6. RInv'
  <2>1. Undisturbed(t)
    BY <1>0, <1>1, <1>3 DEF Undisturbed
  <2>2. CASE w = Free
    BY <2>1, <2>2, <1>1, <1>5, FreeFields, IdleIsInOrder, OneThread DEF Paging
  <2>3. CASE w = [v EXCEPT !.at = "delete"]
    <3>1. /\ w.page = v.page /\ w.batch = v.batch /\ w.at = "delete"
          /\ w.link = v.link /\ w.after = v.after
      BY <2>3, <1>0 DEF Worker
    <3>2. Due(w.link)' \subseteq Due(w.link)
      BY <3>1, <1>p, <1>1, <1>3
    <3>3. w.page \union w.batch = Held(t) /\ v.at \in Paging
      BY <3>1, <1>0 DEF Held, Paging
    <3>4. InOrder(t)'
      BY <3>1, <3>2, <3>3, <1>0, <1>1, <1>p, GoesOnInOrder
    <3> QED
      BY <2>1, <3>4, <1>5, OneThread
  <2> QED
    BY <2>2, <2>3
<1>7. Step
  <2> DEFINE g == published[l]
  <2>p. PICK S \in SUBSET Positions(l) : S = {e.pos : e \in B}
    <3>1. \A e \in B : e.pos \in Positions(l)
      BY <1>0, <1>2 DEF TypeOK, Due
    <3>2. {e.pos : e \in B} \in SUBSET Positions(l)
      BY <3>1
    <3> QED
      BY <3>2
  <2>1. S # {} /\ S \subseteq Pending(l) /\ Pending(l)' = Pending(l) \ S
    <3>1. \A p \in Pending(l)' : p \in Pending(l) \ S
      BY <1>3, <1>2, <2>p, DueByOne DEF Pending
    <3>2. \A p \in Pending(l) \ S : p \in Pending(l)'
      BY <1>3, <2>p DEF Pending
    <3>3. S # {} /\ S \subseteq Pending(l)
      BY <1>0, <1>2, <2>p DEF Pending
    <3> QED
      BY <3>1, <3>2, <3>3
  <2>2. PendingOf' = [PendingOf EXCEPT ![l] = @ \ S]
    BY <1>3, <2>1 DEF PendingOf, Pending
  <2>3. \A p \in S, q \in Pending(l) \ S : p < q
    BY <1>4, <2>p DEF Pending
  <2>4. ASSUME NEW k \in Links, NEW h \in Generations, NEW p \in Positions(k)
        PROVE  /\ handed[k][h][p] \in Nat
               /\ handed'[k][h][p] = handed[k][h][p]
                     + (IF k = l /\ h = g /\ p \in S THEN 1 ELSE 0)
    <3>1. Same(B, k, h, p) # {} <=> k = l /\ h = g /\ p \in S
      BY <1>0, <1>p, <2>p DEF Same, Held, Visible
    <3> QED
      BY <3>1, <1>p, CommitAdds
  <2>5. handed' = [handed EXCEPT ![l][published[l]] =
                      [p \in DOMAIN @ |-> @[p] + (IF p \in S THEN 1 ELSE 0)]]
    <3> DEFINE row == [p \in DOMAIN handed[l][g] |-> handed[l][g][p] + (IF p \in S THEN 1 ELSE 0)]
    <3>1. /\ handed = [k \in Links |-> handed[k]]
          /\ \A k \in Links : handed[k] = [h \in Generations |-> handed[k][h]]
          /\ \A k \in Links, h \in Generations :
                /\ handed[k][h] = [p \in Positions(k) |-> handed[k][h][p]]
                /\ DOMAIN handed[k][h] = Positions(k)
      BY DEF RInv, HandedIsTable
    <3>2. /\ handed' = [k \in Links |-> handed'[k]]
          /\ \A k \in Links : handed'[k] = [h \in Generations |-> handed'[k][h]]
          /\ \A k \in Links, h \in Generations :
                handed'[k][h] = [p \in Positions(k) |-> handed'[k][h][p]]
      BY <1>5 DEF HandedIsTable, Positions
    <3>3. g \in Generations
      BY <1>0 DEF TypeOK
    <3>4. ASSUME NEW k \in Links, NEW h \in Generations, ~(k = l /\ h = g)
          PROVE  handed'[k][h] = handed[k][h]
      <4>1. \A p \in Positions(k) : handed'[k][h][p] = handed[k][h][p]
        BY <2>4, <3>4
      <4>2. [p \in Positions(k) |-> handed'[k][h][p]] = [p \in Positions(k) |-> handed[k][h][p]]
        BY <4>1
      <4>3. handed[k][h] = [p \in Positions(k) |-> handed[k][h][p]]
        BY <3>1
      <4>4. handed'[k][h] = [p \in Positions(k) |-> handed'[k][h][p]]
        BY <3>2
      <4> QED
        BY <4>2, <4>3, <4>4
    <3>5. handed'[l][g] = row
      <4>1. \A p \in Positions(l) :
               handed'[l][g][p] = handed[l][g][p] + (IF p \in S THEN 1 ELSE 0)
        BY <2>4, <3>3
      <4>2. [p \in Positions(l) |-> handed'[l][g][p]] = row
        BY <4>1, <3>1, <3>3
      <4> QED
        BY <4>2, <3>2, <3>3
    <3> HIDE DEF row
    <3>6. handed'[l] = [handed[l] EXCEPT ![g] = row]
      BY <3>1, <3>2, <3>3, <3>4, <3>5
    <3>7. handed' = [handed EXCEPT ![l] = [handed[l] EXCEPT ![g] = row]]
      BY <3>1, <3>2, <3>3, <3>4, <3>6
    <3> QED
      BY <3>7 DEF row
  <2>6. Promise!Give(l, S)
    BY <2>1, <2>2, <2>3, <2>5 DEF Promise!Give, Promise!Content, PendingOf, Pending, Due
  <2>7. S \in SUBSET Promise!Positions(l)
    BY DEF Promise!Positions, Positions
  <2> QED
    BY <2>6, <2>7 DEF Step, Promise!ReplayNext
<1> QED
  BY <1>6, <1>7

------------------------------------------------------------------------------
(* Failures, crashes, starts.                                                 *)

(* A replay that waits is not seen yet.                                       *)
LEMMA RequestReplayInOrder ==
    ASSUME HInv, RInv, NEW l \in Links, NEW g \in Generations, RequestReplay(l, g)
    PROVE  RInv' /\ Step
<1>1. Unseen /\ HandedIsTable'
  BY ReadingIsUnseen DEF RequestReplay, RInv
<1>2. \A t \in Targets : InOrder(t)'
  BY <1>1 DEF RequestReplay, RInv, InOrder, Held, Visible, PlaceOf, Unseen, Due, KeyOf
<1> QED
  BY <1>1, <1>2, UnseenStep DEF RInv

(* A thread that fails leaves everything as it is.                            *)
LEMMA StepFailsInOrder ==
    ASSUME HInv, RInv, NEW t \in Targets, StepFails(t) PROVE RInv' /\ Step
<1>1. Proceed(t, Free) /\ UNCHANGED <<entries, published, owned, handed>>
  BY DEF StepFails, GivesUp, Release, durable
<1>2. worker'[t].at = "free"
  BY <1>1, FreeFields, OwnState, OwnLocals
<1> QED
  BY <1>1, <1>2, FreeFields, IdleIsInOrder, ReadingStep DEF Paging

(* So does a crash.                                                           *)
LEMMA CrashInOrder == ASSUME HInv, RInv, Crash PROVE RInv' /\ Step
<1>1. Unseen /\ HandedIsTable'
  BY ReadingIsUnseen DEF Crash, durable, RInv
<1>2. \A t \in Targets : worker'[t].at \notin Paging
  BY FreeFields DEF Crash, Paging
<1> QED
  BY <1>1, <1>2, IdleIsInOrder, UnseenStep DEF RInv

(* A start removes what is not visible.                                       *)
LEMMA RestartInOrder == ASSUME HInv, RInv, Restart PROVE RInv' /\ Step
<1>1. \A l \in Links : Due(l)' = Due(l)
  BY DEF Restart, Reclaimed, Due, Visible, KeyOf
<1>2. Unseen
  BY <1>1 DEF Unseen, Restart
<1>3. HandedIsTable'
  BY DEF RInv, HandedIsTable, Restart, Positions
<1>4. \A t \in Targets : worker'[t].at \notin Paging
  BY OwnState, FreeFields DEF Restart, ThreadHolds, Paging
<1> QED
  BY <1>2, <1>3, <1>4, IdleIsInOrder, UnseenStep DEF RInv

------------------------------------------------------------------------------
(* The theorem.                                                               *)

(* At first nothing was given and nobody works.                               *)
LEMMA InitPromised == Init => RInv /\ Promise!ReplayInit
<1> SUFFICES ASSUME Init PROVE RInv /\ Promise!ReplayInit
  OBVIOUS
<1>1. RInv
  BY FreeFields DEF Init, RInv, HandedIsTable, InOrder, Paging
<1>2. \A l \in Links : Pending(l) \subseteq Positions(l)
  BY InitHolds, PendingPositions
<1>3. /\ published \in [Links -> Generations]
      /\ handed = [l \in Links |-> [g \in Generations |-> [p \in Positions(l) |-> 0]]]
  BY HandoffAssumption DEF Init, Generations
<1>4. Promise!ReplayInit
  BY <1>2, <1>3 DEF Promise!ReplayInit, Promise!Positions, Positions, Pending, Due
<1> QED
  BY <1>1, <1>4

(* Every step keeps the order, and is a step of the promise or a stutter.     *)
LEMMA NextInOrder == HInv /\ RInv /\ [Next]_vars => RInv' /\ Step
<1> SUFFICES ASSUME HInv, RInv, [Next]_vars PROVE RInv' /\ Step
  OBVIOUS
<1>1. CASE UNCHANGED vars
  <2>1. Unseen /\ HandedIsTable'
    BY <1>1, ReadingIsUnseen DEF vars, durable, RInv
  <2>2. \A t \in Targets : InOrder(t)'
    BY <1>1, <2>1 DEF vars, durable, RInv, InOrder, Held, Visible, PlaceOf, Unseen, Due, KeyOf
  <2> QED
    BY <2>1, <2>2, UnseenStep DEF RInv
<1>2. ASSUME NEW l \in Links, NEW g \in Generations, RequestReplay(l, g) PROVE RInv' /\ Step
  BY <1>2, RequestReplayInOrder
<1>3. ASSUME NEW t \in Targets, ThreadStep(t) PROVE RInv' /\ Step
  <2>1. CASE TakeLock(t) \/ StageBatch(t) \/ Publish(t) \/ DropObsolete(t)
    BY <2>1, TakeLockInOrder, StageBatchInOrder, PublishInOrder, DropObsoleteInOrder
  <2>2. CASE ReadKeys(t) \/ ReadPresent(t) \/ ForgetStale(t) \/ PickLink(t)
    BY <2>2, ReadKeysInOrder, ForgetStaleInOrder, PickLinkInOrder
  <2>3. CASE ReadPage(t) \/ ReadOwned(t) \/ EndOfPage(t)
    BY <2>3, ReadPageInOrder, ReadOwnedInOrder, EndOfPageInOrder
  <2>4. ASSUME NEW e \in worker[t].page, HandEntry(t, e) PROVE RInv' /\ Step
    BY <2>4, DeleteOwnedInOrder, ForgetOwnedInOrder, PassOverEmptyInOrder, AddTextInOrder,
       FlushTextInOrder, TakeMediaInOrder DEF HandEntry
  <2>5. CASE EnqueueBatch(t)
    <3>1. [worker[t] EXCEPT !.at = "delete"] \in Worker
      BY OwnState DEF Worker, Phases
    <3> QED
      BY <2>5, <3>1, CommitInOrder DEF EnqueueBatch, ToPhase
  <2>6. CASE DeleteHanded(t) \/ ForgetHanded(t) \/ Answered(t)
    BY <2>6, DeleteHandedInOrder, ForgetHandedInOrder, AnsweredInOrder
  <2> QED
    BY <1>3, <2>1, <2>2, <2>3, <2>4, <2>5, <2>6 DEF ThreadStep
<1>4. ASSUME NEW t \in Targets, EnqueuedUnknowingly(t) PROVE RInv' /\ Step
  BY <1>4, FreeFields, CommitInOrder DEF EnqueuedUnknowingly, GivesUp, Release
<1>5. ASSUME NEW t \in Targets, StepFails(t) PROVE RInv' /\ Step
  BY <1>5, StepFailsInOrder
<1>6. CASE Crash \/ Restart
  BY <1>6, CrashInOrder, RestartInOrder
<1> QED
  BY <1>1, <1>2, <1>3, <1>4, <1>5, <1>6 DEF Next

(* The handoff through two databases, with its threads, failures and crashes, *)
(* implements HistoryReplay: a replay replaces the one before it as a whole,  *)
(* and its messages go to the outbound queue in order and once, none with     *)
(* content left out.                                                          *)
THEOREM ReplayPromiseTheorem == Spec => KeepsReplayPromise
<1>1. Init => HInv /\ RInv /\ Promise!ReplayInit
  BY InitHolds, InitPromised
<1>2. HInv /\ RInv /\ [Next]_vars => HInv' /\ RInv' /\ [Promise!ReplayNext]_(Promise!promise)
  BY NextKeeps, NextInOrder DEF Step
<1> QED
  BY <1>1, <1>2, PTL DEF Spec, KeepsReplayPromise, Promise!ReplaySpec
==============================================================================
