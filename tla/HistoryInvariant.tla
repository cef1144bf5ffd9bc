--------------------------- MODULE HistoryInvariant --------------------------
(* Why the handoff is idempotent and skips nothing: the inductive invariant   *)
(* that HistoryHandoff_proofs shows, as a state predicate that TLC checks too.*)
EXTENDS HistoryHandoff

(* Phases in which a thread has a page, and in which it still holds a batch   *)
(* that has not been handed over.                                             *)
Paging == {"page", "owned", "entry", "disown", "enqueue", "delete", "release", "answer"}
Gathering == {"page", "owned", "entry", "disown", "enqueue"}

Held(t) == worker[t].page \union worker[t].batch
NoEntryHas(k) == \A e \in entries : KeyOf(e) # k
Handed(e) == handed[e.link][e.gen][e.pos] > 0

------------------------------------------------------------------------------
(* A replay that is not visible yet: its generation is unused, or its thread  *)
(* waits for the lock or is still inserting.                                  *)
Unbegun(g) == g # 0 /\ (g \notin used \/ \E job \in waiting : job.gen = g)
StagedBy(t, g) == worker[t].at = "stage" /\ worker[t].gen = g
Staging(g) == \E t \in Targets : StagedBy(t, g)

(* Nothing that has to do with handing over knows that generation.            *)
Unhanded(g) ==
    /\ \A l \in Links : published[l] # g
    /\ \A l \in Links : \A p \in Positions(l) : handed[l][g][p] = 0
    /\ \A k \in owned : k[1] # g
    /\ \A t \in Targets : \A k \in worker[t].keys : k[1] # g
    /\ \A t \in Targets : \A e \in Held(t) : e.gen # g

InvisibleUnhanded ==
    /\ \A g \in Generations : Unbegun(g) \/ Staging(g) => Unhanded(g)
    /\ \A g \in Generations : Unbegun(g) => ~Staging(g) /\ \A e \in entries : e.gen # g

(* A generation has one thread, which has a lock of its own.                  *)
JobsAlone ==
    /\ \A job \in waiting : job.gen # 0 => job.gen \in used /\ TargetOf[job.link] = job.target
    /\ \A i, j \in waiting : i.gen = j.gen /\ i.gen # 0 => i = j
    /\ \A t \in Targets : worker[t].at \in {"stage", "obsolete"} => TargetOf[worker[t].link] = t
    /\ \A t \in Targets : worker[t].at = "stage" => worker[t].gen \in used
    /\ \A t, u \in Targets : worker[t].at = "stage" /\ StagedBy(u, worker[t].gen) => t = u

(* A thread stages the messages of one link from the first to the last.       *)
StagedSoFar(t) ==
    LET w == worker[t] IN
    /\ w.at = "stage" =>
          /\ \A e \in entries : e.gen = w.gen => e.link = w.link /\ e.pos <= w.after[1]
          /\ \A p \in Positions(w.link) : p <= w.after[1] =>
                \E e \in entries : e.link = w.link /\ e.gen = w.gen /\ e.pos = p
    /\ w.at = "obsolete" => published[w.link] = w.gen

(* A message of a replay is staged once.                                      *)
StagedOnce == \A e, f \in entries : e.link = f.link /\ e.gen = f.gen /\ e.pos = f.pos => e = f

------------------------------------------------------------------------------
(* What a thread holds in memory is, or was, staged, and is its own: other    *)
(* threads work on other chats.                                               *)
ThreadHolds(t) ==
    LET w == worker[t] IN
    /\ ~up => w = Free
    /\ \A e \in Held(t) : TargetOf[e.link] = t /\ e.pos \in Positions(e.link)
    /\ \A e \in Held(t), f \in entries : KeyOf(e) = KeyOf(f) => e = f
    /\ w.page \intersect w.batch = {}
    /\ \A e \in Held(t) : ~Below(w.after, PlaceOf(e))
    /\ w.at \notin Paging => Held(t) = {}
    /\ w.at \in Gathering => w.batch \subseteq entries
    /\ w.at = "page" => w.page = {}
    /\ w.at \in Paging \ {"disown"} => w.page \subseteq entries
    /\ w.at = "disown" => First(w.page) \in w.page /\ w.page \ {First(w.page)} \subseteq entries

(* What it knows from the other database, or from what it did, stays true     *)
(* while it is used: keys it is about to forget belong to no entry, entries   *)
(* it is about to delete were handed over.                                    *)
ThreadKnows(t) ==
    LET w == worker[t] IN
    /\ w.at = "forget" => \A k \in w.keys : NoEntryHas(k)
    /\ w.at = "disown" => NoEntryHas(KeyOf(First(w.page)))
    /\ w.at = "release" => \A e \in w.batch : NoEntryHas(KeyOf(e))
    /\ w.at = "delete" => \A e \in w.batch : Handed(e)
    /\ w.at \in Paging \ {"page", "owned"} =>
          \A e \in w.page : KeyOf(e) \in w.keys => Handed(e)

(* A staged message is owned by the queue exactly if it was handed to it.     *)
OwnedIfHanded == \A e \in entries : KeyOf(e) \in owned <=> Handed(e)

HInv ==
    /\ TypeOK
    /\ InvisibleUnhanded
    /\ JobsAlone
    /\ \A t \in Targets : StagedSoFar(t)
    /\ StagedOnce
    /\ \A t \in Targets : ThreadHolds(t)
    /\ \A t \in Targets : ThreadKnows(t)
    /\ OwnedIfHanded
    /\ HandedOnce
    /\ NothingSkipped

------------------------------------------------------------------------------
(* Why the messages of a replay go out in order: the invariant that           *)
(* HistoryPromise_proofs adds.  A thread works on one link, whose visible     *)
(* messages it holds; those of its batch come before those of its page, and   *)
(* what the queue does not own yet is held or behind the cursor.              *)
Due(l) == {e \in entries : e.link = l /\ Visible(e) /\ KeyOf(e) \notin owned}

InOrder(t) ==
    LET w == worker[t] IN
    w.at \in Paging =>
       /\ TargetOf[w.link] = t
       /\ \A e \in Held(t) : e.link = w.link /\ Visible(e)
       /\ \A e \in w.batch, f \in w.page : e.pos < f.pos
       /\ \A e \in Due(w.link) : e \in Held(t) \/ Below(w.after, PlaceOf(e))
       /\ w.at = "enqueue" => w.batch # {}
       /\ w.at = "answer" => w.batch \intersect entries = {}

HandedIsTable ==
    handed = [l \in Links |-> [g \in Generations |-> [p \in Positions(l) |-> handed[l][g][p]]]]

RInv == HandedIsTable /\ \A t \in Targets : InOrder(t)
==============================================================================
