---------------------------- MODULE HistoryHandoff ---------------------------
(* The replay of a link's history: chat_binding.py stages the messages in the *)
(* main database (db.py) and hands them to the outbound queue (outbound.py).  *)
(* The two databases share no transaction.  What makes the handoff idempotent *)
(* are generation-qualified ownership keys: they are committed with the queue *)
(* row and removed after the staged entry is.                                 *)
(*                                                                            *)
(* A thread works on a Telegram chat while it holds the chat's lock; threads  *)
(* of different chats interleave.  Every action is one transaction, or one    *)
(* read of a database, of the thread that holds the lock of t.                *)
EXTENDS Naturals, Sequences, FiniteSets

CONSTANTS
    Links,         \* replay destinations: a slave chat in a Telegram chat or topic
    Targets,       \* Telegram chats
    TargetOf,      \* [Links -> Targets]
    History,       \* [Links -> Seq(Kinds)], what MsgLog holds for a link, oldest first
    Legacy,        \* entries staged by a version without generations
    Page,          \* rows per page and per batch of inserts (32 in the code)
    MaxReplays,    \* bound: how many generations one behaviour may stage
    MaxCrashes,    \* bound: crashes
    MaxFailures    \* bound: failed steps of a thread

(* A message becomes a text, a copied medium or, without content, no call.    *)
Kinds == {"text", "media", "empty"}

Generations == 0 .. MaxReplays          \* 0 is NULL: entries of old versions
Positions(l) == DOMAIN History[l]

Entry == [id : Nat \ {0}, link : Links, gen : Generations, pos : Nat \ {0}]

ASSUME HandoffAssumption ==
    /\ Links # {}
    /\ TargetOf \in [Links -> Targets]
    /\ History \in [Links -> Seq(Kinds)]
    /\ Page \in Nat \ {0} /\ MaxReplays \in Nat /\ MaxCrashes \in Nat /\ MaxFailures \in Nat
    /\ Legacy \subseteq Entry
    /\ \A e \in Legacy : e.gen = 0 /\ e.pos \in Positions(e.link)
    /\ \A e, f \in Legacy : e.id = f.id \/ (e.link = f.link /\ e.pos = f.pos) => e = f

VARIABLES
    entries,       \* the table of staged entries (HistoryMigrationEntry)
    published,     \* the current generation of each link (HistoryMigrationTarget)
    owned,         \* the ownership keys in the queue database (history_ownership)
    handed,        \* how often each message was committed to the outbound queue
    used,          \* generations given out
    up,            \* the process is there
    waiting,       \* threads that wait for a lock: a replay's, or a resumption's
    worker,        \* per target, what the thread that holds its lock is doing
    crashes,
    failures

durable == <<entries, published, owned, handed, used>>
vars == <<durable, up, waiting, worker, crashes, failures>>

Phases == {"free", "stage", "obsolete", "keys", "present", "forget", "pick", "page", "owned",
           "entry", "disown", "enqueue", "delete", "release", "answer"}

Worker == [at    : Phases,
           link  : Links,
           gen   : Generations,         \* the generation being staged
           after : Nat \X Nat,          \* the cursor of the page being read
           page  : SUBSET Entry,        \* entries of the page still to be handled
           last  : BOOLEAN,             \* there is no page behind it
           keys  : SUBSET (Nat \X Nat), \* keys read from the queue database
           batch : SUBSET Entry]        \* texts waiting to be sent as one message

Job == [target : Targets, link : Links, gen : Generations]   \* gen 0: a resumption

TypeOK ==
    /\ entries \subseteq Entry
    /\ \A e \in entries : e.pos \in Positions(e.link)
    /\ \A e, f \in entries : e.id = f.id => e = f
    /\ published \in [Links -> Generations]
    /\ owned \subseteq Generations \X (Nat \ {0})
    /\ \A l \in Links, g \in Generations : handed[l][g] \in [Positions(l) -> Nat]
    /\ used \subseteq Generations \ {0}
    /\ up \in BOOLEAN
    /\ waiting \subseteq Job
    /\ worker \in [Targets -> Worker]
    /\ crashes \in 0 .. MaxCrashes
    /\ failures \in 0 .. MaxFailures

AnyLink == CHOOSE l \in Links : TRUE
Free == [at |-> "free", link |-> AnyLink, gen |-> 0, after |-> <<0, 0>>, page |-> {},
         last |-> FALSE, keys |-> {}, batch |-> {}]

Init ==
    /\ entries = Legacy
    /\ published = [l \in Links |-> 0]
    /\ owned = {}
    /\ handed = [l \in Links |-> [g \in Generations |-> [p \in Positions(l) |-> 0]]]
    /\ used = {}
    /\ up = FALSE
    /\ waiting = {}
    /\ worker = [t \in Targets |-> Free]
    /\ crashes = 0 /\ failures = 0

------------------------------------------------------------------------------
(* Readers of the two tables.                                                 *)

KeyWithoutGeneration(e) == <<0, e.id>>     \* mutant: ids of deleted entries come back
KeyOf(e) == <<e.gen, e.id>>

(* The pointer makes a whole generation visible at once; entries of an old    *)
(* version (generation NULL, 0 here) are visible until there is a pointer.    *)
Visible(e) == e.gen = published[e.link]
VisibleOf(t) == {e \in entries : TargetOf[e.link] = t /\ Visible(e)}

(* SQLite numbers new entries on from the greatest id in the table, so that   *)
(* the ids of deleted entries come back.                                      *)
LastId == {n \in {0} \union {e.id : e \in entries} : \A e \in entries : e.id <= n}

Below(a, b) == a[1] < b[1] \/ (a[1] = b[1] /\ a[2] < b[2])
FirstPage(S) == {k \in S : Cardinality({j \in S : Below(j, k)}) < Page}
IsLast(k, S) == k \in S /\ \A j \in S : j = k \/ Below(j, k)
PlaceOf(e) == <<e.pos, e.id>>
First(S) == CHOOSE e \in S : \A f \in S : e.pos <= f.pos
Kind(e) == History[e.link][e.pos]

------------------------------------------------------------------------------
(* Shared pieces.                                                             *)

At(t, phase) == up /\ worker[t].at = phase
Proceed(t, w) == worker' = [worker EXCEPT ![t] = w]
ToPhase(t, phase) == Proceed(t, [worker[t] EXCEPT !.at = phase])
Release(t) == Proceed(t, Free)
NoTrouble == UNCHANGED <<up, crashes, failures>>
OnlyReads == UNCHANGED <<durable, waiting>> /\ NoTrouble

(* The thread leaves with its lock: a return of False or an exception.        *)
GivesUp(t) ==
    /\ Release(t)
    /\ failures < MaxFailures /\ failures' = failures + 1
    /\ UNCHANGED <<up, crashes, waiting>>

------------------------------------------------------------------------------
(* migrate_chat_history: a link command starts a thread for its replay.       *)
RequestReplay(l, g) ==
    /\ up
    /\ g \in Generations \ ({0} \union used)
    /\ used' = used \union {g}
    /\ waiting' = waiting \union {[target |-> TargetOf[l], link |-> l, gen |-> g]}
    /\ UNCHANGED <<entries, published, owned, handed, worker>> /\ NoTrouble

TakeLock(t) ==
    /\ At(t, "free")
    /\ \E job \in waiting :
          /\ job.target = t
          /\ waiting' = waiting \ {job}
          /\ Proceed(t, [Free EXCEPT !.at = IF job.gen = 0 THEN "keys" ELSE "stage",
                                     !.link = job.link, !.gen = job.gen])
    /\ UNCHANGED durable /\ NoTrouble

------------------------------------------------------------------------------
(* replace_history_migration_entries.                                         *)

(* The messages were read in one snapshot; they are inserted in batches.  The *)
(* cursor counts the messages that have been inserted.                        *)
AllStaged(w) == Len(History[w.link]) <= w.after[1]

StageBatch(t) ==
    LET w == worker[t]
        done == w.after[1]
        batch == {p \in Positions(w.link) : done < p /\ p <= done + Page}
    IN  /\ At(t, "stage")
        /\ ~AllStaged(w)
        /\ \E last \in LastId :
              entries' = entries \union
                 {[id |-> last + (p - done), link |-> w.link, gen |-> w.gen, pos |-> p] : p \in batch}
        /\ Proceed(t, [w EXCEPT !.after = <<done + Page, 0>>])
        /\ UNCHANGED <<published, owned, handed, used, waiting>> /\ NoTrouble

(* Mutant: the pointer is written before the last batch.                      *)
PublishEarly(t) ==
    /\ At(t, "stage")
    /\ published' = [published EXCEPT ![worker[t].link] = worker[t].gen]
    /\ ToPhase(t, IF AllStaged(worker[t]) THEN "obsolete" ELSE "stage")
    /\ UNCHANGED <<entries, owned, handed, used, waiting>> /\ NoTrouble

(* One pointer makes the whole replacement visible.                           *)
Publish(t) ==
    /\ At(t, "stage")
    /\ AllStaged(worker[t])
    /\ published' = [published EXCEPT ![worker[t].link] = worker[t].gen]
    /\ ToPhase(t, "obsolete")
    /\ UNCHANGED <<entries, owned, handed, used, waiting>> /\ NoTrouble

(* Entries of other generations of the link are deleted in pages by id; after *)
(* them an empty history only gets a notice, any other is processed.          *)
DropObsolete(t) ==
    LET w == worker[t]
        obsolete == {e \in entries : e.link = w.link /\ e.gen # w.gen}
        page == {e \in obsolete : Cardinality({f \in obsolete : f.id < e.id}) < Page}
    IN  /\ At(t, "obsolete")
        /\ entries' = entries \ page
        /\ IF page # {} THEN UNCHANGED worker
           ELSE IF Positions(w.link) = {} THEN Release(t)
           ELSE Proceed(t, [w EXCEPT !.at = "keys", !.after = <<0, 0>>])
        /\ UNCHANGED <<published, owned, handed, used, waiting>> /\ NoTrouble

------------------------------------------------------------------------------
(* _process_pending_history_migrations_locked.                                *)

(* First, keys whose entries are gone are forgotten, page by page, whatever   *)
(* target they belong to.  Between the three steps other threads run.         *)
ReadKeys(t) ==
    LET w == worker[t]
        page == FirstPage({k \in owned : Below(w.after, k)})
    IN  /\ At(t, "keys")
        /\ \/ page = {} /\ ToPhase(t, "pick")
           \/ \E k \in page :
                 /\ IsLast(k, page)
                 /\ Proceed(t, [w EXCEPT !.at = "present", !.keys = page, !.after = k])
        /\ OnlyReads

ReadPresent(t) ==
    /\ At(t, "present")
    /\ Proceed(t, [worker[t] EXCEPT !.at = "forget",
                                    !.keys = @ \ {KeyOf(e) : e \in entries}])
    /\ OnlyReads

ForgetStale(t) ==
    /\ At(t, "forget")
    /\ owned' = owned \ worker[t].keys
    /\ Proceed(t, [worker[t] EXCEPT !.at = "keys", !.keys = {}])
    /\ UNCHANGED <<entries, published, handed, used, waiting>> /\ NoTrouble

(* Then the link of the oldest visible entry of this target, until none is.   *)
Oldest(e, S) == e \in S /\ \A f \in S : e.id <= f.id
StartLink(t, e) == Proceed(t, [Free EXCEPT !.at = "page", !.link = e.link])

PickLinkKeepingLock(t) ==      \* mutant: the lock is kept when nothing is left
    /\ At(t, "pick")
    /\ \E e \in VisibleOf(t) : Oldest(e, VisibleOf(t)) /\ StartLink(t, e)
    /\ OnlyReads
PickLink(t) ==
    /\ At(t, "pick")
    /\ \/ VisibleOf(t) = {} /\ Release(t)
       \/ \E e \in VisibleOf(t) : Oldest(e, VisibleOf(t)) /\ StartLink(t, e)
    /\ OnlyReads

------------------------------------------------------------------------------
(* _process_history_migration_target.                                         *)

ReadPage(t) ==
    LET w == worker[t]
        rest == {e \in VisibleOf(t) : e.link = w.link /\ Below(w.after, PlaceOf(e))}
        page == {e \in rest : Cardinality({f \in rest : Below(PlaceOf(f), PlaceOf(e))}) < Page}
    IN  /\ At(t, "page")
        /\ \E k \in {w.after} \union {PlaceOf(e) : e \in page} :
              /\ IF page = {} THEN k = w.after ELSE IsLast(k, {PlaceOf(e) : e \in page})
              /\ Proceed(t, [w EXCEPT !.at = "owned", !.page = page,
                                      !.last = Cardinality(page) < Page, !.after = k])
        /\ OnlyReads

ReadOwned(t) ==
    /\ At(t, "owned")
    /\ Proceed(t, [worker[t] EXCEPT !.at = "entry",
                                    !.keys = owned \intersect {KeyOf(e) : e \in worker[t].page}])
    /\ OnlyReads

(* The page is handled in order.  At its end the next page is read, or what   *)
(* is left of the batch goes out, or the next link is looked for.             *)
EndOfPage(t) ==
    LET w == worker[t] IN
    /\ At(t, "entry") /\ w.page = {}
    /\ ToPhase(t, IF ~w.last THEN "page" ELSE IF w.batch # {} THEN "enqueue" ELSE "pick")
    /\ OnlyReads

AtEntry(t, e) == At(t, "entry") /\ worker[t].page # {} /\ e = First(worker[t].page)
Handled(t, e, phase) ==
    Proceed(t, [worker[t] EXCEPT !.at = phase, !.page = @ \ {e}])

(* An entry that the queue owns already, after an interrupted handoff.        *)
DeleteOwned(t, e) ==
    /\ AtEntry(t, e) /\ KeyOf(e) \in worker[t].keys
    /\ entries' = entries \ {e}
    /\ ToPhase(t, "disown")
    /\ UNCHANGED <<published, owned, handed, used, waiting>> /\ NoTrouble

ForgetOwned(t, e) ==
    /\ At(t, "disown") /\ e = First(worker[t].page)
    /\ owned' = owned \ {KeyOf(e)}
    /\ Handled(t, e, "entry")
    /\ UNCHANGED <<entries, published, handed, used, waiting>> /\ NoTrouble

Prepare(t, e) == AtEntry(t, e) /\ KeyOf(e) \notin worker[t].keys

PassOverEmpty(t, e) ==
    /\ Prepare(t, e) /\ Kind(e) = "empty"
    /\ entries' = entries \ {e}
    /\ Handled(t, e, "entry")
    /\ UNCHANGED <<published, owned, handed, used, waiting>> /\ NoTrouble

(* Texts are joined while they fit into one message; their lengths are left   *)
(* open, so that a text that follows others may or may not fit.               *)
AddText(t, e) ==
    /\ Prepare(t, e) /\ Kind(e) = "text"
    /\ Proceed(t, [worker[t] EXCEPT !.page = @ \ {e}, !.batch = @ \union {e}])
    /\ OnlyReads

FlushText(t, e) ==
    /\ Prepare(t, e) /\ Kind(e) \in {"text", "media"}
    /\ worker[t].batch # {}
    /\ ToPhase(t, "enqueue")
    /\ OnlyReads

TakeMediaFirst(t, e) ==        \* mutant: the texts before it are not sent first
    /\ Prepare(t, e) /\ Kind(e) = "media"
    /\ Proceed(t, [worker[t] EXCEPT !.at = "enqueue", !.page = @ \ {e}, !.batch = {e}])
    /\ OnlyReads
TakeMedia(t, e) ==
    /\ Prepare(t, e) /\ Kind(e) = "media"
    /\ worker[t].batch = {}
    /\ Proceed(t, [worker[t] EXCEPT !.at = "enqueue", !.page = @ \ {e}, !.batch = {e}])
    /\ OnlyReads

------------------------------------------------------------------------------
(* _enqueue_history_batch.                                                    *)

BatchKeys(t) == {KeyOf(e) : e \in worker[t].batch}

(* enqueue_many: the queue row and the ownership keys are one transaction.    *)
(* entry_key is a primary key: an owned entry cannot be enqueued again.       *)
Commit(t) ==
    LET batch == worker[t].batch IN
    /\ BatchKeys(t) \intersect owned = {}
    /\ owned' = owned \union BatchKeys(t)
    /\ handed' = [l \in Links |-> [g \in Generations |-> [p \in Positions(l) |->
          handed[l][g][p] + Cardinality({e \in batch : e.link = l /\ e.gen = g /\ e.pos = p})]]]

EnqueueBatch(t) ==
    /\ At(t, "enqueue")
    /\ Commit(t)
    /\ ToPhase(t, "delete")
    /\ UNCHANGED <<entries, published, used, waiting>> /\ NoTrouble

(* An error after the commit: the row is there, but the thread does not know. *)
EnqueuedUnknowingly(t) ==
    /\ At(t, "enqueue")
    /\ Commit(t)
    /\ GivesUp(t)
    /\ UNCHANGED <<entries, published, used>>

(* Only then are the staged entries deleted, one by one and by their ids, and *)
(* after them their keys.  Mutant: the keys go first.                         *)
ForgetFirst(t) ==
    /\ At(t, "delete")
    /\ IF BatchKeys(t) \intersect owned # {}
       THEN owned' = owned \ BatchKeys(t) /\ UNCHANGED <<entries, worker>>
       ELSE /\ entries' = entries \ worker[t].batch
            /\ ToPhase(t, "answer")
            /\ UNCHANGED owned
    /\ UNCHANGED <<published, handed, used, waiting>> /\ NoTrouble

DeleteHanded(t) ==
    LET left == worker[t].batch \intersect entries IN
    /\ At(t, "delete")
    /\ \/ /\ left = {}
          /\ ToPhase(t, "release")
          /\ UNCHANGED entries
       \/ \E e \in left :
             /\ \A f \in left : e.pos <= f.pos
             /\ entries' = {f \in entries : f.id # e.id}
             /\ UNCHANGED worker
    /\ UNCHANGED <<published, owned, handed, used, waiting>> /\ NoTrouble

ForgetHanded(t) ==
    /\ At(t, "release")
    /\ owned' = owned \ BatchKeys(t)
    /\ ToPhase(t, "answer")
    /\ UNCHANGED <<entries, published, handed, used, waiting>> /\ NoTrouble

(* The thread waits for the outcome of the row, whatever it is.               *)
Answered(t) ==
    /\ At(t, "answer")
    /\ Proceed(t, [worker[t] EXCEPT !.at = "entry", !.batch = {}])
    /\ OnlyReads

------------------------------------------------------------------------------
(* Failures, crashes, starts.                                                 *)

(* A database step raises, a message cannot be prepared, or the scheduler     *)
(* refuses the request: the thread ends and its entries stay.                 *)
StepFails(t) ==
    /\ up /\ worker[t].at \notin {"free", "answer"}
    /\ GivesUp(t)
    /\ UNCHANGED durable

Crash ==
    /\ up /\ up' = FALSE
    /\ crashes < MaxCrashes /\ crashes' = crashes + 1
    /\ waiting' = {}
    /\ worker' = [t \in Targets |-> Free]
    /\ UNCHANGED <<durable, failures>>

(* _reclaim_inactive_history_at_startup, then resume_pending_history_...: a   *)
(* thread for each target that has visible entries.                           *)
Reclaimed == {e \in entries : ~Visible(e)}
ResumableNone == {}                   \* mutant: nothing is resumed
Resumable == IF (\E t \in Targets : VisibleOf(t) # {}) \/ owned # {}
             THEN {t \in Targets : VisibleOf(t) # {}} ELSE {}

Restart ==
    /\ ~up /\ up' = TRUE
    /\ entries' = entries \ Reclaimed
    /\ waiting' = {[target |-> t, link |-> AnyLink, gen |-> 0] : t \in Resumable}
    /\ UNCHANGED <<published, owned, handed, used, worker, crashes, failures>>

------------------------------------------------------------------------------
HandEntry(t, e) ==
    \/ DeleteOwned(t, e)
    \/ ForgetOwned(t, e)
    \/ PassOverEmpty(t, e)
    \/ AddText(t, e)
    \/ FlushText(t, e)
    \/ TakeMedia(t, e)

ThreadStep(t) ==
    \/ TakeLock(t)
    \/ StageBatch(t) \/ Publish(t) \/ DropObsolete(t)
    \/ ReadKeys(t) \/ ReadPresent(t) \/ ForgetStale(t)
    \/ PickLink(t) \/ ReadPage(t) \/ ReadOwned(t) \/ EndOfPage(t)
    \/ \E e \in worker[t].page : HandEntry(t, e)
    \/ EnqueueBatch(t) \/ DeleteHanded(t) \/ ForgetHanded(t) \/ Answered(t)

Next ==
    \/ \E l \in Links, g \in Generations : RequestReplay(l, g)
    \/ \E t \in Targets : ThreadStep(t)
    \/ \E t \in Targets : EnqueuedUnknowingly(t)
    \/ \E t \in Targets : StepFails(t)
    \/ Crash
    \/ Restart

Spec == Init /\ [][Next]_vars

------------------------------------------------------------------------------
(* Safety.                                                                    *)

(* The handoff is idempotent: whatever was interrupted, repeated or reused,   *)
(* no message of a replay is committed to the outbound queue twice.           *)
HandedOnce ==
    \A l \in Links, g \in Generations : \A p \in Positions(l) : handed[l][g][p] <= 1

(* A message of a link's current replay that is no longer staged was handed   *)
(* to the queue, or has no content: neither a stale ownership key, whose id   *)
(* SQLite may have given to a new entry, nor the cleanup at start skips one.  *)
NothingSkipped ==
    \A l \in Links : published[l] # 0 =>
        \A p \in Positions(l) :
            \/ handed[l][published[l]][p] > 0
            \/ History[l][p] = "empty"
            \/ \E e \in entries : e.link = l /\ e.gen = published[l] /\ e.pos = p

(* Readers never see a part of a replacement: when the pointer moves, every   *)
(* message of the new generation is staged.                                   *)
PublishedWhole ==
    [][\A l \in Links : published'[l] # published[l] =>
         \A p \in Positions(l) :
            \E e \in entries : e.link = l /\ e.gen = published'[l] /\ e.pos = p]_vars

(* The replays as a caller sees them: what the queue owns is not pending.     *)
Promise == INSTANCE HistoryReplay WITH
    Numbers <- Generations,
    replay <- published,
    pending <- [l \in Links |-> {e.pos : e \in {f \in entries :
                   f.link = l /\ Visible(f) /\ KeyOf(f) \notin owned}}],
    given <- handed

KeepsReplayPromise == Promise!ReplaySpec

------------------------------------------------------------------------------
(* Progress.  Threads are daemons that run on, rows are answered by the       *)
(* scheduler, and a process that went down is started again.                  *)

FairSpec ==
    /\ Spec
    /\ \A t \in Targets : WF_vars(ThreadStep(t))
    /\ WF_vars(Restart)

(* Crashes alone do not strand a replay: unless a step of a thread fails,     *)
(* every entry that was made visible is handed over, passed over or replaced. *)
(* (Replays are finitely many here, so "all" is not too much to ask.)         *)
StagedIsHandedOff ==
    (\E e \in entries : Visible(e)) ~> (failures > 0 \/ \A e \in entries : ~Visible(e))

(* A replay that waits for its chat's lock gets it, or dies with the process. *)
ReplaysStart == waiting # {} ~> waiting = {}

(* "Receipts outlive queue-row completion until the source staging records    *)
(* have been durably removed", and no longer: a key whose entry is gone is    *)
(* forgotten in the end.                                                      *)
StaleKeys == owned \ {KeyOf(e) : e \in entries}
KeysAreForgotten == StaleKeys # {} ~> StaleKeys = {}
==============================================================================
