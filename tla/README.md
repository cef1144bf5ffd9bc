# efb-telegram-master in TLA+

efb-telegram-master (ETM) connects an EH Forwarder Bot framework to Telegram: messages of *slave
channels* (other messengers) become Telegram messages, and what the user (the *master*) writes in
Telegram goes back. Its own difficulty is not in the formats but in delivery: Telegram may take a
message and lose the answer, limits the rate, turns groups into supergroups with other ids, and the
process may stop at any moment. Around that stand threads that know each other only through tables,
queues and locks: slave channels, Telegram handlers, a worker for the user's messages, history
threads, and the start, stop and migration of the whole. This directory models those parts of the
program, checks them with TLC on small instances and proves the central safety properties of
delivery, history, sender selection, payload files, lifecycle, slave messages, routing and cutover, and both
refinements, with TLAPS for all instances.

Paths below are relative to `src/efb_telegram_master/`. `PROJECT.json` holds the same inventory for
tools: the lines every definition models, the hazards, and a mutation for each property.

## 1. The system

### Components

| Component | State | Operations | Works with |
|---|---|---|---|
| **OutboundQueue** (`outbound.py`, 370-2160) | one SQLite table of requested Telegram calls, the ownership keys of replayed history, media files; in memory the waiters | enqueue, heads, attempt mark, holds, receipt, deferral, retarget, delete | the scheduler, the callers, the history threads |
| **OutboundQueueScheduler** (`outbound.py`, 2161-2886) | calls in flight, their destinations, worker permits, delayed media edits, deadlines, stop flag | `dispatch_once`, `harvest_completed`, `reconcile_sent_pending`, `stop_and_drain` | queue, executor threads, the adapter |
| **Delivery adapter** (`bot_manager.py`, `TelegramBotManager`) | cooldowns per bot and chat, callbacks and log contexts per row | `execute_queued_call`, `record_queued_success/failure`, `reconcile_queued_delivery`, `confirm_queued_delivery`, `select_sender` | Telegram, MsgLog, BotPool |
| **hold_send** (`hold_send.py`) | none | the operator marks a row while the process is down | the table |
| **History replay** (`chat_binding.py`, `db.py`, `outbound.py`) | staged entries, published generations, ownership keys, one lock per Telegram chat | stage, publish, hand over, forget, resume | main database, queue database |
| **Sender selection** (`bot_manager.py`, `bot_pool.py`, `auxiliary_bot.py`, `rate_limiter.py`) | membership cache with generations, probes, affinity, two rate buckets per bot | select, acquire, probe, join/leave | the scheduler, Telegram |
| **AsyncTelegramRuntime, polling** (`bot_manager.py`, `__init__.py`) | the bound event loop, its thread, the ready event | bind, clear, start, call, shut down | every thread that talks to Telegram |
| **ChatBindingManager** (`chat_binding.py`) | links, topics, link sessions | link, unlink, create topic, chat migration | database, history replay |
| **SlaveMessageProcessor** (`slave_message.py`) | pending deduplication keys, known forums | claim, route, send, edit, release | queue, links |
| **MasterMessageProcessor** (`master_message.py`) | a queue with one worker thread | enqueue, process, stop | links, destination cache, slave channels |
| **ChatDestinationCache** (`chat_destination_cache.py`) | a bounded cache with expiry | get, set, remove | both processors |
| **ChatObjectCacheManager**, **messages and chats**, **queued_log** | objects and their pickles | look-ups, conversions | everything |
| **DatabaseManager** (`db.py`, `db_runtime.py`) | MsgLog, associations, history tables | transactions | everything |
| **Import and cutover** (`migrate_db.py`) | backup, manifest, receipt | fence, copy, verify, publish | both databases, the data directory lock |
| **Commands, wizard, metrics, utilities** | sequential or read by no decision | | |

### Interaction

A caller (a slave message, a command, a history thread) builds a request, which is *committed* to
the queue's table; a blocking caller waits on a Future for it. One worker thread loops over harvest
and dispatch. Dispatch takes the oldest runnable row of each chat, asks the adapter for a sender,
marks the attempt in the table and submits the call to an executor thread. The executor thread talks
to Telegram through the event loop of the runtime. Harvest reads the result: success becomes a
*receipt* in the table, then an entry in MsgLog (another database), then the row's deletion; a
failure becomes a retry, a hold or a deletion, and perhaps an answer to the caller. The history
threads copy messages out of MsgLog into a staging table of the main database and move them, batch
by batch, to the queue's database, waiting for each row's outcome.

### What is hard here

* **Uncertainty.** A lost answer is neither success nor failure. The table distinguishes calls that
  were never started, started, certainly refused, and uncertain, and only a definite refusal allows
  a resend.
* **Crashes between transactions.** Receipt, log entry and deletion are three transactions in two
  databases; so are the handing over and the removal of history entries.
* **Bookkeeping on many paths.** Permits, busy chats, deadlines and Futures are updated by about a
  dozen exits of dispatch and harvest.
* **Order.** Calls of one chat leave in order in spite of retries, holds, priorities and delays.
* **Shutdown.** The drain gives up on calls whose threads go on.
* **Independent threads.** History threads of different chats clean each other's ownership keys.
* **Stale knowledge.** Ids that SQLite reuses, membership probes that answer late, generations; links,
  topics and log rows that change between the look and the send.
* **Two stores.** Media files beside the queue's table; two databases and a receipt in a migration.
* **Loops and threads.** Event loops that are bound, replaced and torn down while other threads wait
  for their results without a timeout; a worker that sleeps on an event.

`PROJECT.json` lists each such place with its line under "hazards" and the properties that guard it.

### What makes each component correct

* *Queue and scheduler*: at most one Telegram message per row; an accepted message is logged or still
  accounted for; one call per chat; permits balance; held rows stay held; every runnable row moves;
  every caller is answered; order within a chat; one attachment per long message.
* *History replay*: each message of a replay is handed over once and in order, none is skipped; a
  replacement becomes visible as a whole; a crash strands no replay; keys do not pile up.
* *Sender selection*: a late probe never overwrites a newer fact; the worker gives a row to a bot that
  is in the chat, and gives a row up only because the bot it needs is not, as far as it can know; a slave
  chat prefers a bot that has sent for it, until that very bot is confirmed absent; no row waits for ever.
* *Payloads and budget*: rows and sidecar files agree after every failure; the byte budget is kept; what
  is too large is kept as it is; the worker never sleeps through work.
* *Runtime and lifecycle*: a call that a running loop accepted is answered, also when the loop is
  replaced or shut down; no sweep runs over a closed queue; a stop comes to its end.
* *Links and topics*: one topic per slave chat and forum; a migration loses no link; a relink is seen
  before or after, never in between.
* *Processors*: one pending call per slave message, and its claim ends; an edit finds the newest message; a
  message of the user goes to the chat its topic, reply or cache entry named when it was written.
* *Cutover*: a start either refuses or finds every acknowledged row; what is vouched for is exact.

## 2. Modules

| Module | Models | Extends |
|---|---|---|
| `OutboundQueue` | the table and its transactions | |
| `OutboundScheduler` | scheduler, adapter, executor threads, Telegram, MsgLog, administrators, stop and restart | `OutboundQueue` |
| `DeliveryPromise` | abstract: what a request's caller may rely on | |
| `OutboundInvariant` | the inductive invariants of the scheduler | `OutboundScheduler` |
| `MCDelivery` | instances for TLC | `OutboundInvariant` |
| `OutboundScheduler_proofs` | what the table's transactions do, types, at most once; the worker's books, the table's truth, holds, order, the refinement | `OutboundInvariant`, `TLAPS` |
| `HistoryHandoff` | staging and handing over of history, its threads, both databases | |
| `HistoryReplay` | abstract: what a replay promises | |
| `HistoryInvariant` | the inductive invariants of the handoff | `HistoryHandoff` |
| `HistoryHandoff_proofs` | theorems, the refinement | `HistoryInvariant`, `TLAPS` |
| `MCHistory` | instances for TLC | `HistoryInvariant` |
| `BotMembership` | membership cache, generations, probes and service messages | |
| `SenderSelection` | the choice of a sender, affinities, cooldowns, what outcomes do to them | `BotMembership` |
| `SenderSelection_proofs` | theorems | `SenderSelection`, `TLAPS` |
| `MCSelection` | instances for TLC | `SenderSelection` |
| `PayloadStore` | payload sizes, sidecar files, version 1 rows, the sweep of orphans | |
| `ReplayBudget` | the worker's loop: byte budget, quarantine, recovery, wake event | `PayloadStore` |
| `BudgetInvariant`, `ReplayBudget_proofs` | its inductive invariant; theorems | the above, `TLAPS` |
| `PollingLifecycle` | event loops, the synchronous runtime, polling thread, send worker, `graceful_stop` | |
| `LifecycleInvariant`, `PollingLifecycle_proofs` | its inductive invariant; theorems | the above, `TLAPS` |
| `SlaveMessages` | messages, edits, removals and reactions of a slave: claims, rows, the log | |
| `SlaveInvariant`, `SlaveMessages_proofs` | its inductive invariant; theorems | the above, `TLAPS` |
| `ChatRouting` | links, topics, their commands, migrations, the destination of a slave message | |
| `MasterMessages` | the user's messages: queue, worker, destination, stop | `ChatRouting` |
| `MasterInvariant`, `MasterMessages_proofs` | its inductive invariant; theorems | the above, `TLAPS` |
| `DatabaseCutover` | import into PostgreSQL, receipt, the check at start | |
| `CutoverInvariant`, `DatabaseCutover_proofs` | its inductive invariant; theorems | the above, `TLAPS` |
| `MCBudget`, `MCLifecycle`, `MCSlave`, `MCRouting`, `MCCutover` | instances for TLC | the invariant modules |

### OutboundQueue and OutboundScheduler

*The table.* `queue[i]` is the row with the AUTOINCREMENT id `i`. Ids are never reused, so a deleted
row stays as "removed". `hold` is the column `delivery_hold` ("none" is NULL, "in_flight" the attempt
mark), `due` says that the persisted deadline of the row has passed, `fallback` is the recorded
`attempted_fallback` of a history copy. An operator that primes `queue` is one committed transaction.
A request is reduced to what decisions read: its class of operation, its priority, whether it has
a log context, whether it is long enough to need an attachment, and where it came from.

*The scheduler.* `inFlight`, `busy`, `permits`, `retries`, `notBefore` and `sub` are the attributes of
the scheduler; `waiter[i]` is the Future of row `i`; `life` is `stopping` and `failure` with what
follows (resources closed, process gone). Its methods hold one re-entrant lock, so a loop body is one
action per row (`Dispatch`, `HarvestFailure`, ...), except where it commits several transactions: then
`recon` holds the lock between them, and a crash can fall in the gap (`HarvestReceipt`, `WriteMsgLog`,
`DropReceipt`). Failing commits, undecodable payloads, unavailable senders and refused submissions are
actions of their own.

*Executor threads and Telegram.* `thread[i]` is the thread that serves row `i`, with the chat it calls
and whether it sends the fallback; `telegram[i]` is the effect at Telegram. `TelegramAccepts` is apart
from `CallSucceeds`, so an answer can be lost before or after the effect. A thread goes on after the
drain has abandoned its row.

*The environment.* Groups are upgraded at any time, deadlines come at any time after they were set,
administrators confirm held rows, the operator holds rows while the process is down.

Deliberate abstractions: the one retry without parse entities does not leave "calling"; confirmation
is by an administrator who replies to the message the row produced; when a rate limit has passed is
left open, and a required sender may be unavailable at any dispatch (which sender is chosen is the
subject of `SenderSelection`); a batch holds one request.

### HistoryHandoff

`entries`, `published`, `owned` and `handed` are durable: the staging table, the pointer per
link (`HistoryMigrationTarget`), the ownership keys, and (counted) what was committed to the queue.
A *link* is a slave chat in a Telegram chat or topic; a *target* is a Telegram chat, which has a lock.
`worker[t]` holds the local variables of the thread that has the lock of `t`, `waiting` the threads
that want one. Each action is one read or one transaction, so two threads interleave and a crash falls
between any two steps: read a page of keys, look up their entries, forget the stale ones; read a page
of entries, ask which are owned; commit the row with its keys, delete the entries one by one, forget
the keys, wait for the row's answer.

Generation 0 stands for NULL (entries of versions without generations). A new generation is any number
not given before, as uuids are. New ids continue from the greatest id *in the table*, as SQLite
without AUTOINCREMENT does: ids come back, which is what generation-qualified keys are for. PostgreSQL,
which does not reuse ids, has fewer behaviours. Text lengths are left open: a text may or may not fit
behind others. MsgLog is constant per link: the code takes one finite snapshot. The answer to a row is
`Answered`; that it comes is `CallersAnswered` of the scheduler. The notice sent for an empty history
is left out. A graceful stop ends daemon threads as a crash does.

### BotMembership and SenderSelection

*Membership.* `member[p]` is Telegram's truth about a pair of bot and chat, `notices[p]` the service
messages about it that the main bot has not handled; they arrive in order, as updates do.
`known` is `_membership_cache`, `generation` is `_membership_generation`, and `probe` is the thread
behind `_pending_probes`: asking Telegram, holding the answer, or finished and still listed. An entry
whose time to live has passed is the same to every reader as no entry, so `Expires` makes it
"unknown". Reading the cache and starting a probe are two steps, as they take the lock twice.

*Selection.* `scan` holds the locals of `select_sender`: the worker asks the main bot's limits (`Begin`), looks
at the bots one by one (`Check`, and `Asks` where it starts a probe), and decides at the end (`Submit`,
`Refuse`, `Defer`), so bots come, go and are reported in between. `preferred` and `failedFor` are
`_preferred_sender_by_slave_id` and `_membership_failure_affinities`. `resting` says which sender may not send
to which chat: its cooldown lies ahead or one of its buckets is full. `row` keeps of a queue row
what selection reads and the stage it is in; its durable life is that of `OutboundScheduler`. `delivered` and `moved`
only observe.

*Abstractions.* Two buckets and a clock are one set, filled and emptied at any time. The two locks that
`_membership_changed` takes one after the other are one step, for all that can fall in between commutes
with it. The heads of all chats, which a sweep reads at once, are read here when their turn comes. An ambiguous
network error of an operation that is not retained is handled as a connection not made. A restart loses all
of this state, and is `Init` with service messages already waiting. The main bot is in every chat it serves.
`disable_bot` is left out because nothing calls it. A bot with Telegram's status "restricted" counts
as a member, as in the code, although such a bot may have left.

### PayloadStore and ReplayBudget

`OutboundScheduler` says what a call means; these two say what its row weighs and owns. `rows[i]` keeps the
size of the payload, split into inline media and the rest, the size of context and receipt, the version,
and the names of its sidecar files; `files` is the directory. `draft` and `trash` are what lies between a file
operation and its transaction, so a crash falls there. `pc` is where the worker is in its loop (clear the event,
harvest, reconcile, delayed media edits, heads, wait), one step per row. Sizes are small multiples of a
unit of which the budget has three. Contents of payloads and what a call does at Telegram are left out;
a call ends in success, refusal, uncertainty, delay or a media retry, freely. The conversion of a version 1
row is two steps, files first, then the commit, and three ways to fail: what is not media does not fit
(`RecoveryTooLarge`: the row is left in the quarantine), it is no pickle that can be converted (`RecoveryInvalid`: held), or
a transaction or a file fails (`RecoveryStops`: the scheduler stops). A converted row is encoded anew, may have
grown a little (`Growth`), and is measured again before it is sent (`DispatchRecovered`, `QuarantineRecovered`).

### PollingLifecycle

A loop is a queue of items (`inbox`), its tasks and a phase; what asyncio does with them is external and
modelled as it is used here: items run in order, a loop that ends cancels its tasks but drops the items it
has not reached. `runtime` is the binding of `AsyncTelegramRuntime`; `calls[c]` a thread in `call()`; `poll`
the polling thread from initialize to its last teardown; `stop` the thread in `graceful_stop`; `worker` the
send worker, reduced to whether it is in a sweep. A handler that calls the runtime runs on the
application's loop and is refused (`OwnLoop`). Timeouts that end a wait and go on are steps that may always be taken.
The worker ends at the stop boundary or by itself, when the durable queue fails (`WorkerFails`). A call put on a closed
loop raises: a thread that binds its loop over a closed one dies with its loop never run (`BindRaises`, phase "dead"), and a
stop that insists on a closed loop ends there (`StopInsists`).

### SlaveMessages

`script` is what the slave hands in; a thread takes the next request when it is idle, so two requests about one
message overlap. `pending` is `_pending_slave_messages`. `row[i]` is a call in the queue with what it does to
the log (`old`, the id it edits or replaces), its callback and its waiter; a message of Telegram is named by the
row that sent it. The worker makes the calls of one chat in order (`OutboundScheduler` has its detail).
`log` is MsgLog in order of time: main id, alternative id, the message. Types of message differ in the calls
they make, and stand for families: text and link, image, file (animation, video, document), voice and audio,
sticker, location, and the user's own message that a reaction is about. The user's messages (`Mirrored`) are in the
log from the start under ids of their own (`OwnId`), and a slave never hands one in as new. `excused` and `astray` observe what
the code gives up. A message is excused when its claim is released while its call goes on (a caller timed out, an image is
tried again). It is astray once an answer to it was logged out of order (`OutOfOrder`): after the answer to a later
call of the same message, or under an old id that no row of the log holds any more or that is not in the message's newest row, which
another edit may have moved since the caller read it. Edits, removals and redeliveries that come before the
original is logged, and originals that the worker logs late, make no message astray by themselves.

### ChatRouting and MasterMessages

Each command is a *program*, a list of statements of `db.py` that an actor runs one after another: the one
thread that runs Telegram handlers (`Handler`), the send worker's error path (`Sender`), and the
slaves' threads. Only `create_topic`, the binding at the end of a relink, the look-up of a slave message and the
look at the topics when an update is received hold `_topic_mutex`. `made` is Telegram's truth about topics, in order;
`fresh` is the topic that an actor has made and not stored yet, whose number only it knows. `cache` is `ChatDestinationCache`.
`MasterMessages` adds the queue of updates, the worker that finds a destination in the five
steps of `msg`, the user's choice of a suggested recipient, and `stop_worker`. What becomes of a message once its slave chat is
found (`process_telegram_message`) is its end here. Without a transaction around them, the statements of
`remove_chat_assoc` (`UnlinkChat` reads the chats of a group, `Cut` deletes its links, `Forget` the topics) and of
`add_topic_assoc` (`ClearTopic`, `Add`) are steps of their own. When storing fails, the topic exists and serves its maker only
(`StoreFails`); when the transaction of a relink fails, the next chat is taken and the new topic is left over (`BindFails`).
A migration reads the links after its topics are migrated (`MigrateLinks`).

### DatabaseCutover

Three stores: the data directory (`source`, `queue`, `receipt`), the PostgreSQL schemas (`target`) and locks
(`owner`, `schemaLock`). The importer is a program that may die between any two steps, fail, and be started again
with the same or another schema; a commit whose answer is lost is a death after `Commit`. Programs that
take no lock (an older release, an operator's shell) write the source and the media until a fence stops them. A row is
an identity, so digests compare sets; values and their conversion are left out. A queue has rows, files, and a mark that
a row refers to a file outside `outbound-media/`: such files are copied into the archive, whose queue therefore differs from the
original (`Relocated`). The operator may lose the queue and put it back from the archive (`QueueRestored`), and a
retry of the import knows it again by `backup_queue` (`SameSource`). A directory may also begin without SQLite: a bot on
PostgreSQL is then a native deployment. Which rows such a bot finds is its configuration's matter: nothing on disk names its
schema, so its rows are counted among `slipped`, and `StartsComplete` says nothing of them. A rollback of the whole directory
to an archive, which is meant to lose later rows, is not an action.

### Abstract specifications

`DeliveryPromise` describes one request: new, owed, posted, logged, closed, or given up, with no
trace of crashes, retries or restarts. `OutboundScheduler` implements it under the mapping `Progress`
(property `KeepsPromise`). `HistoryReplay` describes a replay as a set of pending positions from which
the next ones are given. `HistoryHandoff` implements it under a mapping in which an entry is pending
while it is visible and not owned by the queue (`KeepsReplayPromise`).

## 3. What TLC checks

| Run | Instance | Properties | What it shows |
|---|---|---|---|
| `delivery` | 2 rows of 4 kinds of request, group and supergroup, 2 workers, 3 adverse events | `AtMostOnce` `AcceptedIsAccountedFor` `BooksAgree` `TableIsExact` `HeldStaysHeld` `KeepsPromise` | the safety of delivery |
| `progress` | 3 rows of two priorities: long edits, media edits, history copies; 2 workers, 1 adverse event, fairness | `AcceptedInOrder` `ReceiptsSettle` `RunnableRowsMove` `CallersAnswered` | order in a chat; nothing is stuck |
| `handoff` | 2 chats with a link each, 2 replays and an old entry, pages of 1, a crash and a failed commit, fairness | `HandedOnce` `NothingSkipped` `PublishedWhole` `KeepsReplayPromise` `StagedIsHandedOff` `ReplaysStart` | each message of a replay is handed over once, and no crash strands a replay |
| `affinity` | 2 auxiliaries, edits that need one of them, 1 move, 1 adverse event | `CacheIsCurrent` `GroundedDecisions` `AffinityOutlivesOthers` | what the worker knows and decides; how affinities end |
| `selection_progress` | 1 auxiliary, 2 rows of 3 kinds, 1 move, 1 adverse event, fairness | `RowsSettle` | no row waits for ever for a sender |
| `budget` | 3 rows, 3 chats, 6 tables that a start may find, 2 permits, 2 adverse events, 1 restart, fairness | `FilesAgree` `BudgetKept` `OversizedRetained` `RowsMove` | files, bytes, quarantine and wake-ups |
| `lifecycle` | the application's loop and 2 background loops, 1 caller, 1 failing step (initialisation, start, worker), fairness | `LifecycleInv` `SubmittedIsAnswered` `StopCompletes` | calls, loops, worker and stop |
| `slave` | 2 threads, 7 messages in 9 scripts of 3 requests, 4 rows, 2 adverse events, fairness | `MessageInv` `NewestIsFound` `ClaimsAreReleased` | claims and log of slave messages |
| `routing` | 2 remote chats, 3 forums and a group, 5 plans of commands, messages and updates, 1 adverse event, fairness | `TopicInv` `TopicKeepsItsChat` `QuickReplyIsCurrent` `MigrationKeepsLinks` `RelinkIsWhole` `UpdatesAreHandled` `StopEndsWorker` | links and topics under concurrent commands and messages |
| `cutover` | 2 schemas, 3 rows, 2 import ids (symmetric), 1 change of media; with SQLite or native at first | `ImportIsExact` `CutoverInv` `StartsComplete` | import, retry and start |
| `stranded` | 1 version 1 row that cannot be converted before a text, fairness with wake-ups for ever | `NewerRowsPass` (violated) | finding 1 |
| `migration` | 2 chats linked to a group that becomes a supergroup | `MigrationKeepsLinks` (violated) | finding 2 |

`TypeOK` of each module is a conjunct of one of its invariants (`BooksAgree`, `FilesAgree`, `LifecycleInv`, `MessageInv`,
`TopicInv`, `CutoverInv`) or is proved (`HandoffTypes`, `SelectionTypes`). The inductive invariants that the proofs
use can be added to the configurations as invariants: `IInv` and `BooksInv` (`delivery`), `OrderInv` (`progress`),
`HInv` and `RInv` (`handoff`), `SInv`, `BInv` (`budget`), `LInv` (`lifecycle`), `SlaveInv` (`slave`), `MInv`,
`OneInv` (`routing`) and `CInv` (`cutover`).

Five more configurations are counterexamples to what a comment or a test says: `ShutdownWaiters.cfg` and
`RemoteChat.cfg` (module `MCDelivery`), `OwnershipKeys.cfg` (`MCHistory`), `LinkRace.cfg` (`MCRouting`) and
`EditedLocation.cfg` (`MCSlave`). Section 5 describes them. They are run by hand.

### Bounds

* `MaxRows` bounds the rows ever inserted. The hazards relate a row to itself over time, or to one
  other row (same chat, supplement); order with a supplement needs three. `RoomFor` keeps ids free for
  supplements, so the bound never blocks a completion.
* `MaxTroubles` bounds adverse events, not their order. Three reach the combinations the code
  guards against: a lost answer, a crash and a failed commit for the same row.
* `progress` has the three kinds of request that can hold up a row: a long edit is waited for, leaves a receipt
  and a supplement; a media edit meets the rate limit and waits in `retries` with rows of its chat behind it; a
  history copy is put off, refused or replaced. A plain logged send takes no way that these do not, and its
  safety is in `delivery`.
* `MaxReplays`, `MaxCrashes`, `MaxFailures`: a replay, its replacement and an entry of an old version
  give stale keys against reused ids; a crash and a failed commit fall into each other's recovery.
* `Page` is 1 rather than 32 so that page boundaries fall inside the few entries.
* `MaxMoves` bounds how often a bot enters or leaves a chat: one move puts a probe's answer before or
  after it; the proofs cover any number. One adverse event at a time is a rate limit, a lost answer, a failed probe, an expired entry or a
  bucket that fills up; refusals by Telegram of an absent bot need none. Two auxiliaries are needed
  where news about one meets an affinity of the other; the choice among several is covered by the proofs.

* `Budget` = 3 units with rows of 1 to 7 units gives rows that fit together, alone, after a conversion, and
  never. Three chats and two permits let a media edit, a text and a recovery meet. `Names` has one more
  name than rows, for the files of a conversion that was interrupted.
* Two background loops are the one the start left and the one a caller starts during the teardown. One
  caller suffices: calls do not wait for each other.
* Scripts of three requests cover a redelivery while the first copy is pending, an edit before and after
  the original is logged, and an edit of an edit; four rows hold what they send, retries included. Two
  adverse events are, say, a timeout and a crash. One script has three requests for the medium and the text of one image
  without waiting for each other.
* `Plans` name the commands that meet: a link and its undoing while the slave talks, the topics of a forum
  made while it talks and everything is unlinked, a relink from one forum to another with both chats talking and the user
  writing (the topic group is a third, so a chat without a link is seen to go astray), two migrations of the same group at once, and the user's three ways to name a recipient with the
  worker being stopped. `MaxTopics` leaves room for a second topic of every chat, which must not come.
* Three writes let a row exist before the backup, between backup and start, and after it; two schemas let the
  operator change his mind.

Deadlock checking is off: with its rows, troubles, replays or starts used up, the system idles
for good. Symmetry is used in `cutover` only, whose properties there are safety properties. Elsewhere
the group and its supergroup, and chats with their histories, differ.

### Fairness

`FairSpec` of the scheduler has weak fairness of what the worker loop does for each row (dispatch, harvest,
media retries, reconciliation), of executor calls (they have timeouts), of deadlines, of the drain and
of exit and restart (the service is started again). `WF(StopAndDrain)` holds only once it is stopping:
nobody is obliged to stop it. Adverse steps, new requests, upgrades and administrators are never fair.
`FairSpec` of the handoff has weak fairness of each target's thread and of the restart, the progress of
a thread that waits for a row being `CallersAnswered`; new replays, crashes and failures are
not fair. `FairSpec` of the selection has strong fairness of the start of each row's selection and of its harvest: a sweep
looks at every head and harvests every finished call, but each is disabled while the worker is busy with another row. Probe
threads, the update thread, calls and deadlines are weakly fair; moves, new rows, time-outs of media edits and
adverse events are not.
After a failed step a history thread gives up and only the next replay or start takes its entries up, so
`StagedIsHandedOff` promises something only while nothing failed.
The worker of `ReplayBudget`, a caller inside the queue, the ends of calls and the passing of deadlines are weakly
fair, and nothing else: `RowsMove` says that the event and the deadlines alone suffice. `BusySpec` adds
wake-ups for ever, so that `NewerRowsPass` fails for no lack of them. In `PollingLifecycle` each
caller, each loop, the polling thread, the worker and the stopping thread run on; nothing obliges anyone to
call, poll or stop. Callers of `SlaveMessages` run, and the worker answers the calls, which `RunnableRowsMove` and
`RowsSettle` show; the master worker and the stop run; timeouts, crashes, deletions and failures are never fair.

## 4. What is proved

The proofs hold for every value of the constants that satisfies the named assumptions:

* *delivery*: any number of rows, chats, workers and adverse events, any set of requests that satisfies
  `CallsAssumption`, any map of groups to supergroups with `SchedulerAssumption`;
* *handoff*: any links, chats, histories, entries of old versions and page size with `HandoffAssumption`, and any
  number of replays, crashes and failures;
* *selection*: any bots, chats, slave chats and rows with `SelectionAssumption`, any number of moves and adverse events;
* *payload store*: any rows, sizes, requests, permits, failures and starts. `BudgetAssumption` asks for a chat and
  finitely many file names. `ReplayAssumption` says what tables a start may find: rows of the schema, none of
  version 1 with sidecars, no two that share a file, because `mkstemp` names a file once (`outbound.py` 725);
* *lifecycle*: any callers and background loops with `LifecycleAssumption`, which only tells the loops apart;
* *slave messages*: any threads, messages of any kinds, scripts and rows, any number of failures, deletions and crashes.
  `SlaveAssumption` gives the user's messages ids of their own, above those of the rows, and says of scripts only that
  the user's messages are not delivered as new ones: the bot has received them from Telegram itself;
* *routing*: any groups, forums, remote chats, threads, plans of commands and messages, topics and failures.
  `RoutingAssumption` and `MasterAssumption` tell the actors and "nothing" apart and name the kinds of commands and of updates.
  The proof of `MInv` does not even use what a command's program is, so its theorems hold for any order of statements; the
  proof of `OneInv` does;
* *cutover*: any writes, schemas, import ids and changes of media. `CutoverAssumption` and `NothingAssumption` only say that
  the values for "nothing" are not values of something, as `None` and a missing file are not in the program.

| Theorem | Statement |
|---|---|
| `SchedulerTypes` | `Spec => []TypeOK` |
| `SchedulerInvariant` | `Spec => []IInv` |
| `AtMostOnceTheorem` | `Spec => []AtMostOnce` |
| `AcceptedTheorem` | `Spec => []AcceptedIsAccountedFor` |
| `CompletionEffect` | what recording a receipt does to the rows |
| `BooksTheorem` | `Spec => []BooksAgree` |
| `TableTheorem` | `Spec => []TableIsExact` |
| `HeldTheorem` | `Spec => HeldStaysHeld` |
| `OrderTheorem` | `Spec => AcceptedInOrder`, if `DOMAIN Supergroup = {}` |
| `PromiseTheorem` | `Spec => KeepsPromise` (refinement of `DeliveryPromise`) |
| `HandoffInvariant` | `Spec => []HInv` |
| `HandoffTypes` | `Spec => []TypeOK` |
| `HandedOnceTheorem` | `Spec => []HandedOnce` |
| `NothingSkippedTheorem` | `Spec => []NothingSkipped` |
| `PublishedWholeTheorem` | `Spec => PublishedWhole` |
| `ReplayPromiseTheorem` | `Spec => KeepsReplayPromise` (refinement of `HistoryReplay`) |
| `SelectionInvariant` | `Spec => []SInv` |
| `SelectionTypes` | `Spec => []TypeOK` |
| `CacheIsCurrentTheorem` | `Spec => []CacheIsCurrent` |
| `AffinityEarnedTheorem` | `Spec => []AffinityEarned` |
| `GroundedDecisionsTheorem` | `Spec => GroundedDecisions` |
| `AffinityOutlivesOthersTheorem` | `Spec => AffinityOutlivesOthers` |
| `BudgetInductive` | `Spec => []BInv` |
| `FilesAgreeTheorem` | `Spec => []FilesAgree` |
| `OversizedRetainedTheorem` | `Spec => OversizedRetained` |
| `LifecycleInductive` | `Spec => []LInv` |
| `LifecycleTheorem` | `Spec => []LifecycleInv` |
| `SlaveInvTheorem` | `Spec => []SlaveInv` |
| `MessageInvTheorem` | `Spec => []MessageInv` |
| `NewestIsFoundTheorem` | `Spec => []NewestIsFound` |
| `MasterInductive` | `Spec => []MInv` |
| `TopicKeepsItsChatTheorem` | `Spec => []TopicKeepsItsChat` |
| `QuickReplyTheorem` | `Spec => []QuickReplyIsCurrent` |
| `OneTopicTheorem` | `Spec => []OneTopicOutsideRelinks` |
| `TopicInvTheorem` | `Spec => []TopicInv`, if no plan has a relink |
| `CutoverInductive` | `Spec => []CInv` |
| `ImportIsExactTheorem` | `Spec => []ImportIsExact` |
| `CutoverTheorem` | `Spec => []CutoverInv` |
| `StartsCompleteTheorem` | `Spec => StartsComplete` |

*The argument for delivery.* `AtMostOnce` is not inductive: nothing in it forbids a state in which an accepted row
is runnable. `IInv` (module `OutboundInvariant`) ties three places that know about an attempt: the
durable row, the scheduler's memory and the executor thread. A runnable row was never taken and no
thread works on it (`RunnableUntaken`); a thread that is before Telegram's acceptance, or was
definitely refused, has nothing at Telegram (`CallingUntaken`); a retained row is held
while a thread works on it, and a row that is not retained is gone before its submission
(`SubmittedMarked`); a delayed media edit is in no other place (`RetryInMemory`); busy threads belong to
calls in flight while the scheduler lives (`ThreadsOwned`); each call in flight holds a permit
(`PermitsAccounted`, which bounds `permits`); and the lock holder settles a receipt whose log entry is
written before the row is dropped (`SettlingReceipt`). The proof has one lemma per action; the first part
of `OutboundScheduler_proofs` says what the table's transactions do to types and to other rows.

*The argument for the books.* `BooksInv` is inductive relative to `IInv`. Besides the properties it has what
they need: a call in flight has a thread (`InFlightServed`), so no Future is left to nobody; only a row the
table keeps can be put off or moved to another chat (`RetriedIsRetained`); an answer or a receipt means that Telegram
has the message (`AnswerIsTaken`); and the request that is out is the one on record (`CallingAsRecorded`). `HeldTheorem`
follows: a runnable row has no thread and no call in flight, and what a thread works on is held.

*The argument for the order.* Chats must keep their ids: a group that turns into a supergroup joins a queue
that may hold newer rows, and `AcceptedInOrder` does not claim anything then. That hypothesis is the
instance the run checks. `OrderInv` says that ids are given out in order, that a
call has its destination to itself (`DestinationsOwned`), and that nothing older that could still be sent is behind a
call under way (`OlderAreHeld`). The head of a destination is its oldest runnable row, a row that becomes
runnable again was itself the one under way, and new rows have greater ids.

*The refinement of `DeliveryPromise`.* `Progress` reads the abstract state of a request off its row, Telegram and
MsgLog. A step of the scheduler touches the progress of one row, except for the end of the
drain and of the process, where several requests that no table keeps are given up at once (`ManyGivenUp`). The actions
are sorted into kinds by what they do to receipts, log, threads and memory, and each kind has a lemma that uses
`IInv` and `BooksInv`: a row is given up only before Telegram has it, and closed only after its entry is written.

*The argument for the handoff.* No single table says whether a message was handed over, and what a thread
read may be old when it is used. `HInv` (module `HistoryInvariant`) has the facts that close the gaps. A
staged entry is owned by the queue exactly if its message was handed over (`OwnedIfHanded`): the commit
makes both true at once, and keys go only when their entries are gone. A generation that is not
visible yet is unknown to everything that hands over (`InvisibleUnhanded`), so an entry with a reused
id never meets a key or a copy in memory with its name. What a thread holds is its own and still
staged (`ThreadHolds`), as other threads work on other chats, and what it remembers of the queue stays
true (`ThreadKnows`). A replay is staged by one thread (`JobsAlone`) from the first message to the last
(`StagedSoFar`), each message once (`StagedOnce`), which gives `PublishedWhole`. Most actions commit
nothing to the queue: `QuietStep` shows once that such a step keeps the invariant if it removes only
entries that may go and keeps the facts about its own thread. The commit is `CommitStep`.

*The refinement of `HistoryReplay`.* What is pending is what is visible and not owned (`Due`). `HInv` says that the right
messages are handed over, not that they go in order; `RInv` adds it. The pages a thread reads are in the order of
positions, what it has joined comes before what it has still to look at, and every pending message is
in its hands or behind its cursor, so a commit gives the first pending ones. Only the commit, the
publication and the passing over of an empty message change the abstract state; for every other step the pending sets are shown to stay, also when another thread
forgets keys.

*The argument for the selection.* A cache entry can be wrong only while a service message about it is to come,
because the newest message tells the truth and each message starts a generation: a probe's answer in
hand that still carries the current generation is true, or a message is to come (`MembershipInv`). Then a
note the worker made is true of every bot that has not moved since (`ScanKnows`), which gives `GroundedDecisions`.
An accepted call of an auxiliary was delivered (`AcceptedDelivered`), so the affinity its harvest records is
earned; every other step only removes affinities, and the proof goes through the steps to find which may.

*The argument for the files.* A row in the table owns its files; so does a call in flight or a delayed media
edit whose row is gone already; the transaction under way owns what it has just written (`draft`), and a removal under
way what it has still to unlink (`trash`). `FilesOwned` says that no file has two of these owners, `NoOrphans` that
after a start that could look into every row each file has one. Six lemmas (`FilesKept`, `FilesDiscarded`,
`FilesWritten`, ...) are the ways in which a step may pass files on. `Control` has what they need of
the worker: a call in flight is held in the table or removed from it, a row to be submitted is in
neither, and who is writing files is the worker at its heads or a caller while the worker has not
the lock. The start is the only step that may remove a file that had an owner in memory; all of those are gone by then.
`OversizedRetained` goes through the steps: whatever changes a row has measured it first.

*The argument for the lifecycle.* `BoundToApplication` is not inductive: it is silent about the time before `post_init`, when
the background loop that checked the token still serves. `Serving` says so: until polling binds its loop, the first
loop is bound and running with no order to stop, and no thread is starting another one; from then on the application's
loop is bound, until a stop is done or has raised. That a sweep finds the queue open follows from the
stop boundary, which is set before anything that can close the queue (`QueueClosesLast`).

*The argument for the slave's messages.* `MessageInv` and `NewestIsFound` speak of rows and log; `SlaveInv` (module
`SlaveInvariant`) adds the callers. The claim: a message that is not excused has one caller about to queue it or
one call whose callback has not run, and `pending` is set for it until then (`ClaimKept`). A caller whose call has failed no longer has
the claim, and may release another's only by excusing the message. The log: what was sent is in it (`LogFound`), because a call
that sends has the context the worker logs it with (`RowShape`) and counts as answered only then. Every id in the log, in a row or
in a caller's hands is of a message sent for the same message of the slave (`LogOwns`, `JobOwns`, `RowOwns`), so `Held` never
finds a row of the log that belongs to another one. A write in order goes to the newest row of the message, or starts it, and puts the
new message where `Target` looks (`NewestInLog`); a message with a write out of order is astray from then on. The user's own messages
were always in the log, so what follows them knows their id (`FollowersFound`) and never starts a second row. Steps are of a few kinds, each with its lemmas: callers that move
on, end or release a claim; a call put into the queue; a write of the log; and what the worker makes of a call.

*The argument for the user's messages.* A topic's number outlives its row: the row may be forgotten, replaced or taken
by a migration while an update waits. `MInv` says that wherever a number is kept, in the table or in the hands of the actor
that has just made the topic, it stands for the remote chat it was made for (`TopicsAreMade`, `FreshIsMade`); Telegram
gives no number twice, so what the lookup at receipt found stays true (`RouteIsOwner`). From then on the worker takes no
way for such an update that reads the tables again (`WorkerFollowsRoute`, `RouteIsKept`), nor is the user asked about it. An update
in the queue was received (`QueuedOnce`), so receipt never overwrites one the worker holds. `QuickReplyIsCurrent` is
inductive as it stands: each of the three steps that touch the cache sets it together with what was heard.

*The argument for one topic.* `create_topic` makes a topic only after it looked for one under the lock, and whoever makes it
keeps the lock until its number is stored. So `OneInv` says: a topic that is made and not stored is in the hands of the one who
has the lock (`FreshFits`); whatever was made for a remote chat is in the table, in such hands, or was lost (`MadeAccounted`); a
slave's thread has the lock from the look-up to the end of routing, and the number it carries is of its own chat
(`ThreadsFit`), so a refused delivery forgets no other chat's topic. Then a look that finds no row, under the lock,
means that no topic was made or that it was lost. `relink_forum` makes its topics without the lock and without a look
(`chat_binding.py` 847-849), so nothing is said of the forums it moves to (`RelinkTargets`), and there it is not true: a message may find
the topic group as its destination, the user links its chat to a forum, the message then stores its new topic in the topic group, and a
relink of the forum to the topic group makes a second one. That every program of a command is made of the statements
of commands, with a `bind` after each `relinkTopic`, is `CommandsFit`: the prover gets it from the shape of the blocks that `Each` repeats, and
needs to know of the rows only that their number is a natural number.

*The argument for the cutover.* `CInv` follows a row from its acknowledgement: without a receipt it is in the file, or of a
native deployment (`Native`), which no start answers for;
with one it is in the schema the receipt names, or in a file that is not any more the one that was imported, which the
start notices by its fingerprint (`ReceiptHolds`). In between, what the importer read is still so while its fences hold
(`ImporterReads`), its manifest has the identity and rows of its target's or is one nobody has (`ImporterStates`), and up to the fingerprint it
has every acknowledged row (`ImportIsWhole`). `StartsComplete` is then a fact about the one step that starts a bot.

*What stays with TLC.* All liveness (`RowsMove`, `CallersAnswered`, `RowsSettle`, ...): fairness and ENABLED are beyond this
prover. `BudgetKept`: the bytes in flight are a sum over a set, and what a fold returns when its set grows by one
is an induction over data, which the prover cannot do. The action properties
`RelinkIsWhole` and, violated, `MigrationKeepsLinks`: they depend on which rows of the link table `SelectSeq` picks for a
command's program, which is again an induction over data. `OneTopicPerChat` for plans with a relink, which is true of the plans
of `routing` and not of all.

## 5. Findings

Checked by runs:

1. **One old row strands its chat** (`stranded`). A version 1 row above the replay budget whose media cannot be
   streamed is taken out of the quarantine by every sweep (`outbound.py` 2487-2495), because a conversion might
   help; it is then the head of its chat, fails and is quarantined again. Newer rows of the chat are not heads
   in any sweep. The comment at 1452 says that quarantined rows are skipped so that this does not happen.
2. **Links lost in a migration** (`migration`). `error()` moves the links of a migrated group with
   `add_chat_assoc` without `multiple_slave=True` (`__init__.py` 657-673); each call drops what was moved
   before. One link remains, and the notice says that all are linked. `chat_migration_by_id` is right.

By the other configurations:

3. **A waiter nobody resolves** (`ShutdownWaiters.cfg`). When a history copy cannot acquire its media,
   `harvest_completed` defers the row and returns before it looks at `stopping` (`outbound.py`
   2750). If that happens in the drain, the row has left `in_flight`, the final sweep does not see
   it, and the Future is never resolved, against `tests/unit/test_outbound_queue_runtime_evidence.py` 1689.
4. **Two calls for one chat** (`RemoteChat.cfg`). A blocking call answered with ChatMigrated is repeated at
   once on the new chat id (`bot_manager.py` 1567), outside the scheduler's bookkeeping of busy
   destinations, so another call for that supergroup can run at the same time; `outbound.py` 2162 says one
   call per chat.
5. **Ownership keys that stay** (`OwnershipKeys.cfg`). After a crash between the deletion of the last
   staged entry and the removal of its key, start-up sees the key but starts a thread only for targets
   with staged entries (`chat_binding.py` 1715), so nothing removes it until another replay. It does
   no harm to the next replay, whose keys have another generation (`NothingSkipped`), but the key is
   kept although the code says keys live only until their entries are gone.
6. **A second topic** (`LinkRace.cfg`). `link_chat` links, drops the topic of the chat and creates a new one
   without `_topic_mutex` around the three (`chat_binding.py` 664-671). A message of the chat in between
   gets a topic of its own, so the chat has two. The project's README says one topic per linked chat.
7. **Edited locations** (`EditedLocation.cfg`). `slave_message_location` compares `old_msg_id[0]`, an integer,
   with `str(tg_dest)` (`slave_message.py` 1299): never equal, so an edited location is sent as a new message
   that does not reply to the old one as the comment at 1289 says. The same comparison stands at 997 and 1237.

Observed while modelling, without a statement of the repository against it:

* Two calls for one message of a slave that are answered out of turn leave the log at the later *write*,
  which need not be the later message (`astray`).
* A row that is quarantined neither sets the wake event nor a deadline, and `_retain_failed_history`
  of an oversized version 1 row loads it whole, which raises and stops the scheduler.
* `_post_shutdown` clears the runtime without naming a loop and can so orphan a background loop that a caller
  had just started. A stop that comes before the stop event is published is lost: it waits 30 seconds, and
  polling goes on. A call put on a loop behind its stop is never answered.
* Between the release of the fences and the fingerprint of an import another program's write is not
  noticed (`slipped`); `docs/database-migration.md` asks for all writers to be stopped.
* A caller or the worker may write the log under an old id it read before another edit was logged: a
  further row of the log appears.
* Two threads that expire the same cache entry both remove it from the deque: the second raises, and the
  message being routed is lost. Two threads that migrate one group can leave a link twice (`crossed`).
  `topic_migration` of a handler looks topics up under the old chat id.
* The guard against failed messages compares with `FAIL_FLAG`, while what is stored is `"__fail__.<time>"`.
* In a forum with exactly one linked chat that has no topic row, messages of topics the bot did not make are
  forwarded to that chat.
* The master worker ends if the report of an error fails too. What is received after the stop token
  stays unread.

## 6. Not modelled, and the plan

* The composition of `SenderSelection` with `OutboundScheduler`, so that the senders of retries and of delayed
  media edits are those that were chosen; of `ReplayBudget` with it, so that one model has bytes and meaning. Each
  pair shares the row's life, and the product is beyond TLC with the bounds at which the hazards occur.
* The cache's `get`, taken as one step; the move of
  an import's archive to another directory; older schemas of the queue's table; direct calls that no row stands for.
* Repair of forum histories, group titles and pictures, the paging of interactive lists, `/rm`.
* Left out for good: formats and conversions of messages, pickling, media transcoding, translations,
  metrics, the configuration wizard and the command menu (sequential, and read by no decision
  modelled here), and the internals of the libraries (asyncio, python-telegram-bot, peewee, pyrate-limiter).

