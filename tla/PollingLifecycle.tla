--------------------------- MODULE PollingLifecycle ---------------------------
(* The event loops of the master channel and the threads that meet there:     *)
(* AsyncTelegramRuntime, through which synchronous threads call the Telegram  *)
(* client; the polling thread, which owns the loop of the application from    *)
(* initialize to post_shutdown; the send worker it starts; and graceful_stop, *)
(* which takes all of them down (bot_manager.py).                             *)
(*                                                                            *)
(* A loop runs the items other threads put on it in order.  The coroutine of  *)
(* a call is an item first and a task afterwards; a loop that ends cancels    *)
(* its tasks but drops the items it has not reached.                          *)
EXTENDS Naturals, Sequences, SequencesExt, FiniteSets

CONSTANTS Callers,     \* callers of the synchronous facade, one call each
          Ptb,         \* the loop of asyncio.run in polling()
          Background,  \* loops the runtime starts for itself
          First,       \* the one the check of the bot's token left running
          None,
          MaxTroubles  \* steps of the application that fail

ASSUME LifecycleAssumption ==
    /\ Ptb \notin Background /\ First \in Background
    /\ None \notin Background \union {Ptb}
    /\ MaxTroubles \in Nat

Loops == Background \union {Ptb}

VARIABLES
    runtime,    \* loop, thread and ownership the runtime is bound to
    loops,      \* phase, items put and not run, tasks
    calls,      \* where each caller is, whether it is a handler on the loop of
                \* the application, the loop it read, whether it tried twice
    poll,       \* the polling thread: next step, application running
    published,  \* the stop event is visible to graceful_stop
    signalled,  \* the stop event is set
    complete,   \* _shutdown_complete_event
    stop,       \* the stopping thread: next step, what it saw
    flagged,    \* _send_worker_stop and the stop boundary of the scheduler
    worker,     \* the send worker
    queueOpen,  \* the durable queue is not closed
    troubles
vars == <<runtime, loops, calls, poll, published, signalled, complete, stop,
          flagged, worker, queueOpen, troubles>>

Unbound == [loop |-> None, thread |-> None, owns |-> FALSE]
Phases == {"absent", "made", "dead", "running", "stopped", "gathering", "closed", "gone"}
Items == [kind : {"call"}, of : Callers] \union [kind : {"stop", "signal", "halt"}]

Init ==
    /\ runtime = [loop |-> First, thread |-> First, owns |-> TRUE]
    /\ loops = [l \in Loops |->
          [phase |-> IF l = First THEN "running" ELSE "absent",
           inbox |-> <<>>, tasks |-> {}]]
    /\ calls = [c \in Callers |-> [pc |-> "idle", handler |-> FALSE, loop |-> None, again |-> FALSE]]
    /\ poll = [pc |-> "idle", running |-> FALSE]
    /\ stop = [pc |-> "idle", heard |-> FALSE]
    /\ published = FALSE /\ signalled = FALSE /\ complete = FALSE
    /\ flagged = FALSE /\ worker = "none" /\ queueOpen = TRUE
    /\ troubles = MaxTroubles

-------------------------------------------------------------------------------
(* Loops.                                                                     *)

Put(l, item) == loops' = [loops EXCEPT ![l].inbox = Append(@, item)]
Closed(l) == loops[l].phase \in {"closed", "gone"}
Waiting(c) == calls[c].pc \in {"begin", "starting", "read", "waiting"}

(* The code of the lifecycle that runs between two awaits keeps the loop.     *)
Awaiting == {"initialize", "start", "wait", "updater_stop",
             "app_stop", "shutdown", "closing"}

(* A handler that waits for an answer keeps the loop it runs on.              *)
LoopFree(l) == l = Ptb => /\ poll.pc \in Awaiting
                          /\ \A c \in Callers : ~(calls[c].handler /\ Waiting(c))

Alive(l) == loops[l].phase \in {"running", "stopped", "gathering"}
CallOver == [pc |-> "over", handler |-> FALSE, loop |-> None, again |-> FALSE]
Finish(cs) == calls' = [c \in Callers |-> IF c \in cs THEN CallOver ELSE calls[c]]

(* The next item runs; one that came with a stop still does.  stop_running    *)
(* leaves only a mark when the application is not running.                    *)
NextItem(l) == Head(loops[l].inbox)
Ran(l) == [loops[l] EXCEPT !.inbox = Tail(@)]
RunItem(l) ==
    /\ Alive(l) /\ LoopFree(l) /\ loops[l].inbox # <<>>
    /\ NextItem(l).kind = "halt" => ~poll.running
    /\ loops' = [loops EXCEPT ![l] =
          CASE NextItem(l).kind = "call" -> [Ran(l) EXCEPT !.tasks = @ \union {NextItem(l).of}]
            [] NextItem(l).kind = "stop" /\ @.phase = "running" -> [Ran(l) EXCEPT !.phase = "stopped"]
            [] OTHER -> Ran(l)]
    /\ signalled' = (signalled \/ NextItem(l).kind = "signal")
    /\ UNCHANGED <<runtime, calls, poll, published, complete, stop, flagged,
                   worker, queueOpen, troubles>>

(* stop_running of a running application stops the loop it runs on.  If that  *)
(* is the loop of the lifecycle, asyncio.run cancels its tasks: the lifecycle *)
(* that waits goes through its teardown, the teardown itself is cut short.    *)
HaltLoop(l) ==
    LET cutShort == l = Ptb /\ poll.pc # "wait"
        tornDown == l = Ptb /\ poll.pc = "wait" IN
    /\ Alive(l) /\ LoopFree(l) /\ loops[l].inbox # <<>>
    /\ NextItem(l).kind = "halt" /\ poll.running
    /\ poll' = CASE cutShort -> [poll EXCEPT !.pc = "closing"]
                 [] tornDown -> [poll EXCEPT !.pc = "updater_stop"]
                 [] OTHER -> poll
    /\ published' = (published /\ ~tornDown)
    /\ IF tornDown THEN /\ loops' = [loops EXCEPT ![l] = [Ran(l) EXCEPT !.phase = "gathering", !.tasks = {}]]
                        /\ Finish(loops[l].tasks)
       ELSE /\ loops' = [loops EXCEPT ![l] = [Ran(l) EXCEPT !.phase = "stopped"]]
            /\ UNCHANGED calls
    /\ UNCHANGED <<runtime, signalled, complete, stop, flagged, worker, queueOpen,
                   troubles>>

(* A coroutine ends, with a result or an error of Telegram.                   *)
FinishTask(l, c) ==
    /\ Alive(l) /\ LoopFree(l) /\ c \in loops[l].tasks
    /\ loops' = [loops EXCEPT ![l].tasks = @ \ {c}]
    /\ Finish({c})
    /\ UNCHANGED <<runtime, poll, published, signalled, complete, stop, flagged,
                   worker, queueOpen, troubles>>

(* A bug: the loop ends without cancelling its tasks.                         *)
KeepTasks(l) ==
    /\ loops' = [loops EXCEPT ![l].phase = "gathering", ![l].tasks = {}]
    /\ UNCHANGED calls

(* A stopped loop cancels the tasks it has; their callers get the             *)
(* cancellation.                                                              *)
CancelTasks(l) ==
    /\ loops' = [loops EXCEPT ![l].phase = "gathering", ![l].tasks = {}]
    /\ Finish(loops[l].tasks)
Sweep(l) ==
    /\ loops[l].phase = "stopped" /\ (l = Ptb => LoopFree(l))
    /\ CancelTasks(l)
    /\ UNCHANGED <<runtime, poll, published, signalled, complete, stop, flagged,
                   worker, queueOpen, troubles>>

Close(l) ==
    /\ loops[l].phase = "gathering" /\ LoopFree(l) /\ (l = Ptb => poll.pc = "closing")
    /\ loops' = [loops EXCEPT ![l] = [phase |-> "closed", inbox |-> <<>>, tasks |-> {}]]
    /\ UNCHANGED <<runtime, calls, poll, published, signalled, complete, stop,
                   flagged, worker, queueOpen, troubles>>

(* The thread of a background loop gives up the binding, if it still has it,  *)
(* and ends.                                                                  *)
ClearOwn(l) ==
    /\ l \in Background /\ loops[l].phase = "closed"
    /\ loops' = [loops EXCEPT ![l].phase = "gone"]
    /\ runtime' = IF runtime.loop = l THEN Unbound ELSE runtime
    /\ UNCHANGED <<calls, poll, published, signalled, complete, stop, flagged,
                   worker, queueOpen, troubles>>

(* bind_loop: an owned loop that is replaced is told to stop.  If that one    *)
(* has closed meanwhile this raises, behind the binding.                      *)
BindRaises == runtime.owns /\ runtime.loop # None /\ Closed(runtime.loop)
BindLoop(l, owned) ==
    /\ runtime' = [loop |-> l, thread |-> l, owns |-> owned]
    /\ loops' = LET told == runtime.owns /\ runtime.loop # None /\ ~BindRaises
                    old == runtime.loop IN
                [k \in Loops |->
                   IF k = l THEN [loops[k] EXCEPT !.phase = IF owned /\ BindRaises THEN "dead" ELSE "running"]
                   ELSE IF told /\ k = old
                        THEN [loops[k] EXCEPT !.inbox = Append(@, [kind |-> "stop"])]
                        ELSE loops[k]]

(* The thread started by _ensure_background_loop binds its loop.  It joins a  *)
(* loop it replaced, up to five seconds, before it runs its own; if binding   *)
(* raises, the thread is dead and its loop never runs.                        *)
RunnerBinds(l) ==
    /\ l \in Background /\ loops[l].phase = "made"
    /\ BindLoop(l, TRUE)
    /\ UNCHANGED <<calls, poll, published, signalled, complete, stop, flagged,
                   worker, queueOpen, troubles>>

-------------------------------------------------------------------------------
(* Calls of the synchronous facade: no timeout.                               *)

Step(c, pc) == calls' = [calls EXCEPT ![c].pc = pc]
RestOfCall == <<poll, published, signalled, complete, stop, flagged, worker,
                queueOpen, troubles>>

CallBegins(c) ==
    /\ calls[c].pc = "idle"
    /\ \E handler \in BOOLEAN :
          /\ handler => poll.pc \in {"wait", "updater_stop", "app_stop"} /\ LoopFree(Ptb)
          /\ calls' = [calls EXCEPT ![c].pc = "begin", ![c].handler = handler]
    /\ UNCHANGED <<runtime, loops, RestOfCall>>

(* _ready.wait, which may take its two seconds.                               *)
CallReady(c) ==
    /\ calls[c].pc = "begin" /\ runtime.loop # None
    /\ Step(c, "read")
    /\ UNCHANGED <<runtime, loops, RestOfCall>>

(* _ensure_background_loop.  Nothing is done when a loop is bound or the      *)
(* thread of one is starting; only the thread that starts one waits for it.   *)
Starting == runtime.thread # None /\ loops[runtime.thread].phase \notin {"dead", "gone"}
MayEnsure(c) == \/ calls[c].pc = "begin" /\ runtime.loop = None
                \/ calls[c].pc = "again"
EnsureFindsLoop(c) ==
    /\ MayEnsure(c) /\ (runtime.loop # None \/ Starting)
    /\ Step(c, "read")
    /\ UNCHANGED <<runtime, loops, RestOfCall>>
EnsureStartsLoop(c) ==
    /\ MayEnsure(c) /\ runtime.loop = None /\ ~Starting
    /\ \E l \in Background :
          /\ loops[l].phase = "absent"
          /\ loops' = [loops EXCEPT ![l].phase = "made"]
          /\ runtime' = [runtime EXCEPT !.thread = l]
          /\ calls' = [calls EXCEPT ![c].pc = "starting", ![c].loop = l]
    /\ UNCHANGED RestOfCall
EnsureEnds(c) ==
    /\ calls[c].pc = "starting"
    /\ \/ loops[calls[c].loop].phase \notin {"made", "dead"} /\ Step(c, "read")
       \/ loops[calls[c].loop].phase \in {"made", "dead"} /\ Finish({c})
    /\ UNCHANGED <<runtime, loops, RestOfCall>>

(* A bug: the check of the calling thread is dropped.                         *)
NeverOwnLoop(c) == FALSE
(* The binding is read under the lock; with none, the loop is ensured once    *)
(* more.  A call from the thread of the loop itself is refused.               *)
OwnLoop(c) == calls[c].handler /\ runtime.thread = Ptb
CallReads(c) ==
    /\ calls[c].pc = "read"
    /\ calls' = [calls EXCEPT ![c] =
          CASE runtime.loop = None /\ ~@.again -> [@ EXCEPT !.pc = "again", !.again = TRUE]
            [] runtime.loop = None /\ @.again -> CallOver
            [] runtime.loop # None /\ OwnLoop(c) -> CallOver
            [] OTHER -> [@ EXCEPT !.pc = "submit", !.loop = runtime.loop]]
    /\ UNCHANGED <<runtime, loops, RestOfCall>>

(* run_coroutine_threadsafe, outside the lock.                                *)
CallSubmits(c) ==
    LET l == calls[c].loop IN
    /\ calls[c].pc = "submit"
    /\ IF Closed(l) THEN Finish({c}) /\ UNCHANGED loops
       ELSE Step(c, "waiting") /\ Put(l, [kind |-> "call", of |-> c])
    /\ UNCHANGED <<runtime, RestOfCall>>

-------------------------------------------------------------------------------
(* The polling thread.                                                        *)

RestOfPoll == <<calls, signalled, stop, flagged, queueOpen>>
PollTo(pc) == poll' = [poll EXCEPT !.pc = pc]
OnLoop == Alive(Ptb) /\ LoopFree(Ptb)
Trouble == troubles > 0 /\ troubles' = troubles - 1

PollBegins ==
    /\ poll.pc = "idle"
    /\ PollTo("initialize")
    /\ loops' = [loops EXCEPT ![Ptb].phase = "running"]
    /\ UNCHANGED <<runtime, published, complete, worker, troubles, RestOfPoll>>

(* A step that raises goes to the teardown, which first withdraws the event.  *)
TearDownFrom(pc) ==
    /\ poll.pc = pc /\ OnLoop
    /\ PollTo("updater_stop") /\ published' = FALSE
    /\ UNCHANGED <<runtime, loops, complete, worker, RestOfPoll>>
InitializeFails == TearDownFrom("initialize") /\ Trouble
StartFails == TearDownFrom("start") /\ Trouble

(* post_init: the loop is bound, a background loop it replaces is told to     *)
(* stop and its thread is joined, at most five seconds, on this loop.  If     *)
(* that raises, the teardown follows with this loop bound.                    *)
PostInitBinds ==
    /\ poll.pc = "initialize" /\ OnLoop
    /\ PollTo(IF BindRaises THEN "updater_stop" ELSE "worker")
    /\ BindLoop(Ptb, FALSE)
    /\ UNCHANGED <<published, complete, worker, troubles, RestOfPoll>>
(* The worker is started once, and not after the stop boundary.               *)
PostInitChecks ==
    /\ poll.pc = "worker"
    /\ PollTo(IF ~flagged /\ worker = "none" THEN "launch" ELSE "publish")
    /\ UNCHANGED <<runtime, loops, published, complete, worker, troubles, RestOfPoll>>
PostInitLaunches ==
    /\ poll.pc = "launch"
    /\ worker' = "check" /\ PollTo("publish")
    /\ UNCHANGED <<runtime, loops, published, complete, troubles, RestOfPoll>>
(* start_polling and start may each fail, which is the same to the teardown.  *)
PublishStopEvent ==
    /\ poll.pc = "publish"
    /\ complete' = FALSE /\ published' = TRUE /\ PollTo("start")
    /\ UNCHANGED <<runtime, loops, worker, troubles, RestOfPoll>>
StartApplication ==
    /\ poll.pc = "start" /\ OnLoop
    /\ poll' = [poll EXCEPT !.pc = "wait", !.running = TRUE]
    /\ UNCHANGED <<runtime, loops, published, complete, worker, troubles, RestOfPoll>>
PollWakes ==
    /\ signalled
    /\ UNCHANGED troubles /\ TearDownFrom("wait")

(* Teardown: every step is tried whatever the one before it did.  The tasks   *)
(* on the loop are cancelled unless the updater failed to stop.               *)
UpdaterStops ==
    /\ poll.pc = "updater_stop" /\ OnLoop
    /\ PollTo("app_stop")
    /\ \/ /\ loops' = [loops EXCEPT ![Ptb].tasks = {}]
          /\ Finish(loops[Ptb].tasks) /\ UNCHANGED troubles
       \/ Trouble /\ UNCHANGED <<loops, calls>>
    /\ UNCHANGED <<runtime, published, complete, worker, signalled, stop, flagged, queueOpen>>
ApplicationStops ==
    /\ poll.pc = "app_stop" /\ OnLoop
    /\ \/ poll' = [poll EXCEPT !.pc = "shutdown", !.running = FALSE] /\ UNCHANGED troubles
       \/ PollTo("shutdown") /\ Trouble
    /\ UNCHANGED <<runtime, loops, published, complete, worker, RestOfPoll>>
ApplicationShutsDown ==
    /\ poll.pc = "shutdown" /\ OnLoop
    /\ PollTo("post_shutdown")
    /\ UNCHANGED <<runtime, loops, published, complete, worker, troubles, RestOfPoll>>
(* post_shutdown clears whatever is bound.  The lifecycle then returns and    *)
(* asyncio.run stops its loop, behind what has been put on it.                *)
PostShutdown ==
    /\ poll.pc = "post_shutdown"
    /\ runtime' = Unbound /\ complete' = TRUE /\ PollTo("closing")
    /\ Put(Ptb, [kind |-> "stop"])
    /\ UNCHANGED <<published, worker, troubles, RestOfPoll>>
(* The finally of polling().                                                  *)
PollEnds ==
    /\ poll.pc = "closing" /\ loops[Ptb].phase = "closed"
    /\ PollTo("over") /\ published' = FALSE /\ complete' = TRUE
    /\ UNCHANGED <<runtime, loops, worker, troubles, RestOfPoll>>

-------------------------------------------------------------------------------
(* The send worker.                                                           *)

RestOfWorker == <<runtime, loops, calls, poll, published, signalled, complete,
                  stop, flagged, troubles>>
(* The worker that sees the boundary, or whose scheduler has stopped for a    *)
(* failure of the durable queue, drains, closes the queue and ends.           *)
WorkerSweepsOn ==
    /\ worker = "check" /\ ~flagged
    /\ worker' = "sweep"
    /\ UNCHANGED <<queueOpen, RestOfWorker>>
WorkerSweeps ==
    /\ worker = "sweep"
    /\ worker' = "check"
    /\ UNCHANGED <<queueOpen, RestOfWorker>>
WorkerFails ==
    /\ worker = "sweep" /\ Trouble
    /\ worker' = "failed"
    /\ UNCHANGED <<queueOpen, runtime, loops, calls, poll, published, signalled,
                   complete, stop, flagged>>
WorkerEnds ==
    /\ (worker = "check" /\ flagged) \/ worker = "failed"
    /\ worker' = "ended" /\ queueOpen' = FALSE
    /\ UNCHANGED RestOfWorker

-------------------------------------------------------------------------------
(* stop_polling and graceful_stop.                                            *)

StopTo(pc) == stop' = [stop EXCEPT !.pc = pc]
RestOfStop == <<calls, poll, published, signalled, complete, troubles>>

(* stop_queued_worker: the boundary, a bounded wait for the worker, and the   *)
(* queue is closed here only if no worker is alive; otherwise the worker will.*)
StopBegins ==
    /\ stop.pc = "idle"
    /\ flagged' = TRUE /\ StopTo("join")
    /\ UNCHANGED <<runtime, loops, worker, queueOpen, RestOfStop>>
WorkerAlive == worker \in {"check", "sweep", "failed"}
CloseQueue == queueOpen' = FALSE
(* A bug: the queue is closed although the worker did not stop in time.       *)
CloseUnderWorker ==
    /\ stop.pc = "join"
    /\ StopTo("event") /\ CloseQueue
    /\ UNCHANGED <<runtime, loops, flagged, worker, RestOfStop>>
JoinWorker ==
    /\ stop.pc = "join"
    /\ StopTo("event")
    /\ IF WorkerAlive THEN UNCHANGED queueOpen ELSE CloseQueue
    /\ UNCHANGED <<runtime, loops, flagged, worker, RestOfStop>>

(* The stop event is read once.  When there is one, setting it is put on the  *)
(* loop that is bound, else on the loop the event itself belongs to, else it  *)
(* is set from here; a loop that has closed meanwhile makes the stop raise.   *)
StopReadsEvent ==
    /\ stop.pc = "event"
    /\ stop' = [pc |-> IF published THEN "signal" ELSE "halt", heard |-> published]
    /\ UNCHANGED <<runtime, loops, flagged, worker, queueOpen, RestOfStop>>
SignalTarget == CASE runtime.loop # None -> runtime.loop
                  [] runtime.loop = None /\ Alive(Ptb) -> Ptb
                  [] OTHER -> None
StopSignals ==
    LET l == SignalTarget IN
    /\ stop.pc = "signal"
    /\ IF l = None THEN signalled' = TRUE /\ StopTo("unbind") /\ UNCHANGED loops
       ELSE IF Closed(l) THEN StopTo("raised") /\ UNCHANGED <<signalled, loops>>
       ELSE Put(l, [kind |-> "signal"]) /\ StopTo("unbind") /\ UNCHANGED signalled
    /\ UNCHANGED <<runtime, flagged, worker, queueOpen, calls, poll, published,
                   complete, troubles>>
(* Without one, a call of stop_running goes to the loop that is bound.        *)
StopHalts ==
    /\ stop.pc = "halt"
    /\ IF runtime.loop # None /\ ~Closed(runtime.loop)
       THEN Put(runtime.loop, [kind |-> "halt"]) /\ StopTo("halting")
       ELSE UNCHANGED loops /\ StopTo("insist")
    /\ UNCHANGED <<runtime, flagged, worker, queueOpen, RestOfStop>>
(* It has its answer, or thirty seconds were not enough, or its loop ended.   *)
StopHalted ==
    /\ stop.pc = "halting"
    /\ StopTo("unbind") \/ StopTo("insist")
    /\ UNCHANGED <<runtime, loops, flagged, worker, queueOpen, RestOfStop>>
(* Without an answer it is put there once more, which raises if the loop has  *)
(* closed; called from here it finds no loop to stop.                         *)
StopInsists ==
    /\ stop.pc = "insist"
    /\ IF runtime.loop = None THEN StopTo("unbind") /\ UNCHANGED loops
       ELSE IF Closed(runtime.loop) THEN StopTo("raised") /\ UNCHANGED loops
       ELSE Put(runtime.loop, [kind |-> "halt"]) /\ StopTo("unbind")
    /\ UNCHANGED <<runtime, flagged, worker, queueOpen, RestOfStop>>
(* The wait for the lifecycle is over, at the latest after thirty seconds.    *)
(* An owned loop is told to stop; its thread gives up the binding.            *)
StopUnbinds ==
    /\ stop.pc = "unbind"
    /\ IF runtime.owns
       THEN IF Closed(runtime.loop) THEN StopTo("raised") /\ UNCHANGED <<loops, runtime>>
            ELSE StopTo("done") /\ Put(runtime.loop, [kind |-> "stop"]) /\ UNCHANGED runtime
       ELSE StopTo("done") /\ runtime' = Unbound /\ UNCHANGED loops
    /\ UNCHANGED <<flagged, worker, queueOpen, RestOfStop>>

-------------------------------------------------------------------------------
Call(c) == \/ CallReady(c) \/ EnsureFindsLoop(c) \/ EnsureStartsLoop(c)
           \/ EnsureEnds(c) \/ CallReads(c) \/ CallSubmits(c)
LoopStep(l) == \/ RunItem(l) \/ HaltLoop(l) \/ Sweep(l) \/ Close(l)
               \/ ClearOwn(l) \/ RunnerBinds(l) \/ \E c \in Callers : FinishTask(l, c)
Poll == \/ PostInitBinds \/ PostInitChecks
        \/ PostInitLaunches \/ PublishStopEvent \/ StartApplication
        \/ PollWakes \/ UpdaterStops \/ ApplicationStops \/ ApplicationShutsDown
        \/ PostShutdown \/ PollEnds
PollFails == InitializeFails \/ StartFails
Worker == WorkerSweepsOn \/ WorkerSweeps \/ WorkerEnds
Stop == \/ JoinWorker \/ StopReadsEvent \/ StopSignals
        \/ StopHalts \/ StopHalted \/ StopInsists \/ StopUnbinds

Next ==
    \/ \E c \in Callers : CallBegins(c) \/ Call(c)
    \/ \E l \in Loops : LoopStep(l)
    \/ PollBegins \/ Poll \/ PollFails
    \/ Worker \/ WorkerFails
    \/ StopBegins \/ Stop

(* Threads are scheduled, a running loop runs what is put on it, and requests *)
(* to Telegram have timeouts.  Nothing makes a call, a poll or a stop begin.  *)
Spec == Init /\ [][Next]_vars
Fairness ==
    /\ \A c \in Callers : WF_vars(Call(c))
    /\ \A l \in Loops : WF_vars(LoopStep(l))
    /\ WF_vars(Poll) /\ WF_vars(Worker) /\ WF_vars(Stop)
FairSpec == Spec /\ Fairness

-------------------------------------------------------------------------------
(* Every variable keeps its shape, and the runtime is bound to a loop exactly *)
(* when it is ready.                                                          *)
TypeOK ==
    /\ runtime \in [loop : Loops \union {None}, thread : Loops \union {None}, owns : BOOLEAN]
    /\ runtime.loop # None => runtime.thread = runtime.loop
    /\ runtime.owns => runtime.loop \in Background
    /\ \A l \in Loops : /\ loops[l].phase \in Phases
                        /\ Range(loops[l].inbox) \subseteq Items
                        /\ loops[l].tasks \subseteq Callers
    /\ \A c \in Callers : calls[c].loop \in Loops \union {None}
    /\ {published, signalled, complete, flagged, queueOpen} \subseteq BOOLEAN
    /\ troubles \in 0 .. MaxTroubles

(* The send worker never works on a queue that has been closed, nor drains    *)
(* one after a failure, whichever of post_init, the worker and graceful_stop  *)
(* is ahead (_finalize_outbound_resources, the checks of _post_init and of    *)
(* the worker's loop).                                                        *)
QueueOpenWhileSwept == worker \in {"sweep", "failed"} => queueOpen

(* The end of the lifecycle is announced only after the application has been  *)
(* shut down, so that a new instance does not meet its long poll.             *)
AnnouncedWhenDown == complete /\ poll.pc # "idle" => poll.pc \in {"closing", "over"}

(* Between post_init and the end of polling the runtime stays bound to the    *)
(* loop of the application unless a stop gave up waiting: no other thread     *)
(* rebinds it behind the handlers' back.                                      *)
BoundToApplication ==
    /\ poll.pc \in {"worker", "launch", "publish", "start", "wait"}
    /\ stop.pc # "done"
    => runtime.loop = Ptb

(* The three of them, for every interleaving of the threads.                  *)
LifecycleInv == TypeOK /\ QueueOpenWhileSwept /\ AnnouncedWhenDown /\ BoundToApplication

(* A call put on a loop that is running, and that nobody has told to stop,    *)
(* gets its result or its cancellation, although call() has no timeout.       *)
ToldToStop(l) == \/ loops[l].phase # "running"
                 \/ \E i \in DOMAIN loops[l].inbox : loops[l].inbox[i].kind \in {"stop", "halt"}
Submitted(c) == calls[c].pc = "waiting" /\ ~ToldToStop(calls[c].loop)
SubmittedIsAnswered == \A c \in Callers : Submitted(c) ~> calls[c].pc = "over"

(* A stop that finds the stop event ends the polling thread.                  *)
StopIsHeard == (stop.heard /\ stop.pc # "raised") ~> poll.pc = "over"

(* graceful_stop returns or raises; no loop, worker or handler holds it.      *)
StopReturns == stop.pc # "idle" ~> stop.pc \in {"done", "raised"}

(* A stop comes to an end, on both sides.                                     *)
StopCompletes == StopIsHeard /\ StopReturns
==============================================================================
