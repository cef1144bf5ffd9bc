-------------------------- MODULE LifecycleInvariant --------------------------
(* Why the runtime stays bound to the loop of the application and the send    *)
(* worker never meets a closed queue: the inductive invariant that            *)
(* PollingLifecycle_proofs shows, as a state predicate that TLC checks too.   *)
EXTENDS PollingLifecycle

Loop == [phase : Phases, inbox : Seq(Items), tasks : SUBSET Callers]

CallSteps == {"idle", "begin", "starting", "again", "read", "submit", "waiting", "over"}
CallState == [pc : CallSteps, handler : BOOLEAN, loop : Loops \union {None}, again : BOOLEAN]

(* What a polling thread does before it binds its loop, while it goes on to   *)
(* wait for the stop event, and when it is torn down.                         *)
Unbinding == {"idle", "initialize"}
Binding == {"worker", "launch", "publish", "start", "wait"}
TearingDown == {"updater_stop", "app_stop", "shutdown", "post_shutdown", "closing", "over"}

(* The runtime is bound to a loop exactly when it is ready.                   *)
RuntimeShape ==
    /\ runtime \in [loop : Loops \union {None}, thread : Loops \union {None}, owns : BOOLEAN]
    /\ runtime.loop # None => runtime.thread = runtime.loop
    /\ runtime.owns => runtime.loop \in Background

LoopShape == loops \in [Loops -> Loop]

CallShape ==
    /\ calls \in [Callers -> CallState]
    /\ \A c \in Callers : calls[c].pc = "submit" => calls[c].loop \in Loops

ThreadShape ==
    /\ poll \in [pc : Unbinding \union Binding \union TearingDown, running : BOOLEAN]
    /\ stop \in [pc : {"idle", "join", "event", "signal", "halt", "halting", "insist",
                        "unbind", "done", "raised"},
                 heard : BOOLEAN]
    /\ worker \in {"none", "check", "sweep", "failed", "ended"}
    /\ published \in BOOLEAN /\ signalled \in BOOLEAN /\ complete \in BOOLEAN
    /\ flagged \in BOOLEAN /\ queueOpen \in BOOLEAN
    /\ troubles \in 0 .. MaxTroubles

Shapes == RuntimeShape /\ LoopShape /\ CallShape /\ ThreadShape

(* The stop boundary, or the end of the one worker there ever is, comes       *)
(* before everything that can close the queue.                                *)
QueueClosesLast ==
    /\ stop.pc # "idle" => flagged
    /\ poll.pc = "launch" => worker = "none"
    /\ ~queueOpen => (flagged \/ worker = "ended") /\ worker \notin {"sweep", "failed"}

AnnouncedLate == complete => poll.pc \in {"closing", "over"}

------------------------------------------------------------------------------
(* Until polling binds its loop, the runtime keeps the loop that checked the  *)
(* token: nobody tells it to stop, and the application, which is not running  *)
(* yet, cannot be halted on it.                                               *)
FirstServes ==
    /\ runtime = [loop |-> First, thread |-> First, owns |-> TRUE]
    /\ loops[First].phase = "running"
    /\ \A i \in DOMAIN loops[First].inbox : loops[First].inbox[i].kind # "stop"
    /\ ~poll.running

(* From then on it is bound to the loop of the application.                   *)
ApplicationServes == runtime = [loop |-> Ptb, thread |-> Ptb, owns |-> FALSE]

(* While a loop serves, no thread of another one is about to bind it.         *)
NoneStarting == \A l \in Loops : loops[l].phase # "made"

Serving ==
    stop.pc # "done" =>
       /\ poll.pc \in Unbinding => FirstServes /\ NoneStarting
       /\ poll.pc \in Binding => ApplicationServes /\ NoneStarting

LInv ==
    /\ Shapes
    /\ QueueClosesLast
    /\ AnnouncedLate
    /\ Serving
==============================================================================
