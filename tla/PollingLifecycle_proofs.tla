------------------------ MODULE PollingLifecycle_proofs -----------------------
(* Theorems about PollingLifecycle: for any callers, background loops and     *)
(* failures, whichever thread is ahead, the runtime stays bound to the loop   *)
(* of the application, the send worker never works on a closed queue and the  *)
(* end is announced only after the shutdown.  The invariant is LInv of        *)
(* LifecycleInvariant.                                                        *)
EXTENDS LifecycleInvariant, SequenceTheorems, TLAPS

------------------------------------------------------------------------------
(* Types.                                                                     *)

(* The invariant implies the types that the module states.                    *)
LEMMA ShapesAreTypes == ASSUME Shapes PROVE TypeOK
<1>1. ASSUME NEW l \in Loops
      PROVE  /\ loops[l].phase \in Phases /\ loops[l].tasks \subseteq Callers
             /\ Range(loops[l].inbox) \subseteq Items
  <2>1. /\ loops[l].phase \in Phases /\ loops[l].tasks \subseteq Callers
        /\ loops[l].inbox \in Seq(Items)
    BY DEF Shapes, LoopShape, Loop
  <2> QED
    BY <2>1 DEF Range
<1>2. \A c \in Callers : calls[c].loop \in Loops \union {None}
  BY DEF Shapes, CallShape, CallState
<1> QED
  BY <1>1, <1>2 DEF TypeOK, Shapes, RuntimeShape, ThreadShape

(* The loops are different.                                                   *)
LEMMA LoopNames ==
    /\ Ptb \in Loops /\ First \in Loops /\ First \in Background /\ First # Ptb
    /\ None \notin Loops /\ Background \subseteq Loops /\ Ptb \notin Background
  BY LifecycleAssumption DEF Loops

(* The fields of a loop, and the loop after an item was put on it.            *)
LEMMA LoopFields ==
    ASSUME NEW q \in Loop
    PROVE  q.phase \in Phases /\ q.inbox \in Seq(Items) /\ q.tasks \in SUBSET Callers
  BY DEF Loop

Stopless(q) == \A i \in DOMAIN q.inbox : q.inbox[i].kind # "stop"

LEMMA PutEffect ==
    ASSUME LoopShape, NEW l \in Loops, NEW item \in Items, Put(l, item)
    PROVE  /\ LoopShape'
           /\ \A k \in Loops : loops'[k].phase = loops[k].phase
           /\ \A k \in Loops : (k # l \/ item.kind # "stop") => (Stopless(loops[k]) => Stopless(loops'[k]))
<1>1. loops[l] \in Loop /\ loops[l].inbox \in Seq(Items)
  BY LoopFields DEF LoopShape
<1>2. Append(loops[l].inbox, item) \in Seq(Items)
  BY <1>1
<1> DEFINE q == [loops[l] EXCEPT !.inbox = Append(@, item)]
<1>3. q \in Loop /\ q.phase = loops[l].phase /\ q.inbox = Append(loops[l].inbox, item)
  BY <1>1, <1>2 DEF Loop
<1>4. loops' = [loops EXCEPT ![l] = q]
  BY DEF Put, LoopShape
<1>5. LoopShape' /\ loops'[l] = q /\ \A k \in Loops : k # l => loops'[k] = loops[k]
  BY <1>3, <1>4 DEF LoopShape
<1>6. item.kind # "stop" /\ Stopless(loops[l]) => Stopless(q)
  BY <1>1, <1>3 DEF Stopless
<1> QED
  BY <1>3, <1>5, <1>6

------------------------------------------------------------------------------
(* What serves goes on serving.                                               *)

(* The first loop neither stops nor is told to.                               *)
FirstGoesOn ==
    /\ loops'[First].phase = loops[First].phase
    /\ Stopless(loops[First]) => Stopless(loops'[First])

(* A step that leaves the binding, and the loops as far as anything serves.   *)
LEMMA ServingKept ==
    ASSUME LInv, runtime' = runtime,
           stop.pc = "done" => stop'.pc = "done",
           poll'.pc \in Unbinding => poll.pc \in Unbinding /\ poll'.running = poll.running,
           poll'.pc \in Binding => poll.pc \in Binding,
           FirstServes => FirstGoesOn,
           NoneStarting => NoneStarting'
    PROVE  Serving'
<1> SUFFICES ASSUME stop'.pc # "done"
             PROVE  /\ poll'.pc \in Unbinding => FirstServes' /\ NoneStarting'
                    /\ poll'.pc \in Binding => ApplicationServes' /\ NoneStarting'
  BY DEF Serving
<1>1. /\ poll.pc \in Unbinding => FirstServes /\ NoneStarting
      /\ poll.pc \in Binding => ApplicationServes /\ NoneStarting
  BY DEF LInv, Serving
<1>2. ASSUME poll'.pc \in Unbinding PROVE FirstServes' /\ NoneStarting'
  <2>1. FirstServes /\ FirstGoesOn /\ poll'.running = poll.running /\ NoneStarting'
    BY <1>1, <1>2
  <2> QED
    BY <2>1 DEF FirstServes, FirstGoesOn, Stopless
<1>3. ASSUME poll'.pc \in Binding PROVE ApplicationServes' /\ NoneStarting'
  BY <1>1, <1>3 DEF ApplicationServes
<1> QED
  BY <1>2, <1>3

(* The flags of the stop and of the worker.                                   *)
LEMMA FlagsKept ==
    ASSUME LInv, UNCHANGED <<stop, flagged, worker, queueOpen, complete>>,
           poll.pc \in {"closing", "over"} => poll'.pc \in {"closing", "over"},
           poll'.pc = "launch" => poll.pc = "launch"
    PROVE  QueueClosesLast' /\ AnnouncedLate'
  BY DEF LInv, QueueClosesLast, AnnouncedLate

(* The threads, when a step changes none of them.                             *)
LEMMA ThreadsKept ==
    ASSUME ThreadShape, UNCHANGED <<poll, stop, worker, published, signalled, complete, flagged,
                                    queueOpen, troubles>>
    PROVE  ThreadShape'
  BY DEF ThreadShape

(* Callers whose calls are over.                                              *)
LEMMA FinishEffect ==
    ASSUME CallShape, NEW cs \in SUBSET Callers, Finish(cs)
    PROVE  CallShape'
<1>1. CallOver \in CallState /\ CallOver.pc = "over"
  BY DEF CallOver, CallState, CallSteps
<1> QED
  BY <1>1 DEF CallShape, Finish

------------------------------------------------------------------------------
(* Loops.                                                                     *)

(* An item that has run.                                                      *)
LEMMA RanEffect ==
    ASSUME LoopShape, NEW l \in Loops, loops[l].inbox # <<>>
    PROVE  /\ Ran(l) \in Loop /\ Ran(l).phase = loops[l].phase /\ Ran(l).tasks = loops[l].tasks
           /\ NextItem(l) \in Items
           /\ Stopless(loops[l]) => Stopless(Ran(l)) /\ NextItem(l).kind # "stop"
<1>1. loops[l] \in Loop /\ loops[l].inbox \in Seq(Items)
  BY LoopFields DEF LoopShape
<1> DEFINE s == loops[l].inbox
<1>2. /\ Head(s) \in Items /\ Tail(s) \in Seq(Items) /\ Len(s) \in Nat \ {0} /\ Head(s) = s[1]
      /\ Len(Tail(s)) = Len(s) - 1 /\ \A i \in 1 .. Len(s) - 1 : Tail(s)[i] = s[i + 1]
  BY <1>1, HeadTailProperties
<1>3. /\ Ran(l) \in Loop /\ Ran(l).phase = loops[l].phase /\ Ran(l).tasks = loops[l].tasks
      /\ Ran(l).inbox = Tail(s)
  BY <1>1, <1>2 DEF Ran, Loop
<1>4. DOMAIN s = 1 .. Len(s) /\ DOMAIN Tail(s) = 1 .. Len(s) - 1
  BY <1>1, <1>2
<1>5. ASSUME Stopless(loops[l]) PROVE Stopless(Ran(l)) /\ NextItem(l).kind # "stop"
  <2>1. \A i \in 1 .. Len(s) : s[i].kind # "stop"
    BY <1>4, <1>5 DEF Stopless
  <2>2. \A i \in 1 .. Len(s) - 1 : Tail(s)[i].kind # "stop"
    BY <2>1, <1>2
  <2> QED
    BY <2>1, <2>2, <1>2, <1>3, <1>4 DEF Stopless, NextItem
<1> QED
  BY <1>2, <1>3, <1>5 DEF NextItem

(* What becomes of one loop.                                                  *)
LEMMA OneLoop ==
    ASSUME LoopShape, NEW l \in Loops, NEW q \in Loop, loops' = [loops EXCEPT ![l] = q]
    PROVE  /\ LoopShape' /\ loops'[l] = q
           /\ \A k \in Loops : k # l => loops'[k] = loops[k]
  BY DEF LoopShape

(* An item runs: a call becomes a task, a stop stops the loop.                *)
LEMMA RunItemStep == ASSUME LInv, NEW l \in Loops, RunItem(l) PROVE LInv'
<1> DEFINE q == CASE NextItem(l).kind = "call" -> [Ran(l) EXCEPT !.tasks = @ \union {NextItem(l).of}]
                  [] NextItem(l).kind = "stop" /\ loops[l].phase = "running" -> [Ran(l) EXCEPT !.phase = "stopped"]
                  [] OTHER -> Ran(l)
<1>0. Shapes /\ LoopShape /\ CallShape /\ ThreadShape /\ RuntimeShape
  BY DEF LInv, Shapes
<1>1. /\ Ran(l) \in Loop /\ Ran(l).phase = loops[l].phase /\ Ran(l).tasks = loops[l].tasks
      /\ NextItem(l) \in Items
      /\ Stopless(loops[l]) => Stopless(Ran(l)) /\ NextItem(l).kind # "stop"
  BY <1>0, RanEffect DEF RunItem
<1>2. NextItem(l).kind = "call" => NextItem(l).of \in Callers
  BY <1>1 DEF Items
<1>3. /\ q \in Loop
      /\ q.phase # "made" \/ q.phase = loops[l].phase
      /\ NextItem(l).kind # "stop" => q.phase = loops[l].phase
      /\ q.inbox = Ran(l).inbox
  BY <1>1, <1>2, <1>0 DEF Loop, Phases, LoopShape
<1>4. loops' = [loops EXCEPT ![l] = q]
  BY <1>0 DEF RunItem, LoopShape
<1> HIDE DEF q
<1>5. LoopShape' /\ loops'[l] = q /\ \A k \in Loops : k # l => loops'[k] = loops[k]
  BY <1>0, <1>3, <1>4, OneLoop
<1>6. Shapes'
  BY <1>0, <1>5 DEF Shapes, RunItem, RuntimeShape, CallShape, ThreadShape
<1>7. FirstServes => FirstGoesOn
  BY <1>1, <1>3, <1>5, LoopNames DEF FirstServes, FirstGoesOn, Stopless
<1>8. NoneStarting => NoneStarting'
  BY <1>3, <1>5 DEF NoneStarting
<1>9. Serving'
  BY <1>7, <1>8, ServingKept DEF RunItem
<1> QED
  BY <1>6, <1>9, FlagsKept DEF LInv, RunItem

(* A running application is halted on a loop.  Before polling has bound its   *)
(* loop the application does not run.                                         *)
LEMMA HaltLoopStep == ASSUME LInv, NEW l \in Loops, HaltLoop(l) PROVE LInv'
<1>0. Shapes /\ LoopShape /\ CallShape /\ ThreadShape /\ RuntimeShape
  BY DEF LInv, Shapes
<1>1. Ran(l) \in Loop
  BY <1>0, RanEffect DEF HaltLoop
<1>2. PICK q \in Loop : loops' = [loops EXCEPT ![l] = q] /\ q.phase \in {"stopped", "gathering"}
  <2> DEFINE q1 == [Ran(l) EXCEPT !.phase = "gathering", !.tasks = {}]
             q2 == [Ran(l) EXCEPT !.phase = "stopped"]
  <2>1. q1 \in Loop /\ q1.phase = "gathering" /\ q2 \in Loop /\ q2.phase = "stopped"
    BY <1>1 DEF Loop, Phases
  <2>2. loops' = [loops EXCEPT ![l] = q1] \/ loops' = [loops EXCEPT ![l] = q2]
    BY DEF HaltLoop
  <2> QED
    BY <2>1, <2>2
<1>3. LoopShape' /\ loops'[l] = q /\ \A k \in Loops : k # l => loops'[k] = loops[k]
  BY <1>0, <1>2, OneLoop
<1>4. CallShape'
  <2>1. loops[l].tasks \in SUBSET Callers
    BY <1>0, LoopFields DEF LoopShape
  <2>2. CASE UNCHANGED calls
    BY <2>2, <1>0 DEF CallShape
  <2>3. CASE Finish(loops[l].tasks)
    BY <2>1, <2>3, <1>0, FinishEffect
  <2> QED
    BY <2>2, <2>3 DEF HaltLoop
<1>5. ThreadShape' /\ RuntimeShape'
  BY <1>0 DEF HaltLoop, ThreadShape, RuntimeShape, TearingDown
<1>6. /\ poll.running
      /\ poll'.pc \in {poll.pc, "closing", "updater_stop"}
      /\ poll.pc \in {"closing", "over"} => poll'.pc \in {"closing", "over"}
  BY <1>0 DEF HaltLoop, ThreadShape
<1>7. QueueClosesLast' /\ AnnouncedLate'
  BY <1>6, FlagsKept DEF HaltLoop
<1>8. NoneStarting => NoneStarting'
  BY <1>2, <1>3 DEF NoneStarting
<1>9. Serving'
  <2>1. poll.pc \in Unbinding => stop.pc = "done"
    BY <1>6 DEF LInv, Serving, FirstServes
  <2>2. poll'.pc \in Unbinding => poll.pc \in Unbinding
    BY <1>6 DEF Unbinding
  <2>3. poll'.pc \in Binding => poll.pc \in Binding
    BY <1>6 DEF Binding
  <2> QED
    BY <2>1, <2>2, <2>3, <1>8 DEF LInv, Serving, ApplicationServes, HaltLoop
<1> QED
  BY <1>0, <1>3, <1>4, <1>5, <1>7, <1>9 DEF LInv, Shapes

(* A task ends, or all of a loop that has stopped are cancelled.              *)
LEMMA TasksEndStep ==
    ASSUME LInv, NEW l \in Loops, Sweep(l) \/ \E c \in Callers : FinishTask(l, c)
    PROVE  LInv'
<1>0. Shapes /\ LoopShape /\ CallShape /\ ThreadShape /\ RuntimeShape
  BY DEF LInv, Shapes
<1>1. loops[l] \in Loop /\ loops[l].tasks \in SUBSET Callers
  BY <1>0, LoopFields DEF LoopShape
<1>2. PICK q \in Loop : /\ loops' = [loops EXCEPT ![l] = q]
                        /\ q.phase # "made" \/ q.phase = loops[l].phase
                        /\ q.inbox = loops[l].inbox
                        /\ loops[l].phase = "running" => q.phase = "running"
  <2>1. CASE Sweep(l)
    <3> DEFINE q == [loops[l] EXCEPT !.phase = "gathering", !.tasks = {}]
    <3>1. q \in Loop /\ q.phase = "gathering" /\ q.inbox = loops[l].inbox
      BY <1>1 DEF Loop, Phases
    <3>2. loops' = [loops EXCEPT ![l] = q]
      BY <2>1, <1>0 DEF Sweep, CancelTasks, LoopShape
    <3> QED
      BY <3>1, <3>2, <2>1 DEF Sweep
  <2>2. ASSUME NEW c \in Callers, FinishTask(l, c)
        PROVE  \E q \in Loop : /\ loops' = [loops EXCEPT ![l] = q]
                               /\ q.phase # "made" \/ q.phase = loops[l].phase
                               /\ q.inbox = loops[l].inbox
                               /\ loops[l].phase = "running" => q.phase = "running"
    <3> DEFINE q == [loops[l] EXCEPT !.tasks = @ \ {c}]
    <3>1. q \in Loop /\ q.phase = loops[l].phase /\ q.inbox = loops[l].inbox
      BY <1>1 DEF Loop
    <3>2. loops' = [loops EXCEPT ![l] = q]
      BY <2>2, <1>0 DEF FinishTask, LoopShape
    <3> QED
      BY <3>1, <3>2
  <2> QED
    BY <2>1, <2>2
<1>3. LoopShape' /\ loops'[l] = q /\ \A k \in Loops : k # l => loops'[k] = loops[k]
  BY <1>0, <1>2, OneLoop
<1>4. CallShape'
  BY <1>0, <1>1, FinishEffect DEF Sweep, CancelTasks, FinishTask
<1>5. UNCHANGED <<runtime, poll, published, signalled, complete, stop, flagged, worker, queueOpen, troubles>>
  BY DEF Sweep, FinishTask
<1>6. ThreadShape' /\ RuntimeShape'
  BY <1>0, <1>5, ThreadsKept DEF RuntimeShape
<1>7. NoneStarting => NoneStarting'
  BY <1>2, <1>3 DEF NoneStarting
<1>8. FirstServes => FirstGoesOn
  BY <1>2, <1>3, LoopNames DEF FirstServes, FirstGoesOn, Stopless
<1> QED
  BY <1>3, <1>4, <1>5, <1>6, <1>7, <1>8, ServingKept, FlagsKept DEF LInv, Shapes

(* A loop that has gathered its tasks is closed.                              *)
LEMMA CloseStep == ASSUME LInv, NEW l \in Loops, Close(l) PROVE LInv'
<1> DEFINE q == [phase |-> "closed", inbox |-> <<>>, tasks |-> {}]
<1>0. Shapes /\ LoopShape /\ CallShape /\ ThreadShape /\ RuntimeShape
  BY DEF LInv, Shapes
<1>1. q \in Loop /\ q.phase = "closed"
  BY DEF Loop, Phases
<1>2. LoopShape' /\ loops'[l] = q /\ \A k \in Loops : k # l => loops'[k] = loops[k]
  BY <1>0, <1>1, OneLoop DEF Close
<1>3. CallShape' /\ ThreadShape' /\ RuntimeShape'
  BY <1>0, ThreadsKept DEF Close, RuntimeShape, CallShape
<1>4. NoneStarting => NoneStarting'
  BY <1>1, <1>2 DEF NoneStarting
<1>5. FirstServes => FirstGoesOn
  BY <1>2, LoopNames DEF FirstServes, FirstGoesOn, Close
<1> QED
  BY <1>2, <1>3, <1>4, <1>5, ServingKept, FlagsKept DEF LInv, Shapes, Close

(* The thread of a loop that has closed takes the binding with it; the loop   *)
(* that serves is not closed.                                                 *)
LEMMA ClearOwnStep == ASSUME LInv, NEW l \in Loops, ClearOwn(l) PROVE LInv'
<1> DEFINE q == [loops[l] EXCEPT !.phase = "gone"]
<1>0. Shapes /\ LoopShape /\ CallShape /\ ThreadShape /\ RuntimeShape
  BY DEF LInv, Shapes
<1>1. loops[l] \in Loop /\ q \in Loop /\ q.phase = "gone"
  BY <1>0 DEF Loop, Phases, LoopShape
<1>2. LoopShape' /\ loops'[l] = q /\ \A k \in Loops : k # l => loops'[k] = loops[k]
  <2>1. loops' = [loops EXCEPT ![l] = q]
    BY DEF ClearOwn
  <2> QED
    BY <2>1, <1>0, <1>1, OneLoop
<1>3. CallShape' /\ ThreadShape'
  BY <1>0, ThreadsKept DEF ClearOwn, CallShape
<1>4. RuntimeShape'
  BY <1>0 DEF ClearOwn, RuntimeShape, Unbound
<1>5. NoneStarting => NoneStarting'
  BY <1>1, <1>2 DEF NoneStarting
<1>6. Serving'
  <2>1. CASE runtime.loop = l
    <3>1. ~FirstServes /\ ~ApplicationServes
      BY <2>1, LoopNames DEF FirstServes, ApplicationServes, ClearOwn
    <3> QED
      BY <3>1 DEF LInv, Serving, ClearOwn
  <2>2. CASE runtime.loop # l
    <3>1. FirstServes => FirstGoesOn
      BY <2>2, <1>2, LoopNames DEF FirstServes, FirstGoesOn
    <3> QED
      BY <2>2, <3>1, <1>5, ServingKept DEF ClearOwn
  <2> QED
    BY <2>1, <2>2
<1> QED
  BY <1>2, <1>3, <1>4, <1>6, FlagsKept DEF LInv, Shapes, ClearOwn

(* bind_loop: the loop runs, the one it replaces may be told to stop.         *)
LEMMA BindEffect ==
    ASSUME RuntimeShape, LoopShape, NEW l \in Loops, NEW owned \in BOOLEAN,
           owned => l \in Background, BindLoop(l, owned)
    PROVE  /\ RuntimeShape' /\ LoopShape'
           /\ loops'[l].phase \in {"running", "dead"}
           /\ \A k \in Loops : k # l => loops'[k].phase = loops[k].phase
<1>1. RuntimeShape'
  BY DEF BindLoop, RuntimeShape
<1>2. ASSUME NEW k \in Loops
      PROVE  /\ loops'[k] \in Loop
             /\ IF k = l THEN loops'[k].phase \in {"running", "dead"}
                         ELSE loops'[k].phase = loops[k].phase
  <2>1. loops[k] \in Loop /\ loops[k].inbox \in Seq(Items)
    BY LoopFields DEF LoopShape
  <2>2. [kind |-> "stop"] \in Items
    BY DEF Items
  <2>3. Append(loops[k].inbox, [kind |-> "stop"]) \in Seq(Items)
    BY <2>1, <2>2
  <2> DEFINE r == [loops[k] EXCEPT !.phase = IF owned /\ BindRaises THEN "dead" ELSE "running"]
             q == [loops[k] EXCEPT !.inbox = Append(@, [kind |-> "stop"])]
  <2>4. r \in Loop /\ r.phase \in {"running", "dead"} /\ q \in Loop /\ q.phase = loops[k].phase
    BY <2>1, <2>3 DEF Loop, Phases
  <2>5. /\ k = l => loops'[k] = r
        /\ k # l => loops'[k] \in {q, loops[k]}
    BY DEF BindLoop
  <2> QED
    BY <2>1, <2>4, <2>5
<1>3. DOMAIN loops' = Loops /\ loops' = [k \in Loops |-> loops'[k]]
  BY DEF BindLoop
<1> QED
  BY <1>1, <1>2, <1>3 DEF LoopShape

(* The thread of a new loop binds it; nothing serves then.                    *)
LEMMA RunnerBindsStep == ASSUME LInv, NEW l \in Loops, RunnerBinds(l) PROVE LInv'
<1>0. Shapes /\ LoopShape /\ CallShape /\ ThreadShape /\ RuntimeShape
  BY DEF LInv, Shapes
<1>1. RuntimeShape' /\ LoopShape'
  BY <1>0, BindEffect DEF RunnerBinds
<1>2. CallShape' /\ ThreadShape'
  BY <1>0, ThreadsKept DEF RunnerBinds, CallShape
<1>3. ~NoneStarting
  BY DEF NoneStarting, RunnerBinds
<1>4. Serving'
  BY <1>3 DEF LInv, Serving, RunnerBinds
<1> QED
  BY <1>1, <1>2, <1>4, FlagsKept DEF LInv, Shapes, RunnerBinds

------------------------------------------------------------------------------
(* Calls.                                                                     *)

(* A step of a caller that leaves the loops.                                  *)
LEMMA CallsOnly ==
    ASSUME LInv, CallShape', UNCHANGED <<runtime, loops, RestOfCall>>
    PROVE  LInv'
<1>0. Shapes /\ LoopShape /\ ThreadShape /\ RuntimeShape
  BY DEF LInv, Shapes
<1>1. Shapes'
  BY <1>0, ThreadsKept DEF Shapes, RuntimeShape, LoopShape, RestOfCall
<1>2. FirstServes => FirstGoesOn
  BY DEF FirstGoesOn, Stopless
<1>3. NoneStarting => NoneStarting'
  BY DEF NoneStarting
<1>4. Serving'
  BY <1>2, <1>3, ServingKept DEF RestOfCall
<1> QED
  BY <1>1, <1>4, FlagsKept DEF LInv, RestOfCall

(* A caller goes on to another step.                                          *)
LEMMA StepEffect ==
    ASSUME CallShape, NEW c \in Callers, NEW pc \in CallSteps, Step(c, pc), pc # "submit"
    PROVE  CallShape'
  BY DEF CallShape, CallState, Step

LEMMA CallBeginsStep == ASSUME LInv, NEW c \in Callers, CallBegins(c) PROVE LInv'
<1>1. CallShape
  BY DEF LInv, Shapes
<1>2. PICK handler \in BOOLEAN :
         calls' = [calls EXCEPT ![c].pc = "begin", ![c].handler = handler]
  BY DEF CallBegins
<1> DEFINE q == [calls[c] EXCEPT !.pc = "begin", !.handler = handler]
<1>3. q \in CallState /\ q.pc = "begin"
  BY <1>1 DEF CallShape, CallState, CallSteps
<1>4. calls' = [calls EXCEPT ![c] = q]
  BY <1>1, <1>2 DEF CallShape
<1>5. CallShape'
  BY <1>1, <1>3, <1>4 DEF CallShape
<1> QED
  BY <1>5, CallsOnly DEF CallBegins

LEMMA CallReadyStep ==
    ASSUME LInv, NEW c \in Callers, CallReady(c) \/ EnsureFindsLoop(c)
    PROVE  LInv'
<1>1. CallShape /\ "read" \in CallSteps
  BY DEF LInv, Shapes, CallSteps
<1>2. CallShape'
  BY <1>1, StepEffect DEF CallReady, EnsureFindsLoop
<1> QED
  BY <1>2, CallsOnly DEF CallReady, EnsureFindsLoop

(* A caller starts a loop only when none is bound.                            *)
LEMMA EnsureStartsLoopStep == ASSUME LInv, NEW c \in Callers, EnsureStartsLoop(c) PROVE LInv'
<1>0. Shapes /\ LoopShape /\ CallShape /\ ThreadShape /\ RuntimeShape
  BY DEF LInv, Shapes
<1>1. PICK l \in Background :
         /\ loops' = [loops EXCEPT ![l].phase = "made"]
         /\ runtime' = [runtime EXCEPT !.thread = l]
         /\ calls' = [calls EXCEPT ![c].pc = "starting", ![c].loop = l]
  BY DEF EnsureStartsLoop
<1>2. l \in Loops /\ runtime.loop = None
  BY LoopNames DEF EnsureStartsLoop
<1> DEFINE q == [loops[l] EXCEPT !.phase = "made"]
<1>3. q \in Loop
  BY <1>0, <1>2 DEF LoopShape, Loop, Phases
<1>4. LoopShape'
  <2>1. loops' = [loops EXCEPT ![l] = q]
    BY <1>1
  <2> QED
    BY <1>0, <1>2, <1>3, <2>1, OneLoop
<1>5. CallShape'
  <2> DEFINE d == [calls[c] EXCEPT !.pc = "starting", !.loop = l]
  <2>1. d \in CallState /\ d.pc = "starting"
    BY <1>0, <1>2 DEF CallShape, CallState, CallSteps
  <2>2. calls' = [calls EXCEPT ![c] = d]
    BY <1>0, <1>1 DEF CallShape
  <2> QED
    BY <1>0, <2>1, <2>2 DEF CallShape
<1>6. RuntimeShape'
  BY <1>0, <1>1, <1>2 DEF RuntimeShape
<1>7. ThreadShape'
  BY <1>0, ThreadsKept DEF EnsureStartsLoop, RestOfCall
<1>8. Serving'
  <2>1. ~FirstServes /\ ~ApplicationServes
    BY <1>2, LoopNames DEF FirstServes, ApplicationServes
  <2> QED
    BY <2>1 DEF LInv, Serving, EnsureStartsLoop, RestOfCall
<1> QED
  BY <1>4, <1>5, <1>6, <1>7, <1>8, FlagsKept DEF LInv, Shapes, EnsureStartsLoop, RestOfCall

LEMMA EnsureEndsStep == ASSUME LInv, NEW c \in Callers, EnsureEnds(c) PROVE LInv'
<1>1. CallShape /\ "read" \in CallSteps
  BY DEF LInv, Shapes, CallSteps
<1>2. CallShape'
  BY <1>1, StepEffect, FinishEffect DEF EnsureEnds
<1> QED
  BY <1>2, CallsOnly DEF EnsureEnds

LEMMA CallReadsStep == ASSUME LInv, NEW c \in Callers, CallReads(c) PROVE LInv'
<1>1. CallShape /\ RuntimeShape
  BY DEF LInv, Shapes
<1>2. CallOver \in CallState /\ CallOver.pc = "over"
  BY DEF CallOver, CallState, CallSteps
<1>3. calls[c] \in CallState
  BY <1>1 DEF CallShape
<1> DEFINE q == CASE runtime.loop = None /\ ~calls[c].again -> [calls[c] EXCEPT !.pc = "again", !.again = TRUE]
                  [] runtime.loop = None /\ calls[c].again -> CallOver
                  [] runtime.loop # None /\ OwnLoop(c) -> CallOver
                  [] OTHER -> [calls[c] EXCEPT !.pc = "submit", !.loop = runtime.loop]
<1>4. q \in CallState /\ (q.pc = "submit" => q.loop \in Loops)
  <2>1. CASE runtime.loop = None
    BY <2>1, <1>2, <1>3 DEF CallState, CallSteps
  <2>2. CASE runtime.loop # None
    <3>1. runtime.loop \in Loops
      BY <1>1, <2>2 DEF RuntimeShape
    <3> QED
      BY <2>2, <3>1, <1>2, <1>3 DEF CallState, CallSteps
  <2> QED
    BY <2>1, <2>2
<1>5. calls' = [calls EXCEPT ![c] = q]
  BY <1>1 DEF CallReads, CallShape
<1>6. CallShape'
  BY <1>1, <1>4, <1>5 DEF CallShape
<1> QED
  BY <1>6, CallsOnly DEF CallReads

(* A call goes on the loop the caller has read.                               *)
LEMMA CallSubmitsStep == ASSUME LInv, NEW c \in Callers, CallSubmits(c) PROVE LInv'
<1>0. Shapes /\ LoopShape /\ CallShape /\ ThreadShape /\ RuntimeShape
  BY DEF LInv, Shapes
<1> DEFINE l == calls[c].loop
<1>1. l \in Loops /\ "waiting" \in CallSteps
  BY <1>0 DEF CallShape, CallSubmits, CallSteps
<1>2. CallShape'
  BY <1>0, <1>1, StepEffect, FinishEffect DEF CallSubmits
<1>3. CASE UNCHANGED loops
  BY <1>2, <1>3, CallsOnly DEF CallSubmits
<1>4. CASE Put(l, [kind |-> "call", of |-> c])
  <2>1. [kind |-> "call", of |-> c] \in Items
    BY DEF Items
  <2>2. /\ LoopShape'
        /\ \A k \in Loops : loops'[k].phase = loops[k].phase
        /\ \A k \in Loops : Stopless(loops[k]) => Stopless(loops'[k])
    BY <1>0, <1>1, <1>4, <2>1, PutEffect
  <2>3. ThreadShape' /\ RuntimeShape'
    BY <1>0, ThreadsKept DEF CallSubmits, RestOfCall, RuntimeShape
  <2>4. FirstServes => FirstGoesOn
    BY <2>2, LoopNames DEF FirstGoesOn
  <2>5. NoneStarting => NoneStarting'
    BY <2>2 DEF NoneStarting
  <2>6. Serving'
    BY <2>4, <2>5, ServingKept DEF CallSubmits, RestOfCall
  <2> QED
    BY <1>2, <2>2, <2>3, <2>6, FlagsKept DEF LInv, Shapes, CallSubmits, RestOfCall
<1> QED
  BY <1>3, <1>4 DEF CallSubmits

------------------------------------------------------------------------------
(* The polling thread.                                                        *)

(* The lifecycle leaves the flags of the stop; what it announces, it has      *)
(* announced in its last steps.                                               *)
LEMMA PollKeepsFlags ==
    ASSUME LInv, UNCHANGED <<stop, flagged, queueOpen>>, worker' = worker \/ (worker = "none" /\ worker' = "check"),
           poll'.pc = "launch" => worker' = "none",
           complete' => poll'.pc \in {"closing", "over"}
    PROVE  QueueClosesLast' /\ AnnouncedLate'
  BY DEF LInv, QueueClosesLast, AnnouncedLate

(* A step of the lifecycle that neither binds nor puts anything.              *)
LEMMA PollOnly ==
    ASSUME LInv, UNCHANGED <<runtime, loops, calls, stop, flagged, queueOpen>>, ThreadShape',
           worker' = worker \/ (worker = "none" /\ worker' = "check"),
           poll'.pc = "launch" => worker' = "none", complete' => poll'.pc \in {"closing", "over"},
           poll'.pc \notin Unbinding, poll'.pc \in Binding => poll.pc \in Binding
    PROVE  LInv'
<1>1. Shapes'
  BY DEF LInv, Shapes, RuntimeShape, LoopShape, CallShape
<1>2. FirstServes => FirstGoesOn
  BY DEF FirstGoesOn, Stopless
<1>3. NoneStarting => NoneStarting'
  BY DEF NoneStarting
<1>4. Serving'
  BY <1>2, <1>3, ServingKept
<1> QED
  BY <1>1, <1>4, PollKeepsFlags DEF LInv

LEMMA PollBeginsStep == ASSUME LInv, PollBegins PROVE LInv'
<1> DEFINE q == [loops[Ptb] EXCEPT !.phase = "running"]
<1>0. Shapes /\ LoopShape /\ CallShape /\ ThreadShape /\ RuntimeShape
  BY DEF LInv, Shapes
<1>1. q \in Loop /\ q.phase = "running"
  BY <1>0, LoopNames DEF Loop, Phases, LoopShape
<1>2. LoopShape' /\ loops'[Ptb] = q /\ \A k \in Loops : k # Ptb => loops'[k] = loops[k]
  <2>1. loops' = [loops EXCEPT ![Ptb] = q]
    BY DEF PollBegins
  <2> QED
    BY <2>1, <1>0, <1>1, LoopNames, OneLoop
<1>3. poll' = [poll EXCEPT !.pc = "initialize"] /\ poll.pc = "idle"
  BY DEF PollBegins, PollTo
<1>4. ThreadShape' /\ poll'.pc = "initialize" /\ poll'.running = poll.running
  BY <1>0, <1>3 DEF PollBegins, RestOfPoll, ThreadShape, Unbinding
<1>5. CallShape' /\ RuntimeShape'
  BY <1>0 DEF PollBegins, RestOfPoll, RuntimeShape, CallShape
<1>6. NoneStarting => NoneStarting'
  BY <1>1, <1>2 DEF NoneStarting
<1>7. FirstServes => FirstGoesOn
  BY <1>2, LoopNames DEF FirstServes, FirstGoesOn
<1>8. Serving'
  BY <1>3, <1>4, <1>6, <1>7, ServingKept DEF PollBegins, RestOfPoll, Unbinding, Binding
<1>9. QueueClosesLast' /\ AnnouncedLate'
  BY <1>3 DEF LInv, QueueClosesLast, AnnouncedLate, PollBegins, RestOfPoll
<1> QED
  BY <1>2, <1>4, <1>5, <1>8, <1>9 DEF LInv, Shapes

(* post_init binds the loop of the application.                               *)
LEMMA PostInitBindsStep == ASSUME LInv, PostInitBinds PROVE LInv'
<1>0. Shapes /\ LoopShape /\ CallShape /\ ThreadShape /\ RuntimeShape
  BY DEF LInv, Shapes
<1>1. /\ RuntimeShape' /\ LoopShape' /\ loops'[Ptb].phase \in {"running", "dead"}
      /\ \A k \in Loops : k # Ptb => loops'[k].phase = loops[k].phase
  BY <1>0, LoopNames, BindEffect DEF PostInitBinds
<1>2. /\ poll.pc = "initialize"
      /\ \/ poll' = [poll EXCEPT !.pc = "worker"]
         \/ poll' = [poll EXCEPT !.pc = "updater_stop"]
  BY DEF PostInitBinds, PollTo
<1>3. ThreadShape' /\ poll'.pc \in {"worker", "updater_stop"}
  BY <1>0, <1>2 DEF PostInitBinds, RestOfPoll, ThreadShape, Binding, TearingDown
<1>4. CallShape'
  BY <1>0 DEF PostInitBinds, RestOfPoll, CallShape
<1>5. ApplicationServes'
  BY DEF PostInitBinds, BindLoop, ApplicationServes
<1>6. NoneStarting => NoneStarting'
  BY <1>1 DEF NoneStarting
<1>7. Serving'
  BY <1>2, <1>3, <1>5, <1>6 DEF LInv, Serving, Unbinding, Binding, PostInitBinds, RestOfPoll
<1>8. QueueClosesLast' /\ AnnouncedLate'
  BY <1>2, <1>3 DEF LInv, QueueClosesLast, AnnouncedLate, PostInitBinds, RestOfPoll
<1> QED
  BY <1>1, <1>3, <1>4, <1>7, <1>8 DEF LInv, Shapes

(* From there to the wait for the stop event.                                 *)
LEMMA PostInitStep ==
    ASSUME LInv, PostInitChecks \/ PostInitLaunches \/ PublishStopEvent \/ StartApplication
    PROVE  LInv'
<1>1. ThreadShape /\ poll.pc \in Binding /\ poll.pc \notin {"closing", "over"}
  BY DEF LInv, Shapes, PostInitChecks, PostInitLaunches, PublishStopEvent, StartApplication, Binding
<1>2. poll'.pc \in Binding /\ poll' \in [pc : Binding, running : BOOLEAN]
  BY <1>1 DEF PostInitChecks, PostInitLaunches, PublishStopEvent, StartApplication, PollTo,
              ThreadShape, Binding
<1>3. ~complete'
  BY <1>1 DEF LInv, AnnouncedLate, PostInitChecks, PostInitLaunches, PublishStopEvent, StartApplication
<1>4. /\ worker' = worker \/ (worker = "none" /\ worker' = "check")
      /\ poll'.pc = "launch" => worker' = "none"
  BY <1>1 DEF LInv, QueueClosesLast, ThreadShape, PostInitChecks, PostInitLaunches, PublishStopEvent,
              StartApplication, PollTo
<1>5. UNCHANGED <<runtime, loops, calls, signalled, stop, flagged, queueOpen, troubles>>
  BY DEF PostInitChecks, PostInitLaunches, PublishStopEvent, StartApplication, RestOfPoll
<1>6. published' \in BOOLEAN
  BY <1>1 DEF PostInitChecks, PostInitLaunches, PublishStopEvent, StartApplication, ThreadShape
<1>7. complete' \in BOOLEAN
  BY <1>1 DEF PostInitChecks, PostInitLaunches, PublishStopEvent, StartApplication, ThreadShape
<1>8. ThreadShape'
  BY <1>1, <1>2, <1>4, <1>5, <1>6, <1>7 DEF ThreadShape
<1>9. poll'.pc \notin Unbinding
  BY <1>2 DEF Binding, Unbinding
<1> QED
  BY <1>1, <1>2, <1>3, <1>4, <1>5, <1>8, <1>9, PollOnly

(* The teardown: nothing serves any more.                                     *)
LEMMA TeardownStep ==
    ASSUME LInv, \/ InitializeFails \/ StartFails \/ PollWakes
                 \/ ApplicationStops \/ ApplicationShutsDown
    PROVE  LInv'
<1>1. ThreadShape /\ poll.pc \notin {"closing", "over"}
  BY DEF LInv, Shapes, InitializeFails, StartFails, PollWakes, TearDownFrom, ApplicationStops,
         ApplicationShutsDown
<1>2. poll' \in [pc : {"updater_stop", "shutdown", "post_shutdown"}, running : BOOLEAN]
  BY <1>1 DEF InitializeFails, StartFails, PollWakes, TearDownFrom, ApplicationStops,
              ApplicationShutsDown, PollTo, ThreadShape
<1>3. UNCHANGED <<runtime, loops, worker, complete, calls, signalled, stop, flagged, queueOpen>>
  BY DEF InitializeFails, StartFails, PollWakes, TearDownFrom, ApplicationStops,
         ApplicationShutsDown, RestOfPoll
<1>4. published' \in BOOLEAN
  BY <1>1 DEF InitializeFails, StartFails, PollWakes, TearDownFrom, ApplicationStops,
              ApplicationShutsDown, ThreadShape
<1>5. troubles' \in 0 .. MaxTroubles
  BY <1>1, LifecycleAssumption
     DEF InitializeFails, StartFails, PollWakes, TearDownFrom, ApplicationStops,
         ApplicationShutsDown, Trouble, ThreadShape
<1>6. poll'.pc \in TearingDown /\ poll'.pc \notin Unbinding /\ poll'.pc \notin Binding
  BY <1>2 DEF TearingDown, Unbinding, Binding
<1>7. ThreadShape'
  BY <1>1, <1>2, <1>3, <1>4, <1>5, <1>6 DEF ThreadShape
<1>8. ~complete'
  BY <1>1, <1>3 DEF LInv, AnnouncedLate
<1>9. poll'.pc # "launch"
  BY <1>2
<1> QED
  BY <1>3, <1>6, <1>7, <1>8, <1>9, PollOnly

(* The updater stops: the tasks on the loop are cancelled.                    *)
LEMMA UpdaterStopsStep == ASSUME LInv, UpdaterStops PROVE LInv'
<1>0. Shapes /\ LoopShape /\ CallShape /\ ThreadShape /\ RuntimeShape
  BY DEF LInv, Shapes
<1>1. poll' = [poll EXCEPT !.pc = "app_stop"] /\ poll.pc = "updater_stop"
  BY DEF UpdaterStops, PollTo
<1>2. poll' \in [pc : {"app_stop"}, running : BOOLEAN]
  BY <1>0, <1>1 DEF ThreadShape
<1>3. troubles' \in 0 .. MaxTroubles
  BY <1>0, LifecycleAssumption DEF UpdaterStops, Trouble, ThreadShape
<1>4. poll'.pc \in TearingDown /\ poll'.pc \notin Unbinding /\ poll'.pc \notin Binding
  BY <1>2 DEF TearingDown, Unbinding, Binding
<1>5. ThreadShape' /\ RuntimeShape'
  BY <1>0, <1>2, <1>3, <1>4 DEF UpdaterStops, ThreadShape, RuntimeShape
<1> DEFINE q == [loops[Ptb] EXCEPT !.tasks = {}]
<1>6. loops[Ptb].tasks \in SUBSET Callers /\ q \in Loop
  BY <1>0, LoopNames, LoopFields DEF LoopShape, Loop
<1>7. LoopShape' /\ CallShape'
  <2>1. CASE UNCHANGED <<loops, calls>>
    BY <2>1, <1>0 DEF LoopShape, CallShape
  <2>2. CASE loops' = [loops EXCEPT ![Ptb].tasks = {}] /\ Finish(loops[Ptb].tasks)
    <3>1. loops' = [loops EXCEPT ![Ptb] = q]
      BY <2>2
    <3> QED
      BY <2>2, <3>1, <1>0, <1>6, LoopNames, OneLoop, FinishEffect
  <2> QED
    BY <2>1, <2>2 DEF UpdaterStops
<1>8. Serving'
  BY <1>4 DEF Serving
<1>9. QueueClosesLast' /\ AnnouncedLate'
  BY <1>1 DEF LInv, QueueClosesLast, AnnouncedLate, UpdaterStops
<1> QED
  BY <1>5, <1>7, <1>8, <1>9 DEF LInv, Shapes

(* The end is announced when the application has been shut down.              *)
LEMMA PostShutdownStep == ASSUME LInv, PostShutdown PROVE LInv'
<1>0. Shapes /\ LoopShape /\ CallShape /\ ThreadShape /\ RuntimeShape
  BY DEF LInv, Shapes
<1>1. [kind |-> "stop"] \in Items
  BY DEF Items
<1>2. LoopShape'
  BY <1>0, <1>1, LoopNames, PutEffect DEF PostShutdown
<1>3. poll' \in [pc : {"closing"}, running : BOOLEAN] /\ complete' = TRUE
  BY <1>0 DEF PostShutdown, PollTo, ThreadShape
<1>4. poll'.pc \in TearingDown /\ poll'.pc \notin Unbinding /\ poll'.pc \notin Binding
  BY <1>3 DEF TearingDown, Unbinding, Binding
<1>5. ThreadShape' /\ RuntimeShape' /\ CallShape'
  BY <1>0, <1>3, <1>4 DEF PostShutdown, RestOfPoll, ThreadShape, RuntimeShape, CallShape, Unbound
<1>6. QueueClosesLast' /\ AnnouncedLate'
  BY <1>3 DEF LInv, QueueClosesLast, AnnouncedLate, PostShutdown, RestOfPoll
<1> QED
  BY <1>2, <1>4, <1>5, <1>6 DEF LInv, Shapes, Serving

LEMMA PollEndsStep == ASSUME LInv, PollEnds PROVE LInv'
<1>1. ThreadShape
  BY DEF LInv, Shapes
<1>2. poll' \in [pc : {"over"}, running : BOOLEAN]
  BY <1>1 DEF PollEnds, PollTo, ThreadShape
<1>3. poll'.pc \in TearingDown /\ poll'.pc \notin Unbinding /\ poll'.pc \notin Binding
  BY <1>2 DEF TearingDown, Unbinding, Binding
<1>4. ThreadShape'
  BY <1>1, <1>2, <1>3 DEF PollEnds, RestOfPoll, ThreadShape
<1> QED
  BY <1>2, <1>3, <1>4, PollOnly DEF PollEnds, RestOfPoll

------------------------------------------------------------------------------
(* The send worker and the stop.                                              *)

(* A step of the worker: it closes the queue as its last act.                 *)
LEMMA WorkerStep == ASSUME LInv, Worker \/ WorkerFails PROVE LInv'
<1>0. Shapes /\ LoopShape /\ CallShape /\ ThreadShape /\ RuntimeShape
  BY DEF LInv, Shapes
<1>1. UNCHANGED <<runtime, loops, calls, poll, published, signalled, complete, stop, flagged>>
  BY DEF Worker, WorkerSweepsOn, WorkerSweeps, WorkerEnds, WorkerFails, RestOfWorker
<1>2. worker' \in {"check", "sweep", "failed", "ended"} /\ queueOpen' \in BOOLEAN
  BY <1>0 DEF Worker, WorkerSweepsOn, WorkerSweeps, WorkerEnds, WorkerFails, ThreadShape
<1>8. troubles' \in 0 .. MaxTroubles
  BY <1>0, LifecycleAssumption DEF Worker, WorkerSweepsOn, WorkerSweeps, WorkerEnds, WorkerFails,
                                  RestOfWorker, Trouble, ThreadShape
<1>3. Shapes'
  BY <1>0, <1>1, <1>2, <1>8 DEF Shapes, RuntimeShape, LoopShape, CallShape, ThreadShape
<1>4. FirstServes => FirstGoesOn
  BY <1>1 DEF FirstGoesOn, Stopless
<1>5. NoneStarting => NoneStarting'
  BY <1>1 DEF NoneStarting
<1>6. Serving'
  BY <1>1, <1>4, <1>5, ServingKept
<1>7. QueueClosesLast' /\ AnnouncedLate'
  BY <1>1 DEF LInv, QueueClosesLast, AnnouncedLate,
              Worker, WorkerSweepsOn, WorkerSweeps, WorkerEnds, WorkerFails
<1> QED
  BY <1>3, <1>6, <1>7 DEF LInv

(* A step of the stop before it gives the binding up.  It puts at most one    *)
(* item on a loop, and no stop.                                               *)
LEMMA StopOnly ==
    ASSUME LInv, ThreadShape',
           UNCHANGED <<runtime, calls, poll, published, complete, worker, troubles>>,
           \/ UNCHANGED loops
           \/ \E l \in Loops, item \in Items : item.kind # "stop" /\ Put(l, item),
           stop.pc # "done", QueueClosesLast'
    PROVE  LInv'
<1>0. Shapes /\ LoopShape /\ CallShape /\ ThreadShape /\ RuntimeShape
  BY DEF LInv, Shapes
<1>1. /\ LoopShape'
      /\ \A k \in Loops : loops'[k].phase = loops[k].phase
      /\ \A k \in Loops : Stopless(loops[k]) => Stopless(loops'[k])
  <2>1. CASE UNCHANGED loops
    BY <2>1, <1>0 DEF LoopShape, Stopless
  <2>2. ASSUME NEW l \in Loops, NEW item \in Items, item.kind # "stop" /\ Put(l, item)
        PROVE  <1>1!1 /\ <1>1!2 /\ <1>1!3
    BY <2>2, <1>0, PutEffect
  <2> QED
    BY <2>1, <2>2
<1>2. FirstServes => FirstGoesOn
  BY <1>1, LoopNames DEF FirstGoesOn
<1>3. NoneStarting => NoneStarting'
  BY <1>1 DEF NoneStarting
<1>4. Serving'
  BY <1>2, <1>3, ServingKept
<1>5. CallShape' /\ RuntimeShape' /\ AnnouncedLate'
  BY <1>0 DEF CallShape, RuntimeShape, AnnouncedLate, LInv
<1> QED
  BY <1>1, <1>4, <1>5 DEF LInv, Shapes

(* The boundary is set first, the queue closed only behind the worker.        *)
LEMMA StopBeginsStep == ASSUME LInv, StopBegins \/ JoinWorker \/ StopReadsEvent PROVE LInv'
<1>0. Shapes /\ ThreadShape
  BY DEF LInv, Shapes
<1>1. UNCHANGED <<runtime, calls, poll, published, complete, worker, troubles, loops>>
  BY DEF StopBegins, JoinWorker, StopReadsEvent, RestOfStop
<1>2. stop' \in [pc : {"join", "event", "signal", "halt"}, heard : BOOLEAN]
  BY <1>0 DEF StopBegins, JoinWorker, StopReadsEvent, StopTo, ThreadShape
<1>3. /\ flagged' \in BOOLEAN /\ queueOpen' \in BOOLEAN
      /\ UNCHANGED signalled
  BY <1>0 DEF StopBegins, JoinWorker, StopReadsEvent, CloseQueue, ThreadShape, RestOfStop
<1>4. ThreadShape'
  BY <1>0, <1>1, <1>2, <1>3 DEF ThreadShape
<1>5. flagged'
  BY DEF LInv, QueueClosesLast, StopBegins, JoinWorker, StopReadsEvent
<1>6. ~queueOpen' => worker \notin {"sweep", "failed"}
  BY DEF LInv, QueueClosesLast, StopBegins, JoinWorker, StopReadsEvent, CloseQueue, WorkerAlive
<1>7. QueueClosesLast'
  BY <1>1, <1>5, <1>6 DEF LInv, QueueClosesLast
<1>8. stop.pc # "done"
  BY DEF StopBegins, JoinWorker, StopReadsEvent
<1> QED
  BY <1>1, <1>4, <1>7, <1>8, StopOnly

LEMMA StopSignalsStep == ASSUME LInv, StopSignals PROVE LInv'
<1>0. Shapes /\ ThreadShape /\ RuntimeShape
  BY DEF LInv, Shapes
<1> DEFINE l == SignalTarget
<1>1. l \in Loops \union {None}
  BY <1>0, LoopNames DEF SignalTarget, RuntimeShape
<1>2. stop' \in [pc : {"unbind", "raised"}, heard : BOOLEAN] /\ stop.pc = "signal"
  BY <1>0 DEF StopSignals, StopTo, ThreadShape
<1>3. signalled' \in BOOLEAN
  BY <1>0 DEF StopSignals, ThreadShape
<1>4. UNCHANGED <<runtime, calls, poll, published, complete, worker, troubles, flagged, queueOpen>>
  BY DEF StopSignals
<1>5. ThreadShape'
  BY <1>0, <1>2, <1>3, <1>4 DEF ThreadShape
<1>6. QueueClosesLast'
  BY <1>2, <1>4 DEF LInv, QueueClosesLast
<1>7. UNCHANGED loops \/ (l # None /\ Put(l, [kind |-> "signal"]))
  BY DEF StopSignals
<1>8. [kind |-> "signal"] \in Items /\ [kind |-> "signal"].kind # "stop"
  BY DEF Items
<1>9. \/ UNCHANGED loops
      \/ \E k \in Loops, item \in Items : item.kind # "stop" /\ Put(k, item)
  BY <1>1, <1>7, <1>8
<1> QED
  BY <1>2, <1>4, <1>5, <1>6, <1>9, StopOnly

LEMMA StopHaltsStep == ASSUME LInv, StopHalts \/ StopHalted \/ StopInsists PROVE LInv'
<1>0. Shapes /\ ThreadShape /\ RuntimeShape
  BY DEF LInv, Shapes
<1>2. /\ stop' \in [pc : {"halting", "insist", "unbind", "raised"}, heard : BOOLEAN]
      /\ stop.pc \in {"halt", "halting", "insist"}
  BY <1>0 DEF StopHalts, StopHalted, StopInsists, StopTo, ThreadShape
<1>4. UNCHANGED <<runtime, calls, poll, published, complete, worker, troubles, flagged, queueOpen, signalled>>
  BY DEF StopHalts, StopHalted, StopInsists, RestOfStop
<1>5. ThreadShape'
  BY <1>0, <1>2, <1>4 DEF ThreadShape
<1>6. QueueClosesLast'
  BY <1>2, <1>4 DEF LInv, QueueClosesLast
<1>7. UNCHANGED loops \/ (runtime.loop # None /\ Put(runtime.loop, [kind |-> "halt"]))
  BY DEF StopHalts, StopHalted, StopInsists
<1>8. [kind |-> "halt"] \in Items /\ [kind |-> "halt"].kind # "stop"
  BY DEF Items
<1>9. \/ UNCHANGED loops
      \/ \E k \in Loops, item \in Items : item.kind # "stop" /\ Put(k, item)
  BY <1>0, <1>7, <1>8 DEF RuntimeShape
<1> QED
  BY <1>2, <1>4, <1>5, <1>6, <1>9, StopOnly

(* The stop gives up the binding: it is done, or the loop had closed and it   *)
(* has raised with the binding as it was.                                     *)
LEMMA StopUnbindsStep == ASSUME LInv, StopUnbinds PROVE LInv'
<1>0. Shapes /\ LoopShape /\ CallShape /\ ThreadShape /\ RuntimeShape
  BY DEF LInv, Shapes
<1>1. stop' \in [pc : {"done", "raised"}, heard : BOOLEAN] /\ stop.pc = "unbind"
  BY <1>0 DEF StopUnbinds, StopTo, ThreadShape
<1>2. UNCHANGED <<flagged, worker, queueOpen, calls, poll, published, signalled, complete, troubles>>
  BY DEF StopUnbinds, RestOfStop
<1>3. ThreadShape'
  BY <1>0, <1>1, <1>2 DEF ThreadShape
<1>4. QueueClosesLast'
  BY <1>1, <1>2 DEF LInv, QueueClosesLast
<1>5. CASE UNCHANGED <<loops, runtime>>
  BY <1>1, <1>2, <1>3, <1>4, <1>5, StopOnly
<1>6. CASE stop'.pc = "done"
  <2>1. LoopShape'
    <3>1. [kind |-> "stop"] \in Items
      BY DEF Items
    <3>2. runtime.owns => runtime.loop \in Loops
      BY <1>0, LoopNames DEF RuntimeShape
    <3>3. UNCHANGED loops \/ (runtime.owns /\ Put(runtime.loop, [kind |-> "stop"]))
      BY DEF StopUnbinds
    <3>4. CASE UNCHANGED loops
      BY <3>4, <1>0 DEF LoopShape
    <3> QED
      BY <3>1, <3>2, <3>3, <3>4, <1>0, PutEffect
  <2>2. RuntimeShape'
    <3>1. runtime' = runtime \/ runtime' = Unbound
      BY DEF StopUnbinds
    <3>2. CASE runtime' = runtime
      BY <3>2, <1>0 DEF RuntimeShape
    <3>3. CASE runtime' = Unbound
      BY <3>3 DEF RuntimeShape, Unbound
    <3> QED
      BY <3>1, <3>2, <3>3
  <2>3. Serving' /\ AnnouncedLate' /\ CallShape'
    BY <1>6, <1>2, <1>0 DEF LInv, Serving, AnnouncedLate, CallShape
  <2> QED
    BY <1>3, <1>4, <2>1, <2>2, <2>3 DEF LInv, Shapes
<1>7. UNCHANGED <<loops, runtime>> \/ stop'.pc = "done"
  BY <1>0 DEF StopUnbinds, StopTo, ThreadShape
<1> QED
  BY <1>5, <1>6, <1>7

------------------------------------------------------------------------------
(* The invariant.                                                             *)

(* In the beginning the loop that checked the token serves.                   *)
LEMMA LifecycleStarts == ASSUME Init PROVE LInv
<1> DEFINE q(l) == [phase |-> IF l = First THEN "running" ELSE "absent", inbox |-> <<>>, tasks |-> {}]
<1>1. LoopShape
  <2>1. \A l \in Loops : q(l) \in Loop
    BY DEF Loop, Phases
  <2>2. loops = [l \in Loops |-> q(l)]
    BY DEF Init
  <2> QED
    BY <2>1, <2>2 DEF LoopShape
<1>2. RuntimeShape
  BY LoopNames DEF Init, RuntimeShape
<1>3. CallShape
  BY DEF Init, CallShape, CallState, CallSteps
<1>4. ThreadShape
  <2>1. MaxTroubles \in 0 .. MaxTroubles
    BY LifecycleAssumption
  <2>2. "idle" \in Unbinding \union Binding \union TearingDown
    BY DEF Unbinding
  <2> QED
    BY <2>1, <2>2 DEF Init, ThreadShape
<1>5. QueueClosesLast /\ AnnouncedLate
  BY DEF Init, QueueClosesLast, AnnouncedLate
<1>6. FirstServes /\ NoneStarting
  BY LoopNames DEF Init, FirstServes, NoneStarting
<1> QED
  BY <1>1, <1>2, <1>3, <1>4, <1>5, <1>6 DEF Init, LInv, Shapes, Serving, Binding

LEMMA LifecycleStutters == ASSUME LInv, UNCHANGED vars PROVE LInv'
<1>1. Shapes'
  BY DEF LInv, vars, Shapes, RuntimeShape, LoopShape, CallShape, ThreadShape
<1>2. QueueClosesLast' /\ AnnouncedLate'
  BY DEF LInv, vars, QueueClosesLast, AnnouncedLate
<1>3. Serving'
  BY DEF LInv, vars, Serving, FirstServes, ApplicationServes, NoneStarting
<1> QED
  BY <1>1, <1>2, <1>3 DEF LInv

(* Every step of every thread keeps the invariant.                            *)
LEMMA LifecycleSteps == ASSUME LInv, Next PROVE LInv'
<1>1. ASSUME NEW c \in Callers, CallBegins(c) \/ Call(c) PROVE LInv'
  BY <1>1, CallBeginsStep, CallReadyStep, EnsureStartsLoopStep, EnsureEndsStep, CallReadsStep,
     CallSubmitsStep DEF Call
<1>2. ASSUME NEW l \in Loops, LoopStep(l) PROVE LInv'
  BY <1>2, RunItemStep, HaltLoopStep, TasksEndStep, CloseStep, ClearOwnStep, RunnerBindsStep
     DEF LoopStep
<1>3. CASE PollBegins \/ Poll \/ PollFails
  BY <1>3, PollBeginsStep, PostInitBindsStep, PostInitStep, TeardownStep, UpdaterStopsStep,
     PostShutdownStep, PollEndsStep DEF Poll, PollFails
<1>4. CASE Worker \/ WorkerFails
  BY <1>4, WorkerStep
<1>5. CASE StopBegins \/ Stop
  BY <1>5, StopBeginsStep, StopSignalsStep, StopHaltsStep, StopUnbindsStep DEF Stop
<1> QED
  BY <1>1, <1>2, <1>3, <1>4, <1>5 DEF Next

(* The inductive invariant: what serves the callers and who may close the     *)
(* queue, at every interleaving of the callers, the loops, polling(), the     *)
(* send worker and graceful_stop().                                           *)
THEOREM LifecycleInductive == Spec => []LInv
<1>1. Init => LInv
  BY LifecycleStarts
<1>2. LInv /\ [Next]_vars => LInv'
  BY LifecycleSteps, LifecycleStutters
<1> QED
  BY <1>1, <1>2, PTL DEF Spec

(* For any callers and loops, and however the threads interleave: the send    *)
(* worker never sweeps a closed queue, the end of the lifecycle is announced  *)
(* only after the shutdown, and from post_init to the end of polling the      *)
(* runtime stays bound to the loop of the application until a stop has given  *)
(* the binding up.                                                            *)
THEOREM LifecycleTheorem == Spec => []LifecycleInv
<1>1. ASSUME LInv PROVE LifecycleInv
  <2>1. TypeOK
    BY <1>1, ShapesAreTypes DEF LInv
  <2>2. QueueOpenWhileSwept /\ AnnouncedWhenDown
    BY <1>1 DEF LInv, QueueClosesLast, AnnouncedLate, QueueOpenWhileSwept, AnnouncedWhenDown
  <2>3. BoundToApplication
    BY <1>1 DEF LInv, Serving, Binding, ApplicationServes, BoundToApplication
  <2> QED
    BY <2>1, <2>2, <2>3 DEF LifecycleInv
<1> QED
  BY <1>1, LifecycleInductive, PTL
==============================================================================
