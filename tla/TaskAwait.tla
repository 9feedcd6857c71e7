----------------------------- MODULE TaskAwait -----------------------------
(***************************************************************************)
(* Task control blocks, co_await and helping waits of one runtime          *)
(* (src/src/task/*, include/astra/coroutine.hpp, and the parts of          *)
(* src/src/runtime/scheduler.cpp that defer resumes and help).             *)
(*                                                                         *)
(* A task is a callable or a coroutine; Body(t) is what its body does:     *)
(* co_await another task, yield, sleep, cancel a task, or wait for one by  *)
(* wait(), get() or wait_for().                                            *)
(* The i-th operation of t, when it awaits, is the await <<t, i>>; it has  *)
(* a handshake of its own, as AwaitToken does.  The handshake is taken     *)
(* with one step per call: AwaitHandshake shows that is what it promises.  *)
(*                                                                         *)
(* A worker executes a stack of tasks: helping starts one task while       *)
(* another waits.  Which of the ready items a worker claims is left open.  *)
(***************************************************************************)
EXTENDS Naturals, FiniteSets, Sequences, SequencesExt

CONSTANTS
  Workers,     \* worker threads
  Cancellers,  \* outside threads that call request_cancel() once
  Closers,     \* outside threads that call shutdown_now(); at most one acts
  Tasks,
  Coroutines,
  Programs,    \* what is run: bodies, and the outside threads that act
  Cancels,     \* Cancels[c]: the task canceller c cancels
  MaxDepth,    \* max_helping_depth
  None

Waits == {"wait", "get", "wait_for"}
Ops == {"await", "yield", "sleep", "point", "cancel"} \cup Waits
Threads == Workers \cup Cancellers \cup Closers
Awaits == UNION {UNION {{t} \X (1 .. Len(p.body[t])) : t \in DOMAIN p.body} : p \in Programs}
Starts == Tasks \X {0}   \* the item that starts a task; an await is its resume
Items == Starts \cup Awaits

ASSUME AwaitAssumption ==
  /\ Coroutines \subseteq Tasks /\ IsFiniteSet(Tasks) /\ None \notin Items
  /\ Cancels \in [Cancellers -> Tasks]
  /\ MaxDepth \in Nat \ {0}
  /\ \A p \in Programs :
       /\ DOMAIN p.body \subseteq Tasks /\ p.outside \subseteq Cancellers \cup Closers
       /\ \A c \in Cancellers \cap p.outside : Cancels[c] \in DOMAIN p.body
       /\ \A t \in DOMAIN p.body : p.body[t] \in Seq([op : Ops, of : Tasks \cup {None}])
  /\ \A p \in Programs : \A t \in DOMAIN p.body : \A i \in 1 .. Len(p.body[t]) :
       LET o == p.body[t][i] IN
       /\ o.op \in IF t \in Coroutines THEN Ops ELSE {"cancel"} \cup Waits
       /\ IF o.op \in {"yield", "sleep", "point"} THEN o.of = None ELSE o.of \in DOMAIN p.body

VARIABLES
  program,           \* its tasks are in the global queues when the model starts
  state, stop,       \* state_, and whether stop_source_ has been stopped
  pc, ip,            \* where the body is, and how many operations it has begun
  hs, cancelled,     \* each await's handshake, and those with the kCancelled bit
  callbacks,         \* completion_callbacks_, as the awaits they trigger
  stopcb,            \* tasks whose current await has a stop callback registered
  handoff, published, \* resume_handoff_seq_, suspend_published_seq_
  timers, timerId,   \* the timer heap; awaits that have stored their timer_id
  global, local,     \* ready items: global queues, all workers' local queues
  gmutex,            \* the closer that holds global_mutex_, or None
  stack,             \* stack[w]: the tasks w executes, the innermost last
  slot,              \* slot[w]: t_deferred_self_resume and its owner
  pending,           \* pending[w]: the item w has claimed and not yet begun
  leaving,           \* workers whose innermost task has returned control
  step, target, firing, \* a thread's request_cancel(), callbacks it has to run
  immediate, cpc,    \* shutdown_now() has set the mode; the outside threads
  cancelling,        \* what cancel_all_timers() has taken out of the heap
  destroyed, posts,  \* how often a frame was destroyed; an await posted
  gauge              \* RuntimeMetrics: its gauges, and the ended tasks it counted

tasks == <<state, stop, pc, ip>>
awaits == <<hs, cancelled, callbacks, stopcb, handoff, published>>
clock == <<timers, timerId>>
queues == <<global, local, gmutex>>
workers == <<stack, pending, leaving>>
jobs == <<step, target, firing>>
outside == <<immediate, cpc, cancelling>>
vars == <<program, tasks, awaits, clock, queues, workers, slot, jobs, outside, destroyed, posts, gauge>>

Terminal == {"Succeeded", "Failed", "Cancelled"}
States == {"Ready", "Running", "Suspended"} \cup Terminal
Gauges == {"ready", "running", "suspended", "ended"}
Places == {"cold", "body", "register", "stopcb", "suspend", "check", "id",
           "recheck", "arm", "publish", "suspended", "resumed", "waiting", "unwind", "error",
           "done"}

TypeOK ==
  /\ program \in Programs
  /\ state \in [Tasks -> States] /\ stop \in [Tasks -> BOOLEAN]
  /\ pc \in [Tasks -> Places] /\ ip \in [Tasks -> Nat]
  /\ hs \in [Awaits -> {"Init", "Triggered", "Armed", "Resolved"}]
  /\ cancelled \subseteq Awaits
  /\ callbacks \in [Tasks -> SUBSET Awaits] /\ stopcb \subseteq Tasks
  /\ handoff \in [Tasks -> Nat] /\ published \in [Tasks -> Nat]
  /\ timers \subseteq Awaits /\ timerId \subseteq Awaits
  /\ global \subseteq Items /\ local \subseteq Items /\ gmutex \in Closers \cup {None}
  /\ \A w \in Workers : \A k \in DOMAIN stack[w] :
       stack[w][k] \in [task : Tasks, before : Nat]
  /\ slot \in [Workers -> [item : Awaits, owner : Tasks] \cup {None}]
  /\ \A w \in Workers : slot[w] # None => \E k \in DOMAIN stack[w] : stack[w][k].task = slot[w].owner
  /\ pending \in [Workers -> Items \cup {None}] /\ leaving \subseteq Workers
  /\ step \in [Threads -> {"none", "stop", "ready"}]
  /\ target \in [Threads -> Tasks \cup {None}]
  /\ firing \in [Threads -> SUBSET Awaits]
  /\ immediate \in BOOLEAN /\ cancelling \subseteq Awaits
  /\ cpc \in [Cancellers \cup Closers -> {"idle", "global", "timers", "done"}]
  /\ destroyed \in [Tasks -> Nat] /\ posts \in [Awaits -> Nat]
  /\ gauge \in [Gauges -> Nat]

Init ==
  /\ program \in Programs
  /\ state = [t \in Tasks |-> "Ready"] /\ stop = [t \in Tasks |-> FALSE]
  /\ pc = [t \in Tasks |-> "cold"] /\ ip = [t \in Tasks |-> 0]
  /\ hs = [a \in Awaits |-> "Init"] /\ cancelled = {}
  /\ callbacks = [t \in Tasks |-> {}] /\ stopcb = {}
  /\ handoff = [t \in Tasks |-> 0] /\ published = [t \in Tasks |-> 0]
  /\ timers = {} /\ timerId = {}
  /\ global = {i \in Starts : i[1] \in DOMAIN program.body} /\ local = {} /\ gmutex = None
  /\ stack = [w \in Workers |-> <<>>] /\ slot = [w \in Workers |-> None]
  /\ pending = [w \in Workers |-> None] /\ leaving = {}
  /\ step = [x \in Threads |-> "none"] /\ target = [x \in Threads |-> None]
  /\ firing = [x \in Threads |-> {}]
  /\ immediate = FALSE /\ cancelling = {}
  /\ cpc = [c \in Cancellers \cup Closers |-> IF c \in program.outside THEN "idle" ELSE "done"]
  /\ destroyed = [t \in Tasks |-> 0] /\ posts = [a \in Awaits |-> 0]
  /\ gauge = [g \in Gauges |-> IF g = "ready" THEN Cardinality(DOMAIN program.body) ELSE 0]

Body(t) == program.body[t]
Goto(t, place) == pc' = [pc EXCEPT ![t] = place]
SetState(t, s) == state' = [state EXCEPT ![t] = s]

(* What the metrics record of a task.  A gauge that is decremented stops   *)
(* at zero; which gauge follows from the call, not from the task's state.  *)
SaturatingDec(n) == IF n = 0 THEN 0 ELSE n - 1
Move(from, to) == gauge' = [gauge EXCEPT ![from] = SaturatingDec(@), ![to] = @ + 1]
RecordFirstStart == Move("ready", "running")
RecordSuspended == Move("running", "suspended")
RecordResumed == Move("suspended", "running")   \* by way of "ready"
RecordEnded == Move("running", "ended")
RecordCancelledBeforeStart == Move("ready", "ended")

(* transition_to_suspended().                                              *)
ToSuspended(t) ==
  \/ state[t] = "Running" /\ SetState(t, "Suspended") /\ RecordSuspended
  \/ state[t] # "Running" /\ UNCHANGED <<state, gauge>>

(* The tasks whose mutex_ is held across steps: request_stop() runs the    *)
(* stop callbacks under it.                                                *)
Locked == {target[x] : x \in {y \in Threads : step[y] # "none"}}
Busy(x) == step[x] # "none" \/ firing[x] # {}

(* t_current_executing_task_id: the innermost task, also while it waits.   *)
Executing(x) == x \in Workers /\ stack[x] # <<>>
Top(w) == Last(stack[w]).task

(* post_task_internal() on a resume: inside a task it is put in the one    *)
(* deferred slot of the thread; otherwise it is queued.                    *)
Post(x, a) ==
  /\ posts' = [posts EXCEPT ![a] = @ + 1]
  /\ \/ /\ Executing(x)
        /\ slot' = [slot EXCEPT ![x] = [item |-> a, owner |-> Top(x)]]
        /\ UNCHANGED <<global, local>>
     \/ /\ x \in Workers /\ ~Executing(x)
        /\ local' = local \cup {a}
        /\ UNCHANGED <<global, slot>>
     \/ /\ x \notin Workers /\ gmutex = None
        /\ global' = global \cup {a}
        /\ UNCHANGED <<local, slot>>

NoPost == UNCHANGED <<posts, global, local, slot>>

(* AwaitHandshake::trigger() and trigger_cancel(), called by thread x.     *)
Advance(x, a) ==
  \/ hs[a] = "Init" /\ hs' = [hs EXCEPT ![a] = "Triggered"] /\ NoPost
  \/ hs[a] = "Armed" /\ hs' = [hs EXCEPT ![a] = "Resolved"] /\ Post(x, a)
  \/ hs[a] \in {"Triggered", "Resolved"} /\ UNCHANGED hs /\ NoPost
Trigger(x, a) == Advance(x, a) /\ UNCHANGED cancelled
TriggerCancel(x, a) ==
  /\ Advance(x, a)
  /\ cancelled' = IF hs[a] \in {"Init", "Armed"} THEN cancelled \cup {a} ELSE cancelled
-----------------------------------------------------------------------------
(* request_cancel() of task u by thread x: request_stop() runs the stop    *)
(* callback under u's mutex_; a task that is still Ready becomes Cancelled;*)
(* then, with no lock held, its completion callbacks run one by one.       *)
CancelBegin(x, u) ==
  /\ ~Busy(x) /\ u \notin Locked
  /\ stop' = [stop EXCEPT ![u] = TRUE]
  /\ step' = [step EXCEPT ![x] = IF stop[u] THEN "ready" ELSE "stop"]
  /\ target' = [target EXCEPT ![x] = u]
  /\ UNCHANGED firing

Await(t) == <<t, ip[t]>>
IsSleep(a) == Body(a[1])[a[2]].op = "sleep"

(* The callback of a sleep also withdraws the timer, if it knows its id.   *)
StopCallback(x) ==
  LET u == target[x] IN
  /\ step[x] = "stop"
  /\ step' = [step EXCEPT ![x] = "ready"]
  /\ \/ /\ u \notin stopcb
        /\ UNCHANGED <<hs, cancelled, stopcb, timers>> /\ NoPost
     \/ /\ u \in stopcb
        /\ TriggerCancel(x, Await(u))
        /\ stopcb' = stopcb \ {u}
        /\ timers' = timers \ ({Await(u)} \cap timerId)
  /\ UNCHANGED <<tasks, callbacks, handoff, published, timerId, gmutex, workers,
                 target, firing, outside, destroyed>>

CancelIfReady(x) ==
  LET u == target[x] IN
  /\ step[x] = "ready"
  /\ step' = [step EXCEPT ![x] = "none"]
  /\ target' = [target EXCEPT ![x] = None]
  /\ \/ /\ state[u] = "Ready"
        /\ SetState(u, "Cancelled") /\ RecordCancelledBeforeStart
        /\ firing' = [firing EXCEPT ![x] = callbacks[u]]
        /\ callbacks' = [callbacks EXCEPT ![u] = {}]
     \/ /\ state[u] # "Ready"
        /\ UNCHANGED <<state, firing, callbacks, gauge>>
  /\ UNCHANGED <<stop, pc, ip, hs, cancelled, stopcb, handoff, published, clock, queues,
                 workers, slot, outside, destroyed, posts>>

Deliver(x) ==
  /\ step[x] = "none"
  /\ \E a \in firing[x] : /\ Trigger(x, a)
                          /\ firing' = [firing EXCEPT ![x] = @ \ {a}]
  /\ UNCHANGED <<tasks, callbacks, stopcb, handoff, published, clock, gmutex, workers,
                 step, target, outside, destroyed>>
-----------------------------------------------------------------------------
(* The body of the innermost task of worker w. *)

At(w, place) ==
  /\ stack[w] # <<>> /\ w \notin leaving /\ pending[w] = None /\ ~Busy(w)
  /\ pc[Top(w)] = place

Following(t) == Body(t)[ip[t] + 1]
NextIs(w, op) == /\ At(w, "body")
                 /\ ip[Top(w)] < Len(Body(Top(w)))
                 /\ Following(Top(w)).op = op
Advanced(t) == ip' = [ip EXCEPT ![t] = @ + 1]
Done(t) == state[t] \in Terminal

(* TaskHandleAwaiter::await_ready(): a task that awaits itself is told so. *)
BeginAwait(w) ==
  LET t == Top(w)  u == Following(t).of IN
  /\ NextIs(w, "await")
  /\ Advanced(t)
  /\ Goto(t, IF u = t THEN "error" ELSE IF Done(u) THEN "resumed" ELSE "register")
  /\ UNCHANGED <<state, stop, awaits, clock, queues, workers, slot, jobs, outside,
                 destroyed, posts>>

Of(t) == Body(t)[ip[t]].of

MutantRegister(w) ==
  LET t == Top(w)  a == Await(t) IN
  /\ At(w, "register")
  /\ \/ /\ stop[t]
        /\ Goto(t, "unwind")
        /\ UNCHANGED <<callbacks, handoff>>
     \/ /\ ~stop[t] /\ Of(t) \notin Locked
        /\ handoff' = [handoff EXCEPT ![t] = @ + 1]
        /\ Goto(t, "stopcb")
        /\ callbacks' = [callbacks EXCEPT ![Of(t)] = @ \cup {a}]
  /\ NoPost
  /\ UNCHANGED <<state, stop, ip, hs, cancelled, stopcb, published, clock, gmutex, workers,
                 jobs, outside, destroyed>>

(* TaskControlBlock::add_completion_callback(): at once if it is over.     *)
AddCompletion(w, u, a) ==
  /\ u \notin Locked
  /\ \/ /\ Done(u) /\ Trigger(w, a)
        /\ UNCHANGED callbacks
     \/ /\ ~Done(u) /\ NoPost
        /\ callbacks' = [callbacks EXCEPT ![u] = @ \cup {a}]
        /\ UNCHANGED <<hs, cancelled>>

(* tcb_arm_task_await() announces the hand-off, then registers.            *)
ArmTask(w, t) ==
  /\ handoff' = [handoff EXCEPT ![t] = @ + 1]
  /\ AddCompletion(w, Of(t), Await(t))
  /\ Goto(t, "stopcb")

(* await_suspend() throws if the awaiting task was stopped.                *)
Register(w) ==
  LET t == Top(w) IN
  /\ At(w, "register")
  /\ \/ /\ stop[t] /\ Goto(t, "unwind") /\ NoPost
        /\ UNCHANGED <<hs, cancelled, callbacks, handoff>>
     \/ ~stop[t] /\ ArmTask(w, t)
  /\ UNCHANGED <<state, stop, ip, stopcb, published, clock, gmutex, workers, jobs,
                 outside, destroyed>>

MutantEmplace(w) ==
  LET t == Top(w)  a == Await(t) IN
  /\ At(w, "stopcb")
  /\ Goto(t, IF IsSleep(a) THEN "check" ELSE "suspend")
  /\ stopcb' = stopcb \cup {t}
  /\ UNCHANGED <<state, stop, ip, hs, cancelled, callbacks, handoff, published, clock,
                 queues, workers, slot, jobs, outside, destroyed, posts>>

(* Construct the stop_callback: it runs inline if already stopped.         *)
Emplace(w) ==
  LET t == Top(w)  a == Await(t) IN
  /\ At(w, "stopcb")
  /\ Goto(t, IF IsSleep(a) THEN "check" ELSE "suspend")
  /\ \/ stop[t] /\ TriggerCancel(w, a) /\ UNCHANGED stopcb
     \/ ~stop[t] /\ stopcb' = stopcb \cup {t} /\ UNCHANGED <<hs, cancelled>> /\ NoPost
  /\ UNCHANGED <<state, stop, ip, callbacks, handoff, published, clock, gmutex, workers,
                 jobs, outside, destroyed>>

Suspend(w) ==
  LET t == Top(w) IN
  /\ At(w, "suspend") /\ t \notin Locked
  /\ ToSuspended(t)
  /\ Goto(t, IF IsSleep(Await(t)) THEN "stopcb" ELSE "arm")
  /\ UNCHANGED <<stop, ip, awaits, clock, queues, workers, slot, jobs, outside,
                 destroyed, posts>>

(* AwaitHandshake::arm().                                                  *)
Arm(w) ==
  LET t == Top(w)  a == Await(t) IN
  /\ At(w, "arm")
  /\ \/ hs[a] = "Init" /\ hs' = [hs EXCEPT ![a] = "Armed"] /\ NoPost
     \/ hs[a] = "Triggered" /\ hs' = [hs EXCEPT ![a] = "Resolved"] /\ Post(w, a)
  /\ Goto(t, "publish")
  /\ UNCHANGED <<state, stop, ip, cancelled, callbacks, stopcb, handoff, published, clock,
                 gmutex, workers, jobs, outside, destroyed>>

(* publish_await_suspend(), the last that await_suspend() does.            *)
PublishSuspend(w) ==
  LET t == Top(w) IN
  /\ At(w, "publish")
  /\ published' = [published EXCEPT ![t] = handoff[t]]
  /\ Goto(t, "suspended")
  /\ leaving' = leaving \cup {w}
  /\ UNCHANGED <<state, stop, ip, hs, cancelled, callbacks, stopcb, handoff, clock, queues,
                 stack, pending, slot, jobs, outside, destroyed, posts>>

(* tcb_arm_yield(): no handshake (its entry just becomes Resolved); the    *)
(* resume is posted from inside await_suspend().                           *)
ArmYield(w, t, a) ==
  /\ t \notin Locked
  /\ ToSuspended(t)
  /\ handoff' = [handoff EXCEPT ![t] = @ + 1]
  /\ hs' = [hs EXCEPT ![a] = "Resolved"]
  /\ Post(w, a)
  /\ Goto(t, "publish")

(* YieldAwaiter::await_suspend().                                          *)
Yield(w) ==
  LET t == Top(w) IN
  /\ NextIs(w, "yield")
  /\ Advanced(t)
  /\ \/ /\ stop[t] /\ Goto(t, "unwind") /\ NoPost
        /\ UNCHANGED <<state, hs, handoff, gauge>>
     \/ ~stop[t] /\ ArmYield(w, t, <<t, ip[t] + 1>>)
  /\ UNCHANGED <<stop, cancelled, callbacks, stopcb, published, clock, gmutex, workers,
                 jobs, outside, destroyed>>

(* cancellation_point(): a stopped task unwinds here, another goes on.     *)
Point(w) ==
  LET t == Top(w) IN
  /\ NextIs(w, "point")
  /\ Advanced(t)
  /\ Goto(t, IF stop[t] THEN "unwind" ELSE "body")
  /\ UNCHANGED <<state, stop, awaits, clock, queues, workers, slot, jobs, outside,
                 destroyed, posts>>

(* SleepAwaiter: the wake time may have passed already.                    *)
BeginSleep(w) ==
  LET t == Top(w) IN
  /\ NextIs(w, "sleep")
  /\ Advanced(t)
  /\ \/ stop[t] /\ Goto(t, "unwind")
     \/ ~stop[t] /\ UNCHANGED pc
     \/ ~stop[t] /\ Goto(t, "suspend")
  /\ UNCHANGED <<state, stop, awaits, clock, queues, workers, slot, jobs, outside,
                 destroyed, posts>>

(* tcb_arm_sleep(): a last look at the stop token, then the registrar ...  *)
RegisterTimer(w) ==
  LET t == Top(w) IN
  /\ At(w, "check")
  /\ \/ /\ stop[t]
        /\ stopcb' = stopcb \ {t}
        /\ Goto(t, "unwind")
        /\ UNCHANGED <<handoff, timers>>
     \/ /\ ~stop[t]
        /\ handoff' = [handoff EXCEPT ![t] = @ + 1]
        /\ timers' = timers \cup {Await(t)}
        /\ Goto(t, "id")
        /\ UNCHANGED stopcb
  /\ UNCHANGED <<state, stop, ip, hs, cancelled, callbacks, published, timerId, queues,
                 workers, slot, jobs, outside, destroyed, posts>>

(* ... the id is stored for the stop callback ...                          *)
StoreTimerId(w) ==
  /\ At(w, "id")
  /\ timerId' = timerId \cup {Await(Top(w))}
  /\ Goto(Top(w), "recheck")
  /\ UNCHANGED <<state, stop, ip, awaits, timers, queues, workers, slot, jobs, outside,
                 destroyed, posts>>

(* ... and a callback that came too early for it is made good.             *)
Recheck(w) ==
  /\ At(w, "recheck")
  /\ timers' = IF stop[Top(w)] THEN timers \ {Await(Top(w))} ELSE timers
  /\ Goto(Top(w), "arm")
  /\ UNCHANGED <<state, stop, ip, awaits, timerId, queues, workers, slot, jobs, outside,
                 destroyed, posts>>

(* ResultCell::get(): the outcome of the target is passed on.              *)
Got(u) == CASE state[u] = "Cancelled" -> "unwind"
            [] state[u] = "Failed" -> "error"
            [] OTHER -> "body"

(* await_resume(): throws if the await was cancelled, else it is a get().  *)
Resumed(w) ==
  LET t == Top(w) IN
  /\ At(w, "resumed")
  /\ stopcb' = stopcb \ {t}
  /\ \/ Await(t) \in cancelled /\ Goto(t, "unwind")
     \/ Await(t) \notin cancelled /\ Of(t) # None /\ Goto(t, Got(Of(t)))
     \/ Await(t) \notin cancelled /\ Of(t) = None /\ Goto(t, "body")
  /\ UNCHANGED <<state, stop, ip, hs, cancelled, callbacks, handoff, published, clock,
                 queues, workers, slot, jobs, outside, destroyed, posts>>

(* The task calls TaskHandle::request_cancel(). *)
CallCancel(w) ==
  LET t == Top(w) IN
  /\ NextIs(w, "cancel")
  /\ Advanced(t)
  /\ CancelBegin(w, Following(t).of)
  /\ UNCHANGED <<state, pc, awaits, clock, queues, workers, slot, outside, destroyed, posts>>

(* The task calls wait(), get() or wait_for(): perform_caller_wait() on a  *)
(* worker.  It refuses a task that waits for itself, and to help too deep; *)
(* the time of a wait_for() may be over before it looks.                   *)
Returns(t, o) == Goto(t, IF o.op = "get" THEN Got(o.of) ELSE "body")
BeginWait(w) ==
  LET t == Top(w)  o == Following(t) IN
  /\ \E op \in Waits : NextIs(w, op)
  /\ Advanced(t)
  /\ \/ o.of = t /\ Goto(t, "error")
     \/ o.of # t /\ (Done(o.of) \/ o.op = "wait_for") /\ Returns(t, o)
     \/ o.of # t /\ ~Done(o.of) /\ Goto(t, IF Len(stack[w]) > MaxDepth THEN "error" ELSE "waiting")
  /\ UNCHANGED <<state, stop, awaits, clock, queues, workers, slot, jobs, outside,
                 destroyed, posts>>

WaitDone(w) ==
  LET t == Top(w) IN
  /\ At(w, "waiting") /\ Done(Of(t))
  /\ Returns(t, Body(t)[ip[t]])
  /\ UNCHANGED <<state, stop, ip, awaits, clock, queues, workers, slot, jobs, outside,
                 destroyed, posts>>

(* wait_for() has run out of time: the task it waited for is left alone.   *)
WaitTimesOut(w) ==
  LET t == Top(w) IN
  /\ At(w, "waiting") /\ Body(t)[ip[t]].op = "wait_for"
  /\ Goto(t, "body")
  /\ UNCHANGED <<state, stop, ip, awaits, clock, queues, workers, slot, jobs, outside,
                 destroyed, posts>>

Outcome(t) == CASE pc[t] = "unwind" -> "Cancelled"
                [] pc[t] = "error" -> "Failed"
                [] OTHER -> "Succeeded"

(* succeed(), set_cancelled(), set_exception(): the state and the taking   *)
(* of the callbacks under mutex_; the callbacks run inside the task.       *)
Finish(w) ==
  LET t == Top(w) IN
  /\ \/ At(w, "body") /\ ip[t] = Len(Body(t))
     \/ At(w, "unwind") \/ At(w, "error")
  /\ t \notin Locked
  /\ SetState(t, Outcome(t)) /\ RecordEnded
  /\ firing' = [firing EXCEPT ![w] = callbacks[t]]
  /\ callbacks' = [callbacks EXCEPT ![t] = {}]
  /\ Goto(t, "done")
  /\ leaving' = leaving \cup {w}
  /\ UNCHANGED <<stop, ip, hs, cancelled, stopcb, handoff, published, clock, queues,
                 stack, pending, slot, step, target, outside, destroyed, posts>>
-----------------------------------------------------------------------------
(* A worker's loop, and the helping loop of one that waits. *)

InLoop(w) == stack[w] = <<>> /\ pending[w] = None /\ ~Busy(w)
Helping(w) == At(w, "waiting") /\ ~Done(Of(Top(w)))

MutantClaim(w) ==
  /\ InLoop(w)
  /\ \/ \E i \in local : /\ local' = local \ {i}
                         /\ pending' = [pending EXCEPT ![w] = i]
                         /\ UNCHANGED global
     \/ /\ gmutex = None
        /\ \E i \in global : /\ global' = global \ {i}
                             /\ pending' = [pending EXCEPT ![w] = i]
        /\ UNCHANGED local
  /\ UNCHANGED <<tasks, awaits, clock, gmutex, stack, leaving, slot, jobs, outside,
                 destroyed, posts>>

(* The helping loop takes nothing from the global queues under Immediate.  *)
Claim(w) ==
  /\ InLoop(w) \/ Helping(w)
  /\ \/ \E i \in local : /\ local' = local \ {i}
                         /\ pending' = [pending EXCEPT ![w] = i]
                         /\ UNCHANGED global
     \/ /\ gmutex = None /\ ~(Helping(w) /\ immediate)
        /\ \E i \in global : /\ global' = global \ {i}
                             /\ pending' = [pending EXCEPT ![w] = i]
        /\ UNCHANGED local
  /\ UNCHANGED <<tasks, awaits, clock, gmutex, stack, leaving, slot, jobs, outside,
                 destroyed, posts>>

Pushed(w, t) == stack' = [stack EXCEPT ![w] = Append(@, [task |-> t, before |-> handoff[t]])]

(* TaskControlBlock::try_start() when it returns true.                     *)
TryStart(t) ==
  /\ t \notin Locked /\ state[t] = "Ready"
  /\ SetState(t, "Running") /\ RecordFirstStart

(* The worker loop cancels a start it claimed if the mode is Immediate by  *)
(* now; else try_start() decides, under mutex_, between running it and     *)
(* abandoning one that was cancelled meanwhile.                            *)
BeginStart(w) ==
  /\ ~Busy(w)
  /\ pending[w] \in Starts
  /\ pending' = [pending EXCEPT ![w] = None]
  /\ LET t == pending[w][1] IN
     \/ /\ immediate /\ stack[w] = <<>>
        /\ CancelBegin(w, t)
        /\ UNCHANGED <<state, pc, stack, destroyed, gauge>>
     \/ /\ ~(immediate /\ stack[w] = <<>>)
        /\ TryStart(t) /\ Goto(t, "body") /\ Pushed(w, t)
        /\ UNCHANGED <<stop, jobs, destroyed>>
     \/ /\ ~(immediate /\ stack[w] = <<>>)
        /\ t \notin Locked /\ state[t] # "Ready"
        /\ destroyed' = [destroyed EXCEPT ![t] = @ + 1]
        /\ UNCHANGED <<state, pc, stop, stack, jobs, gauge>>
  /\ UNCHANGED <<ip, awaits, clock, queues, leaving, slot, outside, posts>>

MutantBeginResume(w) ==
  /\ ~Busy(w)
  /\ pending[w] \in Awaits
  /\ LET t == pending[w][1] IN
     /\ t \notin Locked
     /\ state' = IF state[t] = "Suspended" THEN [state EXCEPT ![t] = "Running"] ELSE state
     /\ RecordResumed
     /\ Goto(t, "resumed")
     /\ Pushed(w, t)
  /\ pending' = [pending EXCEPT ![w] = None]
  /\ UNCHANGED <<stop, ip, awaits, clock, queues, leaving, slot, jobs, outside,
                 destroyed, posts>>

(* CoroutineResumeInvoker::execute(): not before await_suspend() is over.  *)
BeginResume(w) ==
  /\ ~Busy(w)
  /\ pending[w] \in Awaits
  /\ LET t == pending[w][1] IN
     /\ published[t] >= handoff[t]
     /\ t \notin Locked
     /\ state' = IF state[t] = "Suspended" THEN [state EXCEPT ![t] = "Running"] ELSE state
     /\ RecordResumed
     /\ Goto(t, "resumed")
     /\ Pushed(w, t)
  /\ pending' = [pending EXCEPT ![w] = None]
  /\ UNCHANGED <<stop, ip, awaits, clock, queues, leaving, slot, jobs, outside,
                 destroyed, posts>>

Popped(w) == stack' = [stack EXCEPT ![w] = Front(@)]

MutantFlush(w) ==
  LET outer == Front(stack[w]) IN
  \/ slot[w] = None /\ UNCHANGED <<slot, local>>
  \/ /\ slot[w] # None /\ slot[w].owner # Top(w) /\ outer = <<>>
     /\ local' = local \cup {slot[w].item}
     /\ slot' = [slot EXCEPT ![w] = None]
  \/ /\ slot[w] # None /\ (slot[w].owner = Top(w) \/ outer # <<>>)
     /\ UNCHANGED <<slot, local>>

(* ~TaskExecutionContextGuard(): restore the outer task, then post the     *)
(* deferred resume, unless the outer task owns it; inside the outer task   *)
(* posting it defers it again.                                             *)
Flush(w) ==
  LET outer == Front(stack[w]) IN
  \/ slot[w] = None /\ UNCHANGED <<slot, local>>
  \/ /\ slot[w] # None /\ outer = <<>>
     /\ local' = local \cup {slot[w].item}
     /\ slot' = [slot EXCEPT ![w] = None]
  \/ /\ slot[w] # None /\ outer # <<>>
     /\ slot' = [slot EXCEPT ![w].owner = Last(outer).task]
     /\ UNCHANGED local

MutantLeave(w) ==
  LET t == Top(w) IN
  /\ w \in leaving /\ ~Busy(w)
  /\ leaving' = leaving \ {w}
  /\ destroyed' = IF t \in Coroutines /\ pc[t] = "done"
                  THEN [destroyed EXCEPT ![t] = @ + 1] ELSE destroyed
  /\ Popped(w)
  /\ Flush(w)
  /\ UNCHANGED <<tasks, awaits, clock, global, gmutex, pending, jobs, outside, posts>>

(* resume() has returned: a segment that handed the frame on leaves it     *)
(* alone, the one that ran to the end destroys it.                         *)
Leave(w) ==
  LET t == Top(w) IN
  /\ w \in leaving /\ ~Busy(w)
  /\ leaving' = leaving \ {w}
  /\ destroyed' = IF t \in Coroutines /\ handoff[t] = Last(stack[w]).before /\ pc[t] = "done"
                  THEN [destroyed EXCEPT ![t] = @ + 1] ELSE destroyed
  /\ Popped(w)
  /\ Flush(w)
  /\ UNCHANGED <<tasks, awaits, clock, global, gmutex, pending, jobs, outside, posts>>

(* process_due_timers() is called from the worker loop only.               *)
FireTimer(w) ==
  /\ InLoop(w)
  /\ \E a \in timers : timers' = timers \ {a} /\ Trigger(w, a)
  /\ UNCHANGED <<tasks, callbacks, stopcb, handoff, published, timerId, gmutex, workers,
                 jobs, outside, destroyed>>
-----------------------------------------------------------------------------
(* Outside threads. *)

Cancel(c) ==
  /\ c \in Cancellers /\ cpc[c] = "idle"
  /\ cpc' = [cpc EXCEPT ![c] = "done"]
  /\ CancelBegin(c, Cancels[c])
  /\ UNCHANGED <<state, pc, ip, awaits, clock, queues, workers, slot, immediate, cancelling,
                 destroyed, posts>>

(* request_shutdown_mode(Immediate), then ReadyQueues::cancel_unstarted()  *)
(* with global_mutex_ held while it cancels what it finds.                 *)
ShutdownNow(c) ==
  /\ c \in Closers /\ cpc[c] = "idle" /\ ~immediate
  /\ immediate' = TRUE
  /\ gmutex' = c
  /\ cpc' = [cpc EXCEPT ![c] = "global"]
  /\ UNCHANGED <<tasks, awaits, clock, global, local, workers, slot, jobs, cancelling,
                 destroyed, posts>>

CancelUnstarted(c) ==
  /\ cpc[c] = "global" /\ ~Busy(c)
  /\ \/ \E i \in global \cap Starts : /\ global' = global \ {i}
                                      /\ CancelBegin(c, i[1])
                                      /\ UNCHANGED <<gmutex, cpc, timers, cancelling>>
     \/ /\ global \cap Starts = {}
        /\ gmutex' = None
        /\ cpc' = [cpc EXCEPT ![c] = "timers"]
        /\ cancelling' = timers /\ timers' = {}   \* cancel_all_timers()
        /\ UNCHANGED <<stop, jobs, global>>
  /\ UNCHANGED <<state, pc, ip, awaits, timerId, local, workers, slot, immediate,
                 destroyed, posts>>

CancelTimer(c) ==
  /\ cpc[c] = "timers"
  /\ \/ \E a \in cancelling : /\ TriggerCancel(c, a)
                              /\ cancelling' = cancelling \ {a}
                              /\ UNCHANGED cpc
     \/ /\ cancelling = {}
        /\ cpc' = [cpc EXCEPT ![c] = "done"]
        /\ UNCHANGED <<hs, cancelled, cancelling>> /\ NoPost
  /\ UNCHANGED <<tasks, callbacks, stopcb, handoff, published, clock, gmutex, workers,
                 jobs, immediate, destroyed>>
-----------------------------------------------------------------------------
Callbacks(x) == CancelIfReady(x) \/ ((StopCallback(x) \/ Deliver(x)) /\ UNCHANGED gauge)
Quietly(w) == \/ BeginAwait(w) \/ Register(w) \/ Emplace(w) \/ Arm(w) \/ PublishSuspend(w)
              \/ BeginSleep(w) \/ Point(w) \/ RegisterTimer(w) \/ StoreTimerId(w) \/ Recheck(w)
              \/ Resumed(w) \/ CallCancel(w) \/ BeginWait(w) \/ WaitDone(w)
              \/ WaitTimesOut(w) \/ Claim(w) \/ Leave(w) \/ FireTimer(w)
Worker(w) == \/ Callbacks(w) \/ Suspend(w) \/ Yield(w) \/ Finish(w)
             \/ BeginStart(w) \/ BeginResume(w) \/ (Quietly(w) /\ UNCHANGED gauge)
Outside(c) == Callbacks(c) \/ ((CancelUnstarted(c) \/ CancelTimer(c)) /\ UNCHANGED gauge)
Request(c) == (Cancel(c) \/ ShutdownNow(c)) /\ UNCHANGED gauge

Next == /\ \/ \E w \in Workers : Worker(w)
           \/ \E c \in Cancellers \cup Closers : Outside(c) \/ Request(c)
        /\ UNCHANGED program

Spec == Init /\ [][Next]_vars

(* Threads that can take a step take it; a request_cancel() or a shutdown  *)
(* need not come.  Tasks do not loop, so weak fairness serves every item.  *)
FairSpec ==
  /\ Spec
  /\ \A w \in Workers : WF_vars(Worker(w) /\ UNCHANGED program)
  /\ \A c \in Cancellers \cup Closers : WF_vars(Outside(c) /\ UNCHANGED program)
-----------------------------------------------------------------------------
(* R-074: a frame has one resume owner: no two workers execute one task,   *)
(* and a worker resumes it only after await_suspend() has returned, when   *)
(* the previous owner has no more to do with the frame.                    *)
Segments(t) == {wk \in Workers \X (1 .. MaxDepth + 1) :
                  LET w == wk[1]  k == wk[2] IN
                  /\ k \in DOMAIN stack[w] /\ stack[w][k].task = t
                  /\ ~(k = Len(stack[w]) /\ w \in leaving)}
OneResumeOwner == \A t \in Tasks : Cardinality(Segments(t)) <= 1

(* R-074: a coroutine frame is destroyed at most once, when the task is    *)
(* terminal and nobody executes it or holds a ready item of it.            *)
InFlight == global \cup local \cup {pending[w] : w \in Workers}
            \cup {slot[w].item : w \in {v \in Workers : slot[v] # None}}
FrameDestroyedOnce ==
  \A t \in Coroutines :
    /\ destroyed[t] <= 1
    /\ destroyed[t] = 1 => Done(t) /\ Segments(t) = {} /\ \A i \in InFlight : i = None \/ i[1] # t

(* R-074: no wake is lost: for every suspended coroutine there is, at any  *)
(* moment, something that will resume it, and what it awaits tells what.   *)
Suspended(t) == pc[t] = "suspended"
WakerExists ==
  \A t \in Tasks : Suspended(t) =>
    LET a == Await(t) IN
    \/ hs[a] = "Resolved" /\ a \in InFlight
    \/ hs[a] = "Armed" /\ \E x \in Threads : a \in firing[x]
    \/ hs[a] = "Armed" /\ a \in timers \cup cancelling
    \/ hs[a] = "Armed" /\ \E u \in Tasks : a \in callbacks[u] /\ ~Done(u)
    \/ hs[a] = "Armed" /\ t \in stopcb /\ \E x \in Threads : step[x] = "stop" /\ target[x] = t

(* R-075, R-079: a cancel request reaches a coroutine in whatever phase of *)
(* suspending it finds it: its resume is posted, its timer withdrawn.      *)
StopReaches ==
  \A t \in Tasks : Suspended(t) /\ stop[t] /\ t \notin Locked =>
    hs[Await(t)] = "Resolved" /\ Await(t) \notin timers

(* One await posts at most one resume, however many stale callbacks and    *)
(* timers of earlier awaits fire later.                                    *)
PostedOnce == \A a \in Awaits : posts[a] <= 1

(* R-084: the metrics agree with the tasks in every reachable state,       *)
(* whoever starts, resumes, ends or cancels them.  The exception are       *)
(* coroutines cancelled at a sleep that was not armed: after they have     *)
(* been counted as suspended, they end without having been resumed.        *)
In(states) == Cardinality({t \in DOMAIN program.body : state[t] \in states})
Unarmed == {t \in DOMAIN program.body :
              /\ state[t] = "Cancelled" /\ ip[t] > 0
              /\ IsSleep(Await(t)) /\ hs[Await(t)] # "Resolved"}
GaugesAgree ==
  /\ gauge["ready"] = In({"Ready"}) /\ gauge["ended"] = In(Terminal)
  /\ gauge["suspended"] - In({"Suspended"}) \in 0 .. Cardinality(Unarmed)
  /\ gauge["running"] <= In({"Running"})
  /\ Unarmed = {} => gauge["running"] = In({"Running"})

(* The types, and what happens once: the resume of an await, the end of a  *)
(* frame, the passage of a task from one gauge to the next. *)
Inv == TypeOK /\ PostedOnce /\ FrameDestroyedOnce /\ GaugesAgree

(* R-055: a wait() on a worker returns. *)
Waiters == {t \in Tasks : \E p \in Programs : 
                             t \in DOMAIN p.body /\ \E o \in ToSet(p.body[t]) : o.op \in Waits}
WaitReturns == \A t \in Waiters : pc[t] = "waiting" ~> pc[t] # "waiting"

(* R-074: a coroutine whose await is over gets to run again. *)
ResumesRun == \A t \in Coroutines : (Suspended(t) /\ hs[Await(t)] = "Resolved") ~> ~Suspended(t)

(* R-059, R-075: a resume in the global queue is claimed, under Immediate  *)
(* too, for the coroutine may need it to unwind.                           *)
ResumeClaimed == \A a \in Awaits : a \in global ~> a \notin global

(* R-010: shutdown_now() gets through cancel_unstarted(). *)
CancelReturns == \A c \in Closers : cpc[c] = "global" ~> cpc[c] # "global"

(* R-085: at a quiescent point no task is counted as running or suspended. *)
QuiescentConserves ==
  In(Terminal) = Cardinality(DOMAIN program.body) =>
    gauge["running"] = 0 /\ gauge["suspended"] = 0

(* R-073: a coroutine frame always has an owner: when nothing refers to it *)
(* any more it has been destroyed.                                         *)
FrameReclaimed ==
  \A t \in Coroutines :
    Done(t) /\ Segments(t) = {} /\ (\A w \in Workers : stack[w] = <<>> /\ ~Busy(w))
      /\ (\A i \in InFlight : i = None \/ i[1] # t)
    => destroyed[t] = 1 \/ \E c \in Closers : Busy(c)
=============================================================================
