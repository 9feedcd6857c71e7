---------------------------- MODULE RuntimeCore ----------------------------
(***************************************************************************)
(* One runtime: the worker loop with its park protocol                     *)
(* (src/src/runtime/worker_loop.cpp), publication of work by submitters    *)
(* and by running tasks (post_task_internal), and the shutdown path with   *)
(* its single join leader (shutdown_sync, request_shutdown_mode).          *)
(*                                                                         *)
(* A "task" is one invoker: a submitted callable, or one resume segment of *)
(* a coroutine.  After[t] is what task t publishes while it runs: a task   *)
(* it submits, a segment it yields to, or a segment that sleeps in the     *)
(* timer queue first.  The selection order of the queues (bands, EDF,      *)
(* calendar) is left open here: a queue is a set.  Slots are left to       *)
(* AdmissionController, the startup barrier and the Reaper to others.      *)
(***************************************************************************)
EXTENDS Naturals, FiniteSets

CONSTANTS
  Workers,     \* worker threads
  Submitters,  \* outside threads that submit one task each
  Closers,     \* outside threads that call shutdown() or shutdown_now() once
  Tasks,       \* invokers
  Segments,    \* the invokers that resume a started coroutine
  Sleepers,    \* the segments that wait for a timer first
  FirstTask,   \* FirstTask[s]: what submitter s submits
  After,       \* After[t]: what t publishes while it runs, or NoTask
  Wanted,      \* Wanted[c]: the mode closer c asks for
  NoTask, NoThread

Modes == {"None", "Graceful", "Immediate"}

(* validate_options() refuses a runtime without workers.                   *)
ASSUME RuntimeAssumption ==
  /\ IsFiniteSet(Workers) /\ Workers # {}
  /\ Sleepers \subseteq Segments /\ Segments \subseteq Tasks
  /\ FirstTask \in [Submitters -> Tasks \ Segments]
  /\ After \in [Tasks -> Tasks \cup {NoTask}]
  /\ Wanted \in [Closers -> {"Graceful", "Immediate"}]
  /\ NoTask \notin Tasks
  /\ NoThread \notin Workers \cup Closers
  /\ Workers \cap Closers = {}

(* An invoker is made by the one call that submits it or by one suspension *)
(* of its coroutine, and is owned by whoever holds it (a unique_ptr).      *)
ASSUME PublisherAssumption ==
  /\ \A s, z \in Submitters : FirstTask[s] = FirstTask[z] => s = z
  /\ \A t, u \in Tasks : After[t] = After[u] /\ After[t] \in Tasks => t = u
  /\ \A s \in Submitters, t \in Tasks : FirstTask[s] # After[t]

VARIABLES
  state, mode,   \* packed_status
  stopRequested, \* stop_requested, written under lifecycle_mutex
  mutex,         \* the holder of lifecycle_mutex
  global,        \* the global ready queues
  local,         \* local[w]: the local queues of worker w
  timers,        \* the timer queue
  inHand,        \* inHand[c]: work closer c has taken out of a queue
  claimed,       \* claimed_count_
  asleep,        \* workers blocked in work_cv
  timed,         \* workers whose wait has a deadline
  moved,         \* workers whose snapshot of work_epoch is out of date
  owed,          \* workers and closers that have published and not notified yet
  wpc, wtask,    \* each worker's place in the loop, and the task it holds
  firing,        \* firing[w]: the due timers w has collected and not yet posted
  seenMode,      \* the shutdown mode each closer loaded after joining
  spc, cpc,      \* each submitter's and each closer's place
  inProgress, stopped, \* the shared shutdown completion (gate)
  joins,         \* how often the workers have been joined
  fate,          \* what has become of each task
  raced          \* history: tasks admitted but not yet queued when status left Running

status == <<state, mode, stopRequested>>
queues == <<global, local, timers, inHand>>
parking == <<asleep, timed, moved, owed>>
workers == <<wpc, wtask, firing, claimed>>
gate == <<inProgress, stopped, joins>>
vars == <<status, mutex, queues, parking, workers, seenMode, spc, cpc, gate, fate, raced>>

WorkerSteps == {"top", "global", "again", "steal", "count", "check", "cancel", "start",
                "run", "spawn", "ran", "complete", "observe", "lock", "predicate",
                "block", "asleep", "woken", "stealWoken", "relock", "exit",
                "exitGraceful", "exitClaims", "exitImmediate", "exited"}
SubmitterSteps == {"idle", "admitted", "published", "rejected", "done"}
CloserSteps == {"idle", "request", "cancelGlobal", "cancelLocal", "putBack", "timers",
                "post", "wake", "flag", "notify", "gate", "wait", "join", "publish",
                "setStopped", "leave", "done"}
Fates == {"unborn", "accepted", "pending", "running", "done", "cancelled", "rejected"}

TypeOK ==
  /\ state \in {"Running", "Stopping", "Stopped"}
  /\ mode \in Modes
  /\ stopRequested \in BOOLEAN
  /\ mutex \in Workers \cup Closers \cup {NoThread}
  /\ global \subseteq Tasks
  /\ local \in [Workers -> SUBSET Tasks]
  /\ timers \subseteq Sleepers
  /\ inHand \in [Closers -> SUBSET Segments]
  /\ claimed \in Nat
  /\ asleep \subseteq Workers /\ timed \subseteq Workers /\ moved \subseteq Workers
  /\ owed \subseteq Workers \cup Closers
  /\ wpc \in [Workers -> WorkerSteps]
  /\ wtask \in [Workers -> Tasks \cup {NoTask}]
  /\ firing \in [Workers -> SUBSET Sleepers]
  /\ seenMode \in [Closers -> Modes]
  /\ spc \in [Submitters -> SubmitterSteps]
  /\ cpc \in [Closers -> CloserSteps]
  /\ inProgress \in BOOLEAN /\ stopped \in BOOLEAN
  /\ joins \in Nat
  /\ fate \in [Tasks -> Fates]
  /\ raced \subseteq Tasks

(* The startup barrier is down: every worker is about to enter its loop.   *)
Init ==
  /\ state = "Running" /\ mode = "None" /\ stopRequested = FALSE
  /\ mutex = NoThread
  /\ global = {} /\ local = [w \in Workers |-> {}]
  /\ timers = {} /\ inHand = [c \in Closers |-> {}]
  /\ claimed = 0
  /\ asleep = {} /\ timed = {} /\ moved = {} /\ owed = {}
  /\ wpc = [w \in Workers |-> "top"]
  /\ wtask = [w \in Workers |-> NoTask]
  /\ firing = [w \in Workers |-> {}]
  /\ seenMode = [c \in Closers |-> "None"]
  /\ spc = [s \in Submitters |-> "idle"]
  /\ cpc = [c \in Closers |-> "idle"]
  /\ inProgress = FALSE /\ stopped = FALSE /\ joins = 0
  /\ fate = [t \in Tasks |-> "unborn"]
  /\ raced = {}

Free == mutex = NoThread
WGoto(w, step) == wpc' = [wpc EXCEPT ![w] = step]
CGoto(c, step) == cpc' = [cpc EXCEPT ![c] = step]
SetFate(ts, f) == fate' = [t \in Tasks |-> IF t \in ts THEN f ELSE fate[t]]

AnyLocal == \E v \in Workers : local[v] # {}
AnyQueued == global # {} \/ AnyLocal
AnyResume == global \cap Segments # {} \/ AnyLocal

(* ++work_epoch, then work_cv.notify_one() / notify_all(). *)
NotifyOne == /\ moved' = Workers
             /\ \/ asleep = {} /\ UNCHANGED asleep
                \/ \E v \in asleep : asleep' = asleep \ {v}
             /\ UNCHANGED timed
NotifyAll == asleep' = {} /\ UNCHANGED <<timed, moved, owed>>

(* Thread x has published something; its next step is to tell the workers. *)
Owe(x) == owed' = owed \cup {x} /\ UNCHANGED <<asleep, timed, moved>>
-----------------------------------------------------------------------------
(* A worker searches: its local queues, the global ones, other workers'.   *)

(* Worker w is neither about to post a due timer nor about to notify.      *)
Settled(w) == firing[w] = {} /\ w \notin owed
At(w, step) == wpc[w] = step /\ Settled(w)

(* process_due_timers(), called at the top of the loop, before parking and *)
(* after waking: the due timers leave the heap together, then their resume *)
(* segments are posted to the calling worker's local queue one by one.     *)
CollectDue(w) ==
  /\ wpc[w] \in {"top", "observe", "woken"} /\ Settled(w)
  /\ \E due \in SUBSET timers \ {{}} : /\ firing' = [firing EXCEPT ![w] = due]
                                       /\ timers' = timers \ due
  /\ UNCHANGED <<status, mutex, global, local, inHand, parking, wpc, wtask, claimed,
                 seenMode, spc, cpc, gate, fate, raced>>

PostDue(w) ==
  /\ w \notin owed
  /\ \E t \in firing[w] : /\ local' = [local EXCEPT ![w] = @ \cup {t}]
                          /\ firing' = [firing EXCEPT ![w] = @ \ {t}]
  /\ Owe(w)
  /\ UNCHANGED <<status, mutex, global, timers, inHand, wpc, wtask, claimed,
                 seenMode, spc, cpc, gate, fate, raced>>

(* The end of post_task_internal() and of register_timer(), after the      *)
(* queue or the heap has been changed.                                     *)
Tell(x) ==
  /\ x \in owed
  /\ NotifyOne
  /\ owed' = owed \ {x}
  /\ UNCHANGED <<status, mutex, queues, workers, seenMode, spc, cpc, gate, fate, raced>>

(* Move task t from a local queue into w's hands; it is counted later.     *)
TakeLocal(w, v) ==
  \E t \in local[v] : /\ local' = [local EXCEPT ![v] = @ \ {t}]
                      /\ wtask' = [wtask EXCEPT ![w] = t]

ClaimLocal(w) ==
  /\ At(w, "top")
  /\ TakeLocal(w, w)
  /\ WGoto(w, "count")
  /\ UNCHANGED <<status, mutex, global, timers, inHand, parking, firing, claimed,
                 seenMode, spc, cpc, gate, fate, raced>>

(* The local queues are empty, or local_burst_limit has been reached.      *)
SkipLocal(w) ==
  /\ At(w, "top")
  /\ WGoto(w, "global")
  /\ UNCHANGED <<status, mutex, queues, parking, wtask, firing, claimed,
                 seenMode, spc, cpc, gate, fate, raced>>

(* claim_global() takes the task and counts it under the queue's mutex.    *)
TakeGlobal(w) ==
  /\ \E t \in global : /\ global' = global \ {t}
                       /\ wtask' = [wtask EXCEPT ![w] = t]
  /\ claimed' = claimed + 1

ClaimGlobal(w) ==
  /\ At(w, "global") /\ Free
  /\ TakeGlobal(w)
  /\ WGoto(w, "check")
  /\ UNCHANGED <<status, mutex, local, timers, inHand, parking, firing,
                 seenMode, spc, cpc, gate, fate, raced>>

GlobalEmpty(w) ==
  /\ At(w, "global") /\ Free /\ global = {}
  /\ WGoto(w, "again")
  /\ UNCHANGED <<status, mutex, queues, parking, wtask, firing, claimed,
                 seenMode, spc, cpc, gate, fate, raced>>

(* The burst limit had kept it from its local queue: try that one now.     *)
ClaimLocalAgain(w) ==
  /\ At(w, "again")
  /\ \/ TakeLocal(w, w) /\ WGoto(w, "count")
     \/ local[w] = {} /\ WGoto(w, "steal") /\ UNCHANGED <<local, wtask>>
  /\ UNCHANGED <<status, mutex, global, timers, inHand, parking, firing, claimed,
                 seenMode, spc, cpc, gate, fate, raced>>

Steal(w) ==
  /\ wpc[w] \in {"steal", "stealWoken"}
  /\ \E v \in Workers \ {w} : TakeLocal(w, v)
  /\ WGoto(w, "count")
  /\ UNCHANGED <<status, mutex, global, timers, inHand, parking, firing, claimed,
                 seenMode, spc, cpc, gate, fate, raced>>

(* Nothing to steal, every probe contended, or steal_probe_limit reached.  *)
StealFails(w) ==
  /\ wpc[w] \in {"steal", "stealWoken"}
  /\ WGoto(w, IF wpc[w] = "steal" THEN "observe" ELSE "relock")
  /\ UNCHANGED <<status, mutex, queues, parking, wtask, firing, claimed,
                 seenMode, spc, cpc, gate, fate, raced>>

(* claim_local() and steal() count the claim after the queue gave it up.   *)
CountClaim(w) ==
  /\ At(w, "count")
  /\ claimed' = claimed + 1
  /\ WGoto(w, "check")
  /\ UNCHANGED <<status, mutex, queues, parking, wtask, firing,
                 seenMode, spc, cpc, gate, fate, raced>>
-----------------------------------------------------------------------------
(* A worker executes what it claimed. *)

(* get_status(), before execute() or cancel_pre_start(). *)
Check(w) ==
  /\ At(w, "check")
  /\ WGoto(w, IF mode = "Immediate" /\ wtask[w] \notin Segments THEN "cancel" ELSE "start")
  /\ UNCHANGED <<status, mutex, queues, parking, wtask, firing, claimed,
                 seenMode, spc, cpc, gate, fate, raced>>

CancelPreStart(w) ==
  /\ At(w, "cancel")
  /\ SetFate({wtask[w]}, "cancelled")
  /\ WGoto(w, "complete")
  /\ UNCHANGED <<status, mutex, queues, parking, wtask, firing, claimed,
                 seenMode, spc, cpc, gate, raced>>

Start(w) ==
  /\ At(w, "start")
  /\ SetFate({wtask[w]}, "running")
  /\ WGoto(w, "run")
  /\ UNCHANGED <<status, mutex, queues, parking, wtask, firing, claimed,
                 seenMode, spc, cpc, gate, raced>>

Following(w) == After[wtask[w]]

(* A running task submits (admission for a worker of this runtime), or its *)
(* coroutine reaches a suspension point, or it has nothing to publish.     *)
Run(w) ==
  /\ At(w, "run")
  /\ \/ /\ Following(w) = NoTask
        /\ WGoto(w, "ran")
        /\ UNCHANGED fate
     \/ /\ Following(w) \in Tasks \ Segments
        /\ state = "Running" \/ (state = "Stopping" /\ mode = "Graceful")
        /\ SetFate({Following(w)}, "accepted")
        /\ WGoto(w, "spawn")
     \/ /\ Following(w) \in Tasks \ Segments
        /\ state # "Running" /\ ~(state = "Stopping" /\ mode = "Graceful")
        /\ SetFate({Following(w)}, "rejected")
        /\ WGoto(w, "ran")
     \/ /\ Following(w) \in Segments
        /\ WGoto(w, "spawn")
        /\ UNCHANGED fate
  /\ UNCHANGED <<status, mutex, queues, parking, wtask, firing, claimed,
                 seenMode, spc, cpc, gate, raced>>

(* post_task_internal() on a worker publishes to its local queue, or to a  *)
(* global one if the task has a deadline or the local one cannot grow;     *)
(* register_timer() files a sleeper and notifies if it became the earliest.*)
Spawn(w) ==
  /\ At(w, "spawn")
  /\ \/ /\ Following(w) \notin Sleepers
        /\ local' = [local EXCEPT ![w] = @ \cup {Following(w)}]
        /\ Owe(w)
        /\ UNCHANGED <<global, timers>>
     \/ /\ Following(w) \notin Sleepers
        /\ global' = global \cup {Following(w)}
        /\ Owe(w)
        /\ UNCHANGED <<local, timers>>
     \/ /\ Following(w) \in Sleepers
        /\ timers' = timers \cup {Following(w)}
        /\ \/ Owe(w)
           \/ timers # {} /\ UNCHANGED parking
        /\ UNCHANGED <<global, local>>
  /\ SetFate({Following(w)}, "pending")
  /\ WGoto(w, "ran")
  /\ UNCHANGED <<status, mutex, inHand, wtask, firing, claimed,
                 seenMode, spc, cpc, gate, raced>>

Ran(w) ==
  /\ At(w, "ran")
  /\ SetFate({wtask[w]}, "done")
  /\ WGoto(w, "complete")
  /\ UNCHANGED <<status, mutex, queues, parking, wtask, firing, claimed,
                 seenMode, spc, cpc, gate, raced>>

(* complete_claim() stops at zero; then work_cv.notify_all(), no lock held.*)
Complete(w) ==
  /\ At(w, "complete")
  /\ claimed' = IF claimed > 0 THEN claimed - 1 ELSE 0
  /\ wtask' = [wtask EXCEPT ![w] = NoTask]
  /\ NotifyAll
  /\ WGoto(w, "top")
  /\ UNCHANGED <<status, mutex, queues, firing, seenMode, spc, cpc, gate, fate, raced>>
-----------------------------------------------------------------------------
(* A worker parks. *)

(* Register as parked, then take a snapshot of work_epoch. *)
Observe(w) ==
  /\ At(w, "observe")
  /\ moved' = moved \ {w}
  /\ WGoto(w, "lock")
  /\ UNCHANGED <<status, mutex, queues, asleep, timed, owed, wtask, firing, claimed,
                 seenMode, spc, cpc, gate, fate, raced>>

(* Take lifecycle_mutex; the wait has a deadline if there is a timer now.  *)
Lock(w) ==
  /\ At(w, "lock") /\ Free
  /\ mutex' = w
  /\ timed' = IF timers # {} THEN timed \cup {w} ELSE timed \ {w}
  /\ WGoto(w, "predicate")
  /\ UNCHANGED <<status, queues, asleep, moved, owed, wtask, firing, claimed,
                 seenMode, spc, cpc, gate, fate, raced>>

MustWake(w) ==
  IF stopRequested
  THEN \/ state = "Stopped" \/ mode = "Immediate"
       \/ AnyQueued
       \/ claimed = 0 /\ timers = {}
  ELSE w \in moved \/ AnyQueued

Predicate(w) ==
  /\ At(w, "predicate")
  /\ WGoto(w, IF MustWake(w) THEN "woken" ELSE "block")
  /\ UNCHANGED <<status, mutex, queues, parking, wtask, firing, claimed,
                 seenMode, spc, cpc, gate, fate, raced>>

(* The predicate was false: release the mutex and sleep, in one step.      *)
Block(w) ==
  /\ At(w, "block")
  /\ mutex' = NoThread
  /\ asleep' = asleep \cup {w}
  /\ WGoto(w, "asleep")
  /\ UNCHANGED <<status, queues, timed, moved, owed, wtask, firing, claimed,
                 seenMode, spc, cpc, gate, fate, raced>>

(* Notified, or woken for no reason: test the predicate again.             *)
Notified(w) ==
  /\ At(w, "asleep") /\ w \notin asleep /\ Free
  /\ mutex' = w
  /\ WGoto(w, "predicate")
  /\ UNCHANGED <<status, queues, parking, wtask, firing, claimed,
                 seenMode, spc, cpc, gate, fate, raced>>

SpuriousWake(w) ==
  /\ w \in asleep
  /\ asleep' = asleep \ {w}
  /\ UNCHANGED <<status, mutex, queues, timed, moved, owed, workers,
                 seenMode, spc, cpc, gate, fate, raced>>

(* wait_until() reached its deadline: it returns whatever the predicate.   *)
TimedOut(w) ==
  /\ At(w, "asleep") /\ w \in timed /\ Free
  /\ asleep' = asleep \ {w}
  /\ mutex' = w
  /\ WGoto(w, "woken")
  /\ UNCHANGED <<status, queues, timed, moved, owed, wtask, firing, claimed,
                 seenMode, spc, cpc, gate, fate, raced>>

(* Awake with the mutex: claim global work, then local work (counted       *)
(* before the mutex is released), else release the mutex and steal.        *)
WokenClaim(w) ==
  /\ At(w, "woken")
  /\ \/ TakeGlobal(w) /\ WGoto(w, "check") /\ UNCHANGED local
     \/ /\ global = {}
        /\ TakeLocal(w, w)
        /\ claimed' = claimed + 1
        /\ WGoto(w, "check")
        /\ UNCHANGED global
     \/ /\ global = {} /\ local[w] = {}
        /\ WGoto(w, "stealWoken")
        /\ UNCHANGED <<global, local, wtask, claimed>>
  /\ mutex' = NoThread
  /\ UNCHANGED <<status, timers, inHand, parking, firing,
                 seenMode, spc, cpc, gate, fate, raced>>

Relock(w) ==
  /\ At(w, "relock") /\ Free
  /\ mutex' = w
  /\ WGoto(w, "exit")
  /\ UNCHANGED <<status, queues, parking, wtask, firing, claimed,
                 seenMode, spc, cpc, gate, fate, raced>>

(* Found nothing: leave the loop?  First the status and the queues ...     *)
ExitCheck(w) ==
  /\ At(w, "exit")
  /\ \/ /\ stopRequested /\ state = "Stopped"
        /\ WGoto(w, "exited") /\ mutex' = NoThread
     \/ /\ stopRequested /\ state # "Stopped" /\ mode = "Immediate" /\ ~AnyResume
        /\ WGoto(w, "exitImmediate") /\ UNCHANGED mutex
     \/ /\ stopRequested /\ state # "Stopped" /\ mode # "Immediate" /\ ~AnyQueued
        /\ WGoto(w, "exitGraceful") /\ UNCHANGED mutex
     \/ /\ \/ ~stopRequested
           \/ state # "Stopped" /\ mode = "Immediate" /\ AnyResume
           \/ state # "Stopped" /\ mode # "Immediate" /\ AnyQueued
        /\ WGoto(w, "top") /\ mutex' = NoThread
  /\ UNCHANGED <<status, queues, parking, wtask, firing, claimed,
                 seenMode, spc, cpc, gate, fate, raced>>

MutantExitTimers(w) ==
  /\ At(w, "exitGraceful")
  /\ WGoto(w, "exitClaims")
  /\ UNCHANGED <<status, mutex, queues, parking, wtask, firing, claimed,
                 seenMode, spc, cpc, gate, fate, raced>>

(* ... then, unless the mode is Immediate, the timers ...                  *)
ExitTimers(w) ==
  /\ At(w, "exitGraceful")
  /\ \/ timers = {} /\ WGoto(w, "exitClaims") /\ UNCHANGED mutex
     \/ timers # {} /\ WGoto(w, "top") /\ mutex' = NoThread
  /\ UNCHANGED <<status, queues, parking, wtask, firing, claimed,
                 seenMode, spc, cpc, gate, fate, raced>>

MutantExitSilently(w) ==
  /\ wpc[w] \in {"exitClaims", "exitImmediate"} /\ Settled(w)
  /\ WGoto(w, IF claimed = 0 THEN "exited" ELSE "top")
  /\ mutex' = NoThread
  /\ UNCHANGED <<status, queues, parking, wtask, firing, claimed,
                 seenMode, spc, cpc, gate, fate, raced>>

(* ... and the claims last.                                                *)
Exit(w) ==
  /\ wpc[w] \in {"exitClaims", "exitImmediate"} /\ Settled(w)
  /\ IF claimed = 0
     THEN WGoto(w, "exited") /\ NotifyAll
     ELSE WGoto(w, "top") /\ UNCHANGED parking
  /\ mutex' = NoThread
  /\ UNCHANGED <<status, queues, wtask, firing, claimed,
                 seenMode, spc, cpc, gate, fate, raced>>
-----------------------------------------------------------------------------
(* A submitter: admission, publication, notification. *)

SGoto(s, step) == spc' = [spc EXCEPT ![s] = step]

Admit(s) ==
  /\ spc[s] = "idle"
  /\ SGoto(s, IF state = "Running" THEN "admitted" ELSE "rejected")
  /\ SetFate({FirstTask[s]}, IF state = "Running" THEN "accepted" ELSE "rejected")
  /\ UNCHANGED <<status, mutex, queues, parking, workers, seenMode, cpc, gate, raced>>

Publish(s) ==
  /\ spc[s] = "admitted"
  /\ global' = global \cup {FirstTask[s]}
  /\ SetFate({FirstTask[s]}, "pending")
  /\ SGoto(s, "published")
  /\ UNCHANGED <<status, mutex, local, timers, inHand, parking, workers, seenMode,
                 cpc, gate, raced>>

Notify(s) ==
  /\ spc[s] = "published"
  /\ NotifyOne
  /\ SGoto(s, "done")
  /\ UNCHANGED <<status, mutex, queues, owed, workers, seenMode, cpc, gate, fate, raced>>
-----------------------------------------------------------------------------
(* A closer: shutdown_sync(). *)

Call(c) ==
  /\ cpc[c] = "idle"
  /\ CGoto(c, IF state = "Stopped" THEN "done" ELSE "request")
  /\ UNCHANGED <<status, mutex, queues, parking, workers, seenMode, spc, gate, fate, raced>>

(* request_shutdown_mode(): ++work_epoch, then a compare-exchange.         *)
Request(c) ==
  /\ cpc[c] = "request"
  /\ moved' = Workers
  /\ \/ /\ state = "Running"
        /\ state' = "Stopping" /\ mode' = Wanted[c]
        /\ raced' = raced \cup {FirstTask[s] : s \in {x \in Submitters : spc[x] = "admitted"}}
        /\ CGoto(c, IF Wanted[c] = "Immediate" THEN "cancelGlobal" ELSE "wake")
     \/ /\ state = "Stopping" /\ Wanted[c] = "Immediate" /\ mode # "Immediate"
        /\ mode' = "Immediate"
        /\ CGoto(c, "cancelGlobal")
        /\ UNCHANGED <<state, raced>>
     \/ /\ state = "Stopped" \/ (state = "Stopping" /\ (Wanted[c] = "Graceful" \/ mode = "Immediate"))
        /\ CGoto(c, "flag")
        /\ UNCHANGED <<state, mode, raced>>
  /\ UNCHANGED <<stopRequested, mutex, queues, asleep, timed, owed, workers, seenMode, spc, gate, fate>>

MutantCancelDrops(c) ==
  /\ cpc[c] = "cancelGlobal" /\ Free
  /\ mutex' = c
  /\ global' = global \cap Segments
  /\ CGoto(c, "cancelLocal")
  /\ UNCHANGED <<status, local, timers, inHand, parking, workers, seenMode, spc, gate,
                 fate, raced>>

(* cancel_unstarted(), under lifecycle_mutex: never-started tasks of the   *)
(* global queues, then those of the local queues; resume segments found in *)
(* local queues are carried by hand to the global ones.                    *)
CancelGlobal(c) ==
  /\ cpc[c] = "cancelGlobal" /\ Free
  /\ mutex' = c
  /\ global' = global \cap Segments
  /\ SetFate(global \ Segments, "cancelled")
  /\ CGoto(c, "cancelLocal")
  /\ UNCHANGED <<status, local, timers, inHand, parking, workers, seenMode, spc, gate, raced>>

Locals == UNION {local[w] : w \in Workers}

CancelLocal(c) ==
  /\ cpc[c] = "cancelLocal"
  /\ inHand' = [inHand EXCEPT ![c] = Locals \cap Segments]
  /\ local' = [w \in Workers |-> {}]
  /\ SetFate(Locals \ Segments, "cancelled")
  /\ CGoto(c, "putBack")
  /\ UNCHANGED <<status, mutex, global, timers, parking, workers, seenMode, spc, gate, raced>>

MutantPutBack(c) ==
  /\ cpc[c] = "putBack"
  /\ inHand' = [inHand EXCEPT ![c] = {}]
  /\ mutex' = NoThread
  /\ CGoto(c, "timers")
  /\ UNCHANGED <<status, global, local, timers, parking, workers, seenMode, spc, gate,
                 fate, raced>>

PutBack(c) ==
  /\ cpc[c] = "putBack"
  /\ global' = global \cup inHand[c]
  /\ inHand' = [inHand EXCEPT ![c] = {}]
  /\ mutex' = NoThread
  /\ CGoto(c, "timers")
  /\ UNCHANGED <<status, local, timers, parking, workers, seenMode, spc, gate, fate, raced>>

(* cancel_all_timers(): empty the heap, then post every resume.            *)
CancelTimers(c) ==
  /\ cpc[c] = "timers"
  /\ inHand' = [inHand EXCEPT ![c] = timers]
  /\ timers' = {}
  /\ CGoto(c, "post")
  /\ UNCHANGED <<status, mutex, global, local, parking, workers, seenMode, spc, gate, fate, raced>>

PostCancelled(c) ==
  /\ cpc[c] = "post" /\ c \notin owed
  /\ \/ /\ \E t \in inHand[c] : /\ global' = global \cup {t}
                                /\ inHand' = [inHand EXCEPT ![c] = @ \ {t}]
        /\ Owe(c)
        /\ UNCHANGED cpc
     \/ /\ inHand[c] = {}
        /\ CGoto(c, "wake")
        /\ UNCHANGED <<global, inHand, parking>>
  /\ UNCHANGED <<status, mutex, local, timers, workers, seenMode, spc, gate, fate, raced>>

WakeAll(c) ==
  /\ cpc[c] \in {"wake", "notify"}
  /\ NotifyAll
  /\ CGoto(c, IF cpc[c] = "wake" THEN "flag" ELSE "gate")
  /\ UNCHANGED <<status, mutex, queues, workers, seenMode, spc, gate, fate, raced>>

SetFlag(c) ==
  /\ cpc[c] = "flag" /\ Free
  /\ stopRequested' = TRUE
  /\ CGoto(c, "notify")
  /\ UNCHANGED <<state, mode, mutex, queues, parking, workers, seenMode, spc, gate, fate, raced>>

(* The shared completion: the first to come joins, the others wait.        *)
Gate(c) ==
  /\ cpc[c] = "gate"
  /\ \/ /\ stopped \/ state = "Stopped"
        /\ CGoto(c, "done") /\ UNCHANGED inProgress
     \/ /\ ~stopped /\ state # "Stopped" /\ ~inProgress
        /\ inProgress' = TRUE
        /\ CGoto(c, "join")
     \/ /\ ~stopped /\ state # "Stopped" /\ inProgress
        /\ CGoto(c, "wait") /\ UNCHANGED inProgress
  /\ UNCHANGED <<status, mutex, queues, parking, workers, seenMode, spc, stopped, joins, fate, raced>>

MutantGateOpens(c) ==
  /\ cpc[c] = "wait"
  /\ CGoto(c, "done")
  /\ UNCHANGED <<status, mutex, queues, parking, workers, seenMode, spc, gate, fate, raced>>

GateOpens(c) ==
  /\ cpc[c] = "wait" /\ stopped
  /\ CGoto(c, "done")
  /\ UNCHANGED <<status, mutex, queues, parking, workers, seenMode, spc, gate, fate, raced>>

(* Join every worker, then load the mode that Stopped will be stored with. *)
Join(c) ==
  /\ cpc[c] = "join"
  /\ \A w \in Workers : wpc[w] = "exited"
  /\ joins' = joins + 1
  /\ seenMode' = [seenMode EXCEPT ![c] = mode]
  /\ CGoto(c, "publish")
  /\ UNCHANGED <<status, mutex, queues, parking, workers, spc, inProgress, stopped, fate, raced>>

PublishStopped(c) ==
  /\ cpc[c] = "publish"
  /\ state' = "Stopped" /\ mode' = seenMode[c]
  /\ CGoto(c, "setStopped")
  /\ UNCHANGED <<stopRequested, mutex, queues, parking, workers, seenMode, spc, gate, fate, raced>>

SetStopped(c) ==
  /\ cpc[c] = "setStopped"
  /\ stopped' = TRUE
  /\ CGoto(c, "leave")
  /\ UNCHANGED <<status, mutex, queues, parking, workers, seenMode, spc, inProgress, joins, fate, raced>>

Leave(c) ==
  /\ cpc[c] = "leave"
  /\ inProgress' = FALSE
  /\ CGoto(c, "done")
  /\ UNCHANGED <<status, mutex, queues, parking, workers, seenMode, spc, stopped, joins, fate, raced>>
-----------------------------------------------------------------------------
Search(w) == \/ ClaimLocal(w) \/ SkipLocal(w) \/ ClaimGlobal(w) \/ GlobalEmpty(w)
             \/ ClaimLocalAgain(w) \/ Steal(w) \/ StealFails(w) \/ CountClaim(w)
Execute(w) == \/ Check(w) \/ CancelPreStart(w) \/ Start(w) \/ Run(w) \/ Spawn(w)
              \/ Ran(w) \/ Complete(w)
Park(w) == \/ Observe(w) \/ Lock(w) \/ Predicate(w) \/ Block(w) \/ Notified(w)
           \/ TimedOut(w) \/ WokenClaim(w) \/ Relock(w) \/ ExitCheck(w) \/ ExitTimers(w)
           \/ Exit(w)
Worker(w) == Search(w) \/ Execute(w) \/ Park(w) \/ PostDue(w) \/ Tell(w)

Submitter(s) == Admit(s) \/ Publish(s) \/ Notify(s)

Closer(c) == \/ Request(c) \/ CancelGlobal(c) \/ CancelLocal(c) \/ PutBack(c)
             \/ CancelTimers(c) \/ PostCancelled(c) \/ WakeAll(c) \/ SetFlag(c)
             \/ Gate(c) \/ GateOpens(c) \/ Join(c) \/ PublishStopped(c)
             \/ SetStopped(c) \/ Leave(c) \/ Tell(c)

Next == \/ \E w \in Workers : Worker(w) \/ CollectDue(w) \/ SpuriousWake(w)
        \/ \E s \in Submitters : Submitter(s)
        \/ \E c \in Closers : Call(c) \/ Closer(c)

Spec == Init /\ [][Next]_vars

(* Threads keep running, the lifecycle mutex is handed on, tasks return,   *)
(* and time passes: some timed wait ends, some worker finds a timer due.   *)
FairSpec ==
  /\ Spec
  /\ \A w \in Workers : SF_vars(Worker(w))
  /\ SF_vars(\E w \in Workers : CollectDue(w))
  /\ SF_vars(\E w \in Workers : TimedOut(w))
  /\ \A s \in Submitters : WF_vars(Submitter(s))
  /\ \A c \in Closers : SF_vars(Closer(c))
-----------------------------------------------------------------------------
(* Where task t is: the kind of place and the thread it belongs to.        *)
HeldBy(w) == wpc[w] \in {"count", "check", "cancel", "start"}
PlacesOf(t) ==
       {<<"global", NoThread>> : x \in {t} \cap global}
  \cup {<<"timers", NoThread>> : x \in {t} \cap timers}
  \cup {<<"local", w>> : w \in {v \in Workers : t \in local[v]}}
  \cup {<<"firing", w>> : w \in {v \in Workers : t \in firing[v]}}
  \cup {<<"held", w>> : w \in {v \in Workers : HeldBy(v) /\ wtask[v] = t}}
  \cup {<<"hand", c>> : c \in {d \in Closers : t \in inHand[d]}}

(* Work is neither lost nor duplicated by claiming, stealing, firing or    *)
(* cancelling: a pending task is in exactly one place, any other in none.  *)
WorkConservation ==
  \A t \in Tasks : Cardinality(PlacesOf(t)) = IF fate[t] = "pending" THEN 1 ELSE 0

(* claimed_count_, which drain relies on, is the number of workers between *)
(* counting a claim and completing it, so complete_claim() never clamps.   *)
(* (A worker here runs a task to its end before it claims another; what a  *)
(* wait() inside a task claims by helping is counted once more, and given  *)
(* back before the task goes on: TaskAwait models that loop.)              *)
Claiming == {"check", "cancel", "start", "run", "spawn", "ran", "complete"}
ClaimBalance == claimed = Cardinality({w \in Workers : wpc[w] \in Claiming})

(* R-016: one thread at a time leads the join, and the workers are joined  *)
(* once however many threads shut the runtime down.                        *)
Leading == {c \in Closers : cpc[c] \in {"join", "publish", "setStopped", "leave"}}
JoinedOnce == Cardinality(Leading) <= 1 /\ joins <= 1

(* R-012, R-016: Stopped is published, and shutdown() returns, only when   *)
(* every worker has left its loop with nothing in its hands.               *)
StoppedIsQuiet ==
  state = "Stopped" \/ (\E c \in Closers : cpc[c] = "done") =>
    \A w \in Workers : wpc[w] = "exited" /\ wtask[w] = NoTask /\ firing[w] = {}

(* R-006, R-007: after a graceful shutdown every task is finished, except  *)
(* one that was admitted but not yet queued when the shutdown began.       *)
Asked(m) == \E c \in Closers : Wanted[c] = m /\ cpc[c] \notin {"idle", "request"}
GracefulDrains ==
  state = "Stopped" /\ ~Asked("Immediate") =>
    \A t \in Tasks \ raced : fate[t] \notin {"accepted", "pending", "running"}

(* R-106: after an immediate shutdown no never-started task is left over,  *)
(* with the same exception, once the closer that changed the mode has      *)
(* swept the queues: Stopped may be published by another one before that.  *)
Cancelling == \E c \in Closers : cpc[c] = "cancelGlobal"
ImmediateCancels ==
  state = "Stopped" /\ ~Cancelling =>
    \A t \in Tasks \ (Segments \cup raced) : fate[t] \notin {"accepted", "pending", "running"}

(* The inductive invariant behind the properties above and the next.       *)

(* A worker holds a task exactly while it has one claimed, and a due timer *)
(* only where it processes timers.                                         *)
Holding == Claiming \cup {"count"}
Hands ==
  \A w \in Workers :
    /\ wtask[w] \in IF wpc[w] \in Holding THEN Tasks ELSE {NoTask}
    /\ wpc[w] = "spawn" => After[wtask[w]] \in Tasks
    /\ firing[w] # {} => wpc[w] \in {"top", "observe", "woken"}

(* lifecycle_mutex is held by whoever is inside one of its sections.       *)
WorkerSection == {"predicate", "block", "woken", "exit", "exitGraceful", "exitClaims",
                  "exitImmediate"}
MutexHeld ==
  /\ \A w \in Workers : mutex = w <=> wpc[w] \in WorkerSection
  /\ \A c \in Closers : mutex = c <=> cpc[c] \in {"cancelLocal", "putBack"}

(* Whoever leads the join has inProgress and shares it with nobody; the    *)
(* workers have been joined when, and only when, it has passed that point. *)
OneLeader ==
  /\ \A c \in Leading : inProgress /\ \A d \in Leading : d = c
  /\ joins \in {0, 1}
  /\ \A c \in Closers :
       /\ cpc[c] = "join" => joins = 0 /\ ~stopped
       /\ cpc[c] \in {"publish", "setStopped", "leave", "done"} => joins = 1
       /\ cpc[c] = "leave" => stopped
  /\ joins = 1 => stopped \/ \E c \in Closers : cpc[c] \in {"publish", "setStopped"}
  /\ stopped \/ state = "Stopped" => joins = 1
  /\ joins = 1 => \A w \in Workers : wpc[w] = "exited"

CoreInv == TypeOK /\ Hands /\ MutexHeld /\ OneLeader

(* A running task is in the hands of one worker.                           *)
Busy(w) == wpc[w] \in {"run", "spawn", "ran"}
OneRunner ==
  /\ \A w \in Workers : Busy(w) => fate[wtask[w]] = "running"
  /\ \A w, v \in Workers : Busy(w) /\ Busy(v) /\ wtask[w] = wtask[v] => w = v
  /\ \A t \in Tasks : fate[t] = "running" => \E w \in Workers : Busy(w) /\ wtask[w] = t

(* What a task is to publish is unborn until the task runs.                *)
PublishedOnce ==
  /\ \A w \in Workers : wpc[w] = "run" /\ Following(w) \in Tasks => fate[Following(w)] = "unborn"
  /\ \A w \in Workers : wpc[w] = "spawn" => fate[Following(w)] \in {"unborn", "accepted"}
  /\ \A t \in Tasks : After[t] \in Tasks /\ fate[t] \notin {"running", "done"}
                        => fate[After[t]] = "unborn"

(* A task is accepted only while whoever submits it has yet to publish it. *)
AcceptedBySomeone ==
  /\ \A s \in Submitters : spc[s] = "idle" => fate[FirstTask[s]] = "unborn"
  /\ \A s \in Submitters : spc[s] = "admitted" => fate[FirstTask[s]] = "accepted"
  /\ \A t \in Tasks : fate[t] = "accepted" =>
       \/ \E s \in Submitters : spc[s] = "admitted" /\ FirstTask[s] = t
       \/ \E w \in Workers : wpc[w] = "spawn" /\ Following(w) = t

Lives == OneRunner /\ PublishedOnce /\ AcceptedBySomeone

(* The status only moves forward, and only a closer that was asked to      *)
(* cancels.                                                                *)
Sweeping == {"cancelGlobal", "cancelLocal", "putBack", "timers", "post"}
Forward ==
  /\ state = "Running" => mode = "None" /\ ~stopRequested
  /\ \A w \in Workers : wpc[w] \in {"exitGraceful", "exitClaims", "exitImmediate", "exited"} => stopRequested
  /\ \A c \in Closers :
       /\ cpc[c] \notin {"idle", "request"} => state # "Running"
       /\ cpc[c] \in Sweeping => Wanted[c] = "Immediate"
       /\ inHand[c] # {} => cpc[c] \in {"putBack", "post"}
       /\ seenMode[c] = "Immediate" => Asked("Immediate")
  /\ mode = "Immediate" => Asked("Immediate")
  /\ \A w \in Workers : wpc[w] = "exitImmediate" => mode = "Immediate"
  /\ \A s \in Submitters : state # "Running" /\ spc[s] = "admitted" => FirstTask[s] \in raced

(* No worker is the last to leave while there is work for it.  A task that *)
(* appears after its look at the queues is published by another worker     *)
(* that is still there; under Immediate, where the look spares the global  *)
(* queues, such a worker has yet to empty them (Fresh).                    *)
MustFinish == {t \in Tasks \ raced : t \in Segments => ~Asked("Immediate")}
Fresh == {"top", "global", "count", "check", "cancel", "start", "run", "spawn", "ran", "complete"}
NotTheLast ==
  \A w \in Workers, t \in Tasks :
    \/ wpc[w] \in {"exitGraceful", "exitClaims"} /\ t \in MustFinish /\ t \in global \cup Locals
    \/ wpc[w] = "exitClaims" /\ t \in MustFinish /\ t \in timers
    \/ wpc[w] = "exitImmediate" /\ t \in Locals
    => \E v \in Workers \ {w} : wpc[v] # "exited"
SomeoneFresh ==
  \A t \in global \ (Segments \cup raced) :
    mode # "Immediate" \/ Cancelling \/ \E v \in Workers : wpc[v] \in Fresh
NothingLeft ==
  (\A w \in Workers : wpc[w] = "exited") =>
    \A t \in MustFinish : fate[t] = "pending" => t \in global /\ Cancelling
Leaving == NotTheLast /\ SomeoneFresh /\ NothingLeft

IInv == CoreInv /\ Lives /\ Forward /\ Leaving

(* The resume segments cancel_unstarted() carries by hand are not missed   *)
(* by the workers' exit check: while it carries one, no worker leaves.     *)
NoExitWhileCarrying ==
  [][(\E c \in Closers : cpc[c] = "putBack" /\ inHand[c] # {}) =>
       \A w \in Workers : wpc'[w] = "exited" => wpc[w] = "exited"]_vars

(* R-010, R-012: every call of shutdown() or shutdown_now() returns.       *)
ShutdownReturns == \A c \in Closers : cpc[c] = "request" ~> cpc[c] = "done"

(* R-065: publication racing with park leaves no published task asleep.    *)
PublishedRuns == \A t \in Tasks : fate[t] = "pending" ~> fate[t] # "pending"

(* R-007: no orphan: after shutdown no accepted external task is left.     *)
NoOrphanTask ==
  state = "Stopped" => \A s \in Submitters : fate[FirstTask[s]] \notin {"accepted", "pending"}

(* R-012, R-019: whoever publishes Stopped, no never-started task is left. *)
(* (A closer that is about to sweep the queues may come too late.)         *)
CancelledByStop ==
  state = "Stopped" =>
    \A t \in Tasks \ (Segments \cup raced) : fate[t] \notin {"accepted", "pending", "running"}

(* R-014: Immediate never becomes Graceful again.                          *)
NoDowngrade == [][mode = "Immediate" => mode' = "Immediate"]_vars

(* R-079, R-106: a coroutine that has started and sleeps gets its resume   *)
(* segment run when the runtime is shut down immediately.                  *)
SuspendedUnwinds ==
  state = "Stopped" => \A t \in Segments : fate[t] # "pending"

(* R-106: once the mode is Immediate no task starts for the first time.    *)
NoFirstStart ==
  [][mode = "Immediate" =>
       \A t \in Tasks \ Segments : fate'[t] = "running" => fate[t] = "running"]_vars
=============================================================================
