---------------------------- MODULE Finalization ----------------------------
(***************************************************************************)
(* How runtimes are born, stopped and reclaimed, and how the process ends  *)
(* them all: the Reaper registry with its coordinator thread               *)
(* (src/src/lifecycle/reaper_registry.cpp), begin_finalization() and its   *)
(* waiters, and the parts of Scheduler::Impl that meet them: the startup   *)
(* transaction of the constructor, shutdown_sync(), ~Scheduler(), ~Impl(), *)
(* the handoff of an orphan, and the barrier and exit of the worker loop.  *)
(*                                                                         *)
(* What a worker does between barrier and exit is RuntimeCore's: here it   *)
(* may leave once stop_requested is set.  The shutdown mode is RuntimeCore's*)
(* too; an escalation is a second round of the same callbacks.  slots_ and *)
(* registered_ids_ change together under one lock: one set stands for both.*)
(* Waits on a condition variable are guards, since every write to one of   *)
(* their predicates is followed by its notification.                       *)
(***************************************************************************)
EXTENDS Naturals, FiniteSets

CONSTANTS
  Runtimes,    \* each is constructed, used and dropped by an outside thread, its owner
  Workers,     \* the workers of each runtime
  Finalizers,  \* outside threads that call begin_finalization() and then wait
  Shared,      \* the runtimes with a second handle, held by a task its worker runs
  Patient,     \* the finalizers that call wait(); the others call wait_for()
  Casts,       \* who takes part: runtimes, workers of each, finalizers, and ends[r]:
               \* what may befall r before others end it
  NoWorker, NoRuntime

ASSUME FinalizationAssumption ==
  /\ Shared \subseteq Runtimes /\ Patient \subseteq Finalizers
  /\ NoRuntime \notin Runtimes /\ NoWorker \notin Workers
  /\ IsFiniteSet(Workers)
  /\ Casts \subseteq [runtimes : SUBSET Runtimes, workers : (SUBSET Workers) \ {{}},
                      finalizers : SUBSET Finalizers,
                      ends : [Runtimes -> SUBSET {"attach", "fail", "shutdown", "drop"}]]

VARIABLES
  service,     \* state_ of the registry
  slots,       \* slots_ and registered_ids_
  handed,      \* handoff_executed
  joinReady,   \* join_ready
  guarded,     \* the slots whose cleanup_fn locks a weak_ptr (replace_cleanup_fn)
  thread,      \* is coordinator_thread_ set?
  exited,      \* coordinator_exited_
  joining,     \* coordinator_join_in_progress_
  cpc, works,  \* the coordinator's place, and the runtimes it has yet to clean up
  cleaning,    \* the runtime whose cleanup_fn it is in
  status,      \* packed_status, without the mode
  stopRequested,
  startup,     \* startup_done and startup_failed
  wpc,         \* wpc[r][w]: where worker w of runtime r is
  holder,      \* holder[r]: the worker whose running task holds the second handle
  refs,        \* refs[r]: who holds a shared_ptr to the Impl
  object,      \* the lifetime of the Impl
  leader,      \* in_progress of the shutdown completion, with the thread that set it
  at,          \* at[r][a]: where thread a is in the shutdown completion of r
  opc, why,    \* the owner's place, and what made it enter the shutdown path
  fpc,         \* each finalizer's place
  todo, inCall,\* the callbacks it has copied and not yet run, and the one it is in
  terminated,  \* std::terminate() was called
  cast         \* who takes part

registry == <<service, slots, handed, joinReady, guarded>>
coordinator == <<thread, exited, joining, cpc, works, cleaning>>
runtime == <<status, stopRequested, startup, wpc>>
lifetime == <<holder, refs, object>>
completion == <<leader, at>>
owner == <<opc, why>>
finalizer == <<fpc, todo, inCall>>
vars == <<registry, coordinator, runtime, lifetime, completion, owner, finalizer, terminated, cast>>

Crew == cast.workers
Joiners == {"owner", "coordinator"}

TypeOK ==
  /\ service \in {"Open", "Finalizing", "Finalized"}
  /\ slots \subseteq Runtimes /\ handed \subseteq Runtimes
  /\ joinReady \subseteq Runtimes /\ guarded \subseteq Runtimes
  /\ thread \in BOOLEAN /\ exited \in BOOLEAN /\ joining \in BOOLEAN
  /\ cpc \in {"none", "wait", "clean", "cleanup", "drop", "leaving", "ended"}
  /\ works \subseteq Runtimes /\ cleaning \in Runtimes \cup {NoRuntime}
  /\ status \in [Runtimes -> {"Running", "Stopping", "Stopped"}]
  /\ stopRequested \in [Runtimes -> BOOLEAN]
  /\ startup \in [Runtimes -> {"pending", "done", "failed"}]
  /\ wpc \in [Runtimes -> [Workers -> {"new", "starting", "barrier", "loop", "orphan",
                                       "handoff", "release", "left", "gone"}]]
  /\ holder \in [Runtimes -> Workers \cup {NoWorker}]
  /\ refs \in [Runtimes -> SUBSET {"owner", "task", "reaper"}]
  /\ object \in [Runtimes -> {"absent", "built", "freed"}]
  /\ leader \in [Runtimes -> Joiners \cup {"none"}]
  /\ at \in [Runtimes -> [Joiners -> {"away", "gate", "join", "wait", "back"}]]
  /\ opc \in [Runtimes -> {"idle", "spawn", "barrier", "publish", "replace", "using",
                           "request", "stopping", "unregister", "release",
                           "refused", "done"}]
  /\ why \in [Runtimes -> {"none", "attach", "rollback", "shutdown", "last", "destructor"}]
  /\ fpc \in [Finalizers -> {"idle", "calling", "begun", "escalating", "called", "wait",
                             "await", "awaitFinal", "join", "completed", "timedOut"}]
  /\ todo \in [Finalizers -> SUBSET Runtimes]
  /\ inCall \in [Finalizers -> Runtimes \cup {NoRuntime}]
  /\ terminated \in BOOLEAN
  /\ cast \in Casts

Init ==
  /\ service = "Open" /\ slots = {} /\ handed = {} /\ joinReady = {} /\ guarded = {}
  /\ thread = FALSE /\ exited = FALSE /\ joining = FALSE
  /\ cpc = "none" /\ works = {} /\ cleaning = NoRuntime
  /\ status = [r \in Runtimes |-> "Running"]
  /\ stopRequested = [r \in Runtimes |-> FALSE]
  /\ startup = [r \in Runtimes |-> "pending"]
  /\ wpc = [r \in Runtimes |-> [w \in Workers |-> "new"]]
  /\ holder = [r \in Runtimes |-> NoWorker]
  /\ refs = [r \in Runtimes |-> {}]
  /\ object = [r \in Runtimes |-> "absent"]
  /\ leader = [r \in Runtimes |-> "none"]
  /\ at = [r \in Runtimes |-> [a \in Joiners |-> "away"]]
  /\ opc = [r \in Runtimes |-> "idle"] /\ why = [r \in Runtimes |-> "none"]
  /\ fpc = [f \in Finalizers |-> "idle"] /\ todo = [f \in Finalizers |-> {}]
  /\ inCall = [f \in Finalizers |-> NoRuntime]
  /\ terminated = FALSE
  /\ cast \in Casts

OGoto(r, step) == opc' = [opc EXCEPT ![r] = step]
WGoto(r, w, step) == wpc' = [wpc EXCEPT ![r][w] = step]
FGoto(f, step) == fpc' = [fpc EXCEPT ![f] = step]
AtGoto(r, a, step) == at' = [at EXCEPT ![r][a] = step]

Locked(r) == opc[r] = "publish"     \* the constructor holds lifecycle_mutex
Exists(r, w) == wpc[r][w] \notin {"new", "gone"}
Closed == service # "Open"
Emptied == exited /\ slots = {}

(* request_shutdown_mode(): a Running status becomes Stopping.              *)
Requested(r) == [status EXCEPT ![r] = IF @ = "Running" THEN "Stopping" ELSE @]
-----------------------------------------------------------------------------
(* The owner constructs the runtime: a transaction.                        *)

(* Mutant: the state is not looked at under the registry's lock.           *)
MutantRegister(r) ==
  /\ opc[r] = "idle"
  /\ slots' = slots \cup {r}
  /\ thread' = TRUE /\ cpc' = IF thread THEN cpc ELSE "wait"
  /\ object' = [object EXCEPT ![r] = "built"]
  /\ OGoto(r, "spawn")
  /\ UNCHANGED <<service, handed, joinReady, guarded, exited, joining, works, cleaning,
                 runtime, holder, refs, completion, why, finalizer, terminated>>

(* register_runtime() reserves a slot, and the first one starts the        *)
(* coordinator; after close_registration() the constructor throws.         *)
Register(r) ==
  /\ opc[r] = "idle"
  /\ \/ /\ service = "Open"
        /\ slots' = slots \cup {r}
        /\ thread' = TRUE /\ cpc' = IF thread THEN cpc ELSE "wait"
        /\ object' = [object EXCEPT ![r] = "built"]
        /\ OGoto(r, "spawn")
     \/ /\ Closed
        /\ OGoto(r, "refused")
        /\ UNCHANGED <<slots, thread, cpc, object>>
  /\ UNCHANGED <<service, handed, joinReady, guarded, exited, joining, works, cleaning,
                 runtime, holder, refs, completion, why, finalizer, terminated>>

(* attach() of a trace collector allocates, before the try block: when it  *)
(* throws the Impl is gone and its slot stays, raw callbacks and all.      *)
AttachFails(r) ==
  /\ opc[r] = "spawn" /\ "attach" \in cast.ends[r]
  /\ \A w \in Crew : wpc[r][w] = "new"
  /\ why' = [why EXCEPT ![r] = "attach"]
  /\ object' = [object EXCEPT ![r] = "freed"]
  /\ OGoto(r, "refused")
  /\ UNCHANGED <<registry, coordinator, runtime, holder, refs, completion, finalizer,
                 terminated>>

(* A worker thread is created; once all are, the constructor waits.        *)
Spawn(r) ==
  /\ opc[r] = "spawn"
  /\ \E w \in Crew :
       /\ wpc[r][w] = "new"
       /\ WGoto(r, w, "starting")
       /\ OGoto(r, IF \A v \in Crew \ {w} : wpc[r][v] # "new" THEN "barrier" ELSE "spawn")
  /\ UNCHANGED <<registry, coordinator, status, stopRequested, startup, lifetime,
                 completion, why, finalizer, terminated>>

(* The catch block: the workers are told to leave, and joined.             *)
RollBack(r) ==
  /\ startup' = [startup EXCEPT ![r] = "failed"]
  /\ stopRequested' = [stopRequested EXCEPT ![r] = TRUE]
  /\ why' = [why EXCEPT ![r] = "rollback"]
  /\ AtGoto(r, "owner", "gate")
  /\ OGoto(r, "stopping")

SpawnFails(r) ==
  /\ opc[r] = "spawn" /\ "fail" \in cast.ends[r]
  /\ RollBack(r)
  /\ UNCHANGED <<registry, coordinator, status, wpc, lifetime, leader, finalizer, terminated>>

(* All workers are ready: is registration still open?                      *)
RecheckOpen(r) ==
  /\ opc[r] = "barrier"
  /\ \A w \in Crew : wpc[r][w] \notin {"new", "starting"}
  /\ \/ /\ service = "Open"
        /\ OGoto(r, "publish")
        /\ UNCHANGED <<startup, stopRequested, at, why>>
     \/ Closed /\ RollBack(r)
  /\ UNCHANGED <<registry, coordinator, status, wpc, lifetime, leader, finalizer, terminated>>

(* A plain store of Running opens the runtime and the barrier.             *)
PublishRunning(r) ==
  /\ opc[r] = "publish"
  /\ status' = [status EXCEPT ![r] = "Running"]
  /\ startup' = [startup EXCEPT ![r] = "done"]
  /\ OGoto(r, "replace")
  /\ UNCHANGED <<registry, coordinator, stopRequested, wpc, lifetime, completion, why,
                 finalizer, terminated>>

(* The shared_ptr exists: the slot's cleanup is exchanged for one that     *)
(* locks a weak_ptr, and the handle is given to the user, who may submit a *)
(* task that holds a copy.                                                 *)
ReplaceCleanup(r) ==
  /\ opc[r] = "replace"
  /\ guarded' = IF r \in slots THEN guarded \cup {r} ELSE guarded
  /\ \/ /\ refs' = [refs EXCEPT ![r] = @ \cup {"owner"}]
        /\ UNCHANGED holder
     \/ /\ r \in Shared /\ status[r] = "Running"
        /\ refs' = [refs EXCEPT ![r] = @ \cup {"owner", "task"}]
        /\ \E w \in Crew : wpc[r][w] = "loop" /\ holder' = [holder EXCEPT ![r] = w]
  /\ OGoto(r, "using")
  /\ UNCHANGED <<service, slots, handed, joinReady, coordinator, runtime, object,
                 completion, why, finalizer, terminated>>
-----------------------------------------------------------------------------
(* The owner shuts the runtime down, or drops its handle.                  *)

Shutdown(r) ==
  /\ opc[r] = "using" /\ status[r] # "Stopped" /\ "shutdown" \in cast.ends[r]
  /\ why' = [why EXCEPT ![r] = "shutdown"]
  /\ OGoto(r, "request")
  /\ UNCHANGED <<registry, coordinator, runtime, lifetime, completion, finalizer, terminated>>

(* ~Scheduler() acts only when use_count() is 1.                           *)
DropHandle(r) ==
  /\ opc[r] = "using" /\ "drop" \in cast.ends[r]
  /\ \/ /\ refs[r] = {"owner"}
        /\ why' = [why EXCEPT ![r] = "last"]
        /\ OGoto(r, "request")
     \/ /\ refs[r] # {"owner"}
        /\ OGoto(r, "release")
        /\ UNCHANGED why
  /\ UNCHANGED <<registry, coordinator, runtime, lifetime, completion, finalizer, terminated>>

(* shutdown_sync(): request and flag, then the shared completion.          *)
RequestStop(r) ==
  /\ opc[r] = "request"
  /\ status' = Requested(r)
  /\ stopRequested' = [stopRequested EXCEPT ![r] = TRUE]
  /\ AtGoto(r, "owner", "gate")
  /\ OGoto(r, "stopping")
  /\ UNCHANGED <<registry, coordinator, startup, wpc, lifetime, leader, why, finalizer,
                 terminated>>

(* Mutant: a thread that does not find Stopped joins.                      *)
MutantEnterGate(r, a) ==
  /\ at[r][a] = "gate"
  /\ AtGoto(r, a, IF status[r] = "Stopped" THEN "back" ELSE "join")
  /\ leader' = [leader EXCEPT ![r] = a]
  /\ UNCHANGED <<registry, coordinator, runtime, lifetime, owner, finalizer, terminated>>

(* The first to come joins the workers, the others wait for Stopped.       *)
EnterGate(r, a) ==
  /\ at[r][a] = "gate"
  /\ \/ /\ status[r] = "Stopped"
        /\ AtGoto(r, a, "back")
        /\ UNCHANGED leader
     \/ /\ status[r] # "Stopped" /\ leader[r] = "none"
        /\ AtGoto(r, a, "join")
        /\ leader' = [leader EXCEPT ![r] = a]
     \/ /\ status[r] # "Stopped" /\ leader[r] # "none"
        /\ AtGoto(r, a, "wait")
        /\ UNCHANGED leader
  /\ UNCHANGED <<registry, coordinator, runtime, lifetime, owner, finalizer, terminated>>

(* join_workers_and_publish_stopped().                                     *)
JoinWorkers(r, a) ==
  /\ at[r][a] = "join"
  /\ \A w \in Crew : ~Exists(r, w)
  /\ status' = [status EXCEPT ![r] = "Stopped"]
  /\ AtGoto(r, a, "back")
  /\ UNCHANGED <<registry, coordinator, stopRequested, startup, wpc, lifetime, leader,
                 owner, finalizer, terminated>>

WaitStopped(r, a) ==
  /\ at[r][a] = "wait"
  /\ status[r] = "Stopped"
  /\ AtGoto(r, a, "back")
  /\ UNCHANGED <<registry, coordinator, runtime, lifetime, leader, owner, finalizer,
                 terminated>>

(* Mutant: a rolled back constructor leaves its registration.              *)
MutantUnregisters(r) == why[r] # "rollback" /\ leader[r] = "owner"

Unregisters(r) == why[r] = "rollback" \/ leader[r] = "owner"

(* The shutdown path returns; only its leader unregisters, and a rollback. *)
Stopped(r) ==
  /\ opc[r] = "stopping" /\ at[r]["owner"] = "back"
  /\ AtGoto(r, "owner", "away")
  /\ OGoto(r, "unregister")
  /\ slots' = IF Unregisters(r) THEN slots \ {r} ELSE slots
  /\ UNCHANGED <<service, handed, joinReady, guarded, coordinator, runtime, lifetime,
                 leader, why, finalizer, terminated>>

(* What comes after: the constructor throws and the Impl is freed, the     *)
(* call returns, the handle goes, ~Impl() ends.                            *)
AfterStop(r) ==
  /\ opc[r] = "unregister"
  /\ OGoto(r, CASE why[r] = "rollback" -> "refused"
                [] why[r] = "shutdown" -> "using"
                [] why[r] = "last" -> "release"
                [] why[r] = "destructor" -> "done")
  /\ object' = IF why[r] \in {"rollback", "destructor"} THEN [object EXCEPT ![r] = "freed"]
               ELSE object
  /\ UNCHANGED <<registry, coordinator, runtime, holder, refs, completion, why, finalizer,
                 terminated>>

(* The handle's shared_ptr goes.  The last one runs ~Impl(), which shuts a *)
(* runtime down that is not Stopped.                                       *)
Release(r) ==
  /\ opc[r] = "release"
  /\ refs' = [refs EXCEPT ![r] = @ \ {"owner"}]
  /\ \/ /\ refs[r] = {"owner"} /\ status[r] # "Stopped"
        /\ why' = [why EXCEPT ![r] = "destructor"]
        /\ OGoto(r, "request")
        /\ UNCHANGED object
     \/ /\ refs[r] = {"owner"} /\ status[r] = "Stopped"
        /\ object' = [object EXCEPT ![r] = "freed"]
        /\ OGoto(r, "done")
        /\ UNCHANGED why
     \/ /\ refs[r] # {"owner"}
        /\ OGoto(r, "done")
        /\ UNCHANGED <<object, why>>
  /\ UNCHANGED <<registry, coordinator, runtime, holder, completion, finalizer, terminated>>
-----------------------------------------------------------------------------
(* A worker: the barrier, the second handle, the exit.                     *)

Arrive(r, w) ==
  /\ wpc[r][w] = "starting" /\ ~Locked(r)
  /\ WGoto(r, w, "barrier")
  /\ UNCHANGED <<registry, coordinator, status, stopRequested, startup, lifetime,
                 completion, owner, finalizer, terminated>>

(* Mutant: the last worker does not tell the Reaper.                       *)
MutantLeave(r, w) == WGoto(r, w, "gone")

(* active_workers goes down by one; who brings it to 0 tells the Reaper.   *)
Active(r) == {w \in Crew : wpc[r][w] \notin {"left", "gone"}}
Leave(r, w) == WGoto(r, w, IF Active(r) = {w} THEN "left" ELSE "gone")

PassBarrier(r, w) ==
  /\ wpc[r][w] = "barrier" /\ ~Locked(r)
  /\ \/ startup[r] = "done" /\ WGoto(r, w, "loop")
     \/ startup[r] = "failed" /\ Leave(r, w)
     \/ startup[r] = "pending" /\ stopRequested[r] /\ Leave(r, w)
  /\ UNCHANGED <<registry, coordinator, status, stopRequested, startup, lifetime,
                 completion, owner, finalizer, terminated>>

(* The loop ends once a stop was requested and the work is drained, which  *)
(* includes the task that holds the second handle.                         *)
LeaveLoop(r, w) ==
  /\ wpc[r][w] = "loop" /\ stopRequested[r] /\ holder[r] # w
  /\ Leave(r, w)
  /\ UNCHANGED <<registry, coordinator, status, stopRequested, startup, lifetime,
                 completion, owner, finalizer, terminated>>

(* notify_join_ready().                                                    *)
NotifyJoinReady(r, w) ==
  /\ wpc[r][w] = "left"
  /\ joinReady' = joinReady \cup (slots \cap {r})
  /\ WGoto(r, w, "gone")
  /\ UNCHANGED <<service, slots, handed, guarded, coordinator, status, stopRequested,
                 startup, lifetime, completion, owner, finalizer, terminated>>

(* ~Scheduler() on a worker of the same runtime.                           *)
DropOnWorker(r, w) ==
  /\ wpc[r][w] = "loop" /\ holder[r] = w
  /\ WGoto(r, w, IF refs[r] = {"task"} THEN "orphan" ELSE "release")
  /\ UNCHANGED <<registry, coordinator, status, stopRequested, startup, lifetime,
                 completion, owner, finalizer, terminated>>

(* execute_worker_orphan_handoff(): stop, then hand the Impl to the Reaper.*)
StopOrphan(r, w) ==
  /\ wpc[r][w] = "orphan" /\ ~Locked(r)
  /\ stopRequested' = [stopRequested EXCEPT ![r] = TRUE]
  /\ status' = Requested(r)
  /\ WGoto(r, w, "handoff")
  /\ UNCHANGED <<registry, coordinator, startup, lifetime, completion, owner, finalizer,
                 terminated>>

HandOff(r, w) ==
  /\ wpc[r][w] = "handoff"
  /\ handed' = handed \cup (slots \cap {r})
  /\ refs' = [refs EXCEPT ![r] = @ \cup {x \in {"reaper"} : r \in slots}]
  /\ WGoto(r, w, "release")
  /\ UNCHANGED <<service, slots, joinReady, guarded, coordinator, status, stopRequested,
                 startup, holder, object, completion, owner, finalizer, terminated>>

(* The last shared_ptr on its own worker: ~Impl() skips shutdown and join, *)
(* and destroys joinable threads.                                          *)
ReleaseOnWorker(r, w) ==
  /\ wpc[r][w] = "release"
  /\ refs' = [refs EXCEPT ![r] = @ \ {"task"}]
  /\ holder' = [holder EXCEPT ![r] = NoWorker]
  /\ WGoto(r, w, "loop")
  /\ terminated' = (refs[r] = {"task"})
  /\ UNCHANGED <<registry, coordinator, status, stopRequested, startup, object,
                 completion, owner, finalizer>>
-----------------------------------------------------------------------------
(* The coordinator thread.                                                 *)

(* Mutant: only a finalization makes slots claimable.                      *)
MutantClaimable(r) == r \in slots /\ r \in joinReady /\ service = "Finalizing"

(* has_join_ready_slot_locked().                                           *)
Claimable(r) == /\ r \in slots /\ r \in joinReady
                /\ r \in handed \/ service = "Finalizing"
AnyClaimable == \E r \in Runtimes : Claimable(r)

(* It takes every claimable slot, and runs their cleanup without the lock. *)
Claim ==
  /\ cpc = "wait" /\ AnyClaimable
  /\ works' = {r \in Runtimes : Claimable(r)}
  /\ slots' = {r \in slots : ~Claimable(r)}
  /\ cpc' = "clean"
  /\ UNCHANGED <<service, handed, joinReady, guarded, thread, exited, joining, cleaning,
                 runtime, lifetime, completion, owner, finalizer, terminated>>

(* reaper_cleanup_and_join() of a runtime that the slot, or a lock of the  *)
(* weak_ptr, keeps alive, or of a raw pointer.  A weak_ptr that has expired*)
(* leaves nothing to do.                                                   *)
BeginCleanup ==
  /\ cpc = "clean"
  /\ \E r \in works :
       /\ works' = works \ {r}
       /\ \/ /\ r \in guarded => refs[r] # {}
             /\ refs' = IF r \in guarded THEN [refs EXCEPT ![r] = @ \cup {"reaper"}] ELSE refs
             /\ cleaning' = r /\ cpc' = "cleanup"
             /\ AtGoto(r, "coordinator", "gate")
          \/ /\ r \in guarded /\ refs[r] = {}
             /\ UNCHANGED <<refs, cleaning, cpc, at>>
  /\ UNCHANGED <<registry, thread, exited, joining, runtime, holder, object, leader, owner,
                 finalizer, terminated>>

(* The references of the slot go; the last one frees the Impl.             *)
EndCleanup ==
  /\ cpc = "cleanup" /\ at[cleaning]["coordinator"] = "back"
  /\ AtGoto(cleaning, "coordinator", "away")
  /\ refs' = [refs EXCEPT ![cleaning] = @ \ {"reaper"}]
  /\ object' = IF refs[cleaning] = {"reaper"} THEN [object EXCEPT ![cleaning] = "freed"]
               ELSE object
  /\ cleaning' = NoRuntime /\ cpc' = "clean"
  /\ UNCHANGED <<registry, thread, exited, joining, works, runtime, holder, leader, owner,
                 finalizer, terminated>>

CleanedUp ==
  /\ cpc = "clean" /\ works = {}
  /\ cpc' = "wait"
  /\ UNCHANGED <<registry, thread, exited, joining, works, cleaning, runtime, lifetime,
                 completion, owner, finalizer, terminated>>

(* Finalizing, and nothing is registered: coordinator_exited_, then the end.*)
Exit ==
  /\ cpc = "wait" /\ service = "Finalizing" /\ slots = {}
  /\ exited' = TRUE /\ cpc' = "leaving"
  /\ UNCHANGED <<registry, thread, joining, works, cleaning, runtime, lifetime, completion,
                 owner, finalizer, terminated>>

ThreadEnds ==
  /\ cpc = "leaving" /\ cpc' = "ended"
  /\ UNCHANGED <<registry, thread, exited, joining, works, cleaning, runtime, lifetime,
                 completion, owner, finalizer, terminated>>
-----------------------------------------------------------------------------
(* A finalizer: begin_finalization(), perhaps request_immediate(), a wait. *)

(* close_registration() copies the callbacks under the lock.               *)
Begin(f) ==
  /\ fpc[f] = "idle"
  /\ service' = CASE Closed -> service
                  [] service = "Open" /\ slots = {} /\ ~thread -> "Finalized"
                  [] OTHER -> "Finalizing"
  /\ todo' = [todo EXCEPT ![f] = IF Closed THEN {} ELSE slots]
  /\ FGoto(f, "calling")
  /\ UNCHANGED <<slots, handed, joinReady, guarded, coordinator, runtime, lifetime,
                 completion, owner, inCall, terminated>>

(* A callback runs without the lock, on a raw pointer: a freed runtime is  *)
(* written to, which nobody sees.                                          *)
CallStop(f) ==
  /\ fpc[f] \in {"calling", "escalating"} /\ inCall[f] = NoRuntime
  /\ \E r \in todo[f] :
       /\ todo' = [todo EXCEPT ![f] = @ \ {r}]
       /\ inCall' = [inCall EXCEPT ![f] = r]
       /\ status' = IF object[r] = "freed" THEN status ELSE Requested(r)
  /\ UNCHANGED <<registry, coordinator, stopRequested, startup, wpc, lifetime, completion,
                 owner, fpc, terminated>>

CallFlag(f) ==
  /\ inCall[f] # NoRuntime
  /\ object[inCall[f]] = "freed" \/ ~Locked(inCall[f])
  /\ stopRequested' = [stopRequested EXCEPT
                         ![inCall[f]] = IF object[inCall[f]] = "freed" THEN @ ELSE TRUE]
  /\ inCall' = [inCall EXCEPT ![f] = NoRuntime]
  /\ UNCHANGED <<registry, coordinator, status, startup, wpc, lifetime, completion, owner,
                 fpc, todo, terminated>>

CallsDone(f) ==
  /\ fpc[f] \in {"calling", "escalating"} /\ inCall[f] = NoRuntime /\ todo[f] = {}
  /\ FGoto(f, IF fpc[f] = "calling" THEN "begun" ELSE "called")
  /\ UNCHANGED <<registry, coordinator, runtime, lifetime, completion, owner, todo, inCall,
                 terminated>>

(* request_all_immediate().                                                *)
Escalate(f) ==
  /\ fpc[f] = "begun"
  /\ todo' = [todo EXCEPT ![f] = slots]
  /\ FGoto(f, "escalating")
  /\ UNCHANGED <<registry, coordinator, runtime, lifetime, completion, owner, inCall,
                 terminated>>

(* The start of wait_finalization() and wait_finalization_for(): complete, *)
(* or nobody to wait for, or into the loop.                                *)
StartWait(f) ==
  /\ fpc[f] \in {"begun", "called"}
  /\ \/ /\ service = "Finalized" \/ ~thread
        /\ service' = "Finalized"
        /\ FGoto(f, "completed")
     \/ /\ service # "Finalized" /\ thread
        /\ FGoto(f, "wait")
        /\ UNCHANGED service
  /\ UNCHANGED <<slots, handed, joinReady, guarded, coordinator, runtime, lifetime,
                 completion, owner, todo, inCall, terminated>>

(* A turn of the loop.  wait() alone looks at coordinator_thread_ again;   *)
(* try_join_exited_coordinator_locked() moves the thread out and drops the *)
(* lock to join it.                                                        *)
WaitTurn(f) ==
  /\ fpc[f] = "wait"
  /\ \/ /\ service = "Finalized" \/ (f \in Patient /\ ~thread)
        /\ service' = "Finalized"
        /\ FGoto(f, "completed")
        /\ UNCHANGED <<thread, joining>>
     \/ /\ service # "Finalized" /\ (f \in Patient => thread)
        /\ Emptied /\ ~joining
        /\ joining' = TRUE /\ thread' = FALSE
        /\ FGoto(f, "join")
        /\ UNCHANGED service
     \/ /\ service # "Finalized" /\ (f \in Patient => thread)
        /\ ~(Emptied /\ ~joining)
        /\ FGoto(f, IF Emptied THEN "awaitFinal" ELSE "await")
        /\ UNCHANGED <<service, thread, joining>>
  /\ UNCHANGED <<slots, handed, joinReady, guarded, exited, cpc, works, cleaning, runtime,
                 lifetime, completion, owner, todo, inCall, terminated>>

(* finalization_cv_ wakes the waiter.                                      *)
WakeWaiter(f) ==
  /\ \/ /\ fpc[f] = "await" /\ (service = "Finalized" \/ Emptied)
        /\ FGoto(f, "wait")
     \/ /\ fpc[f] = "awaitFinal" /\ service = "Finalized"
        /\ FGoto(f, "completed")
  /\ UNCHANGED <<registry, coordinator, runtime, lifetime, completion, owner, todo, inCall,
                 terminated>>

(* The deadline of wait_for() passes: what was missed is looked at again.  *)
TimeOut(f) ==
  /\ f \notin Patient
  /\ \/ fpc[f] \in {"wait", "awaitFinal"} /\ service # "Finalized"
     \/ fpc[f] = "await" /\ service # "Finalized" /\ ~Emptied
  /\ FGoto(f, "timedOut")
  /\ UNCHANGED <<registry, coordinator, runtime, lifetime, completion, owner, todo, inCall,
                 terminated>>

JoinCoordinator(f) ==
  /\ fpc[f] = "join" /\ cpc = "ended"
  /\ service' = "Finalized" /\ joining' = FALSE
  /\ FGoto(f, "completed")
  /\ UNCHANGED <<slots, handed, joinReady, guarded, thread, exited, cpc, works, cleaning,
                 runtime, lifetime, completion, owner, todo, inCall, terminated>>
-----------------------------------------------------------------------------
(* process_snapshot(): the gauges and the state, read under one lock.  A   *)
(* slot that is claimed is in slots no more.  That a registration has been *)
(* counted, which is Active as well, adds nothing while the registry is    *)
(* open: the first one has started the coordinator.                        *)
Snapshot ==
  [registered |-> Cardinality(slots),
   joinReady |-> Cardinality(slots \cap joinReady),
   pending |-> Cardinality((slots \cap handed) \ joinReady),
   state |-> CASE Closed -> service
               [] ~Closed /\ thread -> "Active"
               [] ~Closed /\ ~thread -> "NotStarted"]

OwnerStep(r) == \/ Spawn(r) \/ RecheckOpen(r) \/ PublishRunning(r) \/ ReplaceCleanup(r)
                \/ RequestStop(r) \/ Stopped(r) \/ AfterStop(r) \/ Release(r)
OwnerChoice(r) == Register(r) \/ AttachFails(r) \/ SpawnFails(r) \/ Shutdown(r) \/ DropHandle(r)

GateStep(r, a) == EnterGate(r, a) \/ JoinWorkers(r, a) \/ WaitStopped(r, a)

WorkerStep(r, w) == \/ Arrive(r, w) \/ PassBarrier(r, w) \/ LeaveLoop(r, w)
                    \/ NotifyJoinReady(r, w) \/ DropOnWorker(r, w) \/ StopOrphan(r, w)
                    \/ HandOff(r, w) \/ ReleaseOnWorker(r, w)

CoordinatorStep == \/ Claim \/ BeginCleanup \/ EndCleanup \/ CleanedUp
                   \/ Exit \/ ThreadEnds

FinalizerStep(f) == \/ CallStop(f) \/ CallFlag(f) \/ CallsDone(f) \/ StartWait(f)
                    \/ WaitTurn(f) \/ WakeWaiter(f) \/ JoinCoordinator(f)
FinalizerChoice(f) == Begin(f) \/ Escalate(f) \/ TimeOut(f)

Go == ~terminated /\ UNCHANGED cast

Next ==
  /\ Go
  /\ \/ \E r \in cast.runtimes : OwnerStep(r) \/ OwnerChoice(r)
     \/ \E r \in Runtimes, a \in Joiners : GateStep(r, a)
     \/ \E r \in Runtimes, w \in Crew : WorkerStep(r, w)
     \/ CoordinatorStep
     \/ \E f \in cast.finalizers : FinalizerStep(f) \/ FinalizerChoice(f)

Spec == Init /\ [][Next]_vars

(* A thread that can run does; what a user chooses is not owed.            *)
FairSpec ==
  /\ Spec
  /\ \A r \in Runtimes : WF_vars(Go /\ OwnerStep(r))
  /\ \A r \in Runtimes, a \in Joiners : WF_vars(Go /\ GateStep(r, a))
  /\ \A r \in Runtimes, w \in Workers : WF_vars(Go /\ WorkerStep(r, w))
  /\ WF_vars(Go /\ CoordinatorStep)
  /\ \A f \in Finalizers : WF_vars(Go /\ FinalizerStep(f))
-----------------------------------------------------------------------------
(* The runtimes the process still has to reclaim: registered, or with a    *)
(* worker thread that has not left.                                        *)
Live == {r \in Runtimes : r \in slots \/ \E w \in Crew : Exists(r, w)}

(* The process-wide service: no runtime starts once registration closed,   *)
(* and Finalized is true, whichever waiter publishes it.                   *)
Service == INSTANCE ProcessService WITH phase <- service, live <- Live
ServiceSpec == Service!Spec

(* R-026: the workers of a runtime have one join owner, and Stopped, which *)
(* ends every shutdown(), rollback and cleanup, says that they are gone.   *)
OneJoinOwner ==
  \A r \in Runtimes :
    /\ \A a, b \in Joiners : at[r][a] = "join" /\ at[r][b] = "join" => a = b
    /\ status[r] = "Stopped" => \A w \in Crew : ~Exists(r, w)

(* R-097: a constructor that throws, because registration closed first or  *)
(* a thread could not be created, leaves no worker, and nothing registered *)
(* for the coordinator to wait for; but see AttachRollsBack.               *)
RefusedLeavesNothing ==
  \A r \in Runtimes : opc[r] = "refused" /\ why[r] # "attach" => r \notin Live

(* R-020: an Impl is freed only when no worker of it runs.                 *)
FreedIsQuiet ==
  \A r \in Runtimes : object[r] = "freed" => \A w \in Crew : ~Exists(r, w)

(* R-095: the gauges of process_metrics_snapshot() can be relied on: what  *)
(* is pending has a worker still to leave, what is join-ready has none, no *)
(* runtime is counted twice, and after Finalized none is counted.          *)
SnapshotAgrees ==
  /\ Snapshot.pending + Snapshot.joinReady <= Snapshot.registered
  /\ Snapshot.state = "Finalized" => Snapshot.registered = 0
  /\ \A r \in slots :
       /\ r \in joinReady => {w \in Crew : Exists(r, w)} = {}
       /\ r \in handed \ joinReady => {w \in Crew : Exists(r, w)} # {}

(* Join ownership, lifetime and metrics together, over well-typed states.  *)
Inv == TypeOK /\ OneJoinOwner /\ FreedIsQuiet /\ SnapshotAgrees

(* R-032: a wait() ends, unless std::terminate() ended the process or a    *)
(* constructor left a slot behind.                                         *)
WaitEnds ==
  \A f \in Patient :
    fpc[f] # "idle" ~> \/ fpc[f] = "completed" \/ terminated
                       \/ \E r \in Runtimes : why[r] = "attach"

(* R-021, R-025: a runtime handed off by its worker is stopped and freed   *)
(* by the coordinator, with or without a finalization.                     *)
OrphanReclaimed ==
  \A r \in Shared : r \in handed ~> (object[r] = "freed" \/ terminated)
-----------------------------------------------------------------------------
(* What the code does not promise, see the README.                         *)

(* scheduler.cpp: an attach that throws is rolled back as well.            *)
AttachRollsBack == \A r \in Runtimes : opc[r] = "refused" => r \notin Live

(* R-042: the join of the coordinator precedes Finalized.                  *)
FinalizedAfterJoin == service = "Finalized" => \A f \in Finalizers : fpc[f] # "join"

(* R-020: a callback of the registry finds its runtime alive.              *)
CalledAlive ==
  \A f \in Finalizers : inCall[f] # NoRuntime => object[inCall[f]] # "freed"

(* R-021: no runtime is destroyed on a worker of its own.                  *)
NoTerminate == ~terminated

(* R-104: a runtime that was asked to stop does not go back to Running.    *)
StoppingKept ==
  [][\A r \in Runtimes : status[r] = "Stopping" => status'[r] # "Running"]_vars
=============================================================================
