------------------------- MODULE Finalization_proof --------------------------
(***************************************************************************)
(* Startup, shutdown, handoff and finalization for any runtimes, workers,  *)
(* finalizers and cast.  The argument follows the workers of one runtime:  *)
(* they exist only while it is registered, who calls notify_join_ready()   *)
(* is the last of them, and nobody creates one after that.                 *)
(***************************************************************************)
EXTENDS Finalization, FiniteSetTheorems, TLAPS

Quiet(r) == \A w \in Crew : ~Exists(r, w)
AllSpawned(r) == \A w \in Crew : wpc[r][w] # "new"
AllGone(r) == \A w \in Crew : wpc[r][w] = "gone"

(* The workers: the loop is entered once all were spawned, and the last to *)
(* leave is alone.                                                         *)
Workforce(r) ==
  /\ opc[r] = "idle" => \A w \in Crew : wpc[r][w] = "new"
  /\ opc[r] = "spawn" => ~AllSpawned(r)
  /\ opc[r] = "publish" \/ startup[r] = "done" => AllSpawned(r)
  /\ \A w \in Crew :
       /\ wpc[r][w] \in {"loop", "orphan", "handoff", "release"} => AllSpawned(r)
       /\ wpc[r][w] = "left" => \A v \in Crew \ {w} : wpc[r][v] = "gone"

(* What the Reaper knows of them. *)
Tracked(r) ==
  /\ r \in joinReady => AllGone(r)
  /\ r \in handed => AllSpawned(r)
  /\ r \in (slots \cap handed) \ joinReady => ~Quiet(r)
  /\ r \in works => r \in joinReady
  /\ at[r]["coordinator"] # "away" => r \in joinReady
  /\ cpc = "cleanup" => cleaning \in Runtimes

(* The shared completion: who joins leads, and who is back, or past it,    *)
(* finds no worker.                                                        *)
Completion(r) ==
  /\ at[r]["owner"] # "away" => opc[r] = "stopping"
  /\ \A a \in Joiners : at[r][a] = "join" => leader[r] = a
  /\ opc[r] \in {"idle", "spawn"} => status[r] # "Stopped" /\ object[r] # "freed"
  /\ \/ status[r] = "Stopped" \/ object[r] = "freed" \/ opc[r] = "unregister"
     \/ \E a \in Joiners : at[r][a] = "back"
     => Quiet(r)

(* A runtime with workers is registered; a rollback takes it off.          *)
Registered(r) ==
  /\ opc[r] = "idle" => r \notin slots
  /\ opc[r] = "spawn" \/ ~Quiet(r) => r \in slots
  /\ opc[r] = "unregister" /\ why[r] = "rollback" => r \notin slots
  /\ opc[r] = "refused" /\ why[r] # "attach" => r \notin slots

(* The service ends when nothing is registered.                            *)
Closing ==
  /\ IsFiniteSet(slots)
  /\ ~thread \/ service = "Finalized" => slots = {}
  /\ exited => Closed
  /\ \A f \in Finalizers : fpc[f] = "join" => Closed /\ slots = {}

(* The types, by the groups of variables that the actions leave alone.     *)
RegistryT == /\ service \in {"Open", "Finalizing", "Finalized"}
             /\ slots \subseteq Runtimes /\ handed \subseteq Runtimes
             /\ joinReady \subseteq Runtimes /\ guarded \subseteq Runtimes
CoordinatorT == /\ thread \in BOOLEAN /\ exited \in BOOLEAN /\ joining \in BOOLEAN
                /\ cpc \in {"none", "wait", "clean", "cleanup", "drop", "leaving", "ended"}
                /\ works \subseteq Runtimes /\ cleaning \in Runtimes \cup {NoRuntime}
RuntimeT == /\ status \in [Runtimes -> {"Running", "Stopping", "Stopped"}]
            /\ stopRequested \in [Runtimes -> BOOLEAN]
            /\ startup \in [Runtimes -> {"pending", "done", "failed"}]
            /\ wpc \in [Runtimes -> [Workers -> {"new", "starting", "barrier", "loop", "orphan",
                                                 "handoff", "release", "left", "gone"}]]
LifetimeT == /\ holder \in [Runtimes -> Workers \cup {NoWorker}]
             /\ refs \in [Runtimes -> SUBSET {"owner", "task", "reaper"}]
             /\ object \in [Runtimes -> {"absent", "built", "freed"}]
CompletionT == /\ leader \in [Runtimes -> Joiners \cup {"none"}]
               /\ at \in [Runtimes -> [Joiners -> {"away", "gate", "join", "wait", "back"}]]
OwnerT == /\ opc \in [Runtimes -> {"idle", "spawn", "barrier", "publish", "replace", "using",
                                   "request", "stopping", "unregister", "release",
                                   "refused", "done"}]
          /\ why \in [Runtimes -> {"none", "attach", "rollback", "shutdown", "last", "destructor"}]
          /\ \A r \in Runtimes : opc[r] \in {"request", "stopping", "unregister"} =>
               why[r] \in {"rollback", "shutdown", "last", "destructor"}
FinalizerT == /\ fpc \in [Finalizers -> {"idle", "calling", "begun", "escalating", "called", "wait",
                                         "await", "awaitFinal", "join", "completed", "timedOut"}]
              /\ todo \in [Finalizers -> SUBSET Runtimes]
              /\ inCall \in [Finalizers -> Runtimes \cup {NoRuntime}]
Typed == /\ RegistryT /\ CoordinatorT /\ RuntimeT /\ LifetimeT
         /\ CompletionT /\ OwnerT /\ FinalizerT
         /\ terminated \in BOOLEAN /\ cast \in Casts

FinalInv ==
  /\ Typed /\ Closing
  /\ \A r \in Runtimes : Workforce(r) /\ Tracked(r) /\ Completion(r) /\ Registered(r)
-----------------------------------------------------------------------------
LEMMA TypedIsTypeOK == Typed => TypeOK
BY
   DEF Typed, TypeOK, RegistryT, CoordinatorT, RuntimeT, LifetimeT, CompletionT, OwnerT,
       FinalizerT

(* Who takes part is among those there are. *)
LEMMA CastType ==
  ASSUME Typed
  PROVE  /\ Crew \subseteq Workers /\ Crew # {} /\ IsFiniteSet(Crew)
         /\ cast.runtimes \subseteq Runtimes /\ cast.finalizers \subseteq Finalizers
<1>1. /\ Crew \subseteq Workers /\ Crew # {}
      /\ cast.runtimes \subseteq Runtimes /\ cast.finalizers \subseteq Finalizers
  <2>1. cast \in [runtimes : SUBSET Runtimes, workers : (SUBSET Workers) \ {{}},
                  finalizers : SUBSET Finalizers,
                  ends : [Runtimes -> SUBSET {"attach", "fail", "shutdown", "drop"}]]
    BY FinalizationAssumption DEF Typed, FinalizationAssumption
  <2>2. cast.workers \in (SUBSET Workers) \ {{}}
    BY <2>1
  <2>3. cast.runtimes \in SUBSET Runtimes /\ cast.finalizers \in SUBSET Finalizers
    BY <2>1
  <2> QED
    BY <2>2, <2>3 DEF Crew
<1> QED
  BY <1>1, FinalizationAssumption, FS_Subset DEF FinalizationAssumption

(* A group that a step leaves alone keeps its type. *)
LEMMA Frames ==
  /\ RegistryT /\ UNCHANGED registry => RegistryT'
  /\ CoordinatorT /\ UNCHANGED coordinator => CoordinatorT'
  /\ RuntimeT /\ UNCHANGED runtime => RuntimeT'
  /\ LifetimeT /\ UNCHANGED lifetime => LifetimeT'
  /\ CompletionT /\ UNCHANGED completion => CompletionT'
  /\ OwnerT /\ UNCHANGED owner => OwnerT'
  /\ FinalizerT /\ UNCHANGED finalizer => FinalizerT'
<1>1. RegistryT /\ UNCHANGED registry => RegistryT'
  BY DEF RegistryT, registry
<1>2. CoordinatorT /\ UNCHANGED coordinator => CoordinatorT'
  BY DEF CoordinatorT, coordinator
<1>3. RuntimeT /\ UNCHANGED runtime => RuntimeT'
  BY DEF RuntimeT, runtime
<1>4. LifetimeT /\ UNCHANGED lifetime => LifetimeT'
  BY DEF LifetimeT, lifetime
<1>5. CompletionT /\ UNCHANGED completion => CompletionT'
  BY DEF CompletionT, completion, Joiners
<1>6. OwnerT /\ UNCHANGED owner => OwnerT'
  BY DEF OwnerT, owner
<1>7. FinalizerT /\ UNCHANGED finalizer => FinalizerT'
  BY DEF FinalizerT, finalizer
<1> QED
  BY <1>1, <1>2, <1>3, <1>4, <1>5, <1>6, <1>7

(* Every variable keeps its type. *)
LEMMA TypedKept == FinalInv /\ [Next]_vars => Typed'
<1> SUFFICES ASSUME FinalInv PROVE [Next]_vars => Typed'
  OBVIOUS
<1> USE Frames, CastType DEF FinalInv, Typed, Go
<1>1. ASSUME NEW r \in Runtimes, Go, OwnerStep(r) \/ OwnerChoice(r)
      PROVE  Typed'
  <2>1. CASE Register(r)
    <3>1. PICK next \in {"spawn", "refused"} : opc' = [opc EXCEPT ![r] = next]
      BY <1>1, <2>1 DEF Register, OGoto
    <3>2. PICK x \in {"built", object[r]} : object' = [object EXCEPT ![r] = x]
      BY <1>1, <2>1 DEF Register, LifetimeT
    <3>3. slots' \in SUBSET Runtimes /\ thread' \in BOOLEAN /\ cpc' \in {"wait", cpc}
      BY <1>1, <2>1 DEF Register, RegistryT, CoordinatorT
    <3>4. RegistryT' /\ CoordinatorT' /\ LifetimeT' /\ OwnerT'
      BY <1>1, <2>1, <3>1, <3>2, <3>3
         DEF Register, RegistryT, CoordinatorT, LifetimeT, OwnerT
    <3> QED
      BY <1>1, <2>1, <3>4 DEF Register
  <2>2. CASE AttachFails(r)
    BY <1>1, <2>2 DEF AttachFails, LifetimeT, lifetime, OwnerT, owner, OGoto
  <2>3. CASE Spawn(r)
    BY <1>1, <2>3 DEF Spawn, RuntimeT, runtime, WGoto, OwnerT, owner, OGoto
  <2>4. CASE SpawnFails(r)
    BY <1>1, <2>4
       DEF SpawnFails, RollBack, RuntimeT, runtime, WGoto, CompletionT, completion,
           AtGoto, Joiners, OwnerT, owner, OGoto
  <2>5. CASE RecheckOpen(r)
    <3>1. PICK next \in {"publish", "stopping"}, y \in {"rollback", why[r]} :
            /\ opc' = [opc EXCEPT ![r] = next] /\ why' = [why EXCEPT ![r] = y]
            /\ next = "stopping" => y = "rollback"
      BY <1>1, <2>5 DEF RecheckOpen, RollBack, OGoto, OwnerT
    <3>2. PICK x \in {"failed", startup[r]} : startup' = [startup EXCEPT ![r] = x]
      BY <1>1, <2>5 DEF RecheckOpen, RollBack, RuntimeT
    <3>3. stopRequested' \in [Runtimes -> BOOLEAN]
      BY <1>1, <2>5 DEF RecheckOpen, RollBack, RuntimeT
    <3>4. PICK g \in {"gate", at[r]["owner"]} : at' = [at EXCEPT ![r]["owner"] = g]
      BY <1>1, <2>5 DEF RecheckOpen, RollBack, AtGoto, CompletionT
    <3>5. OwnerT'
      BY <1>1, <2>5, <3>1 DEF OwnerT
    <3>6. RuntimeT'
      BY <1>1, <2>5, <3>2, <3>3 DEF RecheckOpen, RuntimeT
    <3>7. CompletionT'
      BY <1>1, <2>5, <3>4 DEF RecheckOpen, CompletionT, Joiners
    <3> QED
      BY <1>1, <2>5, <3>5, <3>6, <3>7 DEF RecheckOpen
  <2>6. CASE PublishRunning(r)
    BY <1>1, <2>6 DEF PublishRunning, RuntimeT, runtime, WGoto, OwnerT, owner, OGoto
  <2>7. CASE ReplaceCleanup(r)
    BY <1>1, <2>7
       DEF ReplaceCleanup, RegistryT, registry, LifetimeT, lifetime, OwnerT, owner,
           OGoto
  <2>8. CASE Shutdown(r)
    BY <1>1, <2>8 DEF Shutdown, OwnerT, owner, OGoto
  <2>9. CASE DropHandle(r)
    BY <1>1, <2>9 DEF DropHandle, OwnerT, owner, OGoto
  <2>10. CASE RequestStop(r)
    BY <1>1, <2>10
       DEF RequestStop, Requested, RuntimeT, runtime, WGoto, CompletionT, completion,
           AtGoto, Joiners, OwnerT, owner, OGoto
  <2>11. CASE Stopped(r)
    BY <1>1, <2>11
       DEF Stopped, RegistryT, registry, CompletionT, completion, AtGoto, Joiners,
           OwnerT, owner, OGoto
  <2>12. CASE AfterStop(r)
    BY <1>1, <2>12 DEF AfterStop, LifetimeT, lifetime, OwnerT, owner, OGoto
  <2>13. CASE Release(r)
    BY <1>1, <2>13 DEF Release, LifetimeT, lifetime, OwnerT, owner, OGoto
  <2> QED
    BY <1>1, <2>1, <2>2, <2>3, <2>4, <2>5, <2>6, <2>7, <2>8, <2>9, <2>10, <2>11, <2>12,
       <2>13
       DEF OwnerStep, OwnerChoice
<1>2. ASSUME NEW r \in Runtimes, NEW a \in Joiners, Go, GateStep(r, a)
      PROVE  Typed'
  <2>1. CASE EnterGate(r, a)
    BY <1>2, <2>1 DEF EnterGate, CompletionT, completion, AtGoto, Joiners
  <2>2. CASE JoinWorkers(r, a)
    BY <1>2, <2>2
       DEF JoinWorkers, RuntimeT, runtime, WGoto, CompletionT, completion, AtGoto,
           Joiners
  <2>3. CASE WaitStopped(r, a)
    BY <1>2, <2>3 DEF WaitStopped, CompletionT, completion, AtGoto, Joiners
  <2> QED
    BY <1>2, <2>1, <2>2, <2>3 DEF GateStep
<1>3. ASSUME NEW r \in Runtimes, NEW w \in Crew, Go, WorkerStep(r, w)
      PROVE  Typed'
  <2>1. CASE Arrive(r, w)
    BY <1>3, <2>1 DEF Arrive, RuntimeT, runtime, WGoto
  <2>2. CASE PassBarrier(r, w)
    <3>1. PICK step \in {"loop", "left", "gone"} : wpc' = [wpc EXCEPT ![r][w] = step]
      BY <1>3, <2>2 DEF PassBarrier, Leave, WGoto
    <3> QED
      BY <1>3, <2>2, <3>1 DEF PassBarrier, RuntimeT
  <2>3. CASE LeaveLoop(r, w)
    BY <1>3, <2>3 DEF LeaveLoop, Leave, RuntimeT, runtime, WGoto
  <2>4. CASE NotifyJoinReady(r, w)
    BY <1>3, <2>4 DEF NotifyJoinReady, RegistryT, registry, RuntimeT, runtime, WGoto
  <2>5. CASE DropOnWorker(r, w)
    BY <1>3, <2>5 DEF DropOnWorker, RuntimeT, runtime, WGoto
  <2>6. CASE StopOrphan(r, w)
    BY <1>3, <2>6 DEF StopOrphan, Requested, RuntimeT, runtime, WGoto
  <2>7. CASE HandOff(r, w)
    BY <1>3, <2>7
       DEF HandOff, RegistryT, registry, RuntimeT, runtime, WGoto, LifetimeT, lifetime
  <2>8. CASE ReleaseOnWorker(r, w)
    BY <1>3, <2>8 DEF ReleaseOnWorker, RuntimeT, runtime, WGoto, LifetimeT, lifetime
  <2> QED
    BY <1>3, <2>1, <2>2, <2>3, <2>4, <2>5, <2>6, <2>7, <2>8 DEF WorkerStep
<1>4. CASE Go /\ CoordinatorStep
  <2>1. CASE Claim
    BY <1>4, <2>1 DEF Claim, Claimable, RegistryT, registry, CoordinatorT, coordinator
  <2>2. CASE BeginCleanup
    BY <1>4, <2>2
       DEF BeginCleanup, CoordinatorT, coordinator, LifetimeT, lifetime, CompletionT,
           completion, AtGoto, Joiners
  <2>3. CASE EndCleanup
    BY <1>4, <2>3
       DEF EndCleanup, CoordinatorT, coordinator, LifetimeT, lifetime, CompletionT,
           completion, AtGoto, Joiners
  <2>4. CASE CleanedUp
    BY <1>4, <2>4 DEF CleanedUp, CoordinatorT, coordinator
  <2>5. CASE Exit
    BY <1>4, <2>5 DEF Exit, CoordinatorT, coordinator
  <2>6. CASE ThreadEnds
    BY <1>4, <2>6 DEF ThreadEnds, CoordinatorT, coordinator
  <2> QED
    BY <1>4, <2>1, <2>2, <2>3, <2>4, <2>5, <2>6 DEF CoordinatorStep
<1>5. ASSUME NEW f \in Finalizers, Go, FinalizerStep(f) \/ FinalizerChoice(f)
      PROVE  Typed'
  <2>1. CASE Begin(f)
    BY <1>5, <2>1 DEF Begin, Closed, RegistryT, registry, FinalizerT, finalizer, FGoto
  <2>2. CASE CallStop(f)
    BY <1>5, <2>2
       DEF CallStop, Requested, RuntimeT, runtime, WGoto, FinalizerT, finalizer, FGoto
  <2>3. CASE CallFlag(f)
    BY <1>5, <2>3 DEF CallFlag, RuntimeT, runtime, WGoto, FinalizerT, finalizer, FGoto
  <2>4. CASE CallsDone(f)
    BY <1>5, <2>4 DEF CallsDone, FinalizerT, finalizer, FGoto
  <2>5. CASE Escalate(f)
    BY <1>5, <2>5 DEF Escalate, FinalizerT, finalizer, FGoto, RegistryT
  <2>6. CASE StartWait(f)
    BY <1>5, <2>6 DEF StartWait, RegistryT, registry, FinalizerT, finalizer, FGoto
  <2>7. CASE WaitTurn(f)
    BY <1>5, <2>7
       DEF WaitTurn, RegistryT, registry, CoordinatorT, coordinator, FinalizerT,
           finalizer, FGoto
  <2>8. CASE WakeWaiter(f)
    BY <1>5, <2>8 DEF WakeWaiter, FinalizerT, finalizer, FGoto
  <2>9. CASE TimeOut(f)
    BY <1>5, <2>9 DEF TimeOut, FinalizerT, finalizer, FGoto
  <2>10. CASE JoinCoordinator(f)
    BY <1>5, <2>10
       DEF JoinCoordinator, RegistryT, registry, CoordinatorT, coordinator, FinalizerT,
           finalizer, FGoto
  <2> QED
    BY <1>5, <2>1, <2>2, <2>3, <2>4, <2>5, <2>6, <2>7, <2>8, <2>9, <2>10
       DEF FinalizerStep, FinalizerChoice
<1>6. CASE UNCHANGED vars
  BY <1>6 DEF vars
<1> QED
  BY <1>1, <1>2, <1>3, <1>4, <1>5, <1>6 DEF Next

(* What a step may do to the workers.                                      *)
WorkersMoved ==
  /\ Crew' = Crew
  /\ \A q \in Runtimes, v \in Crew :
       \/ wpc'[q][v] = wpc[q][v]
       \/ opc[q] = "spawn" /\ wpc[q][v] = "new" /\ wpc'[q][v] = "starting"
       \/ Exists(q, v) /\ wpc'[q][v] # "new"

(* The workers of a runtime: whoever exists was spawned, and nobody is new again. *)
LEMMA WorkersMove == FinalInv /\ [Next]_vars => WorkersMoved
<1> SUFFICES ASSUME FinalInv, [Next]_vars PROVE WorkersMoved
  OBVIOUS
<1>0. ASSUME UNCHANGED <<wpc, cast>> PROVE WorkersMoved
  BY <1>0 DEF Go, Crew, WorkersMoved
<1>1. ASSUME NEW r \in Runtimes, Go, OwnerStep(r) \/ OwnerChoice(r)
      PROVE  WorkersMoved
  <2>1. CASE Spawn(r)
    BY <1>1, <2>1
       DEF Spawn, Go, WorkersMoved, runtime, FinalInv, Typed, RuntimeT, WGoto, Exists,
              Crew
  <2>2. CASE Register(r) \/ AttachFails(r) \/ SpawnFails(r) \/ RecheckOpen(r)
          \/ PublishRunning(r) \/ ReplaceCleanup(r) \/ Shutdown(r) \/ DropHandle(r)
          \/ RequestStop(r) \/ Stopped(r) \/ AfterStop(r) \/ Release(r)
    BY <1>0, <1>1, <2>2 DEF Go, Register, AttachFails, SpawnFails, RecheckOpen,
                            PublishRunning, ReplaceCleanup, Shutdown, DropHandle,
                            RequestStop, Stopped, AfterStop, Release, RollBack, RollBack,
                            Requested, Unregisters, runtime
  <2> QED
    BY <1>1, <2>1, <2>2 DEF OwnerStep, OwnerChoice
<1>2. ASSUME NEW r \in Runtimes, NEW a \in Joiners, Go, GateStep(r, a)
      PROVE  WorkersMoved
  BY <1>0, <1>2 DEF Go, GateStep, EnterGate, JoinWorkers, WaitStopped, runtime
<1>3. ASSUME NEW r \in Runtimes, NEW w \in Crew, Go, WorkerStep(r, w)
      PROVE  WorkersMoved
  <2>1. CASE Arrive(r, w)
    BY <1>3, <2>1
       DEF Arrive, Go, WorkersMoved, FinalInv, Typed, RuntimeT, WGoto, Exists, Crew
  <2>2. CASE PassBarrier(r, w)
    <3>1. PICK step \in {"loop", "left", "gone"} : wpc' = [wpc EXCEPT ![r][w] = step]
      BY <1>3, <2>2 DEF PassBarrier, Leave, WGoto
    <3> QED
      BY <1>3, <2>2, <3>1
         DEF PassBarrier, Go, WorkersMoved, FinalInv, Typed, RuntimeT, Exists, Crew
  <2>3. CASE LeaveLoop(r, w)
    BY <1>3, <2>3
       DEF LeaveLoop, Leave, Active, Go, WorkersMoved, FinalInv, Typed, RuntimeT, WGoto,
              Exists, Crew
  <2>4. CASE NotifyJoinReady(r, w)
    BY <1>3, <2>4
       DEF NotifyJoinReady, Go, WorkersMoved, FinalInv, Typed, RuntimeT, WGoto, Exists,
              Crew
  <2>5. CASE DropOnWorker(r, w)
    BY <1>3, <2>5
       DEF DropOnWorker, Go, WorkersMoved, FinalInv, Typed, RuntimeT, WGoto, Exists,
           Crew
  <2>6. CASE StopOrphan(r, w)
    BY <1>3, <2>6
       DEF StopOrphan, Requested, Go, WorkersMoved, FinalInv, Typed, RuntimeT, WGoto,
              Exists, Crew
  <2>7. CASE HandOff(r, w)
    BY <1>3, <2>7
       DEF HandOff, Go, WorkersMoved, FinalInv, Typed, RuntimeT, WGoto, Exists, Crew
  <2>8. CASE ReleaseOnWorker(r, w)
    BY <1>3, <2>8
       DEF ReleaseOnWorker, Go, WorkersMoved, FinalInv, Typed, RuntimeT, WGoto, Exists,
              Crew
  <2> QED
    BY <1>3, <2>1, <2>2, <2>3, <2>4, <2>5, <2>6, <2>7, <2>8 DEF WorkerStep
<1>4. CASE Go /\ CoordinatorStep
  BY <1>0, <1>4 DEF Go, CoordinatorStep, Claim, BeginCleanup, EndCleanup, CleanedUp, Exit,
                    ThreadEnds, runtime
<1>5. ASSUME NEW f \in Finalizers, Go, FinalizerStep(f) \/ FinalizerChoice(f)
      PROVE  WorkersMoved
  BY <1>0, <1>5 DEF Go, FinalizerStep, FinalizerChoice, Begin, CallStop, CallFlag,
                    CallsDone, Escalate, StartWait, WaitTurn, WakeWaiter, TimeOut,
                    JoinCoordinator, runtime
<1>6. CASE UNCHANGED vars
  BY <1>0, <1>6 DEF vars, runtime
<1>7. cast.runtimes \subseteq Runtimes /\ cast.finalizers \subseteq Finalizers
  BY CastType DEF FinalInv
<1> QED
  BY <1>1, <1>2, <1>3, <1>4, <1>5, <1>6, <1>7 DEF Next

(* The last worker to leave is alone. *)
LEMMA WorkforceKept == FinalInv /\ [Next]_vars => \A q \in Runtimes : Workforce(q)'
<1> SUFFICES ASSUME FinalInv, [Next]_vars PROVE \A q \in Runtimes : Workforce(q)'
  OBVIOUS
<1>f1. Crew # {}
  BY CastType DEF FinalInv
<1>0. ASSUME UNCHANGED <<opc, startup, wpc, cast>> PROVE \A q \in Runtimes : Workforce(q)'
  BY <1>0 DEF Go, Crew, FinalInv, Workforce, AllSpawned
<1>1. ASSUME NEW r \in Runtimes, Go, OwnerStep(r) \/ OwnerChoice(r)
      PROVE  \A q \in Runtimes : Workforce(q)'
  <2>1. CASE Register(r)
    <3>1. PICK next \in {"spawn", "refused"} : opc' = [opc EXCEPT ![r] = next]
      BY <1>f1, <1>1, <2>1 DEF Register, OGoto
    <3>2. opc[r] = "idle" /\ UNCHANGED <<startup, wpc, cast>>
      BY <1>f1, <1>1, <2>1 DEF Register, runtime, Go
    <3> QED
      BY <1>f1, <1>1, <2>1, <3>1, <3>2
         DEF FinalInv, Typed, OwnerT, Workforce, AllSpawned, Crew
  <2>2. CASE AttachFails(r)
    BY <1>f1, <1>1, <2>2
       DEF AttachFails, Go, FinalInv, Typed, RuntimeT, OwnerT, OGoto, WGoto, Workforce,
              AllSpawned, runtime, owner, Crew
  <2>3. CASE Spawn(r)
    BY <1>f1, <1>1, <2>3
       DEF Spawn, Go, FinalInv, Typed, RuntimeT, OwnerT, OGoto, WGoto, Workforce,
              AllSpawned, runtime, owner, Crew
  <2>4. CASE SpawnFails(r)
    BY <1>f1, <1>1, <2>4
       DEF SpawnFails, RollBack, Go, FinalInv, Typed, RuntimeT, OwnerT, OGoto, WGoto,
              Workforce, AllSpawned, runtime, owner, Crew
  <2>5. CASE RecheckOpen(r)
    BY <1>f1, <1>1, <2>5
       DEF RecheckOpen, RollBack, Go, FinalInv, Typed, RuntimeT, OwnerT, OGoto, WGoto,
              Workforce, AllSpawned, runtime, owner, Crew
  <2>6. CASE PublishRunning(r)
    BY <1>f1, <1>1, <2>6
       DEF PublishRunning, Go, FinalInv, Typed, RuntimeT, OwnerT, OGoto, WGoto,
              Workforce, AllSpawned, runtime, owner, Crew
  <2>7. CASE ReplaceCleanup(r)
    BY <1>f1, <1>1, <2>7
       DEF ReplaceCleanup, Go, FinalInv, Typed, RuntimeT, OwnerT, OGoto, WGoto,
              Workforce, AllSpawned, runtime, owner, Crew
  <2>8. CASE Shutdown(r)
    BY <1>f1, <1>1, <2>8
       DEF Shutdown, Go, FinalInv, Typed, RuntimeT, OwnerT, OGoto, WGoto, Workforce,
              AllSpawned, runtime, owner, Crew
  <2>9. CASE DropHandle(r)
    BY <1>f1, <1>1, <2>9
       DEF DropHandle, Go, FinalInv, Typed, RuntimeT, OwnerT, OGoto, WGoto, Workforce,
              AllSpawned, runtime, owner, Crew
  <2>10. CASE RequestStop(r)
    BY <1>f1, <1>1, <2>10
       DEF RequestStop, Requested, Go, FinalInv, Typed, RuntimeT, OwnerT, OGoto, WGoto,
              Workforce, AllSpawned, runtime, owner, Crew
  <2>11. CASE Stopped(r)
    BY <1>f1, <1>1, <2>11
       DEF Stopped, Unregisters, Go, FinalInv, Typed, RuntimeT, OwnerT, OGoto, WGoto,
              Workforce, AllSpawned, runtime, owner, Crew
  <2>12. CASE AfterStop(r)
    BY <1>f1, <1>1, <2>12
       DEF AfterStop, Go, FinalInv, Typed, RuntimeT, OwnerT, OGoto, WGoto, Workforce,
              AllSpawned, runtime, owner, Crew
  <2>13. CASE Release(r)
    BY <1>f1, <1>1, <2>13
       DEF Release, Go, FinalInv, Typed, RuntimeT, OwnerT, OGoto, WGoto, Workforce,
              AllSpawned, runtime, owner, Crew
  <2> QED
    BY <1>1, <2>1, <2>2, <2>3, <2>4, <2>5, <2>6, <2>7, <2>8, <2>9, <2>10, <2>11, <2>12,
             <2>13 DEF OwnerStep, OwnerChoice
<1>2. ASSUME NEW r \in Runtimes, NEW a \in Joiners, Go, GateStep(r, a)
      PROVE  \A q \in Runtimes : Workforce(q)'
  BY <1>0, <1>2 DEF Go, GateStep, EnterGate, JoinWorkers, WaitStopped, runtime, owner
<1>3. ASSUME NEW r \in Runtimes, NEW w \in Crew, Go, WorkerStep(r, w)
      PROVE  \A q \in Runtimes : Workforce(q)'
  <2>1. CASE Arrive(r, w)
    BY <1>f1, <1>3, <2>1
       DEF Arrive, Go, FinalInv, Typed, RuntimeT, OwnerT, OGoto, WGoto, Workforce,
              AllSpawned, runtime, owner, Crew
  <2>2. CASE PassBarrier(r, w)
    <3>1. PICK step \in {"loop", "left", "gone"} :
            /\ wpc' = [wpc EXCEPT ![r][w] = step]
            /\ step = "loop" => startup[r] = "done"
            /\ step = "left" => Active(r) = {w}
      BY <1>f1, <1>3, <2>2 DEF PassBarrier, Leave, WGoto
    <3>2. wpc[r][w] = "barrier" /\ UNCHANGED <<opc, startup, cast>>
      BY <1>f1, <1>3, <2>2 DEF PassBarrier, owner, Go
    <3> QED
      BY <1>f1, <1>3, <2>2, <3>1, <3>2
         DEF Active, FinalInv, Typed, RuntimeT, Workforce, AllSpawned, Crew
  <2>3. CASE LeaveLoop(r, w)
    BY <1>f1, <1>3, <2>3
       DEF LeaveLoop, Leave, Active, Go, FinalInv, Typed, RuntimeT, OwnerT, OGoto,
           WGoto,
              Workforce, AllSpawned, runtime, owner, Crew
  <2>4. CASE NotifyJoinReady(r, w)
    BY <1>f1, <1>3, <2>4
       DEF NotifyJoinReady, Go, FinalInv, Typed, RuntimeT, OwnerT, OGoto, WGoto,
              Workforce, AllSpawned, runtime, owner, Crew
  <2>5. CASE DropOnWorker(r, w)
    BY <1>f1, <1>3, <2>5
       DEF DropOnWorker, Go, FinalInv, Typed, RuntimeT, OwnerT, OGoto, WGoto, Workforce,
              AllSpawned, runtime, owner, Crew
  <2>6. CASE StopOrphan(r, w)
    BY <1>f1, <1>3, <2>6
       DEF StopOrphan, Requested, Go, FinalInv, Typed, RuntimeT, OwnerT, OGoto, WGoto,
              Workforce, AllSpawned, runtime, owner, Crew
  <2>7. CASE HandOff(r, w)
    BY <1>f1, <1>3, <2>7
       DEF HandOff, Go, FinalInv, Typed, RuntimeT, OwnerT, OGoto, WGoto, Workforce,
              AllSpawned, runtime, owner, Crew
  <2>8. CASE ReleaseOnWorker(r, w)
    BY <1>f1, <1>3, <2>8
       DEF ReleaseOnWorker, Go, FinalInv, Typed, RuntimeT, OwnerT, OGoto, WGoto,
              Workforce, AllSpawned, runtime, owner, Crew
  <2> QED
    BY <1>3, <2>1, <2>2, <2>3, <2>4, <2>5, <2>6, <2>7, <2>8 DEF WorkerStep
<1>4. CASE Go /\ CoordinatorStep
  BY <1>0, <1>4 DEF Go, CoordinatorStep, Claim, BeginCleanup, EndCleanup, CleanedUp, Exit,
                    ThreadEnds, runtime, owner
<1>5. ASSUME NEW f \in Finalizers, Go, FinalizerStep(f) \/ FinalizerChoice(f)
      PROVE  \A q \in Runtimes : Workforce(q)'
  BY <1>0, <1>5 DEF Go, FinalizerStep, FinalizerChoice, Begin, CallStop, CallFlag,
                    CallsDone, Escalate, StartWait, WaitTurn, WakeWaiter, TimeOut,
                    JoinCoordinator, runtime, owner
<1>6. CASE UNCHANGED vars
  BY <1>0, <1>6 DEF vars, runtime, owner
<1>7. cast.runtimes \subseteq Runtimes /\ cast.finalizers \subseteq Finalizers
  BY CastType DEF FinalInv
<1> QED
  BY <1>1, <1>2, <1>3, <1>4, <1>5, <1>6, <1>7 DEF Next

(* What is said of all workers of a runtime lasts; but a constructor that   *)
(* is still spawning ends the quiet.                                       *)
LEMMA Lasts ==
  ASSUME FinalInv, WorkersMoved, NEW q \in Runtimes
  PROVE  /\ AllSpawned(q) => AllSpawned(q)'
         /\ AllGone(q) => AllGone(q)' /\ Quiet(q) /\ AllSpawned(q)
         /\ Quiet(q) /\ opc[q] # "spawn" => Quiet(q)'
BY DEF WorkersMoved, AllSpawned, AllGone, Quiet, Exists, Crew

(* One joins, and who is back finds nobody. *)
LEMMA CompletionKept == FinalInv /\ [Next]_vars => \A q \in Runtimes : Completion(q)'
<1> SUFFICES ASSUME FinalInv, [Next]_vars PROVE \A q \in Runtimes : Completion(q)'
  OBVIOUS
<1>f1. \A q \in Runtimes : /\ AllSpawned(q) => AllSpawned(q)'
                           /\ AllGone(q) => AllGone(q)' /\ Quiet(q) /\ AllSpawned(q)
                           /\ Quiet(q) /\ opc[q] # "spawn" => Quiet(q)'
  BY WorkersMove, Lasts
<1>f2. \A q \in Runtimes : Workforce(q) /\ Tracked(q) /\ Completion(q) /\ Registered(q)
  BY DEF FinalInv
<1>f3. \A q \in Runtimes : (\A w \in Crew : wpc[q][w] = "new") => ~AllSpawned(q)
  BY CastType DEF FinalInv, AllSpawned
<1>f4. Typed
  BY DEF FinalInv
<1>0. ASSUME UNCHANGED <<at, opc, leader, status, object>> PROVE \A q \in Runtimes : Completion(q)'
  BY <1>f1, <1>f2, <1>0 DEF Workforce, Tracked, Completion, Joiners
<1>1. ASSUME NEW r \in Runtimes, Go, OwnerStep(r) \/ OwnerChoice(r)
      PROVE  \A q \in Runtimes : Completion(q)'
  <2>1. CASE Register(r)
    BY <1>f1, <1>f2, <1>f3, <1>f4, <1>1, <2>1
    DEF Register, Go, Typed, RuntimeT, LifetimeT, CompletionT, OwnerT, Completion,
        Workforce, Tracked, OGoto, AtGoto, WGoto, Joiners, runtime, lifetime, completion,
        owner
  <2>2. CASE AttachFails(r)
    BY <1>f1, <1>f2, <1>f3, <1>f4, <1>1, <2>2
    DEF AttachFails, Go, Typed, RuntimeT, LifetimeT, CompletionT, OwnerT, Completion,
        Workforce, Tracked, OGoto, AtGoto, WGoto, Joiners, runtime, lifetime, completion,
        owner, Quiet, Exists, Crew
  <2>3. CASE Spawn(r)
    BY <1>f1, <1>f2, <1>f3, <1>f4, <1>1, <2>3
    DEF Spawn, Go, Typed, RuntimeT, LifetimeT, CompletionT, OwnerT, Completion, Workforce,
        Tracked, OGoto, AtGoto, WGoto, Joiners, runtime, lifetime, completion, owner
  <2>4. CASE SpawnFails(r)
    BY <1>f1, <1>f2, <1>f3, <1>f4, <1>1, <2>4
    DEF SpawnFails, RollBack, Go, Typed, RuntimeT, LifetimeT, CompletionT, OwnerT,
        Completion, Workforce, Tracked, OGoto, AtGoto, WGoto, Joiners, runtime, lifetime,
        completion, owner
  <2>5. CASE RecheckOpen(r)
    BY <1>f1, <1>f2, <1>f3, <1>f4, <1>1, <2>5
    DEF RecheckOpen, RollBack, Go, Typed, RuntimeT, LifetimeT, CompletionT, OwnerT,
        Completion, Workforce, Tracked, OGoto, AtGoto, WGoto, Joiners, runtime, lifetime,
        completion, owner
  <2>6. CASE PublishRunning(r)
    BY <1>f1, <1>f2, <1>f3, <1>f4, <1>1, <2>6
    DEF PublishRunning, Go, Typed, RuntimeT, LifetimeT, CompletionT, OwnerT, Completion,
        Workforce, Tracked, OGoto, AtGoto, WGoto, Joiners, runtime, lifetime, completion,
        owner
  <2>7. CASE ReplaceCleanup(r)
    BY <1>f1, <1>f2, <1>f3, <1>f4, <1>1, <2>7
    DEF ReplaceCleanup, Go, Typed, RuntimeT, LifetimeT, CompletionT, OwnerT, Completion,
        Workforce, Tracked, OGoto, AtGoto, WGoto, Joiners, runtime, lifetime, completion,
        owner
  <2>8. CASE Shutdown(r)
    BY <1>f1, <1>f2, <1>f3, <1>f4, <1>1, <2>8
    DEF Shutdown, Go, Typed, RuntimeT, LifetimeT, CompletionT, OwnerT, Completion,
        Workforce, Tracked, OGoto, AtGoto, WGoto, Joiners, runtime, lifetime, completion,
        owner
  <2>9. CASE DropHandle(r)
    BY <1>f1, <1>f2, <1>f3, <1>f4, <1>1, <2>9
    DEF DropHandle, Go, Typed, RuntimeT, LifetimeT, CompletionT, OwnerT, Completion,
        Workforce, Tracked, OGoto, AtGoto, WGoto, Joiners, runtime, lifetime, completion,
        owner
  <2>10. CASE RequestStop(r)
    BY <1>f1, <1>f2, <1>f3, <1>f4, <1>1, <2>10
    DEF RequestStop, Requested, Go, Typed, RuntimeT, LifetimeT, CompletionT, OwnerT,
        Completion, Workforce, Tracked, OGoto, AtGoto, WGoto, Joiners, runtime, lifetime,
        completion, owner
  <2>11. CASE Stopped(r)
    BY <1>f1, <1>f2, <1>f3, <1>f4, <1>1, <2>11
    DEF Stopped, Unregisters, Go, Typed, RuntimeT, LifetimeT, CompletionT, OwnerT,
        Completion, Workforce, Tracked, OGoto, AtGoto, WGoto, Joiners, runtime, lifetime,
        completion, owner
  <2>12. CASE AfterStop(r)
    BY <1>f1, <1>f2, <1>f3, <1>f4, <1>1, <2>12
    DEF AfterStop, Go, Typed, RuntimeT, LifetimeT, CompletionT, OwnerT, Completion,
        Workforce, Tracked, OGoto, AtGoto, WGoto, Joiners, runtime, lifetime, completion,
        owner
  <2>13. CASE Release(r)
    BY <1>f1, <1>f2, <1>f3, <1>f4, <1>1, <2>13
    DEF Release, Go, Typed, RuntimeT, LifetimeT, CompletionT, OwnerT, Completion, Workforce,
        Tracked, OGoto, AtGoto, WGoto, Joiners, runtime, lifetime, completion, owner
  <2> QED
    BY <1>1, <2>1, <2>2, <2>3, <2>4, <2>5, <2>6, <2>7, <2>8, <2>9, <2>10, <2>11, <2>12,
             <2>13 DEF OwnerStep, OwnerChoice
<1>2. ASSUME NEW r \in Runtimes, NEW a \in Joiners, Go, GateStep(r, a)
      PROVE  \A q \in Runtimes : Completion(q)'
  <2>1. CASE EnterGate(r, a)
    <3>1. PICK x \in {"back", "join", "wait"}, l \in {a, leader[r]} :
            /\ at' = [at EXCEPT ![r][a] = x] /\ leader' = [leader EXCEPT ![r] = l]
            /\ x = "join" => l = a /\ leader[r] = "none"
            /\ x # "join" => l = leader[r]
            /\ x = "back" => status[r] = "Stopped"
      BY <1>f1, <1>f2, <1>f3, <1>f4, <1>2, <2>1 DEF EnterGate, AtGoto, Typed, CompletionT
    <3>2. at[r][a] = "gate" /\ UNCHANGED <<opc, status, object, wpc, cast>>
      BY <1>f1, <1>f2, <1>f3, <1>f4, <1>2, <2>1 DEF EnterGate, Go, owner, runtime, lifetime
    <3> QED
      BY <1>f1, <1>f2, <1>f3, <1>f4, <1>2, <2>1, <3>1, <3>2
      DEF Typed, CompletionT, Completion, Workforce, Tracked, Joiners
  <2>2. CASE JoinWorkers(r, a)
    <3>1. opc[r] \notin {"idle", "spawn"}
      BY <1>f1, <1>f2, <1>f3, <1>f4, <1>2, <2>2
         DEF JoinWorkers, Workforce, Tracked, Completion, Joiners
    <3>2. Quiet(r)'
      BY <1>f1, <1>f2, <1>f3, <1>f4, <1>2, <2>2, <3>1 DEF JoinWorkers, Quiet
    <3>3. \A q \in Runtimes : q # r => status'[q] = status[q] /\ at'[q] = at[q]
      BY <1>f1, <1>f2, <1>f3, <1>f4, <1>2, <2>2
         DEF JoinWorkers, AtGoto, Typed, RuntimeT, CompletionT
    <3>4. /\ at'[r][a] = "back" /\ \A b \in Joiners : b # a => at'[r][b] = at[r][b]
          /\ at[r][a] = "join" /\ UNCHANGED <<opc, leader, object>>
      BY <1>f1, <1>f2, <1>f3, <1>f4, <1>2, <2>2
         DEF JoinWorkers, AtGoto, Typed, CompletionT, owner, lifetime
    <3> QED
      BY <1>f1, <1>f2, <1>f3, <1>f4, <1>2, <2>2, <3>1, <3>2, <3>3, <3>4
         DEF Completion, Workforce, Tracked, Joiners
  <2>3. CASE WaitStopped(r, a)
    BY <1>f1, <1>f2, <1>f3, <1>f4, <1>2, <2>3
    DEF WaitStopped, Go, Typed, RuntimeT, LifetimeT, CompletionT, OwnerT, Completion,
        Workforce, Tracked, OGoto, AtGoto, WGoto, Joiners, runtime, lifetime, completion,
        owner
  <2> QED
    BY <1>2, <2>1, <2>2, <2>3 DEF GateStep
<1>3. ASSUME NEW r \in Runtimes, NEW w \in Crew, Go, WorkerStep(r, w)
      PROVE  \A q \in Runtimes : Completion(q)'
  <2>1. CASE StopOrphan(r, w)
    BY <1>f1, <1>f2, <1>f3, <1>f4, <1>3, <2>1
    DEF StopOrphan, Requested, Go, Typed, RuntimeT, LifetimeT, CompletionT, OwnerT,
        Completion, Workforce, Tracked, OGoto, AtGoto, WGoto, Joiners, runtime, lifetime,
        completion, owner
  <2>2. CASE Arrive(r, w) \/ PassBarrier(r, w) \/ LeaveLoop(r, w)
          \/ NotifyJoinReady(r, w) \/ DropOnWorker(r, w) \/ HandOff(r, w)
          \/ ReleaseOnWorker(r, w)
    BY <1>0, <1>3, <2>2 DEF Go, Arrive, PassBarrier, LeaveLoop, NotifyJoinReady,
                            DropOnWorker, HandOff, ReleaseOnWorker, Leave, Active, Leave,
                            Active, completion, owner, lifetime, runtime
  <2> QED
    BY <1>3, <2>1, <2>2 DEF WorkerStep
<1>4. CASE Go /\ CoordinatorStep
  <2>1. CASE BeginCleanup
    <3>1. PICK r \in works : \/ AtGoto(r, "coordinator", "gate")
                             \/ at' = at
      BY <1>f1, <1>f2, <1>f3, <1>f4, <1>4, <2>1 DEF BeginCleanup
    <3>2. \A q \in Runtimes : /\ at'[q]["owner"] = at[q]["owner"]
                              /\ at'[q]["coordinator"] \in {"gate", at[q]["coordinator"]}
      BY <1>f1, <1>f2, <1>f3, <1>f4, <1>4, <2>1, <3>1
         DEF AtGoto, Typed, CompletionT, CoordinatorT, Joiners
    <3>3. UNCHANGED <<opc, leader, status, object>>
      BY <1>f1, <1>f2, <1>f3, <1>f4, <1>4, <2>1 DEF BeginCleanup, owner, runtime
    <3> QED
      BY <1>f1, <1>f2, <1>f3, <1>f4, <1>4, <2>1, <3>2, <3>3
         DEF Completion, Workforce, Tracked, Joiners
  <2>2. CASE EndCleanup
    BY <1>f1, <1>f2, <1>f3, <1>f4, <1>4, <2>2
    DEF EndCleanup, Go, Typed, RuntimeT, LifetimeT, CompletionT, OwnerT, Completion,
        Workforce, Tracked, OGoto, AtGoto, WGoto, Joiners, runtime, lifetime, completion,
        owner
  <2>3. CASE Claim \/ CleanedUp \/ Exit \/ ThreadEnds
    BY <1>0, <1>4, <2>3 DEF Go, Claim, CleanedUp, Exit, ThreadEnds, Claimable, AnyClaimable,
                            completion, owner, runtime, lifetime
  <2> QED
    BY <1>4, <2>1, <2>2, <2>3 DEF CoordinatorStep
<1>5. ASSUME NEW f \in Finalizers, Go, FinalizerStep(f) \/ FinalizerChoice(f)
      PROVE  \A q \in Runtimes : Completion(q)'
  <2>1. CASE CallStop(f)
    BY <1>f1, <1>f2, <1>f3, <1>f4, <1>5, <2>1
    DEF CallStop, Requested, Go, Typed, RuntimeT, LifetimeT, CompletionT, OwnerT,
        Completion, Workforce, Tracked, OGoto, AtGoto, WGoto, Joiners, runtime, lifetime,
        completion, owner
  <2>2. CASE Begin(f) \/ CallFlag(f) \/ CallsDone(f) \/ Escalate(f) \/ StartWait(f)
          \/ WaitTurn(f) \/ WakeWaiter(f) \/ TimeOut(f) \/ JoinCoordinator(f)
    BY <1>0, <1>5, <2>2 DEF Go, Begin, CallFlag, CallsDone, Escalate, StartWait, WaitTurn,
                            WakeWaiter, TimeOut, JoinCoordinator, Closed, completion, owner,
                            runtime, lifetime
  <2> QED
    BY <1>5, <2>1, <2>2 DEF FinalizerStep, FinalizerChoice
<1>6. CASE UNCHANGED vars
  BY <1>0, <1>6 DEF vars, completion, owner, runtime, lifetime
<1>7. cast.runtimes \subseteq Runtimes /\ cast.finalizers \subseteq Finalizers
  BY CastType DEF FinalInv
<1> QED
  BY <1>1, <1>2, <1>3, <1>4, <1>5, <1>6, <1>7 DEF Next

(* A worker that leaves the loop is still there, or another one is.         *)
LEMMA SomeoneStays ==
  ASSUME Typed, NEW r \in Runtimes, NEW w \in Crew, Leave(r, w), AllSpawned(r),
         wpc[r][w] \notin {"left", "gone"}, UNCHANGED cast
  PROVE  ~Quiet(r)'
<1>1. w \in Active(r)
  BY DEF Active
<1>2. CASE Active(r) = {w}
  BY <1>2, CastType DEF Leave, WGoto, Quiet, Exists, Crew, Typed, RuntimeT
<1>3. CASE Active(r) # {w}
  <2>1. PICK v \in Crew : v # w /\ wpc[r][v] \notin {"left", "gone"}
    BY <1>1, <1>3 DEF Active
  <2>2. wpc'[r][v] = wpc[r][v]
    BY <1>3, <2>1, CastType DEF Leave, WGoto, Typed, RuntimeT
  <2> QED
    BY <2>1, <2>2 DEF Quiet, Exists, Crew, AllSpawned
<1> QED
  BY <1>2, <1>3

(* The Reaper hears of the last worker. *)
LEMMA TrackedKept == FinalInv /\ [Next]_vars => \A q \in Runtimes : Tracked(q)'
<1> SUFFICES ASSUME FinalInv, [Next]_vars PROVE \A q \in Runtimes : Tracked(q)'
  OBVIOUS
<1>f1. \A q \in Runtimes : /\ AllSpawned(q) => AllSpawned(q)'
                           /\ AllGone(q) => AllGone(q)' /\ Quiet(q) /\ AllSpawned(q)
                           /\ Quiet(q) /\ opc[q] # "spawn" => Quiet(q)'
  BY WorkersMove, Lasts
<1>f2. \A q \in Runtimes : Workforce(q) /\ Tracked(q) /\ Completion(q) /\ Registered(q)
  BY DEF FinalInv
<1>f3. \A q \in Runtimes : (\A w \in Crew : wpc[q][w] = "new") => ~AllSpawned(q)
  BY CastType DEF FinalInv, AllSpawned
<1>f4. Typed
  BY DEF FinalInv
<1>f5. UNCHANGED <<wpc, cast>> => \A q \in Runtimes : Quiet(q)' <=> Quiet(q)
  BY DEF Quiet, Exists, Crew
<1>0. ASSUME UNCHANGED <<joinReady, handed, slots, works, at, cpc, cleaning, wpc, cast>>
      PROVE  \A q \in Runtimes : Tracked(q)'
  BY <1>f2, <1>0 DEF Quiet, Exists, AllGone, AllSpawned, Crew, Tracked, Joiners
<1>1. ASSUME NEW r \in Runtimes, Go, OwnerStep(r) \/ OwnerChoice(r)
      PROVE  \A q \in Runtimes : Tracked(q)'
  <2>1. CASE Register(r)
    BY <1>f1, <1>f2, <1>f3, <1>f4, <1>f5, <1>1, <2>1
    DEF Register, Go, Typed, RegistryT, CoordinatorT, RuntimeT, CompletionT, Tracked,
        Workforce, Registered, AtGoto, WGoto, Joiners, registry, coordinator, runtime,
        completion
  <2>2. CASE SpawnFails(r)
    BY <1>f1, <1>f2, <1>f3, <1>f4, <1>f5, <1>1, <2>2
    DEF SpawnFails, RollBack, Go, Typed, RegistryT, CoordinatorT, RuntimeT, CompletionT,
        Tracked, Workforce, Registered, AtGoto, WGoto, Joiners, registry, coordinator,
        runtime, completion
  <2>3. CASE RecheckOpen(r)
    <3>1. \A q \in Runtimes : at'[q]["coordinator"] = at[q]["coordinator"]
      BY <1>f1, <1>f2, <1>f3, <1>f4, <1>f5, <1>1, <2>3
         DEF RecheckOpen, RollBack, AtGoto, Typed, CompletionT, Joiners
    <3>2. UNCHANGED <<joinReady, handed, slots, works, cpc, cleaning, wpc, cast>>
      BY <1>f1, <1>f2, <1>f3, <1>f4, <1>f5, <1>1, <2>3
         DEF RecheckOpen, Go, registry, coordinator
    <3> QED
      BY <1>f1, <1>f2, <1>f3, <1>f4, <1>f5, <1>1, <2>3, <3>1, <3>2 DEF Tracked
  <2>4. CASE RequestStop(r)
    BY <1>f1, <1>f2, <1>f3, <1>f4, <1>f5, <1>1, <2>4
    DEF RequestStop, Requested, Go, Typed, RegistryT, CoordinatorT, RuntimeT, CompletionT,
        Tracked, Workforce, Registered, AtGoto, WGoto, Joiners, registry, coordinator,
        runtime, completion
  <2>5. CASE Stopped(r)
    BY <1>f1, <1>f2, <1>f3, <1>f4, <1>f5, <1>1, <2>5
    DEF Stopped, Unregisters, Go, Typed, RegistryT, CoordinatorT, RuntimeT, CompletionT,
        Tracked, Workforce, Registered, AtGoto, WGoto, Joiners, registry, coordinator,
        runtime, completion
  <2>6. CASE Spawn(r)
    BY <1>f1, <1>f2, <1>f3, <1>f4, <1>f5, <1>1, <2>6
    DEF Spawn, Go, Typed, RegistryT, CoordinatorT, RuntimeT, CompletionT, Tracked,
        Workforce, Registered, AtGoto, WGoto, Joiners, registry, coordinator, runtime,
        completion, Quiet, Exists, AllGone, AllSpawned, Crew
  <2>7. CASE AttachFails(r) \/ PublishRunning(r) \/ ReplaceCleanup(r) \/ Shutdown(r)
          \/ DropHandle(r) \/ AfterStop(r) \/ Release(r)
    BY <1>0, <1>1, <2>7 DEF Go, AttachFails, PublishRunning, ReplaceCleanup, Shutdown,
                            DropHandle, AfterStop, Release, registry, coordinator,
                            completion, runtime
  <2> QED
    BY <1>1, <2>1, <2>2, <2>3, <2>4, <2>5, <2>6, <2>7 DEF OwnerStep, OwnerChoice
<1>2. ASSUME NEW r \in Runtimes, NEW a \in Joiners, Go, GateStep(r, a)
      PROVE  \A q \in Runtimes : Tracked(q)'
  <2>1. CASE EnterGate(r, a)
    BY <1>f1, <1>f2, <1>f3, <1>f4, <1>f5, <1>2, <2>1
    DEF EnterGate, Go, Typed, RegistryT, CoordinatorT, RuntimeT, CompletionT, Tracked,
        Workforce, Registered, AtGoto, WGoto, Joiners, registry, coordinator, runtime,
        completion
  <2>2. CASE JoinWorkers(r, a)
    BY <1>f1, <1>f2, <1>f3, <1>f4, <1>f5, <1>2, <2>2
    DEF JoinWorkers, Go, Typed, RegistryT, CoordinatorT, RuntimeT, CompletionT, Tracked,
        Workforce, Registered, AtGoto, WGoto, Joiners, registry, coordinator, runtime,
        completion
  <2>3. CASE WaitStopped(r, a)
    BY <1>f1, <1>f2, <1>f3, <1>f4, <1>f5, <1>2, <2>3
    DEF WaitStopped, Go, Typed, RegistryT, CoordinatorT, RuntimeT, CompletionT, Tracked,
        Workforce, Registered, AtGoto, WGoto, Joiners, registry, coordinator, runtime,
        completion
  <2> QED
    BY <1>2, <2>1, <2>2, <2>3 DEF GateStep
<1>3. ASSUME NEW r \in Runtimes, NEW w \in Crew, Go, WorkerStep(r, w)
      PROVE  \A q \in Runtimes : Tracked(q)'
  <2>1. CASE Arrive(r, w)
    BY <1>f1, <1>f2, <1>f3, <1>f4, <1>f5, <1>3, <2>1
    DEF Arrive, Go, Typed, RegistryT, CoordinatorT, RuntimeT, CompletionT, Tracked,
        Workforce, Registered, AtGoto, WGoto, Joiners, registry, coordinator, runtime,
        completion, Quiet, Exists, AllGone, AllSpawned, Crew
  <2>2. CASE PassBarrier(r, w)
    <3>1. wpc[r][w] \notin {"left", "gone"} /\ ~Quiet(r)
      BY <1>f1, <1>f2, <1>f3, <1>f4, <1>f5, <1>3, <2>2 DEF PassBarrier, Quiet, Exists
    <3>2. CASE WGoto(r, w, "loop")
      BY <1>f1, <1>f2, <1>f3, <1>f4, <1>f5, <1>3, <2>2, <3>2
         DEF PassBarrier, Go, Tracked, Quiet, Exists, Crew, WGoto, Typed, RuntimeT,
                      registry, coordinator, completion
    <3>3. CASE Leave(r, w)
      <4>1. AllSpawned(r) => ~Quiet(r)'
        BY <1>f1, <1>f2, <1>f3, <1>f4, <1>f5, <1>3, <2>2, <3>1, <3>3, SomeoneStays DEF Go
      <4>2. \A q \in Runtimes : q # r => Quiet(q)' = Quiet(q)
        BY <1>f1, <1>f2, <1>f3, <1>f4, <1>f5, <1>3, <2>2, <3>3
           DEF Go, Leave, WGoto, Quiet, Exists, Crew, Typed, RuntimeT
      <4>3. UNCHANGED <<joinReady, handed, slots, works, at, cpc, cleaning>>
        BY <1>f1, <1>f2, <1>f3, <1>f4, <1>f5, <1>3, <2>2
           DEF PassBarrier, registry, coordinator, completion
      <4> QED
        BY <1>f1, <1>f2, <1>f3, <1>f4, <1>f5, <1>3, <2>2, <4>1, <4>2, <4>3 DEF Tracked
    <3> QED
      BY <1>f1, <1>f2, <1>f3, <1>f4, <1>f5, <1>3, <2>2, <3>2, <3>3 DEF PassBarrier
  <2>3. CASE LeaveLoop(r, w)
    <3>1. wpc[r][w] \notin {"left", "gone"} /\ ~Quiet(r)
      BY <1>f1, <1>f2, <1>f3, <1>f4, <1>f5, <1>3, <2>3 DEF LeaveLoop, Quiet, Exists
    <3>2. CASE WGoto(r, w, "loop")
      BY <1>f1, <1>f2, <1>f3, <1>f4, <1>f5, <1>3, <2>3, <3>2
         DEF LeaveLoop, Go, Tracked, Quiet, Exists, Crew, WGoto, Typed, RuntimeT,
                      registry, coordinator, completion
    <3>3. CASE Leave(r, w)
      <4>1. AllSpawned(r) => ~Quiet(r)'
        BY <1>f1, <1>f2, <1>f3, <1>f4, <1>f5, <1>3, <2>3, <3>1, <3>3, SomeoneStays DEF Go
      <4>2. \A q \in Runtimes : q # r => Quiet(q)' = Quiet(q)
        BY <1>f1, <1>f2, <1>f3, <1>f4, <1>f5, <1>3, <2>3, <3>3
           DEF Go, Leave, WGoto, Quiet, Exists, Crew, Typed, RuntimeT
      <4>3. UNCHANGED <<joinReady, handed, slots, works, at, cpc, cleaning>>
        BY <1>f1, <1>f2, <1>f3, <1>f4, <1>f5, <1>3, <2>3
           DEF LeaveLoop, registry, coordinator, completion
      <4> QED
        BY <1>f1, <1>f2, <1>f3, <1>f4, <1>f5, <1>3, <2>3, <4>1, <4>2, <4>3 DEF Tracked
    <3> QED
      BY <1>f1, <1>f2, <1>f3, <1>f4, <1>f5, <1>3, <2>3, <3>2, <3>3 DEF LeaveLoop
  <2>4. CASE NotifyJoinReady(r, w)
    <3>1. AllGone(r)'
      BY <1>f1, <1>f2, <1>f3, <1>f4, <1>f5, <1>3, <2>4, CastType
      DEF NotifyJoinReady, Go, Workforce, AllGone, WGoto, Crew, Typed, RuntimeT
    <3>2. \A q \in Runtimes : q # r => Quiet(q)' = Quiet(q)
      BY <1>f1, <1>f2, <1>f3, <1>f4, <1>f5, <1>3, <2>4
         DEF NotifyJoinReady, Go, WGoto, Quiet, Exists, Crew, Typed, RuntimeT
    <3>3. /\ UNCHANGED <<handed, slots, works, at, cpc, cleaning>>
          /\ joinReady' = joinReady \cup (slots \cap {r})
      BY <1>f1, <1>f2, <1>f3, <1>f4, <1>f5, <1>3, <2>4
         DEF NotifyJoinReady, coordinator, completion
    <3> QED
      BY <1>f1, <1>f2, <1>f3, <1>f4, <1>f5, <1>3, <2>4, <3>1, <3>2, <3>3 DEF Tracked
  <2>5. CASE DropOnWorker(r, w)
    BY <1>f1, <1>f2, <1>f3, <1>f4, <1>f5, <1>3, <2>5
    DEF DropOnWorker, Go, Typed, RegistryT, CoordinatorT, RuntimeT, CompletionT, Tracked,
        Workforce, Registered, AtGoto, WGoto, Joiners, registry, coordinator, runtime,
        completion, Quiet, Exists, AllGone, AllSpawned, Crew
  <2>6. CASE StopOrphan(r, w)
    BY <1>f1, <1>f2, <1>f3, <1>f4, <1>f5, <1>3, <2>6
    DEF StopOrphan, Requested, Go, Typed, RegistryT, CoordinatorT, RuntimeT, CompletionT,
        Tracked, Workforce, Registered, AtGoto, WGoto, Joiners, registry, coordinator,
        runtime, completion, Quiet, Exists, AllGone, AllSpawned, Crew
  <2>7. CASE HandOff(r, w)
    BY <1>f1, <1>f2, <1>f3, <1>f4, <1>f5, <1>3, <2>7
    DEF HandOff, Go, Typed, RegistryT, CoordinatorT, RuntimeT, CompletionT, Tracked,
        Workforce, Registered, AtGoto, WGoto, Joiners, registry, coordinator, runtime,
        completion, Quiet, Exists, AllGone, AllSpawned, Crew
  <2>8. CASE ReleaseOnWorker(r, w)
    BY <1>f1, <1>f2, <1>f3, <1>f4, <1>f5, <1>3, <2>8
    DEF ReleaseOnWorker, Go, Typed, RegistryT, CoordinatorT, RuntimeT, CompletionT, Tracked,
        Workforce, Registered, AtGoto, WGoto, Joiners, registry, coordinator, runtime,
        completion, Quiet, Exists, AllGone, AllSpawned, Crew
  <2> QED
    BY <1>3, <2>1, <2>2, <2>3, <2>4, <2>5, <2>6, <2>7, <2>8 DEF WorkerStep
<1>4. CASE Go /\ CoordinatorStep
  <2>1. CASE Claim
    BY <1>f1, <1>f2, <1>f3, <1>f4, <1>f5, <1>4, <2>1
    DEF Claim, Claimable, AnyClaimable, Go, Typed, RegistryT, CoordinatorT, RuntimeT,
        CompletionT, Tracked, Workforce, Registered, AtGoto, WGoto, Joiners, registry,
        coordinator, runtime, completion
  <2>2. CASE BeginCleanup
    BY <1>f1, <1>f2, <1>f3, <1>f4, <1>f5, <1>4, <2>2
    DEF BeginCleanup, Go, Typed, RegistryT, CoordinatorT, RuntimeT, CompletionT, Tracked,
        Workforce, Registered, AtGoto, WGoto, Joiners, registry, coordinator, runtime,
        completion
  <2>3. CASE EndCleanup
    BY <1>f1, <1>f2, <1>f3, <1>f4, <1>f5, <1>4, <2>3
    DEF EndCleanup, Go, Typed, RegistryT, CoordinatorT, RuntimeT, CompletionT, Tracked,
        Workforce, Registered, AtGoto, WGoto, Joiners, registry, coordinator, runtime,
        completion
  <2>4. CASE CleanedUp
    BY <1>f1, <1>f2, <1>f3, <1>f4, <1>f5, <1>4, <2>4
    DEF CleanedUp, Go, Typed, RegistryT, CoordinatorT, RuntimeT, CompletionT, Tracked,
        Workforce, Registered, AtGoto, WGoto, Joiners, registry, coordinator, runtime,
        completion
  <2>5. CASE Exit
    BY <1>f1, <1>f2, <1>f3, <1>f4, <1>f5, <1>4, <2>5
    DEF Exit, Go, Typed, RegistryT, CoordinatorT, RuntimeT, CompletionT, Tracked, Workforce,
        Registered, AtGoto, WGoto, Joiners, registry, coordinator, runtime, completion
  <2>6. CASE ThreadEnds
    BY <1>f1, <1>f2, <1>f3, <1>f4, <1>f5, <1>4, <2>6
    DEF ThreadEnds, Go, Typed, RegistryT, CoordinatorT, RuntimeT, CompletionT, Tracked,
        Workforce, Registered, AtGoto, WGoto, Joiners, registry, coordinator, runtime,
        completion
  <2> QED
    BY <1>4, <2>1, <2>2, <2>3, <2>4, <2>5, <2>6 DEF CoordinatorStep
<1>5. ASSUME NEW f \in Finalizers, Go, FinalizerStep(f) \/ FinalizerChoice(f)
      PROVE  \A q \in Runtimes : Tracked(q)'
  <2>1. CASE Begin(f)
    BY <1>f1, <1>f2, <1>f3, <1>f4, <1>f5, <1>5, <2>1
    DEF Begin, Closed, Go, Typed, RegistryT, CoordinatorT, RuntimeT, CompletionT, Tracked,
        Workforce, Registered, AtGoto, WGoto, Joiners, registry, coordinator, runtime,
        completion
  <2>2. CASE StartWait(f)
    BY <1>f1, <1>f2, <1>f3, <1>f4, <1>f5, <1>5, <2>2
    DEF StartWait, Go, Typed, RegistryT, CoordinatorT, RuntimeT, CompletionT, Tracked,
        Workforce, Registered, AtGoto, WGoto, Joiners, registry, coordinator, runtime,
        completion
  <2>3. CASE WaitTurn(f)
    BY <1>f1, <1>f2, <1>f3, <1>f4, <1>f5, <1>5, <2>3
    DEF WaitTurn, Go, Typed, RegistryT, CoordinatorT, RuntimeT, CompletionT, Tracked,
        Workforce, Registered, AtGoto, WGoto, Joiners, registry, coordinator, runtime,
        completion
  <2>4. CASE JoinCoordinator(f)
    BY <1>f1, <1>f2, <1>f3, <1>f4, <1>f5, <1>5, <2>4
    DEF JoinCoordinator, Go, Typed, RegistryT, CoordinatorT, RuntimeT, CompletionT, Tracked,
        Workforce, Registered, AtGoto, WGoto, Joiners, registry, coordinator, runtime,
        completion
  <2>5. CASE CallStop(f) \/ CallFlag(f) \/ CallsDone(f) \/ Escalate(f) \/ WakeWaiter(f)
          \/ TimeOut(f)
    BY <1>0, <1>5, <2>5 DEF Go, CallStop, CallFlag, CallsDone, Escalate, WakeWaiter,
                            TimeOut, Requested, registry, coordinator, completion, runtime
  <2> QED
    BY <1>5, <2>1, <2>2, <2>3, <2>4, <2>5 DEF FinalizerStep, FinalizerChoice
<1>6. CASE UNCHANGED vars
  BY <1>0, <1>6 DEF vars, registry, coordinator, completion, runtime
<1>7. cast.runtimes \subseteq Runtimes /\ cast.finalizers \subseteq Finalizers
  BY CastType DEF FinalInv
<1> QED
  BY <1>1, <1>2, <1>3, <1>4, <1>5, <1>6, <1>7 DEF Next

(* A runtime with workers is registered. *)
LEMMA RegisteredKept == FinalInv /\ [Next]_vars => \A q \in Runtimes : Registered(q)'
<1> SUFFICES ASSUME FinalInv, [Next]_vars PROVE \A q \in Runtimes : Registered(q)'
  OBVIOUS
<1>f1. \A q \in Runtimes : /\ AllSpawned(q) => AllSpawned(q)'
                           /\ AllGone(q) => AllGone(q)' /\ Quiet(q) /\ AllSpawned(q)
                           /\ Quiet(q) /\ opc[q] # "spawn" => Quiet(q)'
  BY WorkersMove, Lasts
<1>f2. \A q \in Runtimes : Workforce(q) /\ Tracked(q) /\ Completion(q) /\ Registered(q)
  BY DEF FinalInv
<1>f3. \A q \in Runtimes : (\A w \in Crew : wpc[q][w] = "new") => ~AllSpawned(q)
  BY CastType DEF FinalInv, AllSpawned
<1>f4. Typed
  BY DEF FinalInv
<1>f5. UNCHANGED <<wpc, cast>> => \A q \in Runtimes : Quiet(q)' <=> Quiet(q)
  BY DEF Quiet, Exists, Crew
<1>0. ASSUME UNCHANGED <<opc, why, slots, wpc, cast>> PROVE \A q \in Runtimes : Registered(q)'
  BY <1>f2, <1>f5, <1>0 DEF Registered
<1>1. ASSUME NEW r \in Runtimes, Go, OwnerStep(r) \/ OwnerChoice(r)
      PROVE  \A q \in Runtimes : Registered(q)'
  <2>1. CASE Register(r)
    BY <1>f1, <1>f2, <1>f3, <1>f4, <1>f5, <1>1, <2>1
    DEF Register, Go, Typed, RegistryT, OwnerT, CoordinatorT, Registered, Workforce,
        Tracked, OGoto, AtGoto, registry, owner, runtime, Joiners, Completion
  <2>2. CASE AttachFails(r)
    BY <1>f1, <1>f2, <1>f3, <1>f4, <1>f5, <1>1, <2>2
    DEF AttachFails, Go, Typed, RegistryT, OwnerT, CoordinatorT, Registered, Workforce,
        Tracked, OGoto, AtGoto, registry, owner, runtime, Joiners, Completion
  <2>3. CASE Spawn(r)
    BY <1>f1, <1>f2, <1>f3, <1>f4, <1>f5, <1>1, <2>3
    DEF Spawn, Go, Typed, RegistryT, OwnerT, CoordinatorT, Registered, Workforce, Tracked,
        OGoto, AtGoto, registry, owner, runtime, Joiners, Completion
  <2>4. CASE SpawnFails(r)
    BY <1>f1, <1>f2, <1>f3, <1>f4, <1>f5, <1>1, <2>4
    DEF SpawnFails, RollBack, Go, Typed, RegistryT, OwnerT, CoordinatorT, Registered,
        Workforce, Tracked, OGoto, AtGoto, registry, owner, runtime, Joiners, Completion
  <2>5. CASE RecheckOpen(r)
    BY <1>f1, <1>f2, <1>f3, <1>f4, <1>f5, <1>1, <2>5
    DEF RecheckOpen, RollBack, Go, Typed, RegistryT, OwnerT, CoordinatorT, Registered,
        Workforce, Tracked, OGoto, AtGoto, registry, owner, runtime, Joiners, Completion
  <2>6. CASE PublishRunning(r)
    BY <1>f1, <1>f2, <1>f3, <1>f4, <1>f5, <1>1, <2>6
    DEF PublishRunning, Go, Typed, RegistryT, OwnerT, CoordinatorT, Registered, Workforce,
        Tracked, OGoto, AtGoto, registry, owner, runtime, Joiners, Completion
  <2>7. CASE ReplaceCleanup(r)
    BY <1>f1, <1>f2, <1>f3, <1>f4, <1>f5, <1>1, <2>7
    DEF ReplaceCleanup, Go, Typed, RegistryT, OwnerT, CoordinatorT, Registered, Workforce,
        Tracked, OGoto, AtGoto, registry, owner, runtime, Joiners, Completion
  <2>8. CASE Shutdown(r)
    BY <1>f1, <1>f2, <1>f3, <1>f4, <1>f5, <1>1, <2>8
    DEF Shutdown, Go, Typed, RegistryT, OwnerT, CoordinatorT, Registered, Workforce,
        Tracked, OGoto, AtGoto, registry, owner, runtime, Joiners, Completion
  <2>9. CASE DropHandle(r)
    BY <1>f1, <1>f2, <1>f3, <1>f4, <1>f5, <1>1, <2>9
    DEF DropHandle, Go, Typed, RegistryT, OwnerT, CoordinatorT, Registered, Workforce,
        Tracked, OGoto, AtGoto, registry, owner, runtime, Joiners, Completion
  <2>10. CASE RequestStop(r)
    BY <1>f1, <1>f2, <1>f3, <1>f4, <1>f5, <1>1, <2>10
    DEF RequestStop, Requested, Go, Typed, RegistryT, OwnerT, CoordinatorT, Registered,
        Workforce, Tracked, OGoto, AtGoto, registry, owner, runtime, Joiners, Completion
  <2>11. CASE Stopped(r)
    BY <1>f1, <1>f2, <1>f3, <1>f4, <1>f5, <1>1, <2>11
    DEF Stopped, Unregisters, Go, Typed, RegistryT, OwnerT, CoordinatorT, Registered,
        Workforce, Tracked, OGoto, AtGoto, registry, owner, runtime, Joiners, Completion
  <2>12. CASE AfterStop(r)
    BY <1>f1, <1>f2, <1>f3, <1>f4, <1>f5, <1>1, <2>12
    DEF AfterStop, Go, Typed, RegistryT, OwnerT, CoordinatorT, Registered, Workforce,
        Tracked, OGoto, AtGoto, registry, owner, runtime, Joiners, Completion
  <2>13. CASE Release(r)
    BY <1>f1, <1>f2, <1>f3, <1>f4, <1>f5, <1>1, <2>13
    DEF Release, Go, Typed, RegistryT, OwnerT, CoordinatorT, Registered, Workforce, Tracked,
        OGoto, AtGoto, registry, owner, runtime, Joiners, Completion
  <2> QED
    BY <1>1, <2>1, <2>2, <2>3, <2>4, <2>5, <2>6, <2>7, <2>8, <2>9, <2>10, <2>11, <2>12,
             <2>13 DEF OwnerStep, OwnerChoice
<1>2. ASSUME NEW r \in Runtimes, NEW a \in Joiners, Go, GateStep(r, a)
      PROVE  \A q \in Runtimes : Registered(q)'
  BY <1>0, <1>2 DEF Go, GateStep, EnterGate, JoinWorkers, WaitStopped, registry, owner,
                    runtime
<1>3. ASSUME NEW r \in Runtimes, NEW w \in Crew, Go, WorkerStep(r, w)
      PROVE  \A q \in Runtimes : Registered(q)'
  <2>1. CASE Arrive(r, w)
    BY <1>f1, <1>f2, <1>f3, <1>f4, <1>f5, <1>3, <2>1
    DEF Arrive, Go, Typed, RuntimeT, WGoto, Quiet, Exists, Crew, Registered, registry, owner
  <2>2. CASE PassBarrier(r, w)
    BY <1>f1, <1>f2, <1>f3, <1>f4, <1>f5, <1>3, <2>2
    DEF PassBarrier, Leave, Active, Go, Typed, RuntimeT, WGoto, Quiet, Exists, Crew,
        Registered, registry, owner
  <2>3. CASE LeaveLoop(r, w)
    BY <1>f1, <1>f2, <1>f3, <1>f4, <1>f5, <1>3, <2>3
    DEF LeaveLoop, Leave, Active, Go, Typed, RuntimeT, WGoto, Quiet, Exists, Crew,
        Registered, registry, owner
  <2>4. CASE NotifyJoinReady(r, w)
    BY <1>f1, <1>f2, <1>f3, <1>f4, <1>f5, <1>3, <2>4
    DEF NotifyJoinReady, Go, Typed, RuntimeT, WGoto, Quiet, Exists, Crew, Registered,
        registry, owner
  <2>5. CASE DropOnWorker(r, w)
    BY <1>f1, <1>f2, <1>f3, <1>f4, <1>f5, <1>3, <2>5
    DEF DropOnWorker, Go, Typed, RuntimeT, WGoto, Quiet, Exists, Crew, Registered, registry,
        owner
  <2>6. CASE StopOrphan(r, w)
    BY <1>f1, <1>f2, <1>f3, <1>f4, <1>f5, <1>3, <2>6
    DEF StopOrphan, Requested, Go, Typed, RuntimeT, WGoto, Quiet, Exists, Crew, Registered,
        registry, owner
  <2>7. CASE HandOff(r, w)
    BY <1>f1, <1>f2, <1>f3, <1>f4, <1>f5, <1>3, <2>7
    DEF HandOff, Go, Typed, RuntimeT, WGoto, Quiet, Exists, Crew, Registered, registry,
        owner
  <2>8. CASE ReleaseOnWorker(r, w)
    BY <1>f1, <1>f2, <1>f3, <1>f4, <1>f5, <1>3, <2>8
    DEF ReleaseOnWorker, Go, Typed, RuntimeT, WGoto, Quiet, Exists, Crew, Registered,
        registry, owner
  <2> QED
    BY <1>3, <2>1, <2>2, <2>3, <2>4, <2>5, <2>6, <2>7, <2>8 DEF WorkerStep
<1>4. CASE Go /\ CoordinatorStep
  <2>1. CASE Claim
    BY <1>f1, <1>f2, <1>f3, <1>f4, <1>f5, <1>4, <2>1
    DEF Claim, Claimable, AnyClaimable, Go, Typed, RegistryT, OwnerT, CoordinatorT,
        Registered, Workforce, Tracked, OGoto, AtGoto, registry, owner, runtime, Joiners,
        Completion, Quiet, Exists, AllGone
  <2>2. CASE BeginCleanup \/ EndCleanup \/ CleanedUp \/ Exit \/ ThreadEnds
    BY <1>0, <1>4, <2>2 DEF Go, BeginCleanup, EndCleanup, CleanedUp, Exit, ThreadEnds,
                            registry, owner, runtime
  <2> QED
    BY <1>4, <2>1, <2>2 DEF CoordinatorStep
<1>5. ASSUME NEW f \in Finalizers, Go, FinalizerStep(f) \/ FinalizerChoice(f)
      PROVE  \A q \in Runtimes : Registered(q)'
  <2>1. CASE Begin(f)
    BY <1>f1, <1>f2, <1>f3, <1>f4, <1>f5, <1>5, <2>1
    DEF Begin, Closed, Go, Registered, registry, owner, runtime
  <2>2. CASE StartWait(f)
    BY <1>f1, <1>f2, <1>f3, <1>f4, <1>f5, <1>5, <2>2
    DEF StartWait, Go, Registered, registry, owner, runtime
  <2>3. CASE WaitTurn(f)
    BY <1>f1, <1>f2, <1>f3, <1>f4, <1>f5, <1>5, <2>3
    DEF WaitTurn, Go, Registered, registry, owner, runtime
  <2>4. CASE JoinCoordinator(f)
    BY <1>f1, <1>f2, <1>f3, <1>f4, <1>f5, <1>5, <2>4
    DEF JoinCoordinator, Go, Registered, registry, owner, runtime
  <2>5. CASE CallStop(f) \/ CallFlag(f) \/ CallsDone(f) \/ Escalate(f) \/ WakeWaiter(f)
          \/ TimeOut(f)
    BY <1>0, <1>5, <2>5 DEF Go, CallStop, CallFlag, CallsDone, Escalate, WakeWaiter,
                            TimeOut, Requested, registry, owner, runtime
  <2> QED
    BY <1>5, <2>1, <2>2, <2>3, <2>4, <2>5 DEF FinalizerStep, FinalizerChoice
<1>6. CASE UNCHANGED vars
  BY <1>0, <1>6 DEF vars, registry, owner, runtime
<1>7. cast.runtimes \subseteq Runtimes /\ cast.finalizers \subseteq Finalizers
  BY CastType DEF FinalInv
<1> QED
  BY <1>1, <1>2, <1>3, <1>4, <1>5, <1>6, <1>7 DEF Next

(* The service ends when nothing is registered. *)
LEMMA ClosingKept == FinalInv /\ [Next]_vars => Closing'
<1> SUFFICES ASSUME FinalInv, [Next]_vars PROVE Closing'
  OBVIOUS
<1>f1. Typed /\ Closing
  BY DEF FinalInv
<1>f2. IsFiniteSet(slots) => \A S \in SUBSET slots : IsFiniteSet(S)
  BY FS_Subset
<1>f3. IsFiniteSet(slots) => \A r \in Runtimes : IsFiniteSet(slots \cup {r})
  BY FS_AddElement
<1>0. ASSUME UNCHANGED <<slots, thread, service, exited, fpc>> PROVE Closing'
  BY <1>f1, <1>0 DEF Closing, Closed
<1>1. ASSUME NEW r \in Runtimes, Go, OwnerStep(r) \/ OwnerChoice(r)
      PROVE  Closing'
  <2>1. CASE Register(r)
    BY <1>f1, <1>f2, <1>f3, <1>1, <2>1
    DEF Register, Go, Closing, Closed, Typed, FinalizerT, CoordinatorT, FGoto, registry,
        coordinator, finalizer, Emptied
  <2>2. CASE Stopped(r)
    BY <1>f1, <1>f2, <1>f3, <1>1, <2>2
    DEF Stopped, Unregisters, Go, Closing, Closed, Typed, FinalizerT, CoordinatorT, FGoto,
        registry, coordinator, finalizer, Emptied
  <2>3. CASE AttachFails(r) \/ Spawn(r) \/ SpawnFails(r) \/ RecheckOpen(r)
          \/ PublishRunning(r) \/ ReplaceCleanup(r) \/ Shutdown(r) \/ DropHandle(r)
          \/ RequestStop(r) \/ AfterStop(r) \/ Release(r)
    BY <1>0, <1>1, <2>3 DEF Go, AttachFails, Spawn, SpawnFails, RecheckOpen, PublishRunning,
                            ReplaceCleanup, Shutdown, DropHandle, RequestStop, AfterStop,
                            Release, RollBack, RollBack, Requested, registry, coordinator,
                            finalizer
  <2> QED
    BY <1>1, <2>1, <2>2, <2>3 DEF OwnerStep, OwnerChoice
<1>2. ASSUME NEW r \in Runtimes, NEW a \in Joiners, Go, GateStep(r, a)
      PROVE  Closing'
  BY <1>0, <1>2 DEF Go, GateStep, EnterGate, JoinWorkers, WaitStopped, registry,
                    coordinator, finalizer
<1>3. ASSUME NEW r \in Runtimes, NEW w \in Crew, Go, WorkerStep(r, w)
      PROVE  Closing'
  <2>1. CASE NotifyJoinReady(r, w)
    BY <1>f1, <1>f2, <1>f3, <1>3, <2>1
    DEF NotifyJoinReady, Go, Closing, Closed, Typed, FinalizerT, CoordinatorT, FGoto,
        registry, coordinator, finalizer, Emptied
  <2>2. CASE HandOff(r, w)
    BY <1>f1, <1>f2, <1>f3, <1>3, <2>2
    DEF HandOff, Go, Closing, Closed, Typed, FinalizerT, CoordinatorT, FGoto, registry,
        coordinator, finalizer, Emptied
  <2>3. CASE Arrive(r, w) \/ PassBarrier(r, w) \/ LeaveLoop(r, w) \/ DropOnWorker(r, w)
          \/ StopOrphan(r, w) \/ ReleaseOnWorker(r, w)
    BY <1>0, <1>3, <2>3 DEF Go, Arrive, PassBarrier, LeaveLoop, DropOnWorker, StopOrphan,
                            ReleaseOnWorker, Leave, Active, Leave, Active, Requested,
                            registry, coordinator, finalizer
  <2> QED
    BY <1>3, <2>1, <2>2, <2>3 DEF WorkerStep
<1>4. CASE Go /\ CoordinatorStep
  <2>1. CASE Claim
    BY <1>f1, <1>f2, <1>f3, <1>4, <2>1
    DEF Claim, Claimable, AnyClaimable, Go, Closing, Closed, Typed, FinalizerT,
        CoordinatorT, FGoto, registry, coordinator, finalizer, Emptied
  <2>2. CASE BeginCleanup
    BY <1>f1, <1>f2, <1>f3, <1>4, <2>2
    DEF BeginCleanup, Go, Closing, Closed, Typed, FinalizerT, CoordinatorT, FGoto, registry,
        coordinator, finalizer, Emptied
  <2>3. CASE EndCleanup
    BY <1>f1, <1>f2, <1>f3, <1>4, <2>3
    DEF EndCleanup, Go, Closing, Closed, Typed, FinalizerT, CoordinatorT, FGoto, registry,
        coordinator, finalizer, Emptied
  <2>4. CASE CleanedUp
    BY <1>f1, <1>f2, <1>f3, <1>4, <2>4
    DEF CleanedUp, Go, Closing, Closed, Typed, FinalizerT, CoordinatorT, FGoto, registry,
        coordinator, finalizer, Emptied
  <2>5. CASE Exit
    BY <1>f1, <1>f2, <1>f3, <1>4, <2>5
    DEF Exit, Go, Closing, Closed, Typed, FinalizerT, CoordinatorT, FGoto, registry,
        coordinator, finalizer, Emptied
  <2>6. CASE ThreadEnds
    BY <1>f1, <1>f2, <1>f3, <1>4, <2>6
    DEF ThreadEnds, Go, Closing, Closed, Typed, FinalizerT, CoordinatorT, FGoto, registry,
        coordinator, finalizer, Emptied
  <2> QED
    BY <1>4, <2>1, <2>2, <2>3, <2>4, <2>5, <2>6 DEF CoordinatorStep
<1>5. ASSUME NEW f \in Finalizers, Go, FinalizerStep(f) \/ FinalizerChoice(f)
      PROVE  Closing'
  <2>1. CASE Begin(f)
    BY <1>f1, <1>f2, <1>f3, <1>5, <2>1
    DEF Begin, Closed, Go, Closing, Closed, Typed, FinalizerT, CoordinatorT, FGoto,
        registry, coordinator, finalizer, Emptied
  <2>2. CASE CallStop(f)
    BY <1>f1, <1>f2, <1>f3, <1>5, <2>2
    DEF CallStop, Requested, Go, Closing, Closed, Typed, FinalizerT, CoordinatorT, FGoto,
        registry, coordinator, finalizer, Emptied
  <2>3. CASE CallFlag(f)
    BY <1>f1, <1>f2, <1>f3, <1>5, <2>3
    DEF CallFlag, Go, Closing, Closed, Typed, FinalizerT, CoordinatorT, FGoto, registry,
        coordinator, finalizer, Emptied
  <2>4. CASE CallsDone(f)
    BY <1>f1, <1>f2, <1>f3, <1>5, <2>4
    DEF CallsDone, Go, Closing, Closed, Typed, FinalizerT, CoordinatorT, FGoto, registry,
        coordinator, finalizer, Emptied
  <2>5. CASE Escalate(f)
    BY <1>f1, <1>f2, <1>f3, <1>5, <2>5
    DEF Escalate, Go, Closing, Closed, Typed, FinalizerT, CoordinatorT, FGoto, registry,
        coordinator, finalizer, Emptied
  <2>6. CASE StartWait(f)
    BY <1>f1, <1>f2, <1>f3, <1>5, <2>6
    DEF StartWait, Go, Closing, Closed, Typed, FinalizerT, CoordinatorT, FGoto, registry,
        coordinator, finalizer, Emptied
  <2>7. CASE WaitTurn(f)
    BY <1>f1, <1>f2, <1>f3, <1>5, <2>7
    DEF WaitTurn, Go, Closing, Closed, Typed, FinalizerT, CoordinatorT, FGoto, registry,
        coordinator, finalizer, Emptied
  <2>8. CASE WakeWaiter(f)
    BY <1>f1, <1>f2, <1>f3, <1>5, <2>8
    DEF WakeWaiter, Go, Closing, Closed, Typed, FinalizerT, CoordinatorT, FGoto, registry,
        coordinator, finalizer, Emptied
  <2>9. CASE TimeOut(f)
    BY <1>f1, <1>f2, <1>f3, <1>5, <2>9
    DEF TimeOut, Go, Closing, Closed, Typed, FinalizerT, CoordinatorT, FGoto, registry,
        coordinator, finalizer, Emptied
  <2>10. CASE JoinCoordinator(f)
    BY <1>f1, <1>f2, <1>f3, <1>5, <2>10
    DEF JoinCoordinator, Go, Closing, Closed, Typed, FinalizerT, CoordinatorT, FGoto,
        registry, coordinator, finalizer, Emptied
  <2> QED
    BY <1>5, <2>1, <2>2, <2>3, <2>4, <2>5, <2>6, <2>7, <2>8, <2>9,
             <2>10 DEF FinalizerStep, FinalizerChoice
<1>6. CASE UNCHANGED vars
  BY <1>0, <1>6 DEF vars, registry, coordinator, finalizer
<1>7. cast.runtimes \subseteq Runtimes /\ cast.finalizers \subseteq Finalizers
  BY CastType DEF FinalInv
<1> QED
  BY <1>1, <1>2, <1>3, <1>4, <1>5, <1>6, <1>7 DEF Next

LEMMA InitFinal == Init => FinalInv
<1> SUFFICES ASSUME Init PROVE FinalInv
  OBVIOUS
<1>1. Typed
  BY DEF Init, Typed, RegistryT, CoordinatorT, RuntimeT, LifetimeT, CompletionT, OwnerT,
         FinalizerT, Joiners
<1>2. Closing
  BY FS_EmptySet DEF Init, Closing, Closed
<1>3. Crew # {} /\ Crew \subseteq Workers
  BY <1>1, CastType
<1>4. ASSUME NEW r \in Runtimes
      PROVE  Workforce(r) /\ Tracked(r) /\ Completion(r) /\ Registered(r)
  <2>1. opc[r] = "idle" /\ startup[r] = "pending" /\ \A w \in Crew : wpc[r][w] = "new"
    BY <1>3 DEF Init
  <2>2. Quiet(r)
    BY <2>1 DEF Quiet, Exists
  <2>3. /\ status[r] = "Running" /\ object[r] = "absent"
        /\ \A a \in Joiners : at[r][a] = "away"
    BY DEF Init
  <2>4. slots = {} /\ handed = {} /\ joinReady = {} /\ works = {} /\ cpc = "none"
    BY DEF Init
  <2> QED
    BY <2>1, <2>2, <2>3, <2>4 DEF Workforce, Tracked, Completion, Registered, Joiners
<1> QED
  BY <1>1, <1>2, <1>4 DEF FinalInv

(* The inductive invariant of startup, shutdown and finalization. *)
THEOREM FinalizationInvariant == Spec => []FinalInv
<1>1. FinalInv /\ [Next]_vars => FinalInv'
  <2> SUFFICES ASSUME FinalInv, [Next]_vars PROVE FinalInv'
    OBVIOUS
  <2>1. Typed' /\ Closing'
    BY TypedKept, ClosingKept
  <2>2. \A r \in Runtimes : Workforce(r)' /\ Tracked(r)' /\ Completion(r)' /\ Registered(r)'
    BY WorkforceKept, TrackedKept, CompletionKept, RegisteredKept
  <2> QED
    BY <2>1, <2>2 DEF FinalInv
<1> QED
  BY <1>1, InitFinal, PTL DEF Spec

(* The gauges, from the sets they count. *)
LEMMA Gauges == FinalInv => SnapshotAgrees
<1> SUFFICES ASSUME FinalInv PROVE SnapshotAgrees
  OBVIOUS
<1> DEFINE Ready == slots \cap joinReady
           Pending == (slots \cap handed) \ joinReady
<1>1. IsFiniteSet(slots) /\ IsFiniteSet(Ready) /\ IsFiniteSet(Pending)
  BY FS_Subset DEF FinalInv, Closing
<1>2. Cardinality(Ready) + Cardinality(Pending) <= Cardinality(slots)
  <2>1. Ready \cap Pending = {} /\ Ready \cup Pending \subseteq slots
    OBVIOUS
  <2>2. /\ IsFiniteSet(Ready \cup Pending)
        /\ Cardinality(Ready \cup Pending)
             = Cardinality(Ready) + Cardinality(Pending) - Cardinality(Ready \cap Pending)
    BY <1>1, FS_Union
  <2>3. Cardinality(Ready \cup Pending) <= Cardinality(slots)
    BY <1>1, <2>1, FS_Subset
  <2>4. Cardinality(Ready \cap Pending) = 0
    BY <2>1, FS_EmptySet
  <2>5. /\ Cardinality(Ready) \in Nat /\ Cardinality(Pending) \in Nat
        /\ Cardinality(slots) \in Nat
    BY <1>1, FS_CardinalityType
  <2> HIDE DEF Ready, Pending
  <2> QED
    BY <2>2, <2>3, <2>4, <2>5
<1>3. Snapshot.pending + Snapshot.joinReady <= Snapshot.registered
  <2>1. Cardinality(Ready) \in Nat /\ Cardinality(Pending) \in Nat
    BY <1>1, FS_CardinalityType
  <2> QED
    BY <1>2, <2>1 DEF Snapshot
<1>4. Snapshot.state = "Finalized" => Snapshot.registered = 0
  <2>1. CASE service = "Finalized"
    BY <2>1, FS_EmptySet DEF FinalInv, Closing, Snapshot
  <2>2. CASE service # "Finalized"
    BY <2>2 DEF FinalInv, Typed, RegistryT, CoordinatorT, Snapshot, Closed
  <2> QED
    BY <2>1, <2>2
<1>5. ASSUME NEW r \in slots
      PROVE  /\ r \in joinReady => {w \in Crew : Exists(r, w)} = {}
             /\ r \in handed \ joinReady => {w \in Crew : Exists(r, w)} # {}
  <2>1. r \in Runtimes /\ Tracked(r)
    BY DEF FinalInv, Typed, RegistryT
  <2> QED
    BY <2>1 DEF Tracked, AllGone, Quiet, Exists
<1> QED
  BY <1>3, <1>4, <1>5 DEF SnapshotAgrees

(* R-026, R-020, R-095: the workers of a runtime have one join owner,      *)
(* Stopped says that they are gone, an Impl is freed only then, and the    *)
(* gauges of process_metrics_snapshot() agree with the workers there are.  *)
THEOREM OneOwnerQuietFree == Spec => []Inv
<1>1. FinalInv => Inv
  <2> SUFFICES ASSUME FinalInv PROVE Inv
    OBVIOUS
  <2>1. TypeOK
    BY TypedIsTypeOK DEF FinalInv
  <2>2. \A r \in Runtimes : Completion(r)
    BY DEF FinalInv
  <2>3. OneJoinOwner
    BY <2>2 DEF Completion, OneJoinOwner, Quiet
  <2>4. FreedIsQuiet
    BY <2>2 DEF Completion, FreedIsQuiet, Quiet
  <2> QED
    BY <2>1, <2>3, <2>4, Gauges DEF Inv
<1> QED
  BY <1>1, FinalizationInvariant, PTL

(* A runtime is live exactly while it is registered. *)
LEMMA LiveIsRegistered == FinalInv => Live = slots
BY DEF FinalInv, Typed, RegistryT, Registered, Quiet, Live

(* R-097: a constructor that throws after it registered, because           *)
(* registration closed or a thread could not be created, leaves no worker  *)
(* and no registration.                                                    *)
THEOREM RollbackIsComplete == Spec => []RefusedLeavesNothing
<1>1. FinalInv => RefusedLeavesNothing
  BY LiveIsRegistered DEF FinalInv, Registered, RefusedLeavesNothing
<1> QED
  BY <1>1, FinalizationInvariant, PTL

(* What a step may do to the registry. *)
RegistryMoves ==
  \/ UNCHANGED <<service, slots>>
  \/ /\ service = "Open" /\ UNCHANGED service
     /\ \E r \in Runtimes : r \notin slots /\ slots' = slots \cup {r}
  \/ slots' \subseteq slots /\ UNCHANGED service
  \/ service = "Open" /\ service' = "Finalizing" /\ UNCHANGED slots
  \/ service # "Finalized" /\ slots = {} /\ service' = "Finalized" /\ UNCHANGED slots

(* The registry grows while open, shrinks, closes, and ends empty. *)
LEMMA RegistryStep == FinalInv /\ [Next]_vars => RegistryMoves
<1> SUFFICES ASSUME FinalInv, [Next]_vars PROVE RegistryMoves
  OBVIOUS
<1>f1. Typed /\ Closing /\ \A r \in Runtimes : Registered(r)
  BY DEF FinalInv
<1>0. ASSUME UNCHANGED <<service, slots>> PROVE RegistryMoves
  BY <1>0 DEF RegistryMoves
<1>1. ASSUME NEW r \in Runtimes, Go, OwnerStep(r) \/ OwnerChoice(r)
      PROVE  RegistryMoves
  <2>1. CASE Register(r)
    BY <1>f1, <1>1, <2>1
    DEF Register, Go, Closing, Closed, Typed, RegistryT, Registered, RegistryMoves,
        registry, coordinator
  <2>2. CASE Stopped(r)
    BY <1>f1, <1>1, <2>2
    DEF Stopped, Unregisters, Go, Closing, Closed, Typed, RegistryT, Registered,
        RegistryMoves, registry, coordinator
  <2>3. CASE AttachFails(r) \/ Spawn(r) \/ SpawnFails(r) \/ RecheckOpen(r)
          \/ PublishRunning(r) \/ ReplaceCleanup(r) \/ Shutdown(r) \/ DropHandle(r)
          \/ RequestStop(r) \/ AfterStop(r) \/ Release(r)
    BY <1>0, <1>1, <2>3 DEF Go, AttachFails, Spawn, SpawnFails, RecheckOpen, PublishRunning,
                            ReplaceCleanup, Shutdown, DropHandle, RequestStop, AfterStop,
                            Release, RollBack, RollBack, Requested, registry, coordinator
  <2> QED
    BY <1>1, <2>1, <2>2, <2>3 DEF OwnerStep, OwnerChoice
<1>2. ASSUME NEW r \in Runtimes, NEW a \in Joiners, Go, GateStep(r, a)
      PROVE  RegistryMoves
  BY <1>0, <1>2 DEF Go, GateStep, EnterGate, JoinWorkers, WaitStopped, registry, coordinator
<1>3. ASSUME NEW r \in Runtimes, NEW w \in Crew, Go, WorkerStep(r, w)
      PROVE  RegistryMoves
  BY <1>0, <1>3 DEF Go, WorkerStep, Arrive, PassBarrier, LeaveLoop, NotifyJoinReady,
                    DropOnWorker, StopOrphan, HandOff, ReleaseOnWorker, Leave, Active,
                    Leave, Active, registry, coordinator
<1>4. CASE Go /\ CoordinatorStep
  <2>1. CASE Claim
    BY <1>f1, <1>4, <2>1
    DEF Claim, Claimable, AnyClaimable, Go, Closing, Closed, Typed, RegistryT, Registered,
        RegistryMoves, registry, coordinator
  <2>2. CASE BeginCleanup \/ EndCleanup \/ CleanedUp \/ Exit \/ ThreadEnds
    BY <1>0, <1>4, <2>2 DEF Go, BeginCleanup, EndCleanup, CleanedUp, Exit, ThreadEnds,
                            registry, coordinator
  <2> QED
    BY <1>4, <2>1, <2>2 DEF CoordinatorStep
<1>5. ASSUME NEW f \in Finalizers, Go, FinalizerStep(f) \/ FinalizerChoice(f)
      PROVE  RegistryMoves
  <2>1. CASE Begin(f)
    BY <1>f1, <1>5, <2>1
    DEF Begin, Closed, Go, Closing, Closed, Typed, RegistryT, Registered, RegistryMoves,
        registry, coordinator
  <2>2. CASE StartWait(f)
    BY <1>f1, <1>5, <2>2
    DEF StartWait, Go, Closing, Closed, Typed, RegistryT, Registered, RegistryMoves,
        registry, coordinator
  <2>3. CASE WaitTurn(f)
    BY <1>f1, <1>5, <2>3
    DEF WaitTurn, Go, Closing, Closed, Typed, RegistryT, Registered, RegistryMoves,
        registry, coordinator
  <2>4. CASE JoinCoordinator(f)
    BY <1>f1, <1>5, <2>4
    DEF JoinCoordinator, Go, Closing, Closed, Typed, RegistryT, Registered, RegistryMoves,
        registry, coordinator
  <2>5. CASE CallStop(f) \/ CallFlag(f) \/ CallsDone(f) \/ Escalate(f) \/ WakeWaiter(f)
          \/ TimeOut(f)
    BY <1>0, <1>5, <2>5 DEF Go, CallStop, CallFlag, CallsDone, Escalate, WakeWaiter,
                            TimeOut, Requested, registry, coordinator
  <2> QED
    BY <1>5, <2>1, <2>2, <2>3, <2>4, <2>5 DEF FinalizerStep, FinalizerChoice
<1>6. CASE UNCHANGED vars
  BY <1>0, <1>6 DEF vars, registry, coordinator
<1>7. cast.runtimes \subseteq Runtimes /\ cast.finalizers \subseteq Finalizers
  BY CastType DEF FinalInv
<1> QED
  BY <1>1, <1>2, <1>3, <1>4, <1>5, <1>6, <1>7 DEF Next

(* The process-wide service: runtimes start only while registration is     *)
(* open, and Finalized is published, by whichever waiter, once every       *)
(* runtime is off the registry and every worker has left.                  *)
THEOREM RegistryIsService == Spec => ServiceSpec
<1>1. Init => Service!Init
  <2> SUFFICES ASSUME Init PROVE service = "Open" /\ Live = {}
    BY DEF Service!Init
  <2>1. Live = slots
    BY InitFinal, LiveIsRegistered
  <2> QED
    BY <2>1 DEF Init
<1>2. FinalInv /\ FinalInv' /\ [Next]_vars => [Service!Next]_<<service, Live>>
  <2> SUFFICES ASSUME FinalInv, FinalInv', [Next]_vars
               PROVE  [Service!Next]_<<service, Live>>
    OBVIOUS
  <2>1. Live = slots /\ Live' = slots'
    BY DEF FinalInv, Typed, RegistryT, Registered, Quiet, Live
  <2>2. RegistryMoves
    BY RegistryStep
  <2> HIDE DEF Live
  <2> QED
    BY <2>1, <2>2
    DEF RegistryMoves, Service!Next, Service!Start, Service!Reclaim, Service!Close,
        Service!Complete
<1> QED
  BY <1>1, <1>2, FinalizationInvariant, PTL DEF Spec, ServiceSpec, Service!Spec
=============================================================================
