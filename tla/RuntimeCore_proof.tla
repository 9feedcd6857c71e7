------------------------- MODULE RuntimeCore_proof -------------------------
(***************************************************************************)
(* What holds of one runtime for any number of workers, submitters,        *)
(* closers and tasks: the lifecycle mutex is exclusive, one closer leads   *)
(* the join, and nobody learns of Stopped while a worker is alive; no      *)
(* pending task is lost or duplicated, and shutdown leaves none behind.    *)
(***************************************************************************)
EXTENDS RuntimeCore, FiniteSetTheorems, TLAPS

(* A worker step that touches neither the closers nor the gate keeps the   *)
(* part of the invariant about leading the join, as long as no worker that *)
(* has left its loop moves again.                                          *)
LEMMA LeaderFrame ==
  ASSUME OneLeader, UNCHANGED <<state, cpc, gate>>,
         \A w \in Workers : wpc[w] = "exited" => wpc'[w] = "exited"
  PROVE  OneLeader'
BY DEF OneLeader, Leading, gate

(* The same for the steps of submitters and for stuttering.                *)
LEMMA WorkersFrame ==
  ASSUME CoreInv, TypeOK', UNCHANGED <<state, mutex, workers, cpc, gate>>
  PROVE  CoreInv'
BY DEF CoreInv, Hands, MutexHeld, OneLeader, Leading, Holding, Claiming, WorkerSection, workers, gate

LEMMA InitCore == Init => CoreInv
<1> SUFFICES ASSUME Init PROVE CoreInv
  OBVIOUS
<1>1. TypeOK
  BY RuntimeAssumption DEF Init, TypeOK, Modes, WorkerSteps, SubmitterSteps, CloserSteps, Fates
<1>2. Hands
  BY DEF Init, Hands, Holding, Claiming
<1>3. MutexHeld
  BY RuntimeAssumption DEF Init, MutexHeld, WorkerSection
<1>4. OneLeader
  BY DEF Init, OneLeader, Leading
<1> QED
  BY <1>1, <1>2, <1>3, <1>4 DEF CoreInv

(* A worker's search for a task, what it does with due timers, and its     *)
(* notification of what it has published.                                  *)
LEMMA SearchStep ==
  ASSUME CoreInv, NEW w \in Workers, Search(w) \/ CollectDue(w) \/ PostDue(w) \/ Tell(w)
  PROVE  CoreInv'
<1> USE RuntimeAssumption
    DEF CoreInv, TypeOK, Hands, MutexHeld, Holding, Claiming, WorkerSection,
        At, Settled, WGoto, Free, NotifyOne, Owe, TakeLocal, TakeGlobal,
        status, queues, parking, workers, gate, WorkerSteps
<1>1. CASE ClaimLocal(w)
  BY <1>1, LeaderFrame DEF ClaimLocal
<1>2. CASE SkipLocal(w)
  BY <1>2, LeaderFrame DEF SkipLocal
<1>3. CASE ClaimGlobal(w)
  BY <1>3, LeaderFrame DEF ClaimGlobal
<1>4. CASE GlobalEmpty(w)
  BY <1>4, LeaderFrame DEF GlobalEmpty
<1>5. CASE ClaimLocalAgain(w)
  BY <1>5, LeaderFrame DEF ClaimLocalAgain
<1>6. CASE Steal(w)
  BY <1>6, LeaderFrame DEF Steal
<1>7. CASE StealFails(w)
  BY <1>7, LeaderFrame DEF StealFails
<1>8. CASE CountClaim(w)
  BY <1>8, LeaderFrame DEF CountClaim
<1>9. CASE CollectDue(w)
  BY <1>9, LeaderFrame DEF CollectDue
<1>10. CASE PostDue(w)
  BY <1>10, LeaderFrame DEF PostDue
<1>11. CASE Tell(w)
  BY <1>11, LeaderFrame DEF Tell
<1> QED
  BY <1>1, <1>2, <1>3, <1>4, <1>5, <1>6, <1>7, <1>8, <1>9, <1>10, <1>11 DEF Search

(* A worker executes what it claimed: what it submits or yields to is a    *)
(* task, because After[t] is one whenever it is not NoTask.                *)
LEMMA ExecuteStep ==
  ASSUME CoreInv, NEW w \in Workers, Execute(w)
  PROVE  CoreInv'
<1> USE RuntimeAssumption
    DEF CoreInv, TypeOK, Hands, MutexHeld, Holding, Claiming, WorkerSection,
        At, Settled, WGoto, SetFate, Following, Owe, NotifyAll,
        status, queues, parking, workers, gate, WorkerSteps, Fates
<1>1. CASE Check(w)
  BY <1>1, LeaderFrame DEF Check
<1>2. CASE CancelPreStart(w)
  BY <1>2, LeaderFrame DEF CancelPreStart
<1>3. CASE Start(w)
  BY <1>3, LeaderFrame DEF Start
<1>4. CASE Run(w)
  BY <1>4, LeaderFrame DEF Run
<1>5. CASE Spawn(w)
  BY <1>5, LeaderFrame DEF Spawn
<1>6. CASE Ran(w)
  BY <1>6, LeaderFrame DEF Ran
<1>7. CASE Complete(w)
  BY <1>7, LeaderFrame DEF Complete
<1> QED
  BY <1>1, <1>2, <1>3, <1>4, <1>5, <1>6, <1>7 DEF Execute

(* A worker parks, or leaves its loop. Only ExitCheck and Exit let one go, *)
(* and both hold the mutex, so the joins have not been counted yet.        *)
LEMMA ParkStep ==
  ASSUME CoreInv, NEW w \in Workers, Park(w) \/ SpuriousWake(w)
  PROVE  CoreInv'
<1> USE RuntimeAssumption
    DEF CoreInv, TypeOK, Hands, MutexHeld, Holding, Claiming, WorkerSection,
        At, Settled, WGoto, Free, TakeLocal, TakeGlobal, NotifyAll,
        status, queues, parking, workers, gate, WorkerSteps
<1>1. CASE Observe(w)
  BY <1>1, LeaderFrame DEF Observe
<1>2. CASE Lock(w)
  BY <1>2, LeaderFrame DEF Lock
<1>3. CASE Predicate(w)
  <2> DEFINE next == IF MustWake(w) THEN "woken" ELSE "block"
  <2>1. next \in {"woken", "block"}
    OBVIOUS
  <2>2. wpc' = [wpc EXCEPT ![w] = next]
    BY <1>3 DEF Predicate
  <2> HIDE DEF next
  <2> QED
    BY <1>3, <2>1, <2>2, LeaderFrame DEF Predicate
<1>4. CASE Block(w)
  BY <1>4, LeaderFrame DEF Block
<1>5. CASE Notified(w)
  BY <1>5, LeaderFrame DEF Notified
<1>6. CASE TimedOut(w)
  BY <1>6, LeaderFrame DEF TimedOut
<1>7. CASE WokenClaim(w)
  BY <1>7, LeaderFrame DEF WokenClaim
<1>8. CASE Relock(w)
  BY <1>8, LeaderFrame DEF Relock
<1>9. CASE ExitCheck(w)
  <2>1. PICK next \in {"exited", "exitImmediate", "exitGraceful", "top"} :
          /\ wpc' = [wpc EXCEPT ![w] = next]
          /\ mutex' = IF next \in {"exited", "top"} THEN NoThread ELSE mutex
    BY <1>9 DEF ExitCheck
  <2> QED
    BY <1>9, <2>1, LeaderFrame DEF ExitCheck
<1>10. CASE Exit(w)
  <2>1. PICK next \in {"exited", "top"} : wpc' = [wpc EXCEPT ![w] = next]
    BY <1>10 DEF Exit
  <2>2. asleep' \subseteq Workers /\ UNCHANGED <<timed, moved, owed>>
    BY <1>10 DEF Exit
  <2> QED
    BY <1>10, <2>1, <2>2, LeaderFrame DEF Exit
<1>11. CASE SpuriousWake(w)
  BY <1>11, LeaderFrame DEF SpuriousWake
<1>12. CASE ExitTimers(w)
  <2>1. PICK next \in {"exitClaims", "top"} :
          /\ wpc' = [wpc EXCEPT ![w] = next]
          /\ mutex' = IF next = "top" THEN NoThread ELSE mutex
    BY <1>12 DEF ExitTimers
  <2> QED
    BY <1>12, <2>1, LeaderFrame DEF ExitTimers
<1> QED
  BY <1>1, <1>2, <1>3, <1>4, <1>5, <1>6, <1>7, <1>8, <1>9, <1>10, <1>11, <1>12 DEF Park

LEMMA SubmitterStep ==
  ASSUME CoreInv, NEW s \in Submitters, Submitter(s)
  PROVE  CoreInv'
<1> USE RuntimeAssumption
    DEF CoreInv, TypeOK, SGoto, SetFate, NotifyOne,
        status, queues, parking, workers, gate, SubmitterSteps, Fates
<1>1. CASE Admit(s)
  BY <1>1, WorkersFrame DEF Admit
<1>2. CASE Publish(s)
  BY <1>2, WorkersFrame DEF Publish
<1>3. CASE Notify(s)
  BY <1>3, WorkersFrame DEF Notify
<1> QED
  BY <1>1, <1>2, <1>3 DEF Submitter

(* A closer.  Taking the gate needs that nobody leads, leaving it needs    *)
(* that nobody else does; Join is the step at which the workers are gone.  *)
LEMMA CloserStep ==
  ASSUME CoreInv, NEW c \in Closers, Call(c) \/ Closer(c)
  PROVE  CoreInv'
<1> USE RuntimeAssumption
    DEF CoreInv, TypeOK, Hands, MutexHeld, OneLeader, Leading, Holding, Claiming, WorkerSection,
        CGoto, SetFate, Free, NotifyOne, NotifyAll, Owe, Modes,
        status, queues, parking, workers, gate, CloserSteps, Fates
<1>1. CASE Call(c)
  BY <1>1 DEF Call
<1>2. CASE Request(c)
  BY <1>2 DEF Request
<1>3. CASE CancelGlobal(c)
  BY <1>3 DEF CancelGlobal
<1>4. CASE CancelLocal(c)
  BY <1>4 DEF CancelLocal, Locals
<1>5. CASE PutBack(c)
  BY <1>5 DEF PutBack
<1>6. CASE CancelTimers(c)
  BY <1>6 DEF CancelTimers
<1>7. CASE PostCancelled(c)
  BY <1>7 DEF PostCancelled
<1>8. CASE WakeAll(c)
  BY <1>8 DEF WakeAll
<1>9. CASE SetFlag(c)
  BY <1>9 DEF SetFlag
<1>10. CASE Gate(c)
  <2>0. PICK next \in {"done", "join", "wait"} :
          /\ cpc' = [cpc EXCEPT ![c] = next]
          /\ next = "done" => (stopped \/ state = "Stopped") /\ inProgress' = inProgress
          /\ next = "join" => ~stopped /\ state # "Stopped" /\ ~inProgress /\ inProgress' = TRUE
          /\ next = "wait" => inProgress' = inProgress
    BY <1>10 DEF Gate
  <2>1. TypeOK' /\ Hands' /\ MutexHeld'
    <3>1. TypeOK'
      BY <1>10, <2>0 DEF Gate
    <3>2. Hands'
      BY <1>10, <2>0 DEF Gate
    <3>3. MutexHeld'
      BY <1>10, <2>0 DEF Gate
    <3> QED
      BY <3>1, <3>2, <3>3
  <2>2. next = "join" => (\A d \in Closers : d \notin Leading) /\ joins = 0
    BY <2>0
  <2>3. OneLeader'
    BY <1>10, <2>0, <2>2 DEF Gate
  <2> QED
    BY <2>1, <2>3
<1>11. CASE GateOpens(c)
  BY <1>11 DEF GateOpens
<1>12. CASE Join(c)
  BY <1>12 DEF Join
<1>13. CASE PublishStopped(c)
  BY <1>13 DEF PublishStopped
<1>14. CASE SetStopped(c)
  <2>1. TypeOK' /\ Hands' /\ MutexHeld'
    <3>1. TypeOK'
      BY <1>14 DEF SetStopped
    <3>2. Hands'
      BY <1>14 DEF SetStopped
    <3>3. MutexHeld'
      BY <1>14 DEF SetStopped
    <3> QED
      BY <3>1, <3>2, <3>3
  <2>2. /\ cpc' = [cpc EXCEPT ![c] = "leave"]
        /\ stopped' /\ inProgress' /\ joins' = 1
        /\ \A d \in Closers : d \in Leading => d = c
    BY <1>14 DEF SetStopped
  <2>3. OneLeader'
    BY <1>14, <2>2 DEF SetStopped
  <2> QED
    BY <2>1, <2>3
<1>15. CASE Leave(c)
  <2>1. TypeOK' /\ Hands' /\ MutexHeld'
    <3>1. TypeOK'
      BY <1>15 DEF Leave
    <3>2. Hands'
      BY <1>15 DEF Leave
    <3>3. MutexHeld'
      BY <1>15 DEF Leave
    <3> QED
      BY <3>1, <3>2, <3>3
  <2>2. /\ cpc' = [cpc EXCEPT ![c] = "done"]
        /\ stopped /\ stopped' /\ joins' = 1 /\ joins = 1
        /\ \A d \in Closers : d \in Leading => d = c
    BY <1>15 DEF Leave
  <2>3. OneLeader'
    BY <1>15, <2>2 DEF Leave
  <2> QED
    BY <2>1, <2>3
<1>16. CASE Tell(c)
  BY <1>16 DEF Tell
<1> QED
  BY <1>1, <1>2, <1>3, <1>4, <1>5, <1>6, <1>7, <1>8, <1>9, <1>10, <1>11, <1>12, <1>13,
     <1>14, <1>15, <1>16 DEF Closer

(* For any numbers of threads and tasks: the mutex is exclusive, a worker  *)
(* holds a task just while it is claimed, and one closer leads the join.   *)
THEOREM CoreInvariant == Spec => []CoreInv
<1>1. ASSUME CoreInv, [Next]_vars PROVE CoreInv'
  <2>1. CASE UNCHANGED vars
    BY <1>1, <2>1
    DEF vars, status, queues, parking, workers, gate, CoreInv, TypeOK, Hands, MutexHeld, OneLeader,
        Leading, Holding, Claiming, WorkerSection
  <2>2. ASSUME NEW w \in Workers, Worker(w) \/ CollectDue(w) \/ SpuriousWake(w) PROVE CoreInv'
    BY <1>1, <2>2, SearchStep, ExecuteStep, ParkStep DEF Worker
  <2>3. ASSUME NEW s \in Submitters, Submitter(s) PROVE CoreInv'
    BY <1>1, <2>3, SubmitterStep
  <2>4. ASSUME NEW c \in Closers, Call(c) \/ Closer(c) PROVE CoreInv'
    BY <1>1, <2>4, CloserStep
  <2> QED
    BY <1>1, <2>1, <2>2, <2>3, <2>4 DEF Next
<1> QED
  BY <1>1, InitCore, PTL DEF Spec

(* R-016: however many threads shut the runtime down, one at a time leads  *)
(* the join and the workers are joined once.                               *)
THEOREM OneJoin == Spec => []JoinedOnce
<1>1. ASSUME CoreInv PROVE JoinedOnce
  <2>1. CASE Leading = {}
    BY <1>1, <2>1, FS_EmptySet DEF CoreInv, OneLeader, JoinedOnce
  <2>2. ASSUME NEW c \in Leading PROVE JoinedOnce
    <3>1. Leading = {c}
      BY <1>1, <2>2 DEF CoreInv, OneLeader
    <3> QED
      BY <1>1, <3>1, FS_Singleton DEF CoreInv, OneLeader, JoinedOnce
  <2> QED
    BY <2>1, <2>2
<1> QED
  BY <1>1, CoreInvariant, PTL

(* R-012, R-016: when Stopped is published, or a shutdown call returns,    *)
(* every worker has left its loop with nothing in its hands.               *)
THEOREM StoppedMeansQuiet == Spec => []StoppedIsQuiet
<1>1. ASSUME CoreInv, state = "Stopped" \/ (\E c \in Closers : cpc[c] = "done"), NEW w \in Workers
      PROVE  wpc[w] = "exited" /\ wtask[w] = NoTask /\ firing[w] = {}
  <2>1. wpc[w] = "exited"
    BY <1>1 DEF CoreInv, OneLeader
  <2> QED
    BY <1>1, <2>1 DEF CoreInv, Hands, Holding, Claiming
<1>2. CoreInv => StoppedIsQuiet
  BY <1>1 DEF StoppedIsQuiet
<1> QED
  BY <1>2, CoreInvariant, PTL

(* The resume segments that cancel_unstarted() carries by hand cannot be   *)
(* overlooked by a worker that decides to leave: both hold the mutex.      *)
THEOREM NobodyLeavesWhileCarrying == Spec => NoExitWhileCarrying
<1> DEFINE A == (\E c \in Closers : cpc[c] = "putBack" /\ inHand[c] # {}) =>
                  \A w \in Workers : wpc'[w] = "exited" => wpc[w] = "exited"
<1>1. ASSUME CoreInv, [Next]_vars PROVE [A]_vars
  <2> SUFFICES ASSUME NEW c \in Closers, cpc[c] = "putBack", Next, NEW v \in Workers,
                      wpc[v] # "exited", wpc'[v] = "exited"
               PROVE  FALSE
    BY <1>1
  <2>1. mutex = c /\ wpc[v] \notin WorkerSection
    BY <1>1, RuntimeAssumption DEF CoreInv, MutexHeld
  <2>2. ASSUME NEW w \in Workers, Search(w) \/ CollectDue(w) \/ PostDue(w) \/ Tell(w) PROVE FALSE
    BY <1>1, <2>2
    DEF CoreInv, TypeOK, At, WGoto, Search, ClaimLocal, SkipLocal, ClaimGlobal, GlobalEmpty,
        ClaimLocalAgain, Steal, StealFails, CountClaim, CollectDue, PostDue, Tell, workers
  <2>3. ASSUME NEW w \in Workers, Execute(w) PROVE FALSE
    BY <1>1, <2>3
    DEF CoreInv, TypeOK, At, WGoto, Execute, Check, CancelPreStart, Start, Run, Spawn, Ran, Complete
  <2>4. ASSUME NEW w \in Workers, Park(w) \/ SpuriousWake(w) PROVE FALSE
    BY <1>1, <2>1, <2>4
    DEF CoreInv, TypeOK, At, WGoto, WorkerSection, Park, Observe, Lock, Predicate, Block, Notified,
        TimedOut, WokenClaim, Relock, ExitCheck, ExitTimers, Exit, SpuriousWake, workers
  <2>5. ASSUME NEW s \in Submitters, Submitter(s) PROVE FALSE
    BY <2>5 DEF Submitter, Admit, Publish, Notify, workers
  <2>6. ASSUME NEW d \in Closers, Call(d) \/ Closer(d) PROVE FALSE
    BY <2>6
    DEF Call, Closer, Request, CancelGlobal, CancelLocal, PutBack, CancelTimers, PostCancelled,
        WakeAll, SetFlag, Gate, GateOpens, Join, PublishStopped, SetStopped, Leave, Tell, workers
  <2> QED
    BY <2>2, <2>3, <2>4, <2>5, <2>6 DEF Next, Worker
<1> QED
  BY <1>1, CoreInvariant, PTL DEF Spec, NoExitWhileCarrying

Counted == {w \in Workers : wpc[w] \in Claiming}

(* Steps of others, and steps that stay on one side of the count.          *)
LEMMA CountedFrame ==
  ASSUME ClaimBalance, UNCHANGED claimed,
         \A w \in Workers : wpc'[w] \in Claiming <=> wpc[w] \in Claiming
  PROVE  ClaimBalance'
<1>1. Counted' = Counted
  BY DEF Counted
<1> QED
  BY <1>1 DEF ClaimBalance, Counted

(* claimed_count_ moves with the claims: the count is exactly the number   *)
(* of workers between counting a claim and completing it, so that drain    *)
(* may read it and complete_claim() never needs to stop at zero.           *)
THEOREM ClaimsBalance == Spec => []ClaimBalance
<1>1. Init => ClaimBalance
  <2>1. Init => Counted = {}
    BY DEF Init, Counted, Claiming
  <2> QED
    BY <2>1, FS_EmptySet DEF ClaimBalance, Counted, Init
<1>2. ASSUME CoreInv, ClaimBalance, [Next]_vars PROVE ClaimBalance'
  <2>0. IsFiniteSet(Counted) /\ claimed = Cardinality(Counted) /\ claimed \in Nat
    BY <1>2, RuntimeAssumption, FS_Subset DEF Counted, ClaimBalance, CoreInv, TypeOK
  <2> USE DEF CoreInv, TypeOK, At, WGoto, Claiming
  <2>1. ASSUME NEW w \in Workers, w \notin Counted, claimed' = claimed + 1,
               NEW next \in Claiming, wpc' = [wpc EXCEPT ![w] = next]
        PROVE  ClaimBalance'
    <3>1. Counted' = Counted \cup {w}
      BY <1>2, <2>1 DEF Counted
    <3> QED
      BY <2>0, <2>1, <3>1, FS_AddElement DEF ClaimBalance, Counted
  <2>2. ASSUME NEW w \in Workers, Complete(w) PROVE ClaimBalance'
    <3>1. w \in Counted /\ Counted' = Counted \ {w}
      BY <1>2, <2>2 DEF Counted, Complete
    <3>2. Cardinality(Counted') = Cardinality(Counted) - 1
      BY <2>0, <3>1, FS_RemoveElement
    <3>3. Cardinality(Counted) # 0
      BY <2>0, <3>1, FS_EmptySet
    <3>4. claimed' = claimed - 1
      BY <2>0, <2>2, <3>3 DEF Complete
    <3> QED
      BY <2>0, <3>2, <3>4 DEF ClaimBalance, Counted
  <2>3. ASSUME NEW w \in Workers, Search(w) \/ CollectDue(w) \/ PostDue(w) \/ Tell(w) PROVE ClaimBalance'
    <3> USE DEF Search
    <3>1. CASE ClaimGlobal(w) \/ CountClaim(w)
      BY <1>2, <2>1, <2>3, <3>1 DEF ClaimGlobal, CountClaim, TakeGlobal, Counted
    <3>2. CASE ~(ClaimGlobal(w) \/ CountClaim(w))
      BY <1>2, <2>3, <3>2, CountedFrame
      DEF ClaimLocal, SkipLocal, GlobalEmpty, ClaimLocalAgain, Steal, StealFails, CollectDue,
          PostDue, Tell, TakeLocal, workers
    <3> QED
      BY <3>1, <3>2
  <2>4. ASSUME NEW w \in Workers, Execute(w) PROVE ClaimBalance'
    BY <1>2, <2>2, <2>4, CountedFrame
    DEF Execute, Check, CancelPreStart, Start, Run, Spawn, Ran
  <2>5. ASSUME NEW w \in Workers, Park(w) \/ SpuriousWake(w) PROVE ClaimBalance'
    <3>1. CASE WokenClaim(w) /\ claimed' = claimed
      BY <1>2, <2>0, <3>1, CountedFrame DEF WokenClaim, TakeGlobal
    <3>2. CASE WokenClaim(w) /\ claimed' # claimed
      BY <1>2, <2>1, <2>5, <3>2 DEF WokenClaim, TakeGlobal, Counted
    <3>3. CASE ~WokenClaim(w)
      BY <1>2, <2>5, <3>3, CountedFrame
      DEF Park, Observe, Lock, Predicate, Block, Notified, TimedOut, Relock, ExitCheck, ExitTimers, Exit,
          SpuriousWake, workers
    <3> QED
      BY <3>1, <3>2, <3>3
  <2>6. CASE UNCHANGED <<wpc, claimed>>
    BY <1>2, <2>6, CountedFrame
  <2>7. ASSUME NEW s \in Submitters, Submitter(s) PROVE UNCHANGED <<wpc, claimed>>
    BY <2>7 DEF Submitter, Admit, Publish, Notify, workers
  <2>8. ASSUME NEW c \in Closers, Call(c) \/ Closer(c) PROVE UNCHANGED <<wpc, claimed>>
    BY <2>8
    DEF Call, Closer, Request, CancelGlobal, CancelLocal, PutBack, CancelTimers, PostCancelled,
        WakeAll, SetFlag, Gate, GateOpens, Join, PublishStopped, SetStopped, Leave, Tell, workers
  <2> QED
    BY <1>2, <2>3, <2>4, <2>5, <2>6, <2>7, <2>8 DEF Next, Worker, vars, workers
<1> QED
  BY <1>1, <1>2, CoreInvariant, PTL DEF Spec
-----------------------------------------------------------------------------
(* Task t is in a place of this kind that belongs to thread x.             *)
Kinds == {"global", "timers", "local", "firing", "held", "hand"}
Threads == Workers \cup Closers \cup {NoThread}
In(kind, x, t) ==
  \/ kind = "global" /\ x = NoThread /\ t \in global
  \/ kind = "timers" /\ x = NoThread /\ t \in timers
  \/ kind = "local" /\ x \in Workers /\ t \in local[x]
  \/ kind = "firing" /\ x \in Workers /\ t \in firing[x]
  \/ kind = "held" /\ x \in Workers /\ HeldBy(x) /\ wtask[x] = t
  \/ kind = "hand" /\ x \in Closers /\ t \in inHand[x]

(* Conservation without counting, which is what a step can be shown to     *)
(* preserve: a pending task is in some place, any other in none, and no    *)
(* task is in two.                                                         *)
Placed ==
  \A t \in Tasks :
    /\ fate[t] = "pending" => \E k \in Kinds, x \in Threads : In(k, x, t)
    /\ \A k, j \in Kinds, x, y \in Threads :
         In(k, x, t) => /\ fate[t] = "pending"
                        /\ In(j, y, t) => j = k /\ y = x

(* Counting the places says the same.                                      *)
LEMMA PlacedCounts == Placed => WorkConservation
<1> SUFFICES ASSUME Placed, NEW t \in Tasks
             PROVE  Cardinality(PlacesOf(t)) = IF fate[t] = "pending" THEN 1 ELSE 0
  BY DEF WorkConservation
<1>1. \A p : p \in PlacesOf(t) <=> \E k \in Kinds, x \in Threads : p = <<k, x>> /\ In(k, x, t)
  BY DEF PlacesOf, In, Kinds, Threads
<1>2. CASE fate[t] = "pending"
  <2>1. PICK k \in Kinds, x \in Threads : In(k, x, t)
    BY <1>2 DEF Placed
  <2>2. PlacesOf(t) = {<<k, x>>}
    BY <1>1, <2>1 DEF Placed
  <2> QED
    BY <1>2, <2>2, FS_Singleton
<1>3. CASE fate[t] # "pending"
  <2>1. PlacesOf(t) = {}
    BY <1>1, <1>3 DEF Placed
  <2> QED
    BY <1>3, <2>1, FS_EmptySet
<1> QED
  BY <1>2, <1>3

(* What a step may do: the tasks in M go to one place, those in D are      *)
(* pending no more, and the others stay as they are.                       *)
LEMMA Transfer ==
  ASSUME Placed, NEW M, NEW D, NEW k \in Kinds, NEW x \in Threads,
         \A t \in Tasks \ (M \cup D) :
           /\ fate'[t] = "pending" <=> fate[t] = "pending"
           /\ \A j \in Kinds, y \in Threads : In(j, y, t)' <=> In(j, y, t),
         \A t \in M : /\ fate'[t] = "pending"
                      /\ \A j \in Kinds, y \in Threads : In(j, y, t)' <=> j = k /\ y = x,
         \A t \in D \ M : /\ fate'[t] # "pending"
                          /\ \A j \in Kinds, y \in Threads : ~In(j, y, t)'
  PROVE  Placed'
<1> USE DEF Placed
<1> SUFFICES ASSUME NEW t \in Tasks
             PROVE  /\ fate'[t] = "pending" => \E j \in Kinds, y \in Threads : In(j, y, t)'
                    /\ \A i, j \in Kinds, y, z \in Threads :
                         In(j, y, t)' => /\ fate'[t] = "pending"
                                         /\ In(i, z, t)' => i = j /\ z = y
  OBVIOUS
<1>1. CASE t \in Tasks \ (M \cup D)
  BY <1>1
<1>2. CASE t \in M
  BY <1>2
<1>3. CASE t \in D \ M
  BY <1>3
<1> QED
  BY <1>1, <1>2, <1>3

(* A step that moves nothing.                                              *)
LEMMA Rest ==
  ASSUME Placed, UNCHANGED <<global, timers, local, inHand, firing>>,
         \A t \in Tasks : fate'[t] = "pending" <=> fate[t] = "pending",
         \A w \in Workers : /\ HeldBy(w)' <=> HeldBy(w)
                            /\ HeldBy(w) => wtask'[w] = wtask[w]
  PROVE  Placed'
<1>1. \A t \in Tasks, j \in Kinds, y \in Threads : In(j, y, t)' <=> In(j, y, t)
  BY DEF In
<1> QED
  BY <1>1 DEF Placed

(* One task moves, pending before and after.                               *)
LEMMA Move ==
  ASSUME CoreInv, Placed, NEW t \in Tasks, NEW i \in Kinds, NEW z \in Threads,
         In(i, z, t), UNCHANGED fate,
         NEW k \in Kinds, NEW x \in Threads,
         \A u \in Tasks \ {t} : \A j \in Kinds, y \in Threads : In(j, y, u)' <=> In(j, y, u),
         \A j \in Kinds, y \in Threads :
           In(j, y, t)' <=> (j = k /\ y = x) \/ (In(j, y, t) /\ ~(j = i /\ y = z))
  PROVE  Placed'
<1>1. fate[t] = "pending" /\ \A j \in Kinds, y \in Threads : In(j, y, t) => j = i /\ y = z
  BY DEF Placed
<1>2. \A j \in Kinds, y \in Threads : In(j, y, t)' <=> j = k /\ y = x
  BY <1>1
<1> QED
  BY <1>1, <1>2 DEF Placed

(* Claiming and stealing move a task into the worker's hands; a due timer  *)
(* goes by way of firing to the worker's own queue.                        *)
LEMMA SearchMoves ==
  ASSUME CoreInv, Placed, NEW w \in Workers,
         Search(w) \/ CollectDue(w) \/ PostDue(w) \/ Tell(w)
  PROVE  Placed'
<1> USE RuntimeAssumption
    DEF CoreInv, TypeOK, Hands, Holding, Claiming, At, Settled, WGoto, HeldBy,
        status, queues, parking, gate
<1>1. ASSUME NEW v \in Workers, TakeLocal(w, v), wpc' = [wpc EXCEPT ![w] = "count"],
             wpc[w] \notin Holding,
             UNCHANGED <<global, timers, inHand, firing, fate>>
      PROVE  Placed'
  <2>1. PICK t \in local[v] : /\ local' = [local EXCEPT ![v] = @ \ {t}]
                              /\ wtask' = [wtask EXCEPT ![w] = t]
    BY <1>1 DEF TakeLocal
  <2>2. In("local", v, t) /\ t \in Tasks /\ wtask[w] = NoTask
    BY <1>1, <2>1 DEF In
  <2>3. \A u \in Tasks \ {t} : \A j \in Kinds, y \in Threads : In(j, y, u)' <=> In(j, y, u)
    BY <1>1, <2>1, <2>2 DEF In
  <2>4. \A j \in Kinds, y \in Threads :
          In(j, y, t)' <=> (j = "held" /\ y = w) \/ (In(j, y, t) /\ ~(j = "local" /\ y = v))
    BY <1>1, <2>1, <2>2 DEF In
  <2>5. {"held", "local"} \subseteq Kinds /\ {w, v} \subseteq Threads
    BY DEF Kinds, Threads
  <2> QED
    BY <2>5, <1>1, <2>2, <2>3, <2>4, Move
<1>2. CASE ClaimLocal(w)
  BY <1>1, <1>2 DEF ClaimLocal
<1>3. CASE Steal(w)
  BY <1>1, <1>3 DEF Steal
<1>4. CASE ClaimLocalAgain(w) /\ TakeLocal(w, w)
  BY <1>1, <1>4, Rest DEF ClaimLocalAgain
<1>5. CASE ClaimGlobal(w)
  <2>1. PICK t \in global : global' = global \ {t} /\ wtask' = [wtask EXCEPT ![w] = t]
    BY <1>5 DEF ClaimGlobal, TakeGlobal
  <2>2. In("global", NoThread, t) /\ t \in Tasks /\ wtask[w] = NoTask
    BY <1>5, <2>1 DEF In, ClaimGlobal
  <2>3. \A u \in Tasks \ {t} : \A j \in Kinds, y \in Threads : In(j, y, u)' <=> In(j, y, u)
    BY <1>5, <2>1, <2>2 DEF In, ClaimGlobal
  <2>4. \A j \in Kinds, y \in Threads :
          In(j, y, t)' <=> (j = "held" /\ y = w) \/ (In(j, y, t) /\ ~(j = "global" /\ y = NoThread))
    BY <1>5, <2>1, <2>2 DEF In, ClaimGlobal
  <2>5. {"held", "global"} \subseteq Kinds /\ {w, NoThread} \subseteq Threads
    BY DEF Kinds, Threads
  <2> QED
    BY <2>5, <1>5, <2>2, <2>3, <2>4, Move DEF ClaimGlobal
<1>6. CASE CollectDue(w)
  <2>1. PICK due \in SUBSET timers : /\ firing' = [firing EXCEPT ![w] = due]
                                     /\ timers' = timers \ due
    BY <1>6 DEF CollectDue
  <2>2. \A t \in due : t \in Tasks /\ In("timers", NoThread, t)
    BY <2>1 DEF In
  <2>3. \A t \in Tasks \ due : \A j \in Kinds, y \in Threads : In(j, y, t)' <=> In(j, y, t)
    BY <1>6, <2>1 DEF In, CollectDue
  <2>4. \A t \in due : \A j \in Kinds, y \in Threads :
          In(j, y, t)' <=> (j = "firing" /\ y = w) \/ (In(j, y, t) /\ ~(j = "timers" /\ y = NoThread))
    BY <1>6, <2>1, <2>2 DEF In, CollectDue
  <2>5. {"firing", "timers"} \subseteq Kinds /\ {w, NoThread} \subseteq Threads
    BY DEF Kinds, Threads
  <2>6. \A t \in due : fate[t] = "pending" /\ \A j \in Kinds, y \in Threads :
          In(j, y, t)' <=> j = "firing" /\ y = w
    BY <2>2, <2>4, <2>5 DEF Placed
  <2>7. UNCHANGED fate
    BY <1>6 DEF CollectDue
  <2> QED
    BY <2>3, <2>5, <2>6, <2>7 DEF Placed
<1>7. CASE PostDue(w)
  <2>1. PICK t \in firing[w] : /\ local' = [local EXCEPT ![w] = @ \cup {t}]
                               /\ firing' = [firing EXCEPT ![w] = @ \ {t}]
    BY <1>7 DEF PostDue
  <2>2. t \in Tasks /\ In("firing", w, t)
    BY <2>1 DEF In
  <2>3. \A u \in Tasks \ {t} : \A j \in Kinds, y \in Threads : In(j, y, u)' <=> In(j, y, u)
    BY <1>7, <2>1, <2>2 DEF In, PostDue
  <2>4. \A j \in Kinds, y \in Threads :
          In(j, y, t)' <=> (j = "local" /\ y = w) \/ (In(j, y, t) /\ ~(j = "firing" /\ y = w))
    BY <1>7, <2>1, <2>2 DEF In, PostDue
  <2>5. "local" \in Kinds /\ "firing" \in Kinds /\ w \in Threads
    BY DEF Kinds, Threads
  <2>6. UNCHANGED fate
    BY <1>7 DEF PostDue
  <2>7. \A j \in Kinds, y \in Threads : In(j, y, t)' <=> j = "local" /\ y = w
    BY <2>2, <2>4, <2>5 DEF Placed
  <2> QED
    BY <2>2, <2>3, <2>5, <2>6, <2>7 DEF Placed
<1>8. CASE SkipLocal(w) \/ GlobalEmpty(w)
  BY <1>8, Rest DEF SkipLocal, GlobalEmpty
<1>9. CASE ClaimLocalAgain(w) /\ local[w] = {}
  BY <1>9, Rest DEF ClaimLocalAgain, TakeLocal
<1>10. CASE StealFails(w)
  BY <1>10, Rest DEF StealFails
<1>11. CASE CountClaim(w)
  BY <1>11, Rest DEF CountClaim
<1>12. CASE Tell(w)
  BY <1>12, Rest DEF Tell, workers
<1> QED
  BY <1>2, <1>3, <1>4, <1>5, <1>6, <1>7, <1>8, <1>9, <1>10, <1>11, <1>12
  DEF Search, ClaimLocalAgain

(* Executing a task: starting or cancelling it takes it out of the hands   *)
(* of its worker; what it publishes goes to one queue, or to the timers.   *)
LEMMA ExecuteMoves ==
  ASSUME CoreInv, Lives, Placed, NEW w \in Workers, Execute(w)
  PROVE  Placed'
<1> USE RuntimeAssumption
    DEF CoreInv, TypeOK, Hands, Holding, Claiming, At, WGoto, HeldBy, SetFate,
        status, queues, parking, gate
<1>1. CASE Check(w)
  BY <1>1, Rest DEF Check
<1>2. CASE CancelPreStart(w) \/ Start(w)
  <2>1. PICK t \in Tasks : t = wtask[w]
    BY <1>2 DEF CancelPreStart, Start
  <2>2. In("held", w, t) /\ HeldBy(w) /\ ~HeldBy(w)'
    BY <1>2, <2>1 DEF In, CancelPreStart, Start
  <2>3. \A u \in Tasks \ {t} : \A j \in Kinds, y \in Threads : In(j, y, u)' <=> In(j, y, u)
    BY <1>2, <2>1, <2>2 DEF In, CancelPreStart, Start
  <2>4. \A j \in Kinds, y \in Threads : In(j, y, t)' <=> In(j, y, t) /\ ~(j = "held" /\ y = w)
    BY <1>2, <2>1, <2>2 DEF In, CancelPreStart, Start
  <2>5. fate'[t] # "pending" /\ \A u \in Tasks \ {t} : fate'[u] = fate[u]
    BY <1>2, <2>1 DEF CancelPreStart, Start
  <2>6. "held" \in Kinds /\ w \in Threads
    BY DEF Kinds, Threads
  <2> QED
    BY <2>2, <2>3, <2>4, <2>5, <2>6 DEF Placed
<1>3. CASE Run(w)
  <2>1. \A t \in Tasks : fate'[t] = "pending" <=> fate[t] = "pending"
    BY <1>3 DEF Run, Lives, PublishedOnce
  <2> QED
    BY <1>3, <2>1, Rest DEF Run
<1>4. CASE Spawn(w)
  <2>1. PICK t \in Tasks : t = Following(w)
    BY <1>4 DEF Spawn, Following
  <2>2. fate[t] # "pending"
    BY <1>4, <2>1 DEF Lives, AcceptedBySomeone, PublishedOnce, Spawn
  <2>3. \A j \in Kinds, y \in Threads : ~In(j, y, t)
    BY <2>2 DEF Placed
  <2>4. fate'[t] = "pending" /\ \A u \in Tasks \ {t} : fate'[u] = fate[u]
    BY <1>4, <2>1 DEF Spawn
  <2>5. \A u \in Tasks \ {t} : \A j \in Kinds, y \in Threads : In(j, y, u)' <=> In(j, y, u)
    BY <1>4, <2>1 DEF In, Spawn
  <2>6. PICK k \in {"local", "global", "timers"} :
          /\ k = "local" => local' = [local EXCEPT ![w] = @ \cup {t}] /\ UNCHANGED <<global, timers>>
          /\ k = "global" => global' = global \cup {t} /\ UNCHANGED <<local, timers>>
          /\ k = "timers" => timers' = timers \cup {t} /\ UNCHANGED <<local, global>>
    BY <1>4, <2>1 DEF Spawn
  <2> DEFINE x == IF k = "local" THEN w ELSE NoThread
  <2>7. UNCHANGED <<inHand, firing, wtask>> /\ \A v \in Workers : HeldBy(v)' <=> HeldBy(v)
    BY <1>4 DEF Spawn
  <2>8. \A j \in Kinds, y \in Threads : In(j, y, t)' <=> j = k /\ y = x
    BY <2>3, <2>6, <2>7 DEF In, Kinds, Threads
  <2>9. k \in Kinds /\ x \in Threads
    BY DEF Kinds, Threads
  <2> QED
    BY <2>3, <2>4, <2>5, <2>8, <2>9 DEF Placed
<1>5. CASE Ran(w)
  BY <1>5, Rest DEF Ran, Lives, OneRunner, Busy
<1>6. CASE Complete(w)
  BY <1>6, Rest DEF Complete
<1> QED
  BY <1>1, <1>2, <1>3, <1>4, <1>5, <1>6 DEF Execute

(* Parking moves a task only where an awakened worker claims one.          *)
LEMMA ParkMoves ==
  ASSUME CoreInv, Placed, NEW w \in Workers, Park(w) \/ SpuriousWake(w)
  PROVE  Placed'
<1> USE RuntimeAssumption
    DEF CoreInv, TypeOK, Hands, Holding, Claiming, At, WGoto, HeldBy,
        status, queues, parking, workers, gate
<1>1. CASE WokenClaim(w)
  <2>1. CASE TakeGlobal(w)
    <3>1. PICK t \in global : global' = global \ {t} /\ wtask' = [wtask EXCEPT ![w] = t]
      BY <2>1 DEF TakeGlobal
    <3>2. In("global", NoThread, t) /\ t \in Tasks /\ wtask[w] = NoTask
      BY <1>1, <3>1 DEF In, WokenClaim
    <3>3. local' = local /\ wpc' = [wpc EXCEPT ![w] = "check"]
      BY <1>1, <3>1 DEF WokenClaim
    <3>4. UNCHANGED <<timers, inHand, firing, fate>>
      BY <1>1 DEF WokenClaim
    <3>5. \A u \in Tasks \ {t} : \A j \in Kinds, y \in Threads : In(j, y, u)' <=> In(j, y, u)
      BY <1>1, <3>1, <3>2, <3>3, <3>4 DEF In, WokenClaim
    <3>6. \A j \in Kinds, y \in Threads :
            In(j, y, t)' <=> (j = "held" /\ y = w) \/ (In(j, y, t) /\ ~(j = "global" /\ y = NoThread))
      BY <1>1, <3>1, <3>2, <3>3, <3>4 DEF In, WokenClaim
    <3>7. {"held", "global"} \subseteq Kinds /\ {w, NoThread} \subseteq Threads
      BY DEF Kinds, Threads
    <3> QED
      BY <3>2, <3>4, <3>5, <3>6, <3>7, Move
  <2>2. CASE TakeLocal(w, w) /\ global = {}
    <3>1. PICK t \in local[w] : /\ local' = [local EXCEPT ![w] = @ \ {t}]
                                /\ wtask' = [wtask EXCEPT ![w] = t]
      BY <2>2 DEF TakeLocal
    <3>2. In("local", w, t) /\ t \in Tasks /\ wtask[w] = NoTask
      BY <1>1, <3>1 DEF In, WokenClaim
    <3>3. global' = global /\ wpc' = [wpc EXCEPT ![w] = "check"]
      BY <1>1, <2>2, <3>1 DEF WokenClaim, TakeGlobal
    <3>4. UNCHANGED <<timers, inHand, firing, fate>>
      BY <1>1 DEF WokenClaim
    <3>5. \A u \in Tasks \ {t} : \A j \in Kinds, y \in Threads : In(j, y, u)' <=> In(j, y, u)
      BY <1>1, <3>1, <3>2, <3>3, <3>4 DEF In, WokenClaim
    <3>6. \A j \in Kinds, y \in Threads :
            In(j, y, t)' <=> (j = "held" /\ y = w) \/ (In(j, y, t) /\ ~(j = "local" /\ y = w))
      BY <1>1, <3>1, <3>2, <3>3, <3>4 DEF In, WokenClaim
    <3>7. "held" \in Kinds /\ "local" \in Kinds /\ w \in Threads
      BY DEF Kinds, Threads
    <3>8. \A j \in Kinds, y \in Threads : In(j, y, t)' <=> j = "held" /\ y = w
      BY <3>2, <3>6, <3>7 DEF Placed
    <3> QED
      BY <3>2, <3>4, <3>5, <3>7, <3>8 DEF Placed
  <2>3. CASE wpc' = [wpc EXCEPT ![w] = "stealWoken"] /\ UNCHANGED <<global, local, wtask>>
    BY <1>1, <2>3, Rest DEF WokenClaim
  <2> QED
    BY <1>1, <2>1, <2>2, <2>3 DEF WokenClaim
<1>2. CASE Predicate(w)
  <2>1. PICK next \in {"woken", "block"} : wpc' = [wpc EXCEPT ![w] = next]
    BY <1>2 DEF Predicate
  <2> QED
    BY <1>2, <2>1, Rest DEF Predicate
<1>3. CASE ExitCheck(w)
  BY <1>3, Rest DEF ExitCheck
<1>4. CASE ExitTimers(w) \/ Exit(w)
  BY <1>4, Rest DEF ExitTimers, Exit
<1>5. CASE Observe(w) \/ Lock(w) \/ Block(w)
  BY <1>5, Rest DEF Observe, Lock, Block
<1>6. CASE Notified(w) \/ TimedOut(w) \/ Relock(w) \/ SpuriousWake(w)
  BY <1>6, Rest DEF Notified, TimedOut, Relock, SpuriousWake
<1> QED
  BY <1>1, <1>2, <1>3, <1>4, <1>5, <1>6 DEF Park

(* A submitter publishes what was in no place while it was only accepted.  *)
LEMMA SubmitterMoves ==
  ASSUME CoreInv, Lives, Placed, NEW s \in Submitters, Submitter(s)
  PROVE  Placed'
<1> USE RuntimeAssumption
    DEF CoreInv, TypeOK, HeldBy, SetFate, SGoto, status, queues, parking, workers, gate
<1>1. CASE Admit(s)
  <2>1. \A t \in Tasks : fate'[t] = "pending" <=> fate[t] = "pending"
    BY <1>1 DEF Admit, Lives, AcceptedBySomeone
  <2> QED
    BY <1>1, <2>1, Rest DEF Admit
<1>2. CASE Publish(s)
  <2>1. PICK t \in Tasks : t = FirstTask[s]
    OBVIOUS
  <2>2. fate[t] # "pending"
    BY <1>2, <2>1 DEF Lives, AcceptedBySomeone, Publish
  <2>3. \A j \in Kinds, y \in Threads : ~In(j, y, t)
    BY <2>2 DEF Placed
  <2>4. fate'[t] = "pending" /\ \A u \in Tasks \ {t} : fate'[u] = fate[u]
    BY <1>2, <2>1 DEF Publish
  <2>5. \A u \in Tasks \ {t} : \A j \in Kinds, y \in Threads : In(j, y, u)' <=> In(j, y, u)
    BY <1>2, <2>1 DEF In, Publish
  <2>6. \A j \in Kinds, y \in Threads : In(j, y, t)' <=> j = "global" /\ y = NoThread
    BY <1>2, <2>1, <2>3 DEF In, Kinds, Threads, Publish
  <2>7. "global" \in Kinds /\ NoThread \in Threads
    BY DEF Kinds, Threads
  <2> QED
    BY <2>3, <2>4, <2>5, <2>6, <2>7 DEF Placed
<1>3. CASE Notify(s)
  BY <1>3, Rest DEF Notify
<1> QED
  BY <1>1, <1>2, <1>3 DEF Submitter

(* A closer takes never-started tasks out of the queues and carries the    *)
(* resume segments by hand, once out of the local queues and once out of   *)
(* the timers: its hands are empty before (Forward).                       *)
LEMMA CloserMoves ==
  ASSUME CoreInv, Placed, Forward, NEW c \in Closers, Call(c) \/ Closer(c)
  PROVE  Placed'
<1> USE RuntimeAssumption
    DEF CoreInv, TypeOK, HeldBy, SetFate, CGoto, status, queues, parking, workers, gate
<1>0. /\ {"global", "timers", "local", "hand"} \subseteq Kinds
      /\ NoThread \in Threads /\ c \in Threads /\ Workers \subseteq Threads
  BY DEF Kinds, Threads
<1>1. CASE CancelGlobal(c)
  <2>1. \A t \in global : In("global", NoThread, t)
    BY DEF In
  <2>2. \A t \in Tasks \ (global \ Segments) :
          /\ fate'[t] = fate[t]
          /\ \A j \in Kinds, y \in Threads : In(j, y, t)' <=> In(j, y, t)
    BY <1>1 DEF In, CancelGlobal
  <2>3. \A t \in global \ Segments :
          /\ fate'[t] = "cancelled"
          /\ \A j \in Kinds, y \in Threads :
               In(j, y, t)' <=> In(j, y, t) /\ ~(j = "global" /\ y = NoThread)
    BY <1>1 DEF In, CancelGlobal
  <2>4. \A t \in global \ Segments : t \in Tasks /\ \A j \in Kinds, y \in Threads : ~In(j, y, t)'
    BY <1>0, <2>1, <2>3 DEF Placed
  <2> QED
    BY <2>2, <2>3, <2>4 DEF Placed
<1>2. CASE CancelLocal(c)
  <2>1. inHand[c] = {}
    BY <1>2 DEF Forward, CancelLocal
  <2>2. \A t \in Locals : t \in Tasks /\ \E w \in Workers : In("local", w, t)
    BY DEF In, Locals
  <2>3. \A t \in Locals : \A j \in Kinds, y \in Threads : In(j, y, t) => j = "local"
    BY <1>0, <2>2 DEF Placed
  <2>4. \A t \in Tasks : t \notin Locals => \A w \in Workers : ~In("local", w, t)
    BY DEF In, Locals
  <2>5. \A t \in Tasks : \A w \in Workers : ~In("local", w, t)'
    BY <1>2 DEF In, CancelLocal
  <2>6. \A t \in Tasks : \A j \in Kinds \ {"local"}, y \in Threads :
          In(j, y, t)' <=> In(j, y, t) \/ (j = "hand" /\ y = c /\ t \in Locals \cap Segments)
    BY <1>2, <2>1 DEF In, CancelLocal
  <2>7. \A t \in Tasks : fate'[t] = IF t \in Locals \ Segments THEN "cancelled" ELSE fate[t]
    BY <1>2 DEF CancelLocal
  <2>8. \A t \in Tasks, y \in Threads \ Workers : ~In("local", y, t) /\ ~In("local", y, t)'
    BY DEF In
  <2>9. \A t \in Tasks \ Locals : fate'[t] = fate[t] /\
          \A j \in Kinds, y \in Threads : In(j, y, t)' <=> In(j, y, t)
    BY <2>4, <2>5, <2>6, <2>7, <2>8
  <2>10. \A t \in Locals \cap Segments : fate'[t] = fate[t] /\ fate[t] = "pending"
    BY <1>0, <2>2, <2>7 DEF Placed
  <2>11. ASSUME NEW t \in Locals \cap Segments, NEW j \in Kinds, NEW y \in Threads
         PROVE  In(j, y, t)' <=> j = "hand" /\ y = c
    <3>1. CASE j = "local"
      BY <2>2, <2>5, <2>8, <3>1
    <3>2. CASE j # "local"
      BY <2>2, <2>3, <2>6, <3>2
    <3> QED
      BY <3>1, <3>2
  <2>12. \A t \in Locals \ Segments : fate'[t] = "cancelled" /\
          \A j \in Kinds, y \in Threads : ~In(j, y, t)'
    BY <2>2, <2>3, <2>5, <2>6, <2>7, <2>8
  <2>13. \A t \in Tasks : \/ t \notin Locals
                           \/ t \in Locals \cap Segments
                           \/ t \in Locals \ Segments
    OBVIOUS
  <2> SUFFICES ASSUME NEW t \in Tasks
               PROVE  /\ fate'[t] = "pending" => \E j \in Kinds, y \in Threads : In(j, y, t)'
                      /\ \A i, j \in Kinds, y, z \in Threads :
                           In(j, y, t)' => /\ fate'[t] = "pending"
                                           /\ In(i, z, t)' => i = j /\ z = y
    BY DEF Placed
  <2>14. CASE t \notin Locals
    BY <2>9, <2>14 DEF Placed
  <2>15. CASE t \in Locals \cap Segments
    BY <1>0, <2>10, <2>11, <2>15
  <2>16. CASE t \in Locals \ Segments
    BY <2>12, <2>16
  <2> QED
    BY <2>13, <2>14, <2>15, <2>16
<1>3. CASE PutBack(c)
  <2>1. \A t \in inHand[c] : t \in Tasks /\ In("hand", c, t)
    BY DEF In
  <2>2. \A t \in Tasks \ inHand[c] :
          \A j \in Kinds, y \in Threads : In(j, y, t)' <=> In(j, y, t)
    BY <1>3 DEF In, PutBack
  <2>3. \A t \in inHand[c] : \A j \in Kinds, y \in Threads :
          In(j, y, t)' <=> (j = "global" /\ y = NoThread) \/ (In(j, y, t) /\ ~(j = "hand" /\ y = c))
    BY <1>3 DEF In, PutBack
  <2>4. \A t \in inHand[c] : fate[t] = "pending" /\ \A j \in Kinds, y \in Threads :
          In(j, y, t)' <=> j = "global" /\ y = NoThread
    BY <1>0, <2>1, <2>3 DEF Placed
  <2>5. UNCHANGED fate
    BY <1>3 DEF PutBack
  <2>6. \A t \in Tasks \ inHand[c] : fate'[t] = fate[t]
    BY <2>5
  <2>7. \A t \in inHand[c] : fate'[t] = "pending"
    BY <2>4, <2>5
  <2> SUFFICES ASSUME NEW t \in Tasks
               PROVE  /\ fate'[t] = "pending" => \E j \in Kinds, y \in Threads : In(j, y, t)'
                      /\ \A i, j \in Kinds, y, z \in Threads :
                           In(j, y, t)' => /\ fate'[t] = "pending"
                                           /\ In(i, z, t)' => i = j /\ z = y
    BY DEF Placed
  <2>8. CASE t \in inHand[c]
    BY <1>0, <2>4, <2>7, <2>8
  <2>9. CASE t \notin inHand[c]
    BY <2>2, <2>6, <2>9 DEF Placed
  <2> QED
    BY <2>8, <2>9
<1>4. CASE CancelTimers(c)
  <2>0. inHand[c] = {}
    BY <1>4 DEF Forward, CancelTimers
  <2>1. \A t \in timers : t \in Tasks /\ In("timers", NoThread, t)
    BY DEF In
  <2>2. \A t \in Tasks \ timers :
          \A j \in Kinds, y \in Threads : In(j, y, t)' <=> In(j, y, t)
    BY <1>4, <2>0 DEF In, CancelTimers
  <2>3. \A t \in timers : \A j \in Kinds, y \in Threads :
          In(j, y, t)' <=> (j = "hand" /\ y = c) \/ (In(j, y, t) /\ ~(j = "timers" /\ y = NoThread))
    BY <1>4, <2>0 DEF In, CancelTimers
  <2>4. \A t \in timers : fate[t] = "pending" /\ \A j \in Kinds, y \in Threads :
          In(j, y, t)' <=> j = "hand" /\ y = c
    BY <1>0, <2>1, <2>3 DEF Placed
  <2>5. UNCHANGED fate
    BY <1>4 DEF CancelTimers
  <2>6. \A t \in Tasks \ timers : fate'[t] = fate[t]
    BY <2>5
  <2>7. \A t \in timers : fate'[t] = "pending"
    BY <2>4, <2>5
  <2> SUFFICES ASSUME NEW t \in Tasks
               PROVE  /\ fate'[t] = "pending" => \E j \in Kinds, y \in Threads : In(j, y, t)'
                      /\ \A i, j \in Kinds, y, z \in Threads :
                           In(j, y, t)' => /\ fate'[t] = "pending"
                                           /\ In(i, z, t)' => i = j /\ z = y
    BY DEF Placed
  <2>8. CASE t \in timers
    BY <1>0, <2>4, <2>7, <2>8
  <2>9. CASE t \notin timers
    BY <2>2, <2>6, <2>9 DEF Placed
  <2> QED
    BY <2>8, <2>9
<1>5. CASE PostCancelled(c)
  <2>1. CASE cpc' = [cpc EXCEPT ![c] = "wake"] /\ UNCHANGED <<global, inHand, parking>>
    BY <1>5, <2>1, Rest DEF PostCancelled
  <2>2. ASSUME NEW t \in inHand[c], global' = global \cup {t},
               inHand' = [inHand EXCEPT ![c] = @ \ {t}]
        PROVE  Placed'
    <3>1. t \in Tasks /\ In("hand", c, t)
      BY DEF In
    <3>2. \A u \in Tasks \ {t} : \A j \in Kinds, y \in Threads : In(j, y, u)' <=> In(j, y, u)
      BY <1>5, <2>2 DEF In, PostCancelled
    <3>3. \A j \in Kinds, y \in Threads :
            In(j, y, t)' <=> (j = "global" /\ y = NoThread) \/ (In(j, y, t) /\ ~(j = "hand" /\ y = c))
      BY <1>5, <2>2 DEF In, PostCancelled
    <3>4. UNCHANGED fate
      BY <1>5 DEF PostCancelled
    <3> QED
      BY <1>0, <3>1, <3>2, <3>3, <3>4, Move
  <2> QED
    BY <1>5, <2>1, <2>2 DEF PostCancelled
<1>6. CASE Call(c) \/ Request(c) \/ WakeAll(c) \/ SetFlag(c)
  BY <1>6, Rest DEF Call, Request, WakeAll, SetFlag
<1>7. CASE Gate(c) \/ GateOpens(c) \/ Join(c)
  BY <1>7, Rest DEF Gate, GateOpens, Join
<1>8. CASE PublishStopped(c) \/ SetStopped(c) \/ Leave(c) \/ Tell(c)
  BY <1>8, Rest DEF PublishStopped, SetStopped, Leave, Tell
<1> QED
  BY <1>1, <1>2, <1>3, <1>4, <1>5, <1>6, <1>7, <1>8 DEF Closer

(* Steps that begin, run and publish nothing keep the lives of the tasks;  *)
(* a pending task may be cancelled.                                        *)
LEMMA LivesRest ==
  ASSUME CoreInv, Lives, UNCHANGED spc,
         \A t \in Tasks : \/ fate'[t] = fate[t]
                          \/ fate[t] = "pending" /\ fate'[t] = "cancelled",
         \A w \in Workers : /\ Busy(w)' <=> Busy(w)
                            /\ Busy(w) => wpc'[w] = wpc[w] /\ wtask'[w] = wtask[w]
  PROVE  Lives'
<1>1. \A w \in Workers : Busy(w) => wtask[w] \in Tasks
  BY DEF CoreInv, Hands, Busy, Holding, Claiming
<1>2. \A w \in Workers : wpc[w] = "spawn" => Following(w) \in Tasks
  BY DEF CoreInv, Hands, Following
<1>3. \A w \in Workers : /\ wpc[w] \in {"run", "spawn"} => Busy(w)
                         /\ wpc'[w] \in {"run", "spawn"} => Busy(w)'
  BY DEF Busy
<1>4. \A w \in Workers : Busy(w) => Following(w)' = Following(w)
  BY DEF Following
<1>5. \A t \in Tasks : fate[t] # "pending" => fate'[t] = fate[t]
  OBVIOUS
<1>6. OneRunner'
  BY <1>1, <1>5 DEF Lives, OneRunner
<1>7. PublishedOnce'
  BY <1>2, <1>3, <1>4, <1>5 DEF Lives, PublishedOnce
<1>8. AcceptedBySomeone'
  BY <1>2, <1>3, <1>4, <1>5, RuntimeAssumption, PublisherAssumption DEF Lives, AcceptedBySomeone
<1> QED
  BY <1>6, <1>7, <1>8 DEF Lives

(* Starting, running and finishing a task.                                 *)
LEMMA ExecuteLives ==
  ASSUME CoreInv, Lives, Placed, NEW w \in Workers, Execute(w)
  PROVE  Lives'
<1> USE DEF CoreInv, TypeOK, At, WGoto, Busy, SetFate
<1>0. \A v \in Workers : /\ wpc[v] \in Holding => wtask[v] \in Tasks
                         /\ wpc[v] = "spawn" => Following(v) \in Tasks
  BY DEF Hands, Following
<1> USE DEF Holding, Claiming
<1>1. CASE Check(w) \/ Complete(w)
  BY <1>1, LivesRest DEF Check, Complete
<1>2. CASE CancelPreStart(w) \/ Start(w)
  <2>1. PICK t \in Tasks : t = wtask[w]
    BY <1>0, <1>2 DEF CancelPreStart, Start
  <2>2. fate[t] = "pending"
    <3>1. In("held", w, t) /\ "held" \in Kinds /\ w \in Threads
      BY <1>2, <2>1 DEF In, HeldBy, Kinds, Threads, CancelPreStart, Start
    <3> QED
      BY <3>1 DEF Placed
  <2>3. CASE CancelPreStart(w)
    BY <2>1, <2>2, <2>3, LivesRest DEF CancelPreStart
  <2>4. CASE Start(w)
    <3>1. /\ wpc' = [wpc EXCEPT ![w] = "run"] /\ UNCHANGED <<wtask, spc>>
          /\ fate'[t] = "running" /\ \A u \in Tasks \ {t} : fate'[u] = fate[u]
      BY <2>1, <2>4 DEF Start
    <3>2. ~Busy(w) /\ Busy(w)' /\ \A v \in Workers \ {w} : Busy(v)' <=> Busy(v)
      BY <2>4, <3>1 DEF Start
    <3>3. \A v \in Workers : Busy(v) => wtask[v] # t
      BY <2>2 DEF Lives, OneRunner
    <3>4. OneRunner'
      BY <1>0, <2>1, <3>1, <3>2, <3>3 DEF Lives, OneRunner
    <3>5. \A v \in Workers : Following(v)' = Following(v)
      BY <3>1 DEF Following
    <3>6. Following(w) \in Tasks => fate[Following(w)] = "unborn"
      BY <2>1, <2>2 DEF Lives, PublishedOnce, Following
    <3>7. PublishedOnce'
      BY <1>0, <2>2, <3>1, <3>5, <3>6 DEF Lives, PublishedOnce
    <3>8. AcceptedBySomeone'
      BY <1>0, <2>2, <2>4, <3>1, <3>5, RuntimeAssumption, PublisherAssumption DEF Lives, AcceptedBySomeone, Start
    <3> QED
      BY <3>4, <3>7, <3>8 DEF Lives
  <2> QED
    BY <1>2, <2>3, <2>4
<1>3. CASE Run(w)
  <2> DEFINE f == Following(w)
  <2>1. wtask[w] \in Tasks /\ fate[wtask[w]] = "running" /\ wpc[w] = "run"
    BY <1>0, <1>3 DEF Lives, OneRunner, Run
  <2>2. f \in Tasks => fate[f] = "unborn"
    BY <2>1 DEF Lives, PublishedOnce
  <2>3. PICK next \in {"spawn", "ran"} :
          /\ wpc' = [wpc EXCEPT ![w] = next] /\ UNCHANGED <<wtask, spc>>
          /\ next = "spawn" => f \in Tasks
          /\ \A u \in Tasks : u # f => fate'[u] = fate[u]
          /\ f \in Tasks => fate'[f] \in {"unborn", "accepted", "rejected"}
          /\ fate'[f] = "rejected" => next = "ran"
          /\ f \in Tasks => (next = "spawn" <=> fate'[f] # "rejected")
    BY <1>3, <2>1, <2>2, RuntimeAssumption, PublisherAssumption DEF Run, Following
  <2>4. \A v \in Workers : (Busy(v)' <=> Busy(v)) /\ Following(v)' = Following(v)
    BY <2>1, <2>3 DEF Following
  <2>5. OneRunner'
    BY <1>0, <2>1, <2>2, <2>3, <2>4 DEF Lives, OneRunner
  <2>6. \A v \in Workers : wpc[v] \in {"run", "spawn"} /\ v # w /\ Following(v) \in Tasks
                           => Following(v) # f
    BY <1>0, <2>1, RuntimeAssumption, PublisherAssumption DEF Lives, OneRunner, Following
  <2>7. \A t \in Tasks : After[t] \in Tasks /\ fate[t] \notin {"running", "done"}
                         => After[t] # f
    BY <2>1, RuntimeAssumption, PublisherAssumption DEF Following
  <2>8. PublishedOnce'
    BY <1>0, <2>1, <2>2, <2>3, <2>4, <2>6, <2>7 DEF Lives, PublishedOnce
  <2>9. \A s \in Submitters : FirstTask[s] \in Tasks /\ FirstTask[s] # f
    BY <2>1, RuntimeAssumption, PublisherAssumption DEF Following
  <2>10. AcceptedBySomeone'
    BY <1>0, <2>1, <2>2, <2>3, <2>4, <2>9 DEF Lives, AcceptedBySomeone
  <2> QED
    BY <2>5, <2>8, <2>10 DEF Lives
<1>4. CASE Spawn(w)
  <2> DEFINE f == Following(w)
  <2>1. wtask[w] \in Tasks /\ fate[wtask[w]] = "running" /\ wpc[w] = "spawn"
    BY <1>0, <1>4 DEF Lives, OneRunner, Spawn
  <2>2. f \in Tasks /\ fate[f] \in {"unborn", "accepted"}
    BY <1>0, <2>1 DEF Lives, PublishedOnce
  <2>3. /\ wpc' = [wpc EXCEPT ![w] = "ran"] /\ UNCHANGED <<wtask, spc>>
        /\ \A u \in Tasks : u # f => fate'[u] = fate[u]
        /\ fate'[f] = "pending"
    BY <1>4, <2>2 DEF Spawn
  <2>4. \A v \in Workers : (Busy(v)' <=> Busy(v)) /\ Following(v)' = Following(v)
    BY <2>1, <2>3 DEF Following
  <2>5. OneRunner'
    BY <1>0, <2>1, <2>2, <2>3, <2>4 DEF Lives, OneRunner
  <2>6. \A v \in Workers : wpc[v] \in {"run", "spawn"} /\ v # w /\ Following(v) \in Tasks
                           => Following(v) # f
    BY <1>0, <2>1, <2>2, RuntimeAssumption, PublisherAssumption DEF Lives, OneRunner, Following
  <2>7. \A t \in Tasks : After[t] \in Tasks /\ fate[t] \notin {"running", "done"}
                         => After[t] # f
    BY <2>1, <2>2, RuntimeAssumption, PublisherAssumption DEF Following
  <2>8. After[f] \in Tasks => fate[After[f]] = "unborn" /\ After[f] # f
    BY <2>1, <2>2, <2>7 DEF Lives, PublishedOnce
  <2>9. PublishedOnce'
    BY <1>0, <2>1, <2>2, <2>3, <2>4, <2>6, <2>7, <2>8 DEF Lives, PublishedOnce
  <2>10. \A s \in Submitters : FirstTask[s] \in Tasks /\ FirstTask[s] # f
    BY <2>1, RuntimeAssumption, PublisherAssumption DEF Following
  <2>11. AcceptedBySomeone'
    BY <1>0, <2>1, <2>2, <2>3, <2>4, <2>10 DEF Lives, AcceptedBySomeone
  <2> QED
    BY <2>5, <2>9, <2>11 DEF Lives
<1>5. CASE Ran(w)
  <2>1. PICK t \in Tasks : t = wtask[w]
    BY <1>0, <1>5 DEF Ran
  <2>2. fate[t] = "running" /\ wpc[w] = "ran"
    BY <1>5, <2>1 DEF Lives, OneRunner, Ran
  <2>3. /\ wpc' = [wpc EXCEPT ![w] = "complete"] /\ UNCHANGED <<wtask, spc>>
        /\ fate'[t] = "done" /\ \A u \in Tasks \ {t} : fate'[u] = fate[u]
    BY <1>5, <2>1 DEF Ran
  <2>4. Busy(w) /\ ~Busy(w)' /\ \A v \in Workers \ {w} : Busy(v)' <=> Busy(v)
    BY <2>2, <2>3
  <2>5. \A v \in Workers : Following(v)' = Following(v)
    BY <2>3 DEF Following
  <2>6. OneRunner'
    BY <1>0, <2>1, <2>2, <2>3, <2>4 DEF Lives, OneRunner
  <2>7. PublishedOnce'
    BY <1>0, <2>1, <2>2, <2>3, <2>5 DEF Lives, PublishedOnce
  <2>8. AcceptedBySomeone'
    BY <1>0, <2>1, <2>2, <2>3, <2>5, RuntimeAssumption, PublisherAssumption DEF Lives, AcceptedBySomeone
  <2> QED
    BY <2>6, <2>7, <2>8 DEF Lives
<1> QED
  BY <1>1, <1>2, <1>3, <1>4, <1>5 DEF Execute

(* Searching and parking begin and end no task.                            *)
LEMMA LoopLives ==
  ASSUME CoreInv, Lives, NEW w \in Workers,
         \/ Search(w) \/ CollectDue(w) \/ PostDue(w) \/ Tell(w)
         \/ Park(w) \/ SpuriousWake(w)
  PROVE  Lives'
<1> USE DEF CoreInv, TypeOK, At, WGoto, Busy, workers
<1>1. CASE Search(w)
  <2>1. CASE ClaimLocal(w) \/ SkipLocal(w) \/ ClaimGlobal(w) \/ GlobalEmpty(w)
    BY <2>1, LivesRest DEF ClaimLocal, SkipLocal, ClaimGlobal, GlobalEmpty, TakeLocal, TakeGlobal
  <2>2. CASE ClaimLocalAgain(w) \/ Steal(w)
    BY <2>2, LivesRest DEF ClaimLocalAgain, Steal, TakeLocal
  <2>3. CASE StealFails(w) \/ CountClaim(w)
    BY <2>3, LivesRest DEF StealFails, CountClaim
  <2> QED
    BY <1>1, <2>1, <2>2, <2>3 DEF Search
<1>2. CASE CollectDue(w) \/ PostDue(w) \/ Tell(w)
  BY <1>2, LivesRest DEF CollectDue, PostDue, Tell
<1>3. CASE Park(w)
  <2>1. CASE Observe(w) \/ Lock(w) \/ Block(w) \/ Notified(w) \/ TimedOut(w) \/ Relock(w)
    BY <2>1, LivesRest DEF Observe, Lock, Block, Notified, TimedOut, Relock
  <2>2. CASE WokenClaim(w)
    BY <2>2, LivesRest DEF WokenClaim, TakeLocal, TakeGlobal
  <2>3. CASE Predicate(w)
    <3>1. PICK next \in {"woken", "block"} : wpc' = [wpc EXCEPT ![w] = next]
      BY <2>3 DEF Predicate
    <3> QED
      BY <2>3, <3>1, LivesRest DEF Predicate
  <2>4. CASE ExitCheck(w)
    BY <2>4, LivesRest DEF ExitCheck
  <2>5. CASE ExitTimers(w) \/ Exit(w)
    BY <2>5, LivesRest DEF ExitTimers, Exit
  <2> QED
    BY <1>3, <2>1, <2>2, <2>3, <2>4, <2>5 DEF Park
<1>4. CASE SpuriousWake(w)
  BY <1>4, LivesRest DEF SpuriousWake
<1> QED
  BY <1>1, <1>2, <1>3, <1>4

(* A submitter: nobody else publishes the task that it submits.            *)
LEMMA SubmitterLives ==
  ASSUME CoreInv, Lives, NEW s \in Submitters, Submitter(s)
  PROVE  Lives'
<1> USE DEF CoreInv, TypeOK, SGoto, SetFate, workers
<1>1. CASE Notify(s)
  <2>1. /\ UNCHANGED <<wpc, wtask, fate>> /\ spc' = [spc EXCEPT ![s] = "done"]
    BY <1>1 DEF Notify
  <2>2. OneRunner' /\ PublishedOnce'
    BY <2>1 DEF Lives, OneRunner, PublishedOnce, Busy, Following
  <2>3. AcceptedBySomeone'
    BY <1>1, <2>1 DEF Lives, AcceptedBySomeone, Following, Notify
  <2> QED
    BY <2>2, <2>3 DEF Lives
<1>2. CASE Admit(s) \/ Publish(s)
  <2>1. PICK t \in Tasks : t = FirstTask[s]
    BY RuntimeAssumption, PublisherAssumption
  <2>2. spc[s] \in {"idle", "admitted"} /\ fate[t] = IF spc[s] = "idle" THEN "unborn" ELSE "accepted"
    BY <1>2, <2>1 DEF Lives, AcceptedBySomeone, Admit, Publish
  <2>3. PICK step \in {"admitted", "rejected", "published"} :
          /\ spc' = [spc EXCEPT ![s] = step]
          /\ fate'[t] = CASE step = "admitted" -> "accepted"
                          [] step = "rejected" -> "rejected"
                          [] OTHER -> "pending"
          /\ \A u \in Tasks \ {t} : fate'[u] = fate[u]
    BY <1>2, <2>1 DEF Admit, Publish
  <2>4. UNCHANGED <<wpc, wtask>>
    BY <1>2 DEF Admit, Publish
  <2>5. \A v \in Workers : (Busy(v)' <=> Busy(v)) /\ Following(v)' = Following(v)
    BY <2>4 DEF Busy, Following
  <2>6. \A v \in Workers : /\ wpc[v] \in Holding => wtask[v] \in Tasks /\ Following(v) # t
                           /\ wpc[v] = "spawn" => Following(v) \in Tasks
    BY <2>1, RuntimeAssumption, PublisherAssumption DEF Hands, Following
  <2>7. OneRunner'
    BY <2>2, <2>3, <2>4, <2>5, <2>6 DEF Lives, OneRunner, Busy, Holding, Claiming
  <2>8. \A u \in Tasks : After[u] # t
    BY <2>1, RuntimeAssumption, PublisherAssumption
  <2>9. After[t] \in Tasks => fate[After[t]] = "unborn"
    BY <2>2 DEF Lives, PublishedOnce
  <2>10. PublishedOnce'
    BY <2>2, <2>3, <2>4, <2>5, <2>6, <2>8, <2>9 DEF Lives, PublishedOnce, Holding, Claiming
  <2>11. \A z \in Submitters \ {s} : FirstTask[z] \in Tasks \ {t} /\ spc'[z] = spc[z]
    BY <2>1, <2>3, RuntimeAssumption, PublisherAssumption
  <2>12. AcceptedBySomeone'
    BY <2>1, <2>2, <2>3, <2>4, <2>5, <2>6, <2>11 DEF Lives, AcceptedBySomeone
  <2> QED
    BY <2>7, <2>10, <2>12 DEF Lives
<1> QED
  BY <1>1, <1>2 DEF Submitter

(* A closer cancels only pending tasks.                                    *)
LEMMA CloserLives ==
  ASSUME CoreInv, Lives, Placed, NEW c \in Closers, Call(c) \/ Closer(c)
  PROVE  Lives'
<1> USE DEF Busy, workers
<1>1. CASE CancelGlobal(c)
  <2>1. \A t \in global : fate[t] = "pending"
    <3>1. \A t \in global : t \in Tasks /\ In("global", NoThread, t)
      BY DEF In, CoreInv, TypeOK
    <3>2. "global" \in Kinds /\ NoThread \in Threads
      BY DEF Kinds, Threads
    <3> QED
      BY <3>1, <3>2 DEF Placed
  <2> QED
    BY <1>1, <2>1, LivesRest DEF CancelGlobal, SetFate
<1>2. CASE CancelLocal(c)
  <2>1. \A t \in Locals : fate[t] = "pending"
    <3>1. \A t \in Locals : t \in Tasks /\ \E w \in Workers : In("local", w, t)
      BY DEF In, Locals, CoreInv, TypeOK
    <3>2. "local" \in Kinds /\ Workers \subseteq Threads
      BY DEF Kinds, Threads
    <3> QED
      BY <3>1, <3>2 DEF Placed
  <2>2. \A t \in Tasks : fate'[t] = IF t \in Locals \ Segments THEN "cancelled" ELSE fate[t]
    BY <1>2 DEF CancelLocal, SetFate
  <2> QED
    BY <1>2, <2>1, <2>2, LivesRest DEF CancelLocal
<1>3. CASE ~CancelGlobal(c) /\ ~CancelLocal(c)
  <2>1. UNCHANGED <<fate, spc, wpc, wtask>>
    BY <1>3
    DEF Call, Closer, Request, PutBack, CancelTimers, PostCancelled,
        WakeAll, SetFlag, Gate, GateOpens, Join, PublishStopped, SetStopped, Leave, Tell
  <2> QED
    BY <2>1, LivesRest
<1> QED
  BY <1>1, <1>2, <1>3

(* A worker reaches the end of its loop only through ExitCheck, which has  *)
(* seen the stop flag and, for the exit of Immediate, that mode.           *)
LEMMA WorkerForward ==
  ASSUME CoreInv, Forward, NEW w \in Workers, Worker(w) \/ CollectDue(w) \/ SpuriousWake(w)
  PROVE  Forward'
<1> USE DEF CoreInv, TypeOK, At, WGoto, workers, status, queues, Worker
<1>1. /\ UNCHANGED <<state, mode, stopRequested, cpc, inHand, seenMode, spc, raced>>
      /\ \A v \in Workers :
           /\ wpc'[v] = "exitImmediate" => wpc[v] = "exitImmediate" \/ mode = "Immediate"
           /\ wpc'[v] \in {"exitGraceful", "exitClaims", "exitImmediate", "exited"} =>
                wpc[v] \in {"exitGraceful", "exitClaims", "exitImmediate", "exited"} \/ stopRequested
  <2>1. CASE Search(w) \/ CollectDue(w) \/ PostDue(w) \/ Tell(w) \/ SpuriousWake(w)
    BY <2>1
    DEF Search, ClaimLocal, SkipLocal, ClaimGlobal, GlobalEmpty, ClaimLocalAgain, Steal,
        StealFails, CountClaim, CollectDue, PostDue, Tell, SpuriousWake
  <2>2. CASE Execute(w)
    BY <2>2 DEF Execute, Check, CancelPreStart, Start, Run, Spawn, Ran, Complete
  <2>3. CASE Park(w) /\ ~ExitCheck(w) /\ ~ExitTimers(w) /\ ~Exit(w)
    BY <2>3 DEF Park, Observe, Lock, Predicate, Block, Notified, TimedOut, WokenClaim, Relock
  <2>4. CASE ExitCheck(w) \/ ExitTimers(w) \/ Exit(w)
    BY <2>4 DEF ExitCheck, ExitTimers, Exit
  <2> QED
    BY <2>1, <2>2, <2>3, <2>4
<1> QED
  BY <1>1 DEF Forward, Asked

LEMMA SubmitterForward ==
  ASSUME CoreInv, Forward, NEW s \in Submitters, Submitter(s)
  PROVE  Forward'
<1>1. UNCHANGED <<state, mode, stopRequested, wpc, cpc, inHand, seenMode, raced>>
  BY DEF Submitter, Admit, Publish, Notify, status, queues, workers
<1>2. \A z \in Submitters : spc'[z] = "admitted" => spc[z] = "admitted" \/ state = "Running"
  BY DEF CoreInv, TypeOK, Submitter, Admit, Publish, Notify, SGoto
<1> QED
  BY <1>1, <1>2 DEF Forward, Asked

(* A closer: what it asked for stays asked, and it cancels, or carries     *)
(* work by hand, only if it asked for Immediate.  The mode is stored anew  *)
(* by PublishStopped, but no worker is left then.                          *)
LEMMA CloserForward ==
  ASSUME CoreInv, Forward, NEW c \in Closers, Call(c) \/ Closer(c)
  PROVE  Forward'
<1> USE DEF CoreInv, TypeOK, CGoto, Sweeping, status, queues, workers
<1>0. \A m \in Modes : Asked(m) => Asked(m)'
  <2>1. \A d \in Closers : cpc[d] \notin {"idle", "request"} => cpc'[d] \notin {"idle", "request"}
    BY DEF Call, Closer, Request, CancelGlobal, CancelLocal, PutBack, CancelTimers,
        PostCancelled, WakeAll, SetFlag, Gate, GateOpens, Join, PublishStopped, SetStopped, Leave, Tell
  <2> QED
    BY <2>1 DEF Asked
<1> USE DEF Modes
<1>1. CASE Request(c)
  <2>1. PICK step \in {"cancelGlobal", "wake", "flag"} :
          /\ cpc' = [cpc EXCEPT ![c] = step]
          /\ step = "cancelGlobal" => Wanted[c] = "Immediate"
    BY <1>1 DEF Request
  <2>2. /\ UNCHANGED <<stopRequested, wpc, inHand, seenMode, spc>>
        /\ state' # "Running" /\ cpc[c] = "request"
    BY <1>1 DEF Request, Forward
  <2>3. mode' = "Immediate" => mode = "Immediate" \/ Wanted[c] = "Immediate"
    BY <1>1 DEF Request
  <2>4. mode' = "Immediate" => Asked("Immediate")'
    BY <1>0, <2>1, <2>3 DEF Forward, Asked
  <2>5. \A w \in Workers : wpc[w] = "exitImmediate" => mode' = "Immediate"
    BY <1>1 DEF Forward, Request
  <2>6. \A s \in Submitters : spc[s] = "admitted" => FirstTask[s] \in raced'
    BY <1>1 DEF Forward, Request
  <2> QED
    BY <1>0, <2>1, <2>2, <2>4, <2>5, <2>6 DEF Forward
<1>2. CASE CancelGlobal(c) \/ CancelLocal(c) \/ PutBack(c) \/ CancelTimers(c) \/ PostCancelled(c)
  BY <1>0, <1>2 DEF Forward, CancelGlobal, CancelLocal, PutBack, CancelTimers, PostCancelled
<1>3. CASE Call(c) \/ WakeAll(c)
  BY <1>0, <1>3 DEF Forward, Call, WakeAll
<1>4. CASE SetFlag(c)
  BY <1>0, <1>4 DEF Forward, SetFlag
<1>5. CASE Gate(c) \/ GateOpens(c)
  BY <1>0, <1>5 DEF Forward, Gate, GateOpens
<1>6. CASE Join(c)
  BY <1>0, <1>6 DEF Forward, Join
<1>7. CASE PublishStopped(c)
  <2>1. \A w \in Workers : wpc[w] = "exited"
    BY <1>7 DEF OneLeader, PublishStopped
  <2> QED
    BY <1>0, <1>7, <2>1 DEF Forward, PublishStopped
<1>8. CASE SetStopped(c) \/ Leave(c) \/ Tell(c)
  BY <1>0, <1>8 DEF Forward, SetStopped, Leave, Tell
<1> QED
  BY <1>1, <1>2, <1>3, <1>4, <1>5, <1>6, <1>7, <1>8 DEF Closer

(* What a worker step may do to the queues: only Spawn adds to the global  *)
(* ones and to the timers, only GlobalEmpty makes a worker look away from  *)
(* them, and only Exit and ExitCheck let one go.                           *)
LEMMA WorkerLooks ==
  ASSUME CoreInv, NEW w \in Workers, Worker(w) \/ CollectDue(w), ~Tell(w)
  PROVE  /\ UNCHANGED <<state, mode, stopRequested, cpc, raced>>
         /\ wpc[w] # "exited"
         /\ \A v \in Workers \ {w} : wpc'[v] = wpc[v]
         /\ wpc'[w] = "exited" => ExitCheck(w) \/ Exit(w)
         /\ wpc'[w] \in {"exitGraceful", "exitImmediate"} => ExitCheck(w)
         /\ wpc'[w] = "exitClaims" => ExitTimers(w)
         /\ \/ global' \subseteq global
            \/ wpc'[w] \in Fresh
         /\ wpc[w] \in Fresh => wpc'[w] \in Fresh \/ global' = {}
<1> USE DEF CoreInv, TypeOK, At, WGoto, status, queues
<1>0. CASE PostDue(w) \/ CollectDue(w)
  BY <1>0 DEF PostDue, CollectDue, Hands, Fresh
<1>1. CASE Search(w)
  BY <1>1
  DEF Search, ClaimLocal, SkipLocal, ClaimGlobal, GlobalEmpty, ClaimLocalAgain, Steal,
      StealFails, CountClaim, TakeLocal, TakeGlobal, Fresh
<1>2. CASE Execute(w)
  BY <1>2 DEF Execute, Check, CancelPreStart, Start, Run, Spawn, Ran, Complete, Fresh
<1>3. CASE Park(w) /\ ~ExitCheck(w) /\ ~ExitTimers(w) /\ ~Exit(w)
  BY <1>3
  DEF Park, Observe, Lock, Predicate, Block, Notified, TimedOut, WokenClaim, Relock,
      TakeLocal, TakeGlobal, Fresh
<1>4. CASE ExitCheck(w)
  BY <1>4 DEF ExitCheck, Fresh
<1>5. CASE ExitTimers(w) \/ Exit(w)
  BY <1>5 DEF ExitTimers, Exit, Fresh
<1> QED
  BY <1>0, <1>1, <1>2, <1>3, <1>4, <1>5 DEF Worker

(* A worker leaves after three looks: at the queues, at the timers, and at *)
(* the claims.  What another worker adds to one of them after the look at  *)
(* it shows that this other worker is still there (NotTheLast).            *)
LEMMA WorkerLeaving ==
  ASSUME IInv, Placed, NEW w \in Workers, Worker(w) \/ CollectDue(w), ~Tell(w)
  PROVE  Leaving'
<1> USE DEF IInv
<1>0. /\ UNCHANGED <<state, mode, stopRequested, cpc, raced>>
      /\ wpc[w] # "exited"
      /\ \A v \in Workers \ {w} : wpc'[v] = wpc[v]
      /\ wpc'[w] = "exited" => ExitCheck(w) \/ Exit(w)
      /\ wpc'[w] \in {"exitGraceful", "exitImmediate"} => ExitCheck(w)
      /\ wpc'[w] = "exitClaims" => ExitTimers(w)
  BY WorkerLooks
<1>1. MustFinish' = MustFinish /\ Cancelling' = Cancelling
  BY <1>0 DEF MustFinish, Asked, Cancelling
<1>2. NotTheLast'
  <2> SUFFICES ASSUME NEW u \in Workers, NEW t \in Tasks,
                      \/ /\ wpc'[u] \in {"exitGraceful", "exitClaims"}
                         /\ t \in MustFinish /\ t \in global' \cup Locals'
                      \/ wpc'[u] = "exitClaims" /\ t \in MustFinish /\ t \in timers'
                      \/ wpc'[u] = "exitImmediate" /\ t \in Locals'
               PROVE  \E v \in Workers \ {u} : wpc'[v] # "exited"
    BY <1>1 DEF NotTheLast
  <2>1. CASE u = w
    <3>1. CASE ExitCheck(w)
      BY <1>0, <2>1, <3>1
      DEF ExitCheck, WGoto, CoreInv, TypeOK, queues, AnyQueued, AnyResume, AnyLocal, Locals
    <3>2. CASE ExitTimers(w)
      <4>1. /\ wpc[w] = "exitGraceful" /\ UNCHANGED <<global, local, timers>>
            /\ wpc'[w] = "exitClaims" => timers = {}
            /\ wpc'[w] \in {"exitClaims", "top"}
        BY <3>2 DEF ExitTimers, At, WGoto, CoreInv, TypeOK, queues
      <4>2. t \in MustFinish /\ t \in global \cup Locals
        BY <2>1, <4>1 DEF Locals
      <4> QED
        BY <1>0, <2>1, <4>1, <4>2 DEF Leaving, NotTheLast
    <3> QED
      BY <1>0, <2>1, <3>1, <3>2
  <2>2. CASE u # w
    <3>1. wpc[u] \in WorkerSection
      BY <1>0, <2>2 DEF WorkerSection
    <3>2. mutex = u
      BY <3>1 DEF CoreInv, MutexHeld
    <3>3. ~ExitCheck(w) /\ ~Exit(w)
      BY <2>2, <3>2 DEF CoreInv, MutexHeld, ExitCheck, Exit, At, WorkerSection
    <3> QED
      BY <1>0, <2>2, <3>3
  <2> QED
    BY <2>1, <2>2
<1>3. SomeoneFresh'
  <2>1. global' \subseteq global \/ wpc'[w] \in Fresh
    BY WorkerLooks
  <2>2. wpc[w] \in Fresh => wpc'[w] \in Fresh \/ global' = {}
    BY WorkerLooks
  <2> QED
    BY <1>0, <1>1, <2>1, <2>2 DEF Leaving, SomeoneFresh
<1>4. NothingLeft'
  <2> SUFFICES ASSUME \A v \in Workers : wpc'[v] = "exited",
                      NEW t \in MustFinish, fate'[t] = "pending"
               PROVE  t \in global' /\ Cancelling
    BY <1>1 DEF NothingLeft
  <2>1. \A v \in Workers \ {w} : wpc[v] = "exited"
    BY <1>0
  <2>2. ~ExitCheck(w) \/ wpc'[w] # "exited"
    BY <1>0 DEF ExitCheck, CoreInv, TypeOK, WGoto, OneLeader
  <2>3. Exit(w)
    BY <1>0, <2>2
  <2>4. /\ wpc[w] \in {"exitClaims", "exitImmediate"}
        /\ UNCHANGED <<fate, queues>>
    BY <2>3 DEF Exit, WGoto, CoreInv, TypeOK
  <2>5. t \in Tasks /\ fate[t] = "pending"
    BY <2>4 DEF MustFinish
  <2>6. PICK k \in Kinds, x \in Threads : In(k, x, t)
    BY <2>5 DEF Placed
  <2>7. wpc[w] = "exitImmediate" => mode = "Immediate" /\ Asked("Immediate")
    BY DEF Forward
  <2>8. t \notin Locals
    BY <2>1, <2>4, <2>5 DEF Leaving, NotTheLast
  <2>9. t \notin timers
    BY <2>1, <2>4, <2>5, <2>7, RuntimeAssumption DEF Leaving, NotTheLast, MustFinish, CoreInv, TypeOK
  <2>10. ASSUME NEW v \in Workers, wtask[v] = t \/ t \in firing[v] PROVE FALSE
    BY <2>1, <2>4, <2>5, <2>10, RuntimeAssumption DEF CoreInv, Hands, Holding, Claiming
  <2>11. ASSUME NEW c \in Closers, t \in inHand[c] PROVE FALSE
    BY <2>11 DEF Forward, Sweeping, Asked, MustFinish, CoreInv, TypeOK
  <2>12. t \in global
    BY <2>6, <2>8, <2>9, <2>10, <2>11 DEF In, Locals
  <2>13. wpc[w] = "exitImmediate"
    BY <2>1, <2>4, <2>5, <2>12 DEF Leaving, NotTheLast
  <2>14. \A v \in Workers : wpc[v] \notin Fresh
    BY <2>1, <2>4 DEF Fresh
  <2>15. Cancelling
    BY <2>7, <2>12, <2>13, <2>14 DEF Leaving, SomeoneFresh, MustFinish
  <2> QED
    BY <2>4, <2>12, <2>15 DEF queues
<1> QED
  BY <1>2, <1>3, <1>4 DEF Leaving

(* What a submitter publishes after the runtime has begun to stop is one   *)
(* of the raced tasks.                                                     *)
LEMMA SubmitterLeaving ==
  ASSUME IInv, Placed, NEW s \in Submitters, Submitter(s)
  PROVE  Leaving'
<1> USE DEF IInv
<1>0. UNCHANGED <<state, mode, stopRequested, wpc, local, timers, cpc, raced>>
  BY DEF Submitter, Admit, Publish, Notify, status, queues, workers
<1>1. MustFinish' = MustFinish /\ Cancelling' = Cancelling /\ Locals' = Locals
  BY <1>0 DEF MustFinish, Asked, Cancelling, Locals
<1>2. \A t \in global' \ global : t \in raced \/ state = "Running"
  BY DEF Submitter, Admit, Publish, Notify, Forward, queues
<1>3. NotTheLast'
  BY <1>0, <1>1, <1>2 DEF Leaving, NotTheLast, Forward, MustFinish
<1>4. SomeoneFresh'
  BY <1>0, <1>1, <1>2 DEF Leaving, SomeoneFresh, Forward
<1>5. NothingLeft'
  <2> SUFFICES ASSUME \A v \in Workers : wpc[v] = "exited",
                      NEW t \in MustFinish, fate'[t] = "pending"
               PROVE  t \in global' /\ Cancelling
    BY <1>0, <1>1 DEF NothingLeft
  <2>1. state # "Running"
    BY RuntimeAssumption DEF Forward
  <2>2. fate[t] = "pending"
    BY <2>1 DEF MustFinish, Forward, Submitter, Admit, Publish, Notify, SetFate
  <2>3. global \subseteq global'
    BY DEF Submitter, Admit, Publish, Notify, queues
  <2> QED
    BY <2>2, <2>3 DEF Leaving, NothingLeft
<1> QED
  BY <1>3, <1>4, <1>5 DEF Leaving

(* A closer puts only resume segments into the global queues, which are no *)
(* longer owed once Immediate has been asked for, and the one that changes *)
(* the mode sweeps the rest.                                               *)
LEMMA CloserLeaving ==
  ASSUME IInv, Placed, NEW c \in Closers, Call(c) \/ Closer(c), ~Tell(c)
  PROVE  Leaving'
<1> USE DEF IInv, CoreInv, TypeOK, CGoto, status, queues
<1>0. /\ UNCHANGED wpc
      /\ raced \subseteq raced'
      /\ \A t \in Tasks : fate'[t] = "pending" => fate[t] = "pending"
      /\ \A d \in Closers : cpc[d] \notin {"idle", "request"} => cpc'[d] \notin {"idle", "request"}
      /\ cpc[c] = "cancelGlobal" => CancelGlobal(c)
      /\ \A d \in Closers \ {c} : cpc'[d] = cpc[d]
  BY DEF Call, Closer, Request, CancelGlobal, CancelLocal, PutBack, CancelTimers, SetFate,
      PostCancelled, WakeAll, SetFlag, Gate, GateOpens, Join, PublishStopped, SetStopped, Leave,
      workers
<1>1. MustFinish' \subseteq MustFinish
  BY <1>0 DEF MustFinish, Asked
<1>2. \/ UNCHANGED <<global, local>>
      \/ CancelGlobal(c) /\ global' = global \cap Segments /\ UNCHANGED local
      \/ CancelLocal(c) /\ UNCHANGED global
      \/ PutBack(c) /\ UNCHANGED local
      \/ cpc[c] = "post" /\ UNCHANGED local
  BY DEF Call, Closer, Request, CancelGlobal, CancelLocal, PutBack, CancelTimers,
      PostCancelled, WakeAll, SetFlag, Gate, GateOpens, Join, PublishStopped, SetStopped, Leave
<1>3. \A t \in global' \ global : t \in Segments /\ cpc[c] \in Sweeping
  BY DEF Call, Closer, Request, CancelGlobal, CancelLocal, PutBack, CancelTimers, Sweeping,
      PostCancelled, WakeAll, SetFlag, Gate, GateOpens, Join, PublishStopped, SetStopped, Leave
<1>4. cpc[c] \in Sweeping => \A t \in Segments : t \notin MustFinish
  BY DEF Forward, Sweeping, Asked, MustFinish
<1>5. NotTheLast'
  <2> SUFFICES ASSUME NEW u \in Workers, NEW t \in Tasks,
                      \/ /\ wpc[u] \in {"exitGraceful", "exitClaims"}
                         /\ t \in MustFinish /\ t \in global' \cup Locals'
                      \/ wpc[u] = "exitClaims" /\ t \in MustFinish /\ t \in timers'
                      \/ wpc[u] = "exitImmediate" /\ t \in Locals'
               PROVE  \E v \in Workers \ {u} : wpc[v] # "exited"
    BY <1>0, <1>1 DEF NotTheLast
  <2>1. mutex = u /\ u # c /\ mutex # NoThread
    BY RuntimeAssumption DEF MutexHeld, WorkerSection
  <2>2. ~CancelGlobal(c) /\ ~CancelLocal(c) /\ ~PutBack(c)
    BY <2>1 DEF MutexHeld, CancelGlobal, CancelLocal, PutBack, Free
  <2>3. local' = local /\ Locals' = Locals
    BY <1>2, <2>2 DEF Locals
  <2>4. t \in MustFinish /\ t \in global' => t \in global
    BY <1>3, <1>4
  <2>5. timers' \subseteq timers
    BY DEF Call, Closer, Request, CancelGlobal, CancelLocal, PutBack, CancelTimers,
      PostCancelled, WakeAll, SetFlag, Gate, GateOpens, Join, PublishStopped, SetStopped, Leave
  <2> QED
    BY <2>3, <2>4, <2>5 DEF Leaving, NotTheLast
<1>6. SomeoneFresh'
  <2> SUFFICES ASSUME NEW t \in global', t \notin Segments, t \notin raced', mode' = "Immediate",
                      ~Cancelling'
               PROVE  \E v \in Workers : wpc[v] \in Fresh
    BY <1>0 DEF SomeoneFresh
  <2>1. t \in global /\ t \notin raced
    BY <1>0, <1>3
  <2>2. ~CancelGlobal(c)
    BY DEF CancelGlobal
  <2>3. ~Cancelling
    BY <1>0, <2>2 DEF Cancelling
  <2>4. CASE mode = "Immediate"
    BY <2>1, <2>3, <2>4 DEF Leaving, SomeoneFresh
  <2>5. CASE mode # "Immediate"
    <3>1. Request(c) \/ PublishStopped(c)
      BY <2>5
      DEF Call, Closer, CancelGlobal, CancelLocal, PutBack, CancelTimers,
        PostCancelled, WakeAll, SetFlag, Gate, GateOpens, Join, SetStopped, Leave
    <3>2. ~Request(c)
      <4>1. ASSUME Request(c) PROVE FALSE
        <5>1. cpc' = [cpc EXCEPT ![c] = "cancelGlobal"]
          BY <2>5, <4>1 DEF Request
        <5> QED
          BY <5>1 DEF Cancelling
      <4> QED
        BY <4>1
    <3>3. \A w \in Workers : wpc[w] = "exited"
      BY <3>1, <3>2 DEF PublishStopped, OneLeader
    <3>4. t \in MustFinish
      BY <2>1 DEF MustFinish
    <3>5. fate[t] = "pending"
      <4>1. In("global", NoThread, t) /\ "global" \in Kinds /\ NoThread \in Threads
        BY <2>1 DEF In, Kinds, Threads
      <4> QED
        BY <2>1, <4>1 DEF Placed
    <3> QED
      BY <2>3, <3>3, <3>4, <3>5 DEF Leaving, NothingLeft
  <2> QED
    BY <2>4, <2>5
<1>7. NothingLeft'
  <2> SUFFICES ASSUME \A v \in Workers : wpc[v] = "exited",
                      NEW t \in MustFinish, fate'[t] = "pending"
               PROVE  t \in global' /\ Cancelling'
    BY <1>0, <1>1 DEF NothingLeft
  <2>1. t \in Tasks /\ fate[t] = "pending" /\ t \in global /\ Cancelling
    BY <1>0 DEF Leaving, NothingLeft, MustFinish
  <2>2. ~CancelGlobal(c)
    <3>1. ASSUME CancelGlobal(c) PROVE FALSE
      <4>1. cpc[c] \in Sweeping
        BY <3>1 DEF CancelGlobal, Sweeping
      <4>2. t \notin Segments
        BY <1>4, <4>1
      <4> QED
        BY <2>1, <3>1, <4>2 DEF CancelGlobal, SetFate
    <3> QED
      BY <3>1
  <2>3. Cancelling'
    BY <1>0, <2>1, <2>2 DEF Cancelling
  <2>4. t \in global'
    BY <2>1, <2>2
    DEF Call, Closer, Request, CancelLocal, PutBack, CancelTimers,
      PostCancelled, WakeAll, SetFlag, Gate, GateOpens, Join, PublishStopped, SetStopped, Leave
  <2> QED
    BY <2>3, <2>4
<1> QED
  BY <1>5, <1>6, <1>7 DEF Leaving

LEMMA InitDrain == Init => IInv /\ Placed
<1> SUFFICES ASSUME Init PROVE IInv /\ Placed
  OBVIOUS
<1>1. CoreInv
  BY InitCore
<1>2. Lives
  BY RuntimeAssumption DEF Init, Lives, OneRunner, PublishedOnce, AcceptedBySomeone, Busy, Following
<1>3. Placed
  BY RuntimeAssumption DEF Init, Placed, In, HeldBy, CoreInv, TypeOK
<1>4. Forward
  BY DEF Init, Forward, Sweeping, Asked
<1>5. Leaving
  BY RuntimeAssumption DEF Init, Leaving, NotTheLast, SomeoneFresh, NothingLeft, Locals
<1> QED
  BY <1>1, <1>2, <1>3, <1>4, <1>5 DEF IInv

(* A spurious wakeup, or no step at all.                                   *)
LEMMA NothingMoves ==
  ASSUME IInv, Placed,
         UNCHANGED <<state, mode, stopRequested, global, local, timers, inHand, wpc, wtask, firing,
                     seenMode, spc, cpc, fate, raced>>
  PROVE  Lives' /\ Placed' /\ Forward' /\ Leaving'
<1>1. Lives'
  BY DEF IInv, Lives, OneRunner, PublishedOnce, AcceptedBySomeone, Busy, Following
<1>2. Placed'
  BY Rest DEF HeldBy
<1>3. Forward'
  BY DEF IInv, Forward, Asked
<1>4. Leaving'
  <2>1. MustFinish' = MustFinish /\ Locals' = Locals /\ Cancelling' = Cancelling
    BY DEF MustFinish, Locals, Cancelling, Asked
  <2> QED
    BY <2>1 DEF IInv, Leaving, NotTheLast, SomeoneFresh, NothingLeft
<1> QED
  BY <1>1, <1>2, <1>3, <1>4

(* The invariant of the runtime with the places of its tasks.              *)
LEMMA DrainInvariant == Spec => [](IInv /\ Placed)
<1>1. ASSUME IInv, Placed, CoreInv', [Next]_vars PROVE IInv' /\ Placed'
  <2> USE <1>1 DEF IInv
  <2>1. CASE UNCHANGED vars
    BY <2>1, NothingMoves DEF vars, status, queues, workers
  <2>2. ASSUME NEW w \in Workers, Worker(w) \/ CollectDue(w) PROVE IInv' /\ Placed'
    <3>1. Lives'
      BY <2>2, LoopLives, ExecuteLives DEF Worker
    <3>2. Placed'
      BY <2>2, SearchMoves, ExecuteMoves, ParkMoves DEF Worker
    <3>3. Forward'
      BY <2>2, WorkerForward
    <3>4. Leaving'
      <4>1. CASE Tell(w)
        BY <4>1, NothingMoves DEF Tell, status, queues, workers
      <4>2. CASE ~Tell(w)
        BY <2>2, <4>2, WorkerLeaving
      <4> QED
        BY <4>1, <4>2
    <3> QED
      BY <3>1, <3>2, <3>3, <3>4
  <2>3. ASSUME NEW w \in Workers, SpuriousWake(w) PROVE IInv' /\ Placed'
    BY <2>3, NothingMoves DEF SpuriousWake, status, queues, workers
  <2>4. ASSUME NEW s \in Submitters, Submitter(s) PROVE IInv' /\ Placed'
    BY <2>4, SubmitterLives, SubmitterMoves, SubmitterForward, SubmitterLeaving
  <2>5. ASSUME NEW c \in Closers, Call(c) \/ Closer(c) PROVE IInv' /\ Placed'
    <3>1. CASE Tell(c)
      BY <3>1, NothingMoves DEF Tell, status, queues, workers
    <3>2. CASE ~Tell(c)
      BY <2>5, <3>2, CloserLives, CloserMoves, CloserForward, CloserLeaving
    <3> QED
      BY <3>1, <3>2
  <2> QED
    BY <2>1, <2>2, <2>3, <2>4, <2>5 DEF Next
<1> QED
  BY <1>1, InitDrain, CoreInvariant, PTL DEF Spec

(* The whole inductive invariant that the run checks.                      *)
THEOREM RuntimeInvariant == Spec => []IInv
BY DrainInvariant, PTL

(* R-065: no task is lost or duplicated, whichever threads claim, steal,   *)
(* fire, cancel or carry it.                                               *)
THEOREM WorkIsConserved == Spec => []WorkConservation
BY DrainInvariant, PlacedCounts, PTL

(* At Stopped the workers are gone: a task that is still unfinished was    *)
(* admitted and not yet queued when the shutdown began, or is one that the *)
(* closer which changed the mode is about to cancel.                       *)
LEMMA LeftAtStop ==
  ASSUME IInv, state = "Stopped", NEW t \in MustFinish,
         fate[t] \in {"accepted", "pending", "running"}
  PROVE  Cancelling
<1>1. t \in Tasks /\ t \notin raced /\ \A w \in Workers : wpc[w] = "exited"
  BY DEF IInv, CoreInv, OneLeader, MustFinish
<1>2. fate[t] # "running"
  BY <1>1 DEF IInv, Lives, OneRunner, Busy
<1>3. fate[t] # "accepted"
  BY <1>1 DEF IInv, Lives, AcceptedBySomeone, Forward
<1> QED
  BY <1>1, <1>2, <1>3 DEF IInv, Leaving, NothingLeft

(* R-006, R-012: after a graceful shutdown every task is finished, except  *)
(* one that was admitted and not yet queued when the shutdown began.       *)
THEOREM GracefulShutdownDrains == Spec => []GracefulDrains
<1>1. ASSUME IInv PROVE GracefulDrains
  <2> SUFFICES ASSUME state = "Stopped", ~Asked("Immediate"), NEW t \in Tasks \ raced,
                      fate[t] \in {"accepted", "pending", "running"}
               PROVE  FALSE
    BY DEF GracefulDrains
  <2>1. t \in MustFinish
    BY DEF MustFinish
  <2>2. Cancelling
    BY <1>1, <2>1, LeftAtStop
  <2> QED
    BY <1>1, <2>2 DEF IInv, Forward, Sweeping, Cancelling, Asked
<1> QED
  BY <1>1, RuntimeInvariant, PTL

(* R-106: once the closer that switched to Immediate has swept the queues, *)
(* no never-started task is left at Stopped, with the same exception.      *)
THEOREM ImmediateShutdownCancels == Spec => []ImmediateCancels
<1>1. ASSUME IInv PROVE ImmediateCancels
  BY <1>1, LeftAtStop DEF ImmediateCancels, MustFinish
<1> QED
  BY <1>1, RuntimeInvariant, PTL
=============================================================================
