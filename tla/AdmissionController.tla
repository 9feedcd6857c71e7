------------------------ MODULE AdmissionController ------------------------
(***************************************************************************)
(* Admission of external work against a bounded number of pending slots    *)
(* (src/src/runtime/admission_controller.cpp), with the three parties that *)
(* race on it: callers of acquire(), workers that give a slot back once    *)
(* they claim the work, and the shutdown path, which changes the packed    *)
(* status WITHOUT holding the controller's mutex and then calls wake_all().*)
(* A caller makes one request: a submit asks for one slot, a graph run for *)
(* one per node (zero for an empty graph).                                 *)
(***************************************************************************)
EXTENDS Integers, FiniteSets

CONSTANTS
  Callers,       \* threads that call acquire() once
  Releasers,     \* worker threads that claim queued external work
  Capacity,      \* external_pending_capacity
  Count,         \* Count[c]: slots caller c asks for
  Place,         \* Place[c]: the thread c calls from, see Places
  NonBlocking,   \* callers of try_submit() and try_spawn()
  Policy,        \* external_backpressure: "Block" or "Reject"
  Nobody         \* the mutex is free

Places == {"outside", "this runtime", "another runtime"}

ASSUME AdmissionAssumption ==
  /\ Capacity \in Nat \ {0}
  /\ Count \in [Callers -> Nat]
  /\ Place \in [Callers -> Places]
  /\ NonBlocking \subseteq Callers /\ Policy \in {"Block", "Reject"}
  /\ Nobody \notin Callers \cup Releasers
  /\ Callers \cap Releasers = {}

ASSUME FiniteAssumption == IsFiniteSet(Callers) /\ IsFiniteSet(Releasers)

(* prepare_submission(): a request from a worker of this runtime takes no  *)
(* slot; only a thread that is no worker of any runtime may wait for one.  *)
Internal == {c \in Callers : Place[c] = "this runtime"}
MayBlock == {c \in Callers : Place[c] = "outside" /\ c \notin NonBlocking /\ Policy = "Block"}

VARIABLES
  state,     \* packed_status, high byte: "Running", "Stopping" or "Stopped"
  mode,      \* packed_status, low byte: "None", "Graceful" or "Immediate"
  wakeDue,   \* a status change whose wake_all() is still to come
  mutex,     \* the holder of mutex_
  pending,   \* pending_
  waiting,   \* callers asleep in slot_cv_
  pc,        \* where each thread is
  seen,      \* the status a caller loaded last
  notifyDue, \* releasers that left the mutex and still have to notify_all()
  queued,    \* published external units no worker has claimed yet
  late       \* history: callers for whom admission closed before their deciding
             \* load: it had closed when they came, or closed while they slept

vars == <<state, mode, wakeDue, mutex, pending, waiting, pc, seen, notifyDue, queued, late>>
status == <<state, mode, wakeDue>>

CallerSteps == {"idle", "load", "decide", "predicate", "block", "asleep",
                "accepted", "published", "rollback", "rolledBack", "rejected"}
Status == [state : {"Running", "Stopping", "Stopped"},
           mode : {"None", "Graceful", "Immediate"}]

TypeOK ==
  /\ state \in {"Running", "Stopping", "Stopped"}
  /\ mode \in {"None", "Graceful", "Immediate"}
  /\ wakeDue \in BOOLEAN
  /\ mutex \in Callers \cup Releasers \cup {Nobody}
  /\ pending \in Nat
  /\ waiting \subseteq Callers
  /\ pc \in [Callers \cup Releasers -> CallerSteps \cup {"release"}]
  /\ seen \in [Callers -> Status]
  /\ notifyDue \subseteq Callers \cup Releasers
  /\ queued \in Nat
  /\ late \subseteq Callers

Init ==
  /\ state = "Running" /\ mode = "None" /\ wakeDue = FALSE
  /\ mutex = Nobody
  /\ pending = 0
  /\ waiting = {}
  /\ pc = [t \in Callers \cup Releasers |-> "idle"]
  /\ seen = [c \in Callers |-> [state |-> "Running", mode |-> "None"]]
  /\ notifyDue = {}
  /\ queued = 0
  /\ late = {}

Goto(t, step) == pc' = [pc EXCEPT ![t] = step]
Now == [state |-> state, mode |-> mode]

(* Whether a request arriving under this status must be turned away. *)
Closed(c, st) == \/ st.state = "Stopped"
                 \/ st.state = "Stopping" /\ (c \notin Internal \/ st.mode # "Graceful")
Fits(c) == pending + Count[c] <= Capacity
-----------------------------------------------------------------------------
(* acquire() takes the mutex; a request for no slot never does. *)
Enter(c) ==
  /\ pc[c] = "idle"
  /\ Count[c] > 0 => mutex = Nobody
  /\ mutex' = IF Count[c] > 0 THEN c ELSE mutex
  /\ late' = IF Closed(c, Now) THEN late \cup {c} ELSE late
  /\ Goto(c, "load")
  /\ UNCHANGED <<status, pending, waiting, seen, notifyDue, queued>>

(* The top of the loop: one atomic load of the packed status. *)
Load(c) ==
  /\ pc[c] = "load"
  /\ seen' = [seen EXCEPT ![c] = Now]
  /\ Goto(c, "decide")
  /\ UNCHANGED <<status, mutex, pending, waiting, notifyDue, queued, late>>

Leave(c) == mutex' = IF mutex = c THEN Nobody ELSE mutex

(* Stopping, Stopped or CapacityExhausted: a request larger than the whole *)
(* capacity is refused, one that does not fit now only if it cannot wait.  *)
Reject(c) ==
  /\ pc[c] = "decide"
  /\ \/ Closed(c, seen[c])
     \/ /\ Count[c] > 0 /\ c \notin Internal
        /\ Count[c] > Capacity \/ (~Fits(c) /\ c \notin MayBlock)
  /\ Goto(c, "rejected")
  /\ Leave(c)
  /\ UNCHANGED <<status, pending, waiting, seen, notifyDue, queued, late>>

Accept(c) ==
  /\ pc[c] = "decide"
  /\ ~Closed(c, seen[c])
  /\ c \in Internal \/ Count[c] = 0 \/ Fits(c)
  /\ pending' = IF c \in Internal THEN pending ELSE pending + Count[c]
  /\ Goto(c, "accepted")
  /\ Leave(c)
  /\ UNCHANGED <<status, waiting, seen, notifyDue, queued, late>>

(* No room: evaluate the predicate of slot_cv_.wait with a fresh load.     *)
MustWait(c) ==
  /\ pc[c] = "decide"
  /\ ~Closed(c, seen[c])
  /\ c \in MayBlock /\ Count[c] \in 1 .. Capacity /\ ~Fits(c)
  /\ Goto(c, "predicate")
  /\ UNCHANGED <<status, mutex, pending, waiting, seen, notifyDue, queued, late>>

Predicate(c) ==
  /\ pc[c] = "predicate"
  /\ Goto(c, IF state # "Running" \/ Fits(c) THEN "load" ELSE "block")
  /\ UNCHANGED <<status, mutex, pending, waiting, seen, notifyDue, queued, late>>

(* The predicate was false: give up the mutex and sleep, in one step.      *)
Block(c) ==
  /\ pc[c] = "block"
  /\ mutex' = Nobody
  /\ waiting' = waiting \cup {c}
  /\ Goto(c, "asleep")
  /\ UNCHANGED <<status, pending, seen, notifyDue, queued, late>>

MutantReacquire(c) ==
  /\ pc[c] = "asleep" /\ c \notin waiting
  /\ mutex = Nobody
  /\ mutex' = c
  /\ Goto(c, "decide")
  /\ UNCHANGED <<status, pending, waiting, seen, notifyDue, queued, late>>

(* Notified (or woken spuriously): take the mutex back, test again.        *)
Reacquire(c) ==
  /\ pc[c] = "asleep" /\ c \notin waiting
  /\ mutex = Nobody
  /\ mutex' = c
  /\ Goto(c, "predicate")
  /\ UNCHANGED <<status, pending, waiting, seen, notifyDue, queued, late>>

SpuriousWake(c) ==
  /\ c \in waiting
  /\ waiting' = waiting \ {c}
  /\ UNCHANGED <<status, mutex, pending, pc, seen, notifyDue, queued, late>>

(* The accepted request is published, or building it threw and the slots   *)
(* are rolled back.                                                        *)
Publish(c) ==
  /\ pc[c] = "accepted"
  /\ queued' = IF c \in Internal THEN queued ELSE queued + Count[c]
  /\ Goto(c, "published")
  /\ UNCHANGED <<status, mutex, pending, waiting, seen, notifyDue, late>>

MutantRollback(c) ==
  /\ pc[c] = "accepted"
  /\ Goto(c, "rolledBack")
  /\ UNCHANGED <<status, mutex, pending, waiting, seen, notifyDue, queued, late>>

Rollback(c) ==
  /\ pc[c] = "accepted"
  /\ Goto(c, IF c \in Internal \/ Count[c] = 0 THEN "rolledBack" ELSE "rollback")
  /\ UNCHANGED <<status, mutex, pending, waiting, seen, notifyDue, queued, late>>
-----------------------------------------------------------------------------
(* A worker claims one published unit, or a closer cancels it unstarted,   *)
(* which a late one may still do after Stopped.                            *)
Claim(r) ==
  /\ pc[r] = "idle" /\ queued > 0 /\ r \in Releasers
  /\ queued' = queued - 1
  /\ Goto(r, "release")
  /\ UNCHANGED <<status, mutex, pending, waiting, seen, notifyDue, late>>

Giving(t) == IF t \in Releasers THEN 1 ELSE Count[t]

MutantRelease(t) ==
  /\ pc[t] \in {"release", "rollback"}
  /\ mutex = Nobody
  /\ pending' = IF pending >= Giving(t) THEN pending - Giving(t) ELSE 0
  /\ Goto(t, IF t \in Releasers THEN "idle" ELSE "rolledBack")
  /\ UNCHANGED <<status, mutex, waiting, seen, queued, late, notifyDue>>

(* release(n): subtract under the mutex, then notify_all outside it.       *)
Release(t) ==
  /\ pc[t] \in {"release", "rollback"}
  /\ mutex = Nobody
  /\ pending' = IF pending >= Giving(t) THEN pending - Giving(t) ELSE 0
  /\ notifyDue' = notifyDue \cup {t}
  /\ Goto(t, IF t \in Releasers THEN "idle" ELSE "rolledBack")
  /\ UNCHANGED <<status, mutex, waiting, seen, queued, late>>

NotifyAll(t) ==
  /\ t \in notifyDue
  /\ notifyDue' = notifyDue \ {t}
  /\ waiting' = {}
  /\ UNCHANGED <<status, mutex, pending, pc, seen, queued, late>>
-----------------------------------------------------------------------------
(* request_shutdown_mode() and the final publication of Stopped change the *)
(* status by a compare-exchange or a store; wake_all() follows.            *)
SetStatus(st) ==
  /\ state' = st.state /\ mode' = st.mode /\ wakeDue' = TRUE
  /\ late' = late \cup {c \in Callers : /\ Closed(c, st)
                                       /\ pc[c] \in {"load", "predicate", "block", "asleep"}}
  /\ UNCHANGED <<mutex, pending, waiting, pc, seen, notifyDue, queued>>

BeginStop(m) == state = "Running" /\ SetStatus([state |-> "Stopping", mode |-> m])

Escalate == /\ state = "Stopping" /\ mode = "Graceful"
            /\ SetStatus([state |-> "Stopping", mode |-> "Immediate"])

WakeAll ==
  /\ wakeDue
  /\ wakeDue' = FALSE
  /\ waiting' = {}
  /\ UNCHANGED <<state, mode, mutex, pending, pc, seen, notifyDue, queued, late>>

(* All workers have been joined.  Whoever leads the join need not be the   *)
(* thread that changed the status, whose wake_all() may still be to come;  *)
(* a unit accepted before the change may be queued after the last look.    *)
PublishStopped == /\ state = "Stopping"
                  /\ SetStatus([state |-> "Stopped", mode |-> mode])
-----------------------------------------------------------------------------
CallerStep(c) == \/ Enter(c) \/ Load(c) \/ Reject(c) \/ Accept(c) \/ MustWait(c)
                 \/ Predicate(c) \/ Block(c) \/ Reacquire(c)
                 \/ Publish(c) \/ Rollback(c)
Notice(t) == Release(t) \/ NotifyAll(t)
Shutdown == (\E m \in {"Graceful", "Immediate"} : BeginStop(m)) \/ Escalate

Next == \/ \E c \in Callers : CallerStep(c) \/ SpuriousWake(c)
        \/ \E r \in Releasers : Claim(r)
        \/ \E t \in Callers \cup Releasers : Notice(t)
        \/ Shutdown \/ WakeAll \/ PublishStopped

Spec == Init /\ [][Next]_vars

(* Running threads keep running and the mutex is handed on; a thread that  *)
(* changed the status goes on to wake_all().                               *)
CallersRun ==
  /\ \A c \in Callers : SF_vars(CallerStep(c))
  /\ \A t \in Callers \cup Releasers : SF_vars(Notice(t))
  /\ WF_vars(WakeAll)

(* Workers come back for queued work as long as the runtime runs, and a    *)
(* shutdown, once begun, ends.                                             *)
WorkersDrain ==
  /\ WF_vars(PublishStopped)
  /\ \A r \in Releasers : WF_vars(state = "Running" /\ Claim(r))

BusyWorkersSpec == Spec /\ CallersRun
FairSpec == Spec /\ CallersRun /\ WorkersDrain
-----------------------------------------------------------------------------
(* Slots a thread holds that no queue accounts for: accepted requests not  *)
(* yet published, requests being rolled back, units claimed but not given  *)
(* back.                                                                   *)
InHand ==
  [t \in Callers \cup Releasers |->
     CASE t \in Callers \ Internal /\ pc[t] \in {"accepted", "rollback"} -> Count[t]
       [] t \in Releasers /\ pc[t] = "release" -> 1
       [] OTHER -> 0]

(* What a function counts, one by one: <<t, 1>> .. <<t, f[t]>> for each t. *)
Units(f) == UNION {{t} \X (1 .. f[t]) : t \in DOMAIN f}

(* R-061: pending_ is exactly the accepted external work that has not been *)
(* claimed, through every race of acquire, rollback and release, so the    *)
(* clamp to zero in release() never hides a lost slot; and it never        *)
(* exceeds the capacity.                                                   *)
SlotConservation ==
  /\ pending = queued + Cardinality(Units(InHand))
  /\ pending <= Capacity

(* The types, and that the slots are conserved. *)
Inv == TypeOK /\ SlotConservation

(* R-007, R-015: once the status has closed admission for a request that   *)
(* is still to be decided, the request is never accepted: not one that     *)
(* waited for the mutex, nor one that slept through the change and is then *)
(* given room.                                                             *)
NoLateAdmission ==
  \A c \in late : pc[c] \notin {"accepted", "published", "rollback", "rolledBack"}

(* A caller sleeps only for want of room: with room for it and nothing on  *)
(* its way to wake it, it is not asleep.                                   *)
NoForgottenSleeper ==
  \A c \in waiting : Fits(c) => notifyDue # {}

(* R-061: a blocked submitter returns, because a slot is given back or     *)
(* because the gate closes (at the latest when Stopped is published): but  *)
(* for the one that falls asleep between the last change and its wait      *)
(* while the slots it wants belong to a unit queued too late to be claimed.*)
BlockedReturns ==
  \A c \in Callers :
    pc[c] = "asleep" ~> \/ pc[c] \in {"published", "rolledBack", "rejected"}
                        \/ state = "Stopped" /\ queued > 0

(* R-061 "closing the gate wakes the waiter": even while every worker is   *)
(* busy with a long task, a submitter asleep when shutdown begins leaves.  *)
CloseWakesSleepers ==
  \A c \in Callers : (pc[c] = "asleep" /\ state = "Stopping") ~> pc[c] # "asleep"
=============================================================================
