----------------------------- MODULE ReadyQueues -----------------------------
(***************************************************************************)
(* Which ready task a worker takes next: the global EDF heaps and FIFOs,   *)
(* the local queues, the priority calendars and the two bursts             *)
(* (src/src/runtime/ready_queues.cpp), driven by the claim order of the    *)
(* worker loop (src/src/runtime/worker_loop.cpp).                          *)
(*                                                                         *)
(* Every claim runs under the mutex of its queue, or on a Chase-Lev band   *)
(* whose operations are linearizable (see ChaseLevDeque), so a claim is    *)
(* one step.  The heap is kept as the sequence it sorts to: EdfEntry's     *)
(* order is total, and only its least element is ever looked at.  Parking  *)
(* is the subject of RuntimeCore; here a parked worker wakes when some     *)
(* queue holds work; shutdown_now()'s sweep of the queues is modelled      *)
(* there too.  A task that has ended may be submitted again.               *)
(***************************************************************************)
EXTENDS Naturals, FiniteSets, Sequences, SequencesExt, FiniteSetsExt

CONSTANTS
  Workers, Tasks,
  Setups,       \* the instances: [workers, tasks, calendar, watches]
  Priority,     \* Priority[t], 0 (Low) to 3 (Critical)
  Deadline,     \* Deadline[t], 0 for none
  Yielders,     \* tasks that are coroutines and may co_await yield()
  Child,        \* Child[t]: the task t submits while it runs, or NoTask
  LocalBurstLimit,     \* options.local_burst_limit
  DeadlineBurstLimit,  \* kEdfDeadlineBurstLimit
  ProbeLimit,   \* options.steal_probe_limit
  NoTask

Bands == 0 .. 3
Roots == Tasks \ {Child[t] : t \in Tasks}
None == [b \in Bands |-> <<>>]

ASSUME QueuesAssumption ==
  /\ IsFiniteSet(Workers) /\ IsFiniteSet(Tasks)
  /\ Priority \in [Tasks -> Bands] /\ Deadline \in [Tasks -> Nat]
  /\ Yielders \subseteq Tasks
  /\ Child \in [Tasks -> Tasks \cup {NoTask}] /\ NoTask \notin Tasks
  /\ \A s \in Setups : /\ s.workers \in SUBSET Workers \ {{}} /\ s.tasks \subseteq Tasks
                       /\ s.calendar \in Seq(Bands)
                       /\ {Priority[t] : t \in s.tasks} \subseteq Range(s.calendar)
  /\ LocalBurstLimit \in Nat \ {0} /\ DeadlineBurstLimit \in Nat \ {0}
  /\ ProbeLimit \in Nat

VARIABLES
  setup,       \* the instance of this behaviour
  edf, fifo,   \* edf[b], fifo[b]: the global queues of a band
  local,       \* local[w][b]: a worker's local queues, the owner's end last
  turn,        \* turn[w]: the places in the local, global and steal calendars
  burst,       \* burst[w][b]: deadline tasks taken in a row
  run,         \* run[w]: consecutive_local_count
  pc, held,    \* a worker's place in its loop and the task it holds
  victims,     \* the victims it has still to probe
  resumed,     \* tasks whose next segment is a resume
  live,        \* tasks published and not yet ended
  watch, waited  \* history, see Longer

queues == <<edf, fifo, local>>
loop == <<turn, burst, run, pc, held, victims>>
history == <<setup, watch, waited>>
vars == <<queues, loop, resumed, live, history>>

Init ==
  /\ edf = None /\ fifo = None /\ local = [w \in Workers |-> None]
  /\ turn = [w \in Workers |-> [local |-> 0, global |-> 0, steal |-> 0]]
  /\ burst = [w \in Workers |-> [b \in Bands |-> 0]]
  /\ run = [w \in Workers |-> 0]
  /\ pc = [w \in Workers |-> "top"] /\ held = [w \in Workers |-> NoTask]
  /\ victims = [w \in Workers |-> {}]
  /\ resumed = {} /\ live = {}
  /\ setup \in Setups
  /\ watch \in setup.watches
  /\ waited = 0
-----------------------------------------------------------------------------
(* Bands and calendars.                                                    *)

HasGlobal(b) == edf[b] # <<>> \/ fifo[b] # <<>>
GlobalBands == {b \in Bands : HasGlobal(b)}
LocalBands(w) == {b \in Bands : local[w][b] # <<>>}
AnyQueued == GlobalBands # {} \/ \E w \in Workers : LocalBands(w) # {}

(* The band a calendar points at, or the highest that holds work.          *)
MutantChosen(ready, place) == Max(ready)
Chosen(ready, place) ==
  LET target == setup.calendar[place + 1]
  IN  IF target \in ready THEN target ELSE Max(ready)

(* Only a successful claim advances the calendar. *)
Advanced(w, source) == [turn EXCEPT ![w][source] = (@ + 1) % Len(setup.calendar)]

(* The heap orders a band by deadline, then by global_admission_sequence_. *)
Admitted(heap, t) ==
  LET earlier == SelectSeq(heap, LAMBDA u : Deadline[u] <= Deadline[t])
  IN  earlier \o <<t>> \o SelectSeq(heap, LAMBDA u : Deadline[u] > Deadline[t])

(* publish(): a first start with a deadline joins the heap of its band;    *)
(* otherwise the caller's local queue if it has one, whose growth may      *)
(* fail, and the FIFO of the band as the fallback.                         *)
ToGlobal(t) == /\ fifo' = [fifo EXCEPT ![Priority[t]] = Append(@, t)]
               /\ UNCHANGED <<edf, local>>
ToLocal(w, t) == /\ local' = [local EXCEPT ![w][Priority[t]] = Append(@, t)]
                 /\ UNCHANGED <<edf, fifo>>
ToHeap(t) == /\ edf' = [edf EXCEPT ![Priority[t]] = Admitted(@, t)]
             /\ UNCHANGED <<fifo, local>>

PublishExternal(t) == IF Deadline[t] # 0 THEN ToHeap(t) ELSE ToGlobal(t)
PublishLocal(w, t, isResume) ==
  IF Deadline[t] # 0 /\ ~isResume THEN ToHeap(t) ELSE ToLocal(w, t) \/ ToGlobal(t)

(* History: how long the one thing this behaviour watches has waited.  A   *)
(* band of a source: claims its watcher made from that source in a row     *)
(* while the band held work there.  A FIFO: deadline tasks of its band     *)
(* taken while it held work.  The global queues: local claims their        *)
(* watcher made while they held work ("probe").                            *)
Longer(condition) == IF condition THEN waited + 1 ELSE 0

WaitLocal(w, b) ==
  waited' = CASE watch.by # w -> waited
              [] watch.what = "local" -> Longer(watch.band \in LocalBands(w) \ {b})
              [] watch.what = "probe" -> Longer(GlobalBands # {})
              [] OTHER -> waited

WaitGlobal(w, b, deadlineTaken) ==
  waited' = CASE watch.what = "fifo" -> IF b = watch.band
                                        THEN Longer(deadlineTaken /\ fifo[b] # <<>>) ELSE waited
              [] watch.by # w -> waited
              [] watch.what = "global" -> Longer(watch.band \in GlobalBands \ {b})
              [] watch.what = "probe" -> 0
              [] OTHER -> waited

Goto(w, step) == pc' = [pc EXCEPT ![w] = step]
Hold(w, t) == held' = [held EXCEPT ![w] = t] /\ Goto(w, "running")
-----------------------------------------------------------------------------
(* A worker looks for work.                                                *)

MayTakeLocal(w) == \/ pc[w] = "top" /\ run[w] < LocalBurstLimit
                   \/ pc[w] \in {"again", "wokenLocal"}

(* claim_local(): the owner takes the youngest of the chosen band.         *)
ClaimLocal(w) ==
  /\ MayTakeLocal(w) /\ LocalBands(w) # {}
  /\ LET b == Chosen(LocalBands(w), turn[w].local)
     IN  /\ Hold(w, Last(local[w][b]))
         /\ local' = [local EXCEPT ![w][b] = Front(@)]
         /\ WaitLocal(w, b)
  /\ turn' = Advanced(w, "local")
  /\ run' = [run EXCEPT ![w] = @ + 1]
  /\ UNCHANGED <<edf, fifo, burst, victims, resumed, live, setup, watch>>

Victims(w) ==
  LET others == setup.workers \ {w}
  IN  {vs \in SUBSET others : Cardinality(vs) = IF ProbeLimit < Cardinality(others)
                                                THEN ProbeLimit ELSE Cardinality(others)}
Probe(w, step) == /\ Goto(w, step)
                  /\ \E vs \in Victims(w) : victims' = [victims EXCEPT ![w] = vs]

NoLocal(w) ==
  /\ ~ (MayTakeLocal(w) /\ LocalBands(w) # {})
  /\ \/ pc[w] = "top" /\ Goto(w, "global") /\ UNCHANGED victims
     \/ pc[w] = "again" /\ Probe(w, "steal")
     \/ pc[w] = "wokenLocal" /\ Probe(w, "stealWoken")
  /\ UNCHANGED <<queues, turn, burst, run, held, resumed, live, history>>

(* claim_global_band_locked(): deadline tasks first, but after a burst of  *)
(* them the FIFO.                                                          *)
MutantStrictDeadline(w, b) == edf[b] # <<>>
TakesDeadline(w, b) == /\ edf[b] # <<>>
                       /\ fifo[b] = <<>> \/ burst[w][b] < DeadlineBurstLimit

TakeGlobal(w, b) ==
  \/ /\ TakesDeadline(w, b)
     /\ Hold(w, Head(edf[b])) /\ edf' = [edf EXCEPT ![b] = Tail(@)]
     /\ burst' = [burst EXCEPT ![w][b] = IF @ < DeadlineBurstLimit THEN @ + 1 ELSE @]
     /\ WaitGlobal(w, b, TRUE)
     /\ UNCHANGED fifo
  \/ /\ ~ TakesDeadline(w, b)
     /\ Hold(w, Head(fifo[b])) /\ fifo' = [fifo EXCEPT ![b] = Tail(@)]
     /\ burst' = [burst EXCEPT ![w][b] = 0]
     /\ WaitGlobal(w, b, FALSE)
     /\ UNCHANGED edf

(* claim_global(), under lifecycle_mutex; the slot is AdmissionController's. *)
ClaimGlobal(w) ==
  /\ pc[w] \in {"global", "woken"} /\ GlobalBands # {}
  /\ LET b == Chosen(GlobalBands, turn[w].global)
     IN  TakeGlobal(w, b)
  /\ turn' = Advanced(w, "global")
  /\ run' = [run EXCEPT ![w] = 0]
  /\ UNCHANGED <<local, victims, resumed, live, setup, watch>>

(* A full local burst with nothing global starts a new burst.              *)
NoGlobal(w) ==
  /\ GlobalBands = {}
  /\ \/ /\ pc[w] = "global" /\ run[w] >= LocalBurstLimit
        /\ run' = [run EXCEPT ![w] = 0] /\ Goto(w, "again") /\ UNCHANGED victims
     \/ pc[w] = "global" /\ run[w] < LocalBurstLimit /\ Probe(w, "steal") /\ UNCHANGED run
     \/ pc[w] = "woken" /\ Goto(w, "wokenLocal") /\ UNCHANGED <<run, victims>>
  /\ waited' = IF watch.what = "probe" /\ watch.by = w THEN 0 ELSE waited
  /\ UNCHANGED <<queues, turn, burst, held, resumed, live, setup, watch>>

(* steal(): a thief takes the oldest of the band its own calendar chooses, *)
(* in one step; the code probes band after band, and may pass over one     *)
(* that is filled meanwhile.  No bound below speaks of what thieves take.  *)
Steal(w, v) ==
  /\ pc[w] \in {"steal", "stealWoken"} /\ v \in victims[w] /\ LocalBands(v) # {}
  /\ LET b == Chosen(LocalBands(v), turn[w].steal)
     IN  Hold(w, Head(local[v][b])) /\ local' = [local EXCEPT ![v][b] = Tail(@)]
  /\ turn' = Advanced(w, "steal")
  /\ run' = [run EXCEPT ![w] = 0]
  /\ victims' = [victims EXCEPT ![w] = {}]
  /\ UNCHANGED <<edf, fifo, burst, resumed, live, history>>

(* The victim is empty, or three tries at a band all lost to another claim. *)
StealFails(w, v) ==
  /\ pc[w] \in {"steal", "stealWoken"} /\ v \in victims[w]
  /\ victims' = [victims EXCEPT ![w] = @ \ {v}]
  /\ UNCHANGED <<queues, turn, burst, run, pc, held, resumed, live, history>>

GiveUp(w) ==
  /\ victims[w] = {}
  /\ \/ pc[w] = "steal" /\ Goto(w, "park")
     \/ pc[w] = "stealWoken" /\ Goto(w, "top")
  /\ UNCHANGED <<queues, turn, burst, run, held, victims, resumed, live, history>>

Wake(w) ==
  /\ pc[w] = "park" /\ AnyQueued /\ Goto(w, "woken")
  /\ UNCHANGED <<queues, turn, burst, run, held, victims, resumed, live, history>>
-----------------------------------------------------------------------------
(* A worker runs what it claimed.                                          *)

(* The task submits its child to the runtime it runs on. *)
Spawn(w) ==
  /\ pc[w] = "running"
  /\ LET t == Child[held[w]]
     IN  /\ t \in setup.tasks \ live
         /\ live' = live \cup {t}
         /\ PublishLocal(w, t, FALSE)
  /\ UNCHANGED <<loop, resumed, history>>

(* co_await yield(): tcb_arm_yield() defers the resume until the segment   *)
(* is over, and flush_deferred_self_resume() posts it as internal work.    *)
PostYield(w) == PublishLocal(w, held[w], TRUE)

MutantYield(w) ==
  /\ pc[w] = "running" /\ held[w] \in Yielders \ resumed
  /\ resumed' = resumed \cup {held[w]} /\ PostYield(w)
  /\ UNCHANGED <<loop, live, history>>

Yield(w) ==
  /\ pc[w] = "running" /\ held[w] \in Yielders
  /\ resumed' = resumed \cup {held[w]}
  /\ PostYield(w)
  /\ held' = [held EXCEPT ![w] = NoTask] /\ Goto(w, "top")
  /\ UNCHANGED <<turn, burst, run, victims, live, history>>

Return(w) ==
  /\ pc[w] = "running"
  /\ live' = live \ {held[w]} /\ resumed' = resumed \ {held[w]}
  /\ held' = [held EXCEPT ![w] = NoTask] /\ Goto(w, "top")
  /\ UNCHANGED <<queues, turn, burst, run, victims, history>>

(* An outside thread submits. *)
Submit(t) ==
  /\ t \in (Roots \cap setup.tasks) \ live
  /\ live' = live \cup {t}
  /\ PublishExternal(t)
  /\ UNCHANGED <<loop, resumed, history>>
-----------------------------------------------------------------------------
WorkerStep(w) ==
  \/ ClaimLocal(w) \/ NoLocal(w) \/ ClaimGlobal(w) \/ NoGlobal(w)
  \/ \E v \in Workers : Steal(w, v) \/ StealFails(w, v)
  \/ GiveUp(w) \/ Wake(w) \/ Yield(w) \/ Return(w)

Next ==
  \/ \E w \in setup.workers : WorkerStep(w) \/ Spawn(w)
  \/ \E t \in Tasks : Submit(t)

(* Workers keep running, and every segment ends or yields.                 *)
Spec == Init /\ [][Next]_vars /\ \A w \in Workers : WF_vars(w \in setup.workers /\ WorkerStep(w))
-----------------------------------------------------------------------------
(* Properties.                                                             *)

Queued == UNION {{edf[b], fifo[b]} \cup {local[w][b] : w \in Workers} : b \in Bands}
InHand == {w \in Workers : held[w] # NoTask}
Copies == Cardinality(InHand)
            + MapThenSumSet(LAMBDA b : Len(edf[b]) + Len(fifo[b]), Bands)
            + MapThenSumSet(LAMBDA w : MapThenSumSet(LAMBDA b : Len(local[w][b]), Bands), Workers)

(* Types; and a published task is in exactly one queue or in one worker's  *)
(* hand, once: publish(), the claims and yields neither lose nor double it. *)
Inv ==
  /\ turn \in [Workers -> [{"local", "global", "steal"} -> 0 .. Len(setup.calendar) - 1]]
  /\ live = UNION {Range(q) : q \in Queued} \cup {held[w] : w \in InHand}
  /\ Copies = Cardinality(live)

(* The longest run of places between two of band b in a calendar. *)
Gap == [s \in Setups, b \in Bands |->
          LET n == Len(s.calendar)
              at(i) == s.calendar[(i % n) + 1] = b
          IN  Max({g \in 0 .. n : \E i \in 0 .. n - 1 : \A j \in i .. i + g - 1 : ~ at(j)})]
(* Between two claims from a source of a band that always holds work there *)
(* a worker makes no more claims than the calendar has places between two  *)
(* of that band: no band is starved, and the weights are kept.             *)
BandsServed == watch.what \in {"local", "global"} => waited <= Gap[setup, watch.band]

(* Each worker may let a burst of deadline tasks overtake a waiting FIFO   *)
(* task of the same band; together no more than one burst each.            *)
FifoServed == watch.what = "fifo" => waited <= DeadlineBurstLimit * Cardinality(setup.workers)

(* However run_worker_loop() goes (burst, park, wake, publications in      *)
(* between), a worker makes at most local_burst_limit local claims while   *)
(* the global queues hold work.  The loop in which a task helps while it   *)
(* waits has no such limit.                                                *)
GlobalProbed == watch.what = "probe" => waited <= LocalBurstLimit

(* None of the three has to wait longer than its bound. *)
ServedInTime == BandsServed /\ FifoServed /\ GlobalProbed

(* A task in a global FIFO is claimed in the end by a worker in            *)
(* run_worker_loop(), whatever yields locally, arrives with a deadline or  *)
(* is submitted to higher bands meanwhile.                                 *)
InFifo(t) == \E b \in Bands : t \in Range(fifo[b])
GlobalServed == InFifo(watch.task) ~> ~ InFifo(watch.task)

(* What R-063 and R-076 ask of yield(): it goes through the ordinary       *)
(* global queue, so that a coroutine that has yielded runs again.  In the  *)
(* code it returns to the owner's end of the local queue, and another one  *)
(* that yields in the same band overtakes it for ever.                     *)
YieldServed == \A t \in Yielders : t \in resumed ~> (t \notin resumed \/ \E w \in Workers : held[w] = t)
=============================================================================
