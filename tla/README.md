# A TLA+ model of AstraScheduler

AstraScheduler is a C++20 task scheduler: a process hosts any number of
*runtimes*, each with a fixed set of worker threads, priority queues, a
work-stealing deque per worker, coroutines that `co_await` tasks, graphs and
timers, and a two-mode shutdown.  This directory holds its verification
project: TLA+ modules translated from the source, TLC configurations that check
them on small instances, and TLAPS proofs.  Paths below are relative to the
repository; `R-nnn` are the numbered rules of
`.scratch/astra-scheduler-runtime/spec.md`, the project's own normative text.

## 1. The system

| Component | State | Operations | Interacts with |
|---|---|---|---|
| `Scheduler` facade and `Scheduler::Impl` (`src/runtime/scheduler.cpp`, `include/astra/scheduler.hpp`) | `packed_status` (state and shutdown mode in one word), `stop_requested`, `work_epoch`, `lifecycle_mutex`, `work_cv`, the shared `ShutdownCompletion`, handle reference count | construct, `submit`/`try_submit`/`spawn`/`run`, `shutdown`, `shutdown_now`, destroy, `post_task_internal`, `register_timer`, caller waits with helping | everything below |
| Worker loop (`src/runtime/worker_loop.cpp`) | its place in the loop, the task it holds, fairness counters | search local, global and other workers' queues; execute; park; leave | ready queues, timers, lifecycle, Reaper |
| Ready queues (`src/runtime/ready_queues.cpp`) | four priority bands of FIFO lists and EDF heaps under `global_mutex_`, four local bands per worker, `claimed_count_` | `publish`, `claim_global`, `claim_local`, `steal`, `complete_claim`, `cancel_unstarted` | Chase-Lev deques, admission |
| Chase-Lev deque (`src/scheduling/chase_lev_deque.hpp`) | `top_`, `bottom_`, a growable ring, retired rings, a maintenance flag | owner `push`/`pop`, thief `steal`, growth, maintenance | ready queues |
| Admission controller (`src/runtime/admission_controller.cpp`) | `pending_`, `mutex_`, `slot_cv_` | `acquire`, `release`, `wake_all` | status word, submitters, workers |
| Timer queue (`src/runtime/timer_queue.cpp`) | an indexed heap and an id map | `add`, `cancel`, `collect_due`, `cancel_all` | workers, sleeping coroutines |
| Task control block (`src/task/task_control_block.cpp`) | task state, completion callbacks, stop source, resume handoff and publication counters | `try_start`, `request_cancel`, terminal transitions, `add_completion_callback` | handles, await protocol |
| Await protocol (`src/task/await_handshake.hpp`, `await_protocol.cpp`, `coroutine_resume.hpp`, `include/astra/coroutine.hpp`) | one handshake byte per await, the deferred-resume slot of each thread | arm task/graph/yield/sleep, trigger, trigger_cancel, resume | control blocks, timers, ready queues |
| Graph execution (`src/graph/*`) | per-run dependency counts, node states, outcome counters, admission lease | `freeze`, `run`, node completion, cancellation, await | admission, ready queues, await protocol |
| Reaper and finalization (`src/lifecycle/*`) | registered runtimes, handoff queue, finalization phase | register, handoff, `begin_finalization`, escalate, wait | lifecycle of every runtime |
| Trace collector (`src/observability/trace_collector.cpp`) | per-thread buffers, recording session, generations | attach, emit, start, stop, snapshot | workers |
| Metrics and diagnostics (`src/runtime/runtime_metrics.cpp`, `runtime_diagnostics.cpp`) | counters and gauges | increments, snapshot | all |
| Identities, options, errors, status, exports | constants and value types | validation | all |

What is hard here: the status word changes without the mutexes its readers
hold; publication notifies without the mutex the sleeper holds; work passes
through a thread's hands between two containers; a coroutine's frame may be
resumed by any of several racing sources while it is still being suspended;
shutdown can be asked for twice, in two strengths, while all of that goes on.
`PROJECT.json` lists the hazards at their lines.


What makes each part correct, in short:

- **Worker loop, shutdown**: no task is lost or in two places; a graceful
  shutdown drains, an immediate one cancels what never started and runs what was
  suspended; `Stopped` is published once, when every worker has left
  empty-handed; a published task wakes somebody.
- **Deque**: it is a double-ended queue at the grain of its callers; growth and
  rebase are invisible.
- **Admission**: slots are conserved, nothing is admitted after the gate closed,
  nobody sleeps on with room.
- **Await protocol**: one resume per suspension, none lost; one owner of the
  frame at a time, one destruction; a stop request reaches every phase.
- **Graph execution**: a node runs after its predecessors and if its edges
  allow; each slot comes back once; the run is published once, complete.
- **Reaper, finalization**: a runtime outlives every callback made into it;
  `Finalized` comes after the last join.
- **Ready queues**: no task is lost or doubled; bands, deadline bursts and local
  bursts delay each other for a bounded number of claims only.
- **Timer queue**: an indexed heap that does what a sorted set of timers would,
  after any sequence of registrations, cancellations and collections.
- **Graph validation**: a graph is refused exactly when it has no order, and the
  cycle named is one, whatever order the edges came in.
- **Trace collector**: a capture is cut once, nothing is written into it later, and
  no event lands in another capture; stopping it ends.

## 2. Modules

| Module | Models | Composes with |
|---|---|---|
| `ResumeOnce` | abstract: one await resumes its frame once, the first source decides whether it was cancelled | |
| `AwaitHandshake` | `AwaitHandshake` at the grain of one atomic access | implements `ResumeOnce` (`PromiseSpec`) |
| `TaskAwait` | task control blocks with their metrics gauges, `co_await` of tasks, yields and sleeps, cancellation points, the deferred resume, helping waits, `request_cancel()`, `shutdown_now()` | takes a handshake call as one step, which is what `AwaitHandshake` establishes |
| `RuntimeCore` | worker loop, park, posting, shutdown with its join leader | a task is opaque; a coroutine is the sequence of its segments |
| `AdmissionController` | `acquire`, `release`, `wake_all` and their callers | shares the status word with `RuntimeCore` as its environment |
| `WorkDeque` | abstract: a double-ended queue | |
| `ChaseLevDeque` | the deque at the grain of one access to a shared atomic | implements `WorkDeque` (`DequeSpec`); the other modules use local queues as sets or sequences, which this justifies |
| `ReadyQueues` | which task a worker claims next: bands, calendars, EDF, FIFO, local LIFO, theft, bursts | refines the choice that `RuntimeCore` leaves open |
| `TimerService` | abstract: timers wait, are cancelled, or are handed out when due | |
| `TimerQueue` | the indexed heap, its map and its counters | implements `TimerService` (`ServiceSpec`); `RuntimeCore` and `TaskAwait` use it as a set |
| `GraphFreeze` | the checks of `freeze()`: pure, with recursive functions where the code recurses or loops | first step of `GraphExecution` |
| `DependencyRun` | abstract: what a run of a graph promises | |
| `GraphExecution` | freezing a graph and one run of it: materialisation, node tasks, propagation, cancellation, report, awaiting, outside waits | implements `DependencyRun` (`DagSpec`); a segment of a coroutine node is one step, its inside is `TaskAwait` |
| `ProcessService` | abstract: the process-wide service opens, finalizes, is `Finalized` | |
| `Finalization` | Reaper registry, coordinator thread, `begin_finalization()` and its waiters, with construction, shutdown and destruction of runtimes | implements `ProcessService` (`ServiceSpec`); what a worker does between startup barrier and exit is `RuntimeCore` |
| `CaptureLog` | abstract: captures are logs that are cut once | |
| `TraceCollector` | producers that emit without a lock, and `start`, `stop`, abort | implements `CaptureLog` (`CaptureSpec`) |
| `MC…` | names and small inputs for each of the above | |
| `…_proof` | theorems about the module of that name | |

State and actions carry the names of the source where TLA+ allows; `PROJECT.json`
maps each definition to its lines.  Operators called `Mutant…` stand before the
definition they distort: each is a plausible bug, used to see that the property
it is paired with in `PROJECT.json` notices it.  No specification refers to them.

### RuntimeCore

`state`/`mode` are the two bytes of `packed_status`; they change without the
lifecycle mutex.  `moved` holds the workers whose snapshot of `work_epoch` is
out of date, which is all `wait` compares, so the counter needs no bound.
`asleep` and `timed` are the workers in `work_cv`; a notification without a
sleeper is lost, as in C++.  A worker's `wpc` follows `worker_loop.cpp` one
critical section or atomic access per action: local claim, global claim, the
count, stealing, the checks before execution, the task and what it publishes,
`complete_claim`, the epoch snapshot, the predicate under the mutex, the wait,
and the looks before it leaves: at the queues, then in a graceful shutdown at the
timers, then at the count.  `firing[w]` is the batch of due timers a
worker has collected, which it posts one by one.  `owed` are the threads that have
published something and have yet to announce it (`Tell`): publication, then epoch and
notification.  A timer that did not become the earliest is announced to nobody.
`inHand[c]` is what a closer carries in
`cancel_unstarted()` between two queues; `raced` is a history variable, the
tasks admitted but not queued when the status left `Running`.

### AwaitHandshake, TaskAwait

`raw` is the byte; `seen[t]` is each caller's `expected`.  A weak exchange that
fails spuriously is a stutter.  In `TaskAwait` a worker executes a *stack* of
tasks, because helping starts one while another waits; `slot[w]` is the single
`t_deferred_self_resume` of a thread; `handoff` and `published` are the two
sequence numbers by which a resuming segment learns that the previous one has
let go of the frame.  `firing[x]` are the
completion callbacks thread `x` has still to run, one per step, and `gmutex` is
the closer that holds `global_mutex_` meanwhile.

`gauge` counts the tasks ready, running, suspended and ended where the control
block and the queues move the metrics.  An operation of a program is `await`,
`yield`, `sleep`, `point` (a cancellation point), `wait`, `get`, `wait_for` or
`cancel`; a task that waits for itself is refused, as in `perform_caller_wait()`.
`Register`, `ArmTask`, `ArmYield` and the rest are one step per lock or handshake
call, so that every source may come between any two of them.

### AdmissionController

`mutex` is held from `Enter` to a wait or a return.  The status is loaded under
the mutex but changed without it; `wakeDue` is the interval between the change
and `wake_all()`.  `Stopped` may be published by another closer before that call, and
while a unit admitted in time is still to be queued.  `Place` says what kind of thread calls: work from a worker of
this runtime takes no slot, and only an outside thread may block.  `late` is a
history variable: requests for which admission had closed before their deciding
load.

### ChaseLevDeque

One action per access to a shared atomic; the owner's reads of what only it
writes go with the preceding step.  The ring is a function from `0 ..
Capacity(r) - 1`, indexed modulo its size, and a cell never written holds 0,
which no item is.  `LoadCell` lets a thief look at any ring that was active
since it read `bottom`.  Apart from that the accesses interleave: reorderings
that the acquire, release and sequentially consistent fences of the source
exclude are not modelled, and whether those fences suffice is not a question
this module answers.  The 64-bit indices are plain numbers: rebase begins at
`2^58`, here at 4, and `TypeOK` shows that no index passes it.

### GraphFreeze, GraphExecution

`Visited` is the count of Kahn's algorithm and `Search` the depth-first search
with its witness.  `FreezeDecides` compares both with a definition that shares
nothing with them: that the nodes can be ranked.

A run has no thread.  `Materialize` and `PostRoot` are the caller of `run()`; a
worker's `loops` is the recursion of `trigger_successors()`; `verdict` is the
outcome it is about to record, `Count`, `Fetch` and `Publish` the three accesses
of `mark_node_terminal()`.  `remaining` is a `size_t` and wraps (`Wrap`), since one
of the behaviours found decrements it once too often.  A watcher is a coroutine
that awaits the run (`AwaitReady`, `Register`, `GetReport`) or an outside thread that
waits for it on the condition variable (`BeginWait`, `EndWait`, `TimeOut`).

### ReadyQueues

Every claim runs under one mutex or on a band of the deque, so a claim is a step.
The heap of deadlines is kept as the sequence it sorts to; that is enough, for the
order of `EdfEntry` is total and only the least element is looked at.  `turn` is
the place of each worker in its three calendars.  `watch` names one source and
`waited` counts how often it was passed over: a monitor, read by no action.

### TimerQueue

`queue` is `heap_`, `heap_index` and `map_`; sifting and removal from the middle are
recursive operators on it.  `add()` draws its id and its sequence number before it
takes the mutex, hence the three steps of a registration.

### Finalization

Each runtime has an owner thread (`opc`), its workers (`wpc`) and its place in the
shared shutdown completion (`at`, `leader`); `refs` is who holds a `shared_ptr` to
the `Impl`, `object` its lifetime, `holder` the worker whose task holds the second
handle.  The coordinator (`cpc`) claims handed-off slots, cleans up outside the lock
and ends when registration is closed and nothing is left; `fpc` is a thread that
begins the finalization, runs the callbacks it has copied (`todo`, `inCall`) and
waits.  Waits on a condition variable are guards, since each write to one of their
predicates is followed by its notification.  `terminated` is `std::terminate()`,
after which nothing moves.

### TraceCollector

A capture is a generation.  A producer announces itself in `inflight[g]` (`Enter`)
and looks at `active` again (`Choose`); `stop` clears `active` and waits for
`inflight[g]` to reach zero.  An event is known by the generation its producer
had loaded, so that one in a wrong buffer is seen.  In `Spec` the store to `active`
and the load of `inflight` come in program order, in `ReorderedSpec` the load may be
performed first, as release and acquire allow.

## 3. Runs

Every name is a configuration in `PROJECT.json`; `tlc -config X.cfg MCModule`
repeats it.

| Run | What it shows | Instance, and why it is enough |
|---|---|---|
| `await_handshake` | each interleaving posts once; the verdict is frozen; `ResumeOnce` | two completion and two stop sources and one arm: every pair of racing calls of each kind occurs |
| `await_protocol` | one resume owner, one destruction, a waker for every suspended coroutine, stop reaches every phase, one post per await, gauges that agree with the states; waits return and resumes run, under helping | two workers, depth limit 1, three programs: awaiting a callable, a sleep and each other, with an outside cancel and a `shutdown_now()`; two tasks that wait for a third, so that the limit is reached and the waits nest, one of which then waits for a coroutine for a limited time and cancels it; tasks that wait for or await themselves, behind a cancellation point.  `WakerExists`, `WaitReturns` and `ResumesRun` are shown for these programs; for others they fail (section 5) |
| `core_shutdown` | the inductive invariant, conservation of work, the drain counter, one join, quiet at `Stopped`, drain, cancellation, nobody leaves while work is carried | two workers, one submitter, a graceful and an immediate closer; the submitted coroutine sleeps: local, global and timed work all exist while the modes change |
| `core_live` | a graceful shutdown returns | two workers, a task that submits a child: park, notification and drain race while work appears |
| `admission` | slots conserved, no late admission, no forgotten sleeper | capacity 2; requests of 0, 1 and 2 slots from outside, one from a worker of this runtime and one from a worker of another, one releaser, both shutdown modes: a request that must wait for a part of the capacity exists |
| `chase_lev` | `WorkDeque`, the winner of the exchange holds the head, maintenance excludes thieves, indices stay below the watermark | five items, a ring of 2 that grows once and then fails to, watermark 4, two thieves: cells are reused, stale `top` values occur, rebase happens with items left |
| `graph_run` | `freeze()` decides and its witness is a cycle; `DependencyRun`, slots returned once, the report agrees, who waits is called, the run completes | frozen: all pairs of edges on two nodes with foreign ones, all sequences of up to four edges on three nodes, a cycle behind a node already left on four. Run: an empty graph; on two workers a join of both kinds of edges with a cancel request and a fork under `shutdown_now()`; on one worker a join with a continuation that the worker itself started, and a coroutine between two callables; each with a watcher of either kind |
| `finalization` | one join owner, no worker outlives its `Impl`, gauges that agree, nothing left by a refused constructor, `ProcessService`, `wait()` ends, orphans are reclaimed | one runtime with two workers that can fail, be shut down or be dropped, under a finalizer; one that is dropped under two finalizers, one with `wait()` and one with `wait_for()`; and two runtimes, one with a handle held by its own task, under one finalizer: every pair of owner, worker, coordinator and finalizer meets |
| `trace` | an event lands only in its own capture, `inflight` is exact, buffers are read only when quiet, `CaptureLog`, `stop()` ends | two emitters that share a slot and a runtime attached late, buffers of one event, two captures, two controllers: full buffers, a late emitter and a racing abort occur |
| `ready_queues` | no task lost or doubled; band, FIFO and global queue wait no longer than calendars and bursts allow; a FIFO task is claimed in the end: by workers in `run_worker_loop()`, not by those that help (section 6) | the calendar of the code with a task per band; one worker with local and global work in two bands, yields and a child; two workers with two deadline tasks, and with one and a coroutine that yields: theft |
| `timer` | heap, indices and map agree; `TimerService` | seven timers by one caller, the least number with one to spare for which a removal makes an entry move up; three by two callers, for the race of the counters |
| `ready_yield` | a divergence, section 5 | one worker and two coroutines of one band |

Deadlock is not reported in runs where the program may come to rest: all calls
have returned and the queues are empty, or workers sleep for lack of work.
`AwaitHandshake` has an explicit action for that and is checked for deadlock.
Symmetry is used where threads are alike and no liveness is checked: the workers of
`core_shutdown`, the thieves of `chase_lev`.

Bounds: the number of threads and of items, the depth of helping, the number of
rings, the suspensions of a coroutine node, captures (`MaxGen`), events of an
emitter (`MaxEmits`) and timers are constants; nothing else in the
specifications is capped.

### Atomicity

A step is one critical section or one access to a shared atomic, with these exceptions.
Nothing that is checked tells the order of their parts.

- `RuntimeCore`: `MustWake` and `AnyQueued` look at several queues in one step.  The
  mutex of the wait is held, and a publication in between has a notification to come.
  (`PublishedRuns`, section 5, is about the one that is lost.)
- `TaskAwait`: a timer that fires or is stopped leaves the queue and triggers its
  handshake in one step; in between it would be neither queued nor triggered, and whoever
  cancels it then finds nothing, as after the step.  Metrics move with the state they
  count, and no code decides by them.
- `GraphExecution`: the outcome of a node is stored with its entry in the report (`Count`):
  it is read by others only after the count; a slot returns with the decision what becomes
  of the node (`Decide`), which does not depend on it.
- `ReadyQueues`: a claim chooses its band in one step; a thief of the code probes band
  after band, and may miss one that is filled meanwhile.  No bound speaks of thefts.

### Fairness

- `RuntimeCore`: strong fairness per thread, for a thread that needs the
  lifecycle mutex is enabled again and again while others hold it, and the operating
  system's mutexes are assumed not to starve anyone for ever.  Some
  worker finds a due timer, and some timed wait ends: time passes.  No fairness for
  submitting or for asking for a shutdown.
- `AwaitHandshake`, `ChaseLevDeque`: weak fairness of each call in progress (of
  the owner as a whole, and of each thief): they take no lock.  Nobody has to
  call.  `RebaseEnds` holds although thieves may come for ever, for they turn
  back at the closed gate.
- `TaskAwait`, `GraphExecution`: weak fairness of each thread; programs are finite, so
  no item is passed over for ever.  A request to cancel or to shut down need not
  come, and nobody has to run a graph.  `Wake` in `GraphExecution` is what a coroutine node awaits; it comes about.
- `AdmissionController`: strong fairness for those who need the mutex; in
  `FairSpec` workers claim while the state is `Running`, and a shutdown ends; in
  `BusyWorkersSpec` workers need not claim.
- `ReadyQueues`: weak fairness of each worker, which a parked one that has work
  needs to wake.
- `Finalization`: weak fairness of each thread inside a call.  What a user decides
  (`OwnerChoice`, `FinalizerChoice`: constructing, shutting down, dropping a handle,
  beginning or escalating a finalization) and the passing of a deadline are not owed.
- `TraceCollector`: weak fairness of an emission in progress and of a stop; nobody
  has to emit, and nobody has to start or stop a capture.

No property rests on a task ending that the code would not end: tasks are assumed
to return, as `shutdown()` assumes.

## 4. Proofs

`tlapm M_proof.tla` checks them.  The assumptions are the named `ASSUME`s of the
modules: disjoint kinds of threads, finite sets where something is counted,
types of the parameters.

**AwaitHandshake_proof.**  `IInv` says what the byte says of everybody: the frame
has been or is being posted if and only if the byte is `Resolved`, and by one
thread (`ResumeTicket`); what a thread on its second exchange has seen
(`SecondSaw`); where the arming thread is (`ArmerPhase`); and that a source that
has returned has left the byte fired (`SourcesFired`).  `resumes <= 1` alone is
not inductive: a thread about to post must be known to be the only one.  From it
follow `AtMostOneResume`, `NoResumeLost`, `VerdictIsFrozen` and
`ImplementsResumeOnce`, for any sets of sources.

**RuntimeCore_proof.**  `IInv` joins types, who holds a task where (`Hands`), that
the lifecycle mutex is held by whoever is inside one of its sections
(`MutexHeld`), and the phases of joining (`OneLeader`).  `OneLeader` is the
strengthening: that `Stopped` means all workers exited needs that between the
join and the publication no second closer passes the gate and no worker comes
back.  Proved from it, for any sets of workers, submitters, closers and tasks:
`OneJoin`, `StoppedMeansQuiet`, `NobodyLeavesWhileCarrying`; and `ClaimsBalance`,
by induction on its own with the cardinality of the workers that have a claim.  (A
worker that helps has several claims at once; that is `TaskAwait`, not this module.)
This part is called `CoreInv`.

The second half of the module is the rest of `IInv`, and from it `WorkIsConserved`,
`GracefulShutdownDrains` and `ImmediateShutdownCancels`.  `Placed` is
`WorkConservation` without the counting: a pending task is in some place, any other in
none, and no task in two; each action is shown to move one set of tasks from one place
to another.  That needs `Lives`: a running task is in one worker's hands, and what it is to
publish is unborn until it runs, which rests on `PublisherAssumption` (an invoker has
one maker: the code passes it on in a `unique_ptr`).  `Forward` says that the status moves
one way, and that only a closer asked for `Immediate` sweeps.  `Leaving` is the
argument for shutdown.  In a graceful one a worker leaves after three looks, at the
queues, the timers and the count, and tasks are published without a lock in between.
What appears behind its looks comes from a worker that is still there (`NotTheLast`); the exit of
`Immediate` does not look at never-started tasks in the global queues at all, but whoever
put one there has yet to pass an empty global queue (`SomeoneFresh`); so the last to
leave leaves nothing (`NothingLeft`).  The proof found that `ImmediateCancels`, as it was
stated, held only on an instance with one submitter: see `CancelledByStop` in section 5.

**ChaseLevDeque_proof.**  The deque is linearizable: `DequeIsLinearizable`, for any
number of thieves, of items and of rings, and any watermark.  The first part is the gate
(`RebaseExcludesThieves`).  `GateInv` strengthens `Excluded` with the exact count of
the thieves inside (`Counted`) and with `maintenance` being set just while the
owner is in a rebase (`Shut`).  The owner goes on only at count zero, hence with
nobody inside; a thief that comes later is counted first and looks again.  The second
part is `DequeInv`: where the owner's locals stand to the indices (`Owner`), the live
range (`Live`) and what a thief may rely on (`Aims`).  The range fits the ring with one
cell to spare, and two indices less than a capacity apart have different cells
(`Apart`); so a store above the range, or the copy into a larger ring, disturbs no
live cell (`Stored`, `Grows`).  A thief whose `top` is old fails its exchange; one whose
`top` is not old finds the oldest item in every ring that it may still look at, and the
range is not empty under it, for the owner takes the last item only by moving `top`.
From it follow `DequeInvariant` (the `Inv` of the run, `WinnerHoldsHead` among it)
and, step by step, `DequeSpec`: `Publish`, a take in `PopTop` or `PopCas`, and a won
`StealCas` are the points where an operation takes effect, and `CalmHidden` and
`MoveHidden` say that nothing else is seen.  `CapacityAssumption` repeats
`DequeAssumption` in terms of doubling, since no installed prover unfolds `2^k`; TLC
evaluates both.

**AdmissionController_proof.**  `NothingIsLate` and `NobodyIsForgotten`, for any
callers, sizes of requests, capacity and number of workers that give slots back, from
`GateInv`, which also bounds `pending_` by the capacity.  `LateInv` is the
strengthening for the first: the status never reopens, and a late caller about to
decide has seen it closed, because it loads it again after every wait.  For the
second, `Locked`: who is between its look at `pending_` and its sleep holds the
mutex, so the room it lacked then it lacks
still.  `SlotsAreConserved` is the rest of the run's `Inv`: `pending_` is what is queued
plus what threads have in hand.  The sum over the threads is stated as the number of
pairs of a thread and one of its units (`Units`), so that the cardinality theorems of
the library replace an induction: a step that changes one thread's part changes that
number by the difference (`UnitsChange`), and the sets of threads have to be finite
(`FiniteAssumption`).  Hence the clamp in `release()` never acts, in any runtime.

**TraceCollector_proof.**  The whole `Inv` of the run (`TraceInvariant`) and the refinement
of `CaptureLog` (`CollectorIsLog`), for any emitters, slots, captures and controllers.
`Named` and `Ended` strengthen `Inv`: an emitter that writes has been
let into the buffer of the capture it had seen, and a capture being ended is not
active any more, nor is its number given out again.  When `inflight` has come down
to zero the exact count (`Counted`) leaves nobody inside; who comes in later looks
at `active` and turns round.  Hence `DrainQuiet`, though emitters take no lock.
`LogInv` is what the refinement needs beyond that: captures follow one another under
the mutex (`Turns`, `Holds`); who writes does so into the current one (`Current`); a
ticket is held by one emitter, and every cell below the count is written or about to
be (`Ticketed`, `Filled`), so that the events read are a prefix without a hole and
nothing is lost before the buffer is full; and a stop has recorded of each slot exactly
what its buffer holds (`Results`).  The proofs are about `Spec`; under `ReorderedSpec`
`DrainQuiet` fails (section 5).

**Finalization_proof.**  Startup, shutdown, handoff and finalization for any runtimes,
workers, finalizers and cast: `FinalizationInvariant`, and from it `OneOwnerQuietFree`
(the `Inv` of the run), `RollbackIsComplete` and the refinement of `ProcessService`
(`RegistryIsService`).  The argument follows the workers of one runtime.  They exist only
while it is registered (`Registered`); the loop is entered once all were created, and
who leaves as the last is alone (`Workforce`), so that a runtime the Reaper is told to
be ready for joining has no worker that still runs (`Tracked`).  Whoever is at `join`
is the leader, and who is back from the shared completion finds no worker
(`Completion`); this gives the single join owner.  `Closing` says that the coordinator
ends, and a waiter joins it, only when registration is closed and no slot is left:
since nobody registers after the close, `Finalized` is published with nothing to come.
Since workers exist only in registered runtimes, what the abstract service calls live is
the registered slots.  A runtime handed off and not ready for joining has a worker left,
one that is ready has none: that is what the gauges of the snapshot report.

**TaskAwait_proof.**  Three of the four invariants of the run, for any workers, outside
threads, tasks, programs and helping depth: `OneOwner`, `StopArrives`, and `TasksCounted`,
which is `Inv` (types, one post per await, one destruction per frame, gauges).  `IInv` has
eleven parts, and each rests on others.

- *Whose frame it is.*  `Numbers` says by how much `resume_handoff_seq_` may be ahead of
  `suspend_published_seq_`: by one, and only between the announcement and the publication
  inside `await_suspend()`.  A segment remembers the number it began with.  One that still
  runs has the number last published; one that is on its way out has an older one, unless
  it finished the body (`Segmented`).  Since a resume begins only when the two are equal,
  two segments of a task never go on together: this gives `OneResumeOwner`, and that
  a segment finds `handoff` unchanged, and destroys the frame, just once (`Unspoilt`).
- *One item, one place.*  A ready item is in one queue, slot or pair of hands (`Single`),
  and it is fit to be begun: a start belongs to a task whose body has not begun, a resume
  to the await that its coroutine is leaving or has left, resolved (`Ready`).  That in turn
  rests on the handshakes: awaits to come are fresh, an armed one is the current one, and
  one that is not resolved has not been posted (`Shakes`); and on late callbacks and timers
  being of awaits that have begun (`Called`).  Hence `PostedOnce`, whatever stale source
  fires.
- *Stops.*  From the construction of the stop callback to the resumption, either the
  callback is registered, or a stop has triggered the await; and a stop that finds it
  registered is about to call it, under the mutex (`Stops`).  When the mutex is free, a
  stopped sleeper has been triggered, and its timer is gone because its id was stored
  before the recheck.  This is `StopReaches`.
- *Gauges.*  `GaugesAgree` is an induction of its own, beside `IInv`: `Counts` says how
  one transition changes the number of tasks in given states.  The decrements saturate, so
  the equalities hold only up to the coroutines that end in a sleep they did not arm
  (`Unarmed`, see `QuiescentConserves` in section 5).  A task that is done is never armed
  afterwards (`DoneStays`), so their number only grows (`UnarmedKept`) and the surplus they
  leave is never taken for something else.

`AwaitAssumption` asks for finitely many tasks (they are counted), for bodies that are
sequences of operations on the program's own tasks, for a `None` that is none of the items,
and that a thread outside cancels a task of the program.  `WakerExists`, the fourth
invariant, is not proved because it is not true of every program: with two waiters the
code loses a resume (`TwoWaiters` in section 5).

**GraphExecution_proof.**  Four of the run's properties, for any graphs, workers and
watchers: `ReportsAgree` (`Inv`), `SlotsReturn`, `WatchersHeld`, and the refinement
`ImplementsDependencyRun` (`DagSpec`).  The hypothesis `WholeInputs` restricts the inputs:
no coroutine node suspends, or a single worker runs all segments and nobody cancels.
It is there because the code needs it.  A coroutine node that suspends on one worker
and is resumed on another, or is cancelled while it sleeps, may be counted twice
(`PublishedIsTerminal` in section 5).  The refinement needs `Heeded` besides: no run with
a coroutine node is cancelled, since such a node is started all the same (`DagSpec` in
section 5).  All inputs that `graph_run` runs satisfy both.

- *One place.*  A node that may be started is a root to be posted, a start item, asleep, or
  in the hands of one worker, and then it has no outcome and its counter is zero
  (`Single`).  A coroutine's task is terminal after a segment just when it does not
  sleep (`Segments`); there the hypothesis enters.
- *One count.*  A node that has an outcome belongs to no place; at most one worker is
  between its count and the loop over its successors, or is in that loop (`Counted`).
- *Joins.*  The counter of a node equals the number of predecessors that have no
  outcome, or have one and have not yet told this successor (`Waits`): that a worker who
  finds it at one is the only one to do so, and finds all others counted, is what `Joins`
  says.  The decrement never wraps, since an untold successor has a counter above zero
  (`UntoldFacts`).
- *Failures.*  Whoever failed has told a required successor so, or is still about to
  (`Told`).  When the counter is zero nobody is, so a node begins only if its required
  predecessors succeeded, and one that ends without a start was cancelled (`Starting`).
- *Publication.*  `remaining` counts the nodes that have no outcome or whose worker has
  not yet decremented it, so it reaches zero once, when the report is complete (`Counters`);
  callbacks registered before that are taken then, and none is registered afterwards.

What `freeze()` computes does not enter, except that it refuses edges to nodes the graph
does not have: the theorems hold of graphs with cycles, too, which just never complete.

Only model-checked: liveness (fairness and `ENABLED` are out of the prover's
reach); `WakerExists` of `TaskAwait`; `FreezeDecides` of `GraphExecution`; and all of
`ReadyQueues` and `TimerQueue`, with the refinement `ServiceSpec`.  What a recursive
definition computes for every input (`GraphFreeze`, the sifting of `TimerQueue`) cannot
be proved with the installed provers and stays with TLC.

## 5. Where code and documents disagree

One is a run with a finding in `PROJECT.json`, `ready_yield`: the resume of a yield
goes to the end of the local queue its worker pops from, not through the ordinary
global queue.  Of two coroutines of one band that yield, one is never resumed.

The others have configurations outside `PROJECT.json`:
`tlc -config X.cfg MCModule` ends with the counterexample to the property named.
Where a configuration has several properties (or inputs), it lists the others as
comments: put the one in question in place of the one that is active.

| Configuration | Module | Property | Behaviour |
|---|---|---|---|
| `CoreOneWorker.cfg` | `MCRuntimeCore` | `NoOrphanTask` | a task admitted while `Running` is queued after the last worker has left, which R-007 excludes. `GracefulDrains` and `ImmediateCancels` hold for all tasks but those (`raced`) |
| | | `CancelledByStop` | `shutdown_now()` changes the mode before it sweeps the queues; in between the workers can leave, and a concurrent `shutdown()` joins them, publishes `Stopped` and returns while a never-started task is still queued (R-012, R-019). `ImmediateCancels` holds once the sweep is done |
| | | `NoDowngrade` | the leader loads the mode, another closer escalates, the leader stores `Stopped` with the old mode |
| | | `SuspendedUnwinds` | a sleeper registers after `cancel_all_timers()` and its segment never runs |
| | | `NoFirstStart` | a worker that checked the mode before the change starts the task after it |
| `CoreParkRace.cfg` | `MCRuntimeCore` | `PublishedRuns` | publication notifies without the mutex, between the predicate and the wait |
| `AdmissionCloseWake.cfg` | `MCAdmissionController` | `CloseWakesSleepers` | the status changes and `wake_all()` notifies between a submitter's predicate and its wait; while the workers are busy it sleeps on, and for ever if the slots it wants belong to a unit queued after the workers have left |
| `AwaitPrograms.cfg` | `MCTaskAwait` | `WakerExists` (`TwoWaiters`) | two coroutines await one callable; the second resume replaces the first in the thread's single deferred slot |
| | | `ResumesRun` (`Chain`) | a resume flushed on the way out of a helping level is deferred again by the outer task that waits for it |
| | | `WaitReturns` (`WaitSleeper`) | the helping loop never fires timers |
| | | `CancelReturns` (`Closed`) | `cancel_unstarted()` calls `cancel_pre_start()` with `global_mutex_` held; a completion callback publishes and locks it again |
| | | `FrameReclaimed` (`Closed`) | a coroutine cancelled before its start keeps its frame |
| | | `ResumeClaimed` (`CancelSleeper`) | under `Immediate` the helping loop claims nothing from the global queue, resumes included |
| | | `QuiescentConserves` (`CancelSleeper`) | a coroutine cancelled at a sleep that is not armed is counted as suspended and ends without being resumed: the gauges of suspended and running tasks do not return to zero, as R-085 and `tests/test_metrics_snapshot.cpp:236-246` expect at a quiescent point |
| `GraphOneRun.cfg` | `MCGraphExecution` | `PublishedIsTerminal` (`Coroutine`) | a coroutine node's first segment and its resumption both find the task completed and both count it; the run is published with a node still running |
| | | `DagSpec` (`CancelledCoroutine`) | a coroutine node whose run has been cancelled is started all the same, although its task already is `Cancelled`: unlike a submitted coroutine it does not pass `try_start()` |
| | | `ShutdownCompletes` (`ShutDown`) | node tasks dropped by `shutdown_now()` leave the run incomplete |
| `FinalJustOne.cfg` | `MCFinalization` | `AttachRollsBack` | `trace_attach_runtime()` stands outside the `try` of the constructor: when it throws the slot stays registered, and a finalization waits for it for ever |
| | | `CalledAlive` | `close_registration()` copies callbacks that hold a raw pointer and calls them without the lock; the `Impl` may be freed meanwhile |
| | | `FinalizedAfterJoin` | a second waiter finds the coordinator thread moved out by the first and publishes `Finalized` before the join |
| | | `NoTerminate` | the last reference to an `Impl` can be dropped by one of its own workers, whose destructor then meets joinable threads |
| | | `StoppingKept` | a finalization sets `Stopping` while the runtime is under construction; the constructor stores `Running` over it |
| `TraceReordered.cfg` | `MCTraceCollector` | `DrainQuiet` | `active` is cleared with release and `inflight` read with acquire: performed in the other order, the buffers are read while an emitter may still write |

Two more differences were met in the metrics of graph nodes and are not modelled:
nodes that are skipped or cancelled have been counted as ready when the graph was
admitted and leave that gauge nowhere, and a submission whose publication throws
gives back its slot but not its count.

Configurations that pass, beside the runs: `CoreTimers.cfg` (`MCRuntimeCore`,
`WorkConservation` and `GracefulDrains`): on one worker two coroutines sleep at once, so
that a batch of two due timers, one registered behind another and cancelled ones occur,
under a graceful and an immediate closer; `AdmissionLive.cfg`
(`MCAdmissionController`, `BlockedReturns`): with workers that drain, every submitter
that blocks returns, except the one that sleeps for ever (`AdmissionCloseWake.cfg`
above); and `DequeLive.cfg` (`MCChaseLevDeque`, `RebaseEnds`): maintenance ends, on a
ring of two that does not grow, against two thieves.

## 6. Not modelled, and why

- **Memory orders** weaker than interleaving, except the choice of ring in the
  deque and the one reordering of `TraceCollector`.  Publication through the mutexes
  and the sequentially consistent accesses is what the other modules rest on.
- **Data**: result values, exceptions as values, names, fields of trace events,
  histograms, attribution of metrics to priorities, trace export, diagnostics reports.
  They are read by nothing that decides.
- **Allocation failure**, except of a ring, of a rebase's snapshot, of a thread and in
  `materialize()`.
- **Waits**: of outside threads on a task; of workers that help while they wait for a
  graph run.  The first is a condition variable over a state that becomes terminal
  once; the second needs `TaskAwait` and `GraphExecution` in one model.
- **Two runtimes that wait for each other**: a coroutine suspended on a task of another
  runtime is invisible to the drain of its own (`worker_loop.cpp:261`).
- **The order in which a worker that helps claims**: `perform_caller_wait()` takes local
  work first, with no burst limit (`scheduler.cpp:741-758`), so what `ReadyQueues` says of
  waiting does not extend to it.  Its claims and its nesting are in `TaskAwait`; the count
  of claims (`ClaimBalance`) is checked for workers that do not help.
- **A capture superseded** while it is being stopped (`trace_collector.cpp:288-293`): only
  after an earlier `stop()` of it has thrown `bad_alloc`.
- **Foreign nodes** in a graph are numbers out of range; a foreign node with a number in
  range is not distinguished.
- **The fallback** of `publish()` from a full local deque: `ChaseLevDeque` has the growth
  and its failure, `ReadyQueues` lets deques grow.
- **Runtime registry and identities**: counters checked for exhaustion.
- Options, errors, exports, version, tests, benchmarks and tools have no state.

## 7. Plan

The order is by what depends on it.

1. `AwaitHandshake` and `ResumeOnce`, with proofs. *Done.*
2. `RuntimeCore`, with proofs. *Done.*
3. `AdmissionController`, with proofs. *Done.*
4. `TaskAwait`, with proofs. *Done;* to prove: `WakerExists` for programs in which no
   task has two waiters.
5. `ChaseLevDeque`/`WorkDeque` and `GraphExecution`/`DependencyRun`, with proofs. *Done.*
6. `Finalization`/`ProcessService`, with proofs. *Done.*
7. `ReadyQueues`. *Done;* to prove: no task is lost or doubled.
   `TimerQueue`/`TimerService`. *Done.*
8. `GraphFreeze`. *Done.*
9. `TraceCollector`/`CaptureLog`, with proofs. *Done.*
10. A composition of two runtimes, for waits across them; waits of outside threads on
    a task; `RuntimeIdentity`.
