--------------------------- MODULE GraphExecution ---------------------------
(***************************************************************************)
(* A task graph is frozen and run (src/src/graph/*, the graph parts of     *)
(* include/astra/graph.hpp and include/astra/coroutine.hpp).               *)
(*                                                                         *)
(* A run has no thread of its own: run() posts the roots as tasks, and the *)
(* worker that executes a node counts down the successors and posts those  *)
(* that become free.  The recursion of trigger_successors() is a stack of  *)
(* loops per worker.  The ready queues are two counts per node, of start   *)
(* items and of resume segments; which item a worker claims is left open.  *)
(*                                                                         *)
(* A coroutine node keeps a task state of its own.  Its segments take one  *)
(* step; what happens inside await_suspend() is the subject of TaskAwait.  *)
(***************************************************************************)
EXTENDS Naturals, FiniteSets, Sequences, SequencesExt, GraphFreeze

CONSTANTS
  Inputs,    \* what run() is called with, and what its surroundings will do
  Workers,
  Watchers,  \* coroutines of other tasks that co_await the run, or outside
             \* threads that wait for it
  Wrap,      \* remaining counters live in 0 .. Wrap - 1 (size_t: 2^64)
  None

(* An input: the nodes and edges given to the builder, whether the frozen  *)
(* graph is run, which nodes are coroutines and how often each suspends at *)
(* most, whether run() is called on a worker of the same runtime, how many *)
(* workers there are, and whether the holder of the handle calls           *)
(* request_cancel() and somebody shutdown_now().  An edge that is always   *)
(* to be followed has required = FALSE (EdgePolicy).                       *)
IsInput(i) ==
  /\ i.nodes = 1 .. Cardinality(i.nodes) /\ IsFiniteSet(i.nodes)
  /\ Cardinality(i.nodes) < Wrap
  /\ i.edges \in Seq([from : Nat, to : Nat, required : BOOLEAN])
  /\ i.runs \in BOOLEAN
  /\ i.coros \subseteq i.nodes /\ i.suspends \in [i.coros -> Nat]
  /\ i.workers \subseteq Workers
  /\ {i.internal, i.cancels, i.closes} \subseteq BOOLEAN

ASSUME GraphAssumption ==
  /\ \A i \in Inputs : IsInput(i)
  /\ Wrap \in Nat \ {0} /\ None \notin Nat

VARIABLES
  input,
  rpc, roots,        \* freeze() and run(): where they are, roots yet to be posted
  refusal,           \* the graph_validation_error
  slots,             \* external admission slots the run holds
  predecessors,      \* each node's remaining_predecessors
  failedRequired,    \* nodes with has_failed_required_predecessor
  outcome,           \* each node's outcome
  remaining,         \* remaining_nodes
  report, runState,
  cancelRequested,
  callbacks,         \* completion_callbacks
  starts, resumes,   \* ready items of each node
  task, stop,        \* coroutine nodes: state of the task, stop requested
  left, armed,       \* suspensions left; suspended with an await pending
  pc, cur, verdict,  \* a worker: its place, its node, the outcome to record
  loops, edge,       \* its trigger_successors() calls, the successor in hand
  firing,            \* callbacks it has still to run
  cpc, toCancel,     \* request_cancel(): its place, nodes not yet told
  immediate, swept,  \* shutdown_now() has set the mode; has cancelled the queues
  wpc,               \* the watchers
  started            \* history: nodes whose body has begun

entry == <<predecessors, failedRequired, outcome>>
run == <<remaining, report, runState, callbacks>>
caller == <<input, rpc, roots, refusal>>
queues == <<starts, resumes>>
coroutine == <<task, stop, left, armed>>
worker == <<pc, cur, verdict, loops, edge, firing>>
outside == <<cancelRequested, cpc, toCancel, immediate, swept>>
vars == <<entry, run, caller, slots, queues, coroutine, worker, outside, wpc, started>>

Nodes == input.nodes
EdgesOf(i, kinds) == {<<e.from, e.to>> : e \in {d \in ToSet(i.edges) : d.required \in kinds}}
Edges == EdgesOf(input, BOOLEAN)
Coros == input.coros
Pred(n) == {e.from : e \in {d \in ToSet(input.edges) : d.to = n}}
Succ(n) == {e.to : e \in {d \in ToSet(input.edges) : d.from = n}}
Terminal == {"Succeeded", "Failed", "Cancelled"}
Decrement(k) == (k + Wrap - 1) % Wrap

TypeOK ==
  /\ input \in Inputs
  /\ rpc \in {"freeze", "refused", "admit", "materialize", "post", "returned", "thrown"} /\ roots \subseteq Nodes
  /\ refusal.reason \in {"none", "ForeignNode", "SelfEdge", "DuplicateEdge", "Cycle"}
  /\ slots \in 0 .. Cardinality(Nodes)
  /\ predecessors \in [Nodes -> 0 .. Wrap - 1] /\ failedRequired \subseteq Nodes
  /\ outcome \in [Nodes -> Terminal \cup {"Ready"}]
  /\ remaining \in 0 .. Wrap - 1 /\ report \in [Terminal -> Nat]
  /\ runState \in Terminal \cup {"Running"}
  /\ callbacks \subseteq Watchers /\ firing \in [Workers -> SUBSET Watchers]
  /\ starts \in [Nodes -> Nat] /\ resumes \in [Coros -> Nat]
  /\ task \in [Coros -> Terminal \cup {"Ready", "Running", "Suspended"}]
  /\ stop \in [Coros -> BOOLEAN] /\ left \in [Coros -> Nat] /\ armed \subseteq Coros
  /\ pc \in [Workers -> {"idle", "begin", "body", "segment", "check", "count", "fetch",
                         "publish", "fire", "trigger", "edge", "release", "decide"}]
  /\ cur \in [Workers -> Nodes \cup {None}] /\ edge \in [Workers -> Nodes \cup {None}]
  /\ verdict \in [Workers -> Terminal]
  /\ \A w \in Workers : \A k \in DOMAIN loops[w] :
       loops[w][k] \in [failed : BOOLEAN, of : Nodes, todo : SUBSET Nodes]
  /\ cpc \in {"idle", "telling", "done"} /\ toCancel \subseteq Nodes
  /\ {cancelRequested, immediate, swept} \subseteq BOOLEAN
  /\ wpc \in [Watchers -> {"idle", "register", "waiting", "woken", "asleep",
                               "timedOut", "done"}]
  /\ started \subseteq Nodes

Init ==
  /\ input \in Inputs /\ rpc = "freeze" /\ roots = {} /\ slots = 0
  /\ refusal = [reason |-> "none", witness |-> <<>>]
  /\ predecessors = [n \in Nodes |-> 0] /\ failedRequired = {}
  /\ outcome = [n \in Nodes |-> "Ready"]
  /\ remaining = Cardinality(Nodes) /\ report = [o \in Terminal |-> 0]
  /\ runState = "Running" /\ cancelRequested = FALSE
  /\ callbacks = {} /\ firing = [w \in Workers |-> {}]
  /\ starts = [n \in Nodes |-> 0] /\ resumes = [n \in Coros |-> 0]
  /\ task = [n \in Coros |-> "Ready"] /\ stop = [n \in Coros |-> FALSE]
  /\ left = input.suspends /\ armed = {}
  /\ pc = [w \in Workers |-> "idle"] /\ cur = [w \in Workers |-> None]
  /\ verdict = [w \in Workers |-> "Cancelled"]
  /\ loops = [w \in Workers |-> <<>>] /\ edge = [w \in Workers |-> None]
  /\ cpc = "idle" /\ toCancel = {} /\ immediate = FALSE /\ swept = FALSE
  /\ wpc = [x \in Watchers |-> "idle"] /\ started = {}
-----------------------------------------------------------------------------
(* TaskGraph::freeze(): a graph that fails a check is gone.                *)
Freeze ==
  LET n == Cardinality(Nodes)
      reason == Reason(n, input.edges)
  IN
  /\ rpc = "freeze"
  /\ refusal' = [reason |-> reason,
                 witness |-> IF reason = "Cycle" THEN Witness(n, input.edges) ELSE <<>>]
  /\ rpc' = IF reason = "none" THEN "admit" ELSE "refused"
  /\ UNCHANGED <<entry, run, input, roots, slots, queues, coroutine, worker, outside, wpc,
                 started>>

(* GraphExecution::run(): one slot per node, all or nothing, unless the    *)
(* caller is a worker of this runtime; an empty graph is complete at once. *)
Admit ==
  /\ rpc = "admit" /\ input.runs
  /\ slots' = IF input.internal THEN 0 ELSE Cardinality(Nodes)
  /\ \/ Nodes = {} /\ rpc' = "returned" /\ runState' = "Succeeded"
     \/ Nodes # {} /\ rpc' = "materialize" /\ UNCHANGED runState
  /\ UNCHANGED <<entry, remaining, report, callbacks, input, roots, refusal, queues,
                 coroutine, worker, outside, wpc, started>>

(* materialize() counts the edges.  When it throws, GraphAdmissionLease    *)
(* gives the slots back; commit() leaves them to the nodes.                *)
Materialize ==
  /\ rpc = "materialize"
  /\ \/ /\ predecessors' = [n \in Nodes |-> Cardinality(Pred(n))]
        /\ roots' = {n \in Nodes : Pred(n) = {}}
        /\ rpc' = "post"
        /\ UNCHANGED slots
     \/ /\ rpc' = "thrown" /\ slots' = 0
        /\ UNCHANGED <<predecessors, roots>>
  /\ UNCHANGED <<failedRequired, outcome, run, input, refusal, queues, coroutine, worker,
                 outside, wpc, started>>

(* The roots are posted one by one, in the order of their numbers.         *)
PostRoot ==
  /\ rpc = "post"
  /\ \E n \in roots :
       /\ \A m \in roots : n <= m
       /\ starts' = [starts EXCEPT ![n] = @ + 1]
       /\ roots' = roots \ {n}
       /\ rpc' = IF roots = {n} THEN "returned" ELSE "post"
  /\ UNCHANGED <<entry, run, input, refusal, slots, resumes, coroutine, worker, outside, wpc,
                 started>>
-----------------------------------------------------------------------------
(* A worker takes a ready item of the run.                                 *)

Go(w, place) == pc' = [pc EXCEPT ![w] = place]
At(w, place) == w \in input.workers /\ pc[w] = place

(* The item that starts a node gives back one external slot when claimed.  *)
(* Under Immediate the worker drops it: cancel_pre_start() does nothing    *)
(* for make_graph_node_invoker<true>.                                      *)
ClaimStart(w) ==
  /\ At(w, "idle")
  /\ \E n \in Nodes :
       /\ starts[n] > 0
       /\ starts' = [starts EXCEPT ![n] = @ - 1]
       /\ slots' = IF input.internal THEN slots ELSE slots - 1
       /\ IF immediate THEN UNCHANGED <<pc, cur>>
                       ELSE Go(w, "begin") /\ cur' = [cur EXCEPT ![w] = n]
  /\ UNCHANGED <<entry, run, caller, resumes, coroutine, verdict, loops, edge, firing,
                 outside, wpc, started>>

(* GraphCoroutineResumeWrapper::execute(): transition_to_running(), resume.*)
ClaimResume(w) ==
  /\ At(w, "idle")
  /\ \E n \in Coros :
       /\ resumes[n] > 0
       /\ resumes' = [resumes EXCEPT ![n] = @ - 1]
       /\ task' = [task EXCEPT ![n] = IF @ \in {"Ready", "Suspended"} THEN "Running" ELSE @]
       /\ cur' = [cur EXCEPT ![w] = n]
  /\ Go(w, "segment")
  /\ UNCHANGED <<entry, run, caller, slots, starts, stop, left, armed, verdict, loops,
                 edge, firing, outside, wpc, started>>

(* The task of an ordinary node: it reads cancel_requested first.          *)
Begin(w) ==
  LET n == cur[w] IN
  /\ At(w, "begin") /\ n \notin Coros
  /\ IF cancelRequested
     THEN /\ Go(w, "count") /\ verdict' = [verdict EXCEPT ![w] = "Cancelled"]
          /\ UNCHANGED started
     ELSE Go(w, "body") /\ started' = started \cup {n} /\ UNCHANGED verdict
  /\ UNCHANGED <<entry, run, caller, slots, queues, coroutine, cur, loops, edge, firing,
                 outside, wpc>>

(* The callable returns, throws, or throws task_cancelled.                 *)
EndBody(w) ==
  /\ At(w, "body")
  /\ \E o \in Terminal : verdict' = [verdict EXCEPT ![w] = o]
  /\ Go(w, "count")
  /\ UNCHANGED <<entry, run, caller, slots, queues, coroutine, cur, loops, edge, firing,
                 outside, wpc, started>>

(* TaskControlBlock::request_cancel(): a task still Ready becomes          *)
(* Cancelled; the stop callback of a pending await posts the resume.       *)
RequestStop(n) ==
  /\ stop' = [stop EXCEPT ![n] = TRUE]
  /\ task' = [task EXCEPT ![n] = IF @ = "Ready" THEN "Cancelled" ELSE @]
  /\ armed' = armed \ {n}
  /\ resumes' = IF n \in armed THEN [resumes EXCEPT ![n] = @ + 1] ELSE resumes

(* The first segment of a coroutine node.  Unlike a submitted coroutine it *)
(* is not gated by try_start(): its task stays Ready, and it is resumed    *)
(* even if the request has just made it Cancelled.                         *)
BeginCoroutine(w) ==
  LET n == cur[w] IN
  /\ At(w, "begin") /\ n \in Coros
  /\ IF cancelRequested THEN RequestStop(n) ELSE UNCHANGED <<stop, task, armed, resumes>>
  /\ Go(w, "segment")
  /\ started' = started \cup {n}
  /\ UNCHANGED <<entry, run, caller, slots, starts, left, cur, verdict, loops, edge,
                 firing, outside, wpc>>

(* A segment suspends at an await, which posts the resume later, or at a   *)
(* yield, whose resume is posted when the segment has returned.  It can    *)
(* not if a stop was requested: await_suspend() throws.                    *)
SuspendSegment(w) ==
  LET n == cur[w] IN
  /\ At(w, "segment") /\ left[n] > 0 /\ ~stop[n]
  /\ left' = [left EXCEPT ![n] = @ - 1]
  /\ task' = [task EXCEPT ![n] = IF @ = "Running" THEN "Suspended" ELSE @]
  /\ \/ armed' = armed \cup {n} /\ UNCHANGED resumes
     \/ resumes' = [resumes EXCEPT ![n] = @ + 1] /\ UNCHANGED armed
  /\ Go(w, "check")
  /\ UNCHANGED <<entry, run, caller, slots, starts, stop, cur, verdict, loops, edge,
                 firing, outside, wpc, started>>

(* return_void() or unhandled_exception(): the outcome overwrites whatever *)
(* state the task has.                                                     *)
EndSegment(w) ==
  /\ At(w, "segment")
  /\ \E o \in Terminal : task' = [task EXCEPT ![cur[w]] = o]
  /\ Go(w, "check")
  /\ UNCHANGED <<entry, run, caller, slots, queues, stop, left, armed, cur, verdict, loops,
                 edge, firing, outside, wpc, started>>

(* After the segment: is_completed()?                                      *)
Check(w) ==
  LET s == task[cur[w]] IN
  /\ At(w, "check")
  /\ IF s \in Terminal THEN Go(w, "count") /\ verdict' = [verdict EXCEPT ![w] = s]
                       ELSE Go(w, "idle") /\ UNCHANGED verdict
  /\ UNCHANGED <<entry, run, caller, slots, queues, coroutine, cur, loops, edge, firing,
                 outside, wpc, started>>

(* The event a suspended coroutine awaits: a timer, or another task.       *)
Wake ==
  /\ \E n \in armed : armed' = armed \ {n} /\ resumes' = [resumes EXCEPT ![n] = @ + 1]
  /\ UNCHANGED <<entry, run, caller, slots, starts, task, stop, left, worker, outside, wpc,
                 started>>
-----------------------------------------------------------------------------
(* mark_node_terminal().  Nobody else reads the outcome before the count.  *)
Count(w) ==
  /\ At(w, "count")
  /\ outcome' = [outcome EXCEPT ![cur[w]] = verdict[w]]
  /\ report' = [report EXCEPT ![verdict[w]] = @ + 1]
  /\ Go(w, "fetch")
  /\ UNCHANGED <<predecessors, failedRequired, remaining, runState, callbacks, caller, slots,
                 queues, coroutine, cur, verdict, loops, edge, firing, outside, wpc, started>>

MutantFetch(w) ==
  /\ At(w, "fetch")
  /\ remaining' = Decrement(remaining)
  /\ Go(w, IF remaining' <= 1 /\ runState = "Running" THEN "publish" ELSE "trigger")
  /\ UNCHANGED <<entry, report, runState, callbacks, caller, slots, queues, coroutine, cur,
                 verdict, loops, edge, firing, outside, wpc, started>>

Fetch(w) ==
  /\ At(w, "fetch")
  /\ remaining' = Decrement(remaining)
  /\ Go(w, IF remaining = 1 THEN "publish" ELSE "trigger")
  /\ UNCHANGED <<entry, report, runState, callbacks, caller, slots, queues, coroutine, cur,
                 verdict, loops, edge, firing, outside, wpc, started>>

Publish(w) ==
  /\ At(w, "publish")
  /\ runState' = CASE report["Failed"] > 0 -> "Failed"
                   [] report["Failed"] = 0 /\ report["Cancelled"] > 0 -> "Cancelled"
                   [] OTHER -> "Succeeded"
  /\ callbacks' = {} /\ firing' = [firing EXCEPT ![w] = callbacks]
  /\ Go(w, "fire")
  /\ UNCHANGED <<entry, remaining, report, caller, slots, queues, coroutine, cur, verdict,
                 loops, edge, outside, wpc, started>>

(* The callbacks of the watchers, with no lock held.                       *)
Fire(w) ==
  /\ At(w, "fire")
  /\ \/ \E x \in firing[w] : /\ firing' = [firing EXCEPT ![w] = @ \ {x}]
                             /\ wpc' = [wpc EXCEPT ![x] = "woken"]
                             /\ UNCHANGED pc
     \/ firing[w] = {} /\ Go(w, "trigger") /\ UNCHANGED <<firing, wpc>>
  /\ UNCHANGED <<entry, run, caller, slots, queues, coroutine, cur, verdict, loops, edge,
                 outside, started>>
-----------------------------------------------------------------------------
(* trigger_successors(): one loop per call, the innermost last.            *)

Enter(w) ==
  /\ At(w, "trigger")
  /\ loops' = [loops EXCEPT ![w] = Append(@, [failed |-> outcome[cur[w]] # "Succeeded",
                                             of |-> cur[w], todo |-> Succ(cur[w])])]
  /\ Go(w, "edge")
  /\ UNCHANGED <<entry, run, caller, slots, queues, coroutine, cur, verdict, edge, firing,
                 outside, wpc, started>>

MutantNextEdge(w) ==
  LET loop == Last(loops[w]) IN
  /\ At(w, "edge")
  /\ \E n \in loop.todo :
       /\ loops' = [loops EXCEPT ![w] = Append(Front(@), [loop EXCEPT !.todo = @ \ {n}])]
       /\ failedRequired' = IF loop.failed THEN failedRequired \cup {n} ELSE failedRequired
       /\ edge' = [edge EXCEPT ![w] = n]
  /\ Go(w, "release")
  /\ UNCHANGED <<predecessors, outcome, run, caller, slots, queues, coroutine, cur, verdict,
                 firing, outside, wpc, started>>

NextEdge(w) ==
  LET loop == Last(loops[w]) IN
  /\ At(w, "edge")
  /\ \E n \in loop.todo :
       /\ loops' = [loops EXCEPT ![w] = Append(Front(@), [loop EXCEPT !.todo = @ \ {n}])]
       /\ failedRequired' = IF loop.failed /\ <<loop.of, n>> \in EdgesOf(input, {TRUE})
                            THEN failedRequired \cup {n} ELSE failedRequired
       /\ edge' = [edge EXCEPT ![w] = n]
  /\ Go(w, "release")
  /\ UNCHANGED <<predecessors, outcome, run, caller, slots, queues, coroutine, cur, verdict,
                 firing, outside, wpc, started>>

EndLoop(w) ==
  /\ At(w, "edge") /\ Last(loops[w]).todo = {}
  /\ loops' = [loops EXCEPT ![w] = Front(@)]
  /\ Go(w, IF Len(loops[w]) = 1 THEN "idle" ELSE "edge")
  /\ UNCHANGED <<entry, run, caller, slots, queues, coroutine, cur, verdict, edge, firing,
                 outside, wpc, started>>

MutantRelease(w) ==
  LET n == edge[w] IN
  /\ At(w, "release")
  /\ predecessors' = [predecessors EXCEPT ![n] = Decrement(@)]
  /\ Go(w, IF n \notin failedRequired /\ predecessors[n] = 1 THEN "decide" ELSE "edge")
  /\ UNCHANGED <<failedRequired, outcome, run, caller, slots, queues, coroutine, cur, verdict,
                 loops, edge, firing, outside, wpc, started>>

(* fetch_sub: whoever takes the counter from 1 to 0 owns the successor.    *)
Release(w) ==
  LET n == edge[w] IN
  /\ At(w, "release")
  /\ predecessors' = [predecessors EXCEPT ![n] = Decrement(@)]
  /\ Go(w, IF predecessors[n] = 1 THEN "decide" ELSE "edge")
  /\ UNCHANGED <<failedRequired, outcome, run, caller, slots, queues, coroutine, cur, verdict,
                 loops, edge, firing, outside, wpc, started>>

MutantDecide(w) ==
  LET n == edge[w] IN
  /\ At(w, "decide")
  /\ \/ /\ n \in failedRequired \/ cancelRequested
        /\ cur' = [cur EXCEPT ![w] = n]
        /\ verdict' = [verdict EXCEPT ![w] = "Cancelled"]
        /\ Go(w, "count")
        /\ UNCHANGED starts
     \/ /\ n \notin failedRequired /\ ~cancelRequested
        /\ starts' = [starts EXCEPT ![n] = @ + 1]
        /\ Go(w, "edge")
        /\ UNCHANGED <<cur, verdict>>
  /\ UNCHANGED <<entry, run, caller, slots, resumes, coroutine, loops, edge, firing, outside,
                 wpc, started>>

(* The owner posts the successor, or ends it Cancelled on the spot and     *)
(* goes on with its successors.                                            *)
Decide(w) ==
  LET n == edge[w] IN
  /\ At(w, "decide")
  /\ \/ /\ n \in failedRequired \/ cancelRequested
        /\ slots' = IF input.internal THEN slots ELSE slots - 1
        /\ cur' = [cur EXCEPT ![w] = n]
        /\ verdict' = [verdict EXCEPT ![w] = "Cancelled"]
        /\ Go(w, "count")
        /\ UNCHANGED starts
     \/ /\ n \notin failedRequired /\ ~cancelRequested
        /\ starts' = [starts EXCEPT ![n] = @ + 1]
        /\ Go(w, "edge")
        /\ UNCHANGED <<slots, cur, verdict>>
  /\ UNCHANGED <<entry, run, caller, resumes, coroutine, loops, edge, firing, outside, wpc,
                 started>>
-----------------------------------------------------------------------------
(* GraphRun::request_cancel(), by the holder of the handle: the flag, and  *)
(* then cancel_pre_start() of each node, which only coroutines heed.       *)
RequestCancel ==
  /\ input.cancels /\ rpc = "returned" /\ cpc = "idle"
  /\ cancelRequested' = TRUE
  /\ cpc' = "telling" /\ toCancel' = Nodes
  /\ UNCHANGED <<entry, run, caller, slots, queues, coroutine, worker, immediate, swept, wpc,
                 started>>

CancelNode ==
  /\ cpc = "telling"
  /\ \E n \in toCancel :
       /\ \A m \in toCancel : n <= m
       /\ IF n \in Coros THEN RequestStop(n) ELSE UNCHANGED <<stop, task, armed, resumes>>
       /\ toCancel' = toCancel \ {n}
  /\ UNCHANGED <<entry, run, caller, slots, starts, left, worker, cancelRequested, cpc,
                 immediate, swept, wpc, started>>

CancelReturns ==
  /\ cpc = "telling" /\ toCancel = {}
  /\ cpc' = "done"
  /\ UNCHANGED <<entry, run, caller, slots, queues, coroutine, worker, cancelRequested,
                 toCancel, immediate, swept, wpc, started>>

(* shutdown_now(): the mode, then cancel_unstarted(), which drops the      *)
(* start items, releases their slots and keeps the resume segments.        *)
ShutdownNow ==
  /\ input.closes /\ rpc \in {"post", "returned"} /\ ~immediate
  /\ immediate' = TRUE
  /\ UNCHANGED <<entry, run, caller, slots, queues, coroutine, worker, cancelRequested, cpc,
                 toCancel, swept, wpc, started>>

CancelUnstarted ==
  /\ immediate /\ ~swept
  /\ swept' = TRUE
  /\ starts' = [n \in Nodes |-> 0]
  /\ slots' = IF input.internal THEN slots
              ELSE slots - Cardinality(UNION {{n} \X (1 .. starts[n]) : n \in Nodes})
  /\ UNCHANGED <<entry, run, caller, resumes, coroutine, worker, cancelRequested, cpc,
                 toCancel, immediate, wpc, started>>
-----------------------------------------------------------------------------
(* GraphRunAwaiter: await_ready(), add_completion_callback(), and, once    *)
(* resumed, get_report(), which waits for the run.                         *)
AwaitReady(x) ==
  /\ wpc[x] = "idle" /\ rpc = "returned"
  /\ wpc' = [wpc EXCEPT ![x] = IF runState = "Running" THEN "register" ELSE "woken"]
  /\ UNCHANGED <<entry, run, caller, slots, queues, coroutine, worker, outside, started>>

MutantRegister(x) ==
  /\ wpc[x] = "register"
  /\ wpc' = [wpc EXCEPT ![x] = "waiting"]
  /\ callbacks' = callbacks \cup {x}
  /\ UNCHANGED <<entry, remaining, report, runState, caller, slots, queues, coroutine, worker,
                 outside, started>>

Register(x) ==
  /\ wpc[x] = "register"
  /\ \/ /\ remaining = 0
        /\ wpc' = [wpc EXCEPT ![x] = "woken"]
        /\ UNCHANGED callbacks
     \/ /\ remaining # 0
        /\ wpc' = [wpc EXCEPT ![x] = "waiting"]
        /\ callbacks' = callbacks \cup {x}
  /\ UNCHANGED <<entry, remaining, report, runState, caller, slots, queues, coroutine, worker,
                 outside, started>>

GetReport(x) ==
  /\ wpc[x] = "woken" /\ runState # "Running"
  /\ wpc' = [wpc EXCEPT ![x] = "done"]
  /\ UNCHANGED <<entry, run, caller, slots, queues, coroutine, worker, outside, started>>

(* GraphRun::wait() and wait_for() of an outside thread: at once when the  *)
(* run is complete, or asleep on cv.                                       *)
BeginWait(x) ==
  /\ wpc[x] = "idle" /\ rpc = "returned"
  /\ wpc' = [wpc EXCEPT ![x] = IF runState = "Running" THEN "asleep" ELSE "done"]
  /\ UNCHANGED <<entry, run, caller, slots, queues, coroutine, worker, outside, started>>

(* The run state is stored under the mutex of cv, and notified.            *)
EndWait(x) ==
  /\ wpc[x] = "asleep" /\ runState # "Running"
  /\ wpc' = [wpc EXCEPT ![x] = "done"]
  /\ UNCHANGED <<entry, run, caller, slots, queues, coroutine, worker, outside, started>>

(* The deadline of a wait_for() passes first.                              *)
TimeOut(x) ==
  /\ wpc[x] = "asleep" /\ runState = "Running"
  /\ wpc' = [wpc EXCEPT ![x] = "timedOut"]
  /\ UNCHANGED <<entry, run, caller, slots, queues, coroutine, worker, outside, started>>
-----------------------------------------------------------------------------
Runner == Freeze \/ Admit \/ Materialize \/ PostRoot
Node(w) == Begin(w) \/ EndBody(w) \/ BeginCoroutine(w) \/ SuspendSegment(w) \/ EndSegment(w)
           \/ Check(w)
Mark(w) == Count(w) \/ Fetch(w) \/ Publish(w) \/ Fire(w)
Propagate(w) == Enter(w) \/ NextEdge(w) \/ EndLoop(w) \/ Release(w) \/ Decide(w)
Work(w) == ClaimStart(w) \/ ClaimResume(w) \/ Node(w) \/ Mark(w) \/ Propagate(w)
Canceller == CancelNode \/ CancelReturns
Watch(x) == Register(x) \/ GetReport(x) \/ EndWait(x)

Next == \/ Runner \/ Wake \/ Canceller \/ RequestCancel \/ ShutdownNow \/ CancelUnstarted
        \/ \E w \in Workers : Work(w)
        \/ \E x \in Watchers : AwaitReady(x) \/ BeginWait(x) \/ TimeOut(x) \/ Watch(x)

Spec == Init /\ [][Next]_vars

(* Threads that can take a step take it, and what a coroutine awaits comes *)
(* about.  Nobody has to run a graph, to cancel, to shut down or to watch. *)
FairSpec ==
  /\ Spec
  /\ WF_vars(Wake) /\ WF_vars(Canceller) /\ WF_vars(CancelUnstarted)
  /\ \A w \in Workers : WF_vars(Work(w))
  /\ \A x \in Watchers : WF_vars(Watch(x))
-----------------------------------------------------------------------------
(* R-070, R-071, R-072: the run is a DependencyRun.                        *)
Status == [n \in Nodes |-> IF outcome[n] # "Ready" THEN outcome[n]
                           ELSE IF n \in started THEN "Started" ELSE "Waiting"]
Graph(i) == [nodes |-> i.nodes, require |-> EdgesOf(i, {TRUE}), after |-> EdgesOf(i, {FALSE})]
AllGraphs == {Graph(i) : i \in Inputs}
Promise == INSTANCE DependencyRun WITH
  Graphs <- AllGraphs, graph <- Graph(input), status <- Status, cancelled <- cancelRequested,
  verdict <- runState
DagSpec == Promise!Spec

(* R-069, D-105: a builder that freeze() lets through has nodes that can   *)
(* be put into an order every edge respects; one refused as a cycle has    *)
(* not, and its witness is a closed path along its edges that passes no    *)
(* node twice, the same in whatever order the edges were added.            *)
Ordered(i) == \E rank \in [i.nodes -> i.nodes] :
                \A k \in DOMAIN i.edges : rank[i.edges[k].from] < rank[i.edges[k].to]
Reordered(es) == {[k \in DOMAIN es |-> es[p[k]]] :
                    p \in {q \in [DOMAIN es -> DOMAIN es] : IsInjective(q)}}
FreezeDecides ==
  LET c == refusal.witness IN
  /\ rpc = "admit" => Ordered(input)
  /\ refusal.reason = "Cycle" =>
       /\ ~Ordered(input)
       /\ c \in Seq(Nodes) /\ Len(c) > 2 /\ c[1] = c[Len(c)] /\ IsInjective(Tail(c))
       /\ \A k \in 1 .. Len(c) - 1 : <<c[k], c[k + 1]>> \in Edges
       /\ \A es \in Reordered(input.edges) : Witness(Cardinality(Nodes), es) = c

(* R-070: each node's slot comes back exactly once, by the claim of its    *)
(* start, the cancellation on the spot, the sweep of a shutdown or the     *)
(* rollback, whichever of them the node meets.                             *)
Owed == (IF rpc \in {"post", "returned"} THEN roots ELSE Nodes)
        \cup {n \in Nodes : predecessors[n] > 0}
        \cup {n \in Nodes : starts[n] > 0}
        \cup {edge[w] : w \in {v \in Workers : pc[v] = "decide"}}
SlotsOwed == slots = IF input.internal \/ rpc \in {"freeze", "refused", "admit", "thrown"} THEN 0
                     ELSE Cardinality(Owed)

(* R-072: the report is complete when the run is, and it does not change:  *)
(* each node is counted under its outcome once.                            *)
ReportAgrees ==
  runState # "Running" =>
    /\ \A o \in Terminal : report[o] = Cardinality({n \in Nodes : outcome[n] = o})
    /\ \A n \in Nodes : outcome[n] # "Ready"

(* The types, and that the report agrees with the outcomes. *)
Inv == TypeOK /\ ReportAgrees

(* R-072, D-112: when the run is published every node is terminal, whoever *)
(* ended it and however its segments were shared among the workers.        *)
PublishedIsTerminal == runState # "Running" => \A n \in Nodes : outcome[n] # "Ready"

(* R-076: a watcher that waits will be called: its callback is registered  *)
(* with a run that will still complete, or is about to be run.             *)
WatcherHeld ==
  \A x \in Watchers : wpc[x] = "waiting" =>
    \/ x \in callbacks /\ runState = "Running"
    \/ \E w \in Workers : x \in firing[w]

(* R-071: without a shutdown every run completes, and who waits for it     *)
(* returns: some branch of the graph always moves, and no join waits for a *)
(* predecessor already counted.                                            *)
Asleep == {x \in Watchers : wpc[x] = "asleep"}
RunCompletes == rpc = "returned" ~> (runState # "Running" /\ Asleep = {}) \/ immediate

(* R-106: shutdown_now() cancels what has not started, so that its waiters *)
(* return; here, that the run completes then too.                          *)
ShutdownCompletes == immediate ~> runState # "Running"
=============================================================================
