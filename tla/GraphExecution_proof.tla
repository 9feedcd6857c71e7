------------------------ MODULE GraphExecution_proof ------------------------
(***************************************************************************)
(* Proofs about GraphExecution, for any graphs, workers and watchers: each *)
(* node is counted once, a completed run tells the truth about its nodes,  *)
(* every slot comes back once, no watcher is forgotten, and a run keeps    *)
(* what DependencyRun promises.                                            *)
(***************************************************************************)
EXTENDS GraphExecution, FiniteSetTheorems, TLAPS

Loop == [failed : BOOLEAN, of : Nodes, todo : SUBSET Nodes]
Live == rpc \in {"post", "returned"}   \* the counters are set
Required == EdgesOf(input, {TRUE})

(* The inputs for which all of this holds: no coroutine node suspends, or  *)
(* a single worker runs all segments and nobody cancels.  Of the others    *)
(* it does not hold, since a node may then be counted twice.               *)
Unbroken(i) == \A n \in i.coros : i.suspends[n] = 0
Alone(i) == ~i.cancels /\ \A v, w \in i.workers : v = w
WholeInputs == \A i \in Inputs : Unbroken(i) \/ Alone(i)

(* Types, and what belongs to the place of a worker and of the caller.     *)
At3 == {"begin", "body", "segment", "check"}
Marking == {"fetch", "publish", "fire", "trigger"}
PlaceAt(w) ==
  /\ pc[w] # "idle" => w \in input.workers /\ Live
  /\ pc[w] \in At3 \cup Marking \cup {"count"} => cur[w] \in Nodes
  /\ pc[w] \in {"segment", "check"} => cur[w] \in Coros
  /\ pc[w] = "body" => cur[w] \notin Coros
  /\ pc[w] \in At3 \cup {"idle"} => loops[w] = <<>>
  /\ pc[w] \in {"edge", "release", "decide"} => loops[w] # <<>>
  /\ pc[w] # "fire" => firing[w] = {}
  /\ pc[w] = "decide" => edge[w] \in Nodes
Places == \A w \in Workers : PlaceAt(w)
Setting ==
  /\ rpc \notin {"freeze", "refused"} => \A n \in Nodes : Pred(n) \cup Succ(n) \subseteq Nodes
  /\ ~Live => predecessors = [n \in Nodes |-> 0] /\ callbacks = {}
  /\ rpc \in {"freeze", "admit", "materialize"} => runState = "Running"
  /\ cancelRequested \/ cpc = "telling" => input.cancels
  /\ \A x \in Watchers : wpc[x] = "register" => rpc = "returned"
Typed == TypeOK /\ loops \in [Workers -> Seq(Loop)] /\ Places /\ Setting

(* Coroutine nodes that have suspended.                                    *)
Sleeps == armed \cup {n \in Coros : resumes[n] # 0}
Segments ==
  /\ Unbroken(input) \/ Alone(input)
  /\ resumes \in [Coros -> {0, 1}]
  /\ \A n \in armed : resumes[n] = 0
  /\ Unbroken(input) => Sleeps = {} /\ \A n \in Coros : left[n] = 0
  /\ \A n \in Sleeps : task[n] \in {"Ready", "Suspended"}
  /\ \A w \in Workers : pc[w] = "check" => (task[cur[w]] \in Terminal <=> cur[w] \notin Sleeps)
  /\ ~input.cancels => /\ \A n \in Coros : task[n] \in Terminal => n \in started
                       /\ \A w \in Workers : pc[w] = "segment" => task[cur[w]] \notin Terminal

(* The node a worker has to bring to its end, and the one it has just      *)
(* counted.                                                                *)
Has(w, n) ==
  \/ pc[w] \in {"begin", "body", "segment", "count"} /\ cur[w] = n
  \/ pc[w] = "check" /\ cur[w] = n /\ n \notin Sleeps
  \/ pc[w] = "decide" /\ edge[w] = n
Marks(w, n) == pc[w] \in Marking /\ cur[w] = n
Of(w, k, n) == k \in DOMAIN loops[w] /\ loops[w][k].of = n

(* A node that may be started is in one place, has no predecessor to wait  *)
(* for and no outcome yet.                                                 *)
Due(n) == n \in roots \/ starts[n] # 0 \/ n \in Sleeps \/ \E w \in Workers : Has(w, n)
SingleAt(n) ==
  /\ starts[n] \in {0, 1}
  /\ Due(n) => Live /\ outcome[n] = "Ready" /\ predecessors[n] = 0
  /\ n \in roots => starts[n] = 0 /\ n \notin Sleeps /\ \A w \in Workers : ~Has(w, n)
  /\ starts[n] # 0 => n \notin Sleeps /\ \A w \in Workers : ~Has(w, n)
  /\ n \in Sleeps => \A w \in Workers : ~Has(w, n)
  /\ \A w, v \in Workers : Has(w, n) /\ Has(v, n) => w = v
Single == \A n \in Nodes : SingleAt(n)

(* A counted node has one worker that tells its successors.                *)
Counted ==
  /\ \A n \in Nodes : outcome[n] # "Ready" => Live /\ predecessors[n] = 0
  /\ \A w \in Workers : \A n \in Nodes : Marks(w, n) => outcome[n] # "Ready"
  /\ \A w, v \in Workers : \A n \in Nodes : Marks(w, n) /\ Marks(v, n) => w = v
  /\ \A w, v \in Workers : \A k \in DOMAIN loops[w] : ~Marks(v, loops[w][k].of)
  /\ \A w, v \in Workers : \A k \in DOMAIN loops[w], j \in DOMAIN loops[v] :
       loops[w][k].of = loops[v][j].of => w = v /\ k = j

(* A call of trigger_successors().                                         *)
LoopAt(w, k) ==
  LET loop == loops[w][k] IN
  /\ outcome[loop.of] # "Ready" /\ loop.todo \subseteq Succ(loop.of)
  /\ loop.failed <=> outcome[loop.of] # "Succeeded"
Looping ==
  /\ \A w \in Workers : \A k \in DOMAIN loops[w] : LoopAt(w, k)
  /\ \A w \in Workers : pc[w] = "release" =>
       /\ edge[w] \in Succ(Last(loops[w]).of) /\ edge[w] \notin Last(loops[w]).todo

(* The edges not yet told, and the counter that counts them.               *)
Untold(w, m, n) ==
  \E k \in DOMAIN loops[w] :
    /\ loops[w][k].of = m
    /\ n \in loops[w][k].todo \/ (pc[w] = "release" /\ edge[w] = n /\ k = Len(loops[w]))
Pending(m, n) ==
  /\ m \in Pred(n)
  /\ outcome[m] = "Ready" \/ \E w \in Workers : Marks(w, m) \/ Untold(w, m, n)
Waits(n) == {m \in Nodes : Pending(m, n)}
Joins == Live => \A n \in Nodes : predecessors[n] = Cardinality(Waits(n))

(* What a failed predecessor has told, and what the place of a node owes   *)
(* to it.                                                                  *)
Bad(m) == outcome[m] \notin {"Ready", "Succeeded"}
Told ==
  /\ \A n \in failedRequired : \E m \in Nodes : <<m, n>> \in Required /\ Bad(m)
  /\ \A m, n \in Nodes : <<m, n>> \in Required /\ Bad(m) =>
       \/ n \in failedRequired
       \/ \E w \in Workers : \/ Marks(w, m)
                             \/ \E k \in DOMAIN loops[w] :
                                  loops[w][k].of = m /\ n \in loops[w][k].todo

(* A node starts once, when none of its required predecessors has failed;  *)
(* one that ends without a start was cancelled.                            *)
StartAt(n) ==
  /\ n \in started => /\ Live /\ n \notin roots /\ starts[n] = 0 /\ predecessors[n] = 0
                      /\ \A w \in Workers : /\ pc[w] = "begin" => cur[w] # n
                                            /\ pc[w] = "decide" => edge[w] # n
  /\ n \in roots \/ n \in started \/ starts[n] # 0 => n \notin failedRequired
  /\ n \in Sleeps => n \in started
Begun(w) ==
  /\ pc[w] = "begin" => cur[w] \notin failedRequired
  /\ pc[w] \in {"body", "segment", "check"} => cur[w] \in started
  /\ pc[w] = "count" /\ cur[w] \notin started =>
       verdict[w] = "Cancelled" /\ (cancelRequested \/ cur[w] \in failedRequired)
Starting == (\A n \in Nodes : StartAt(n)) /\ \A w \in Workers : Begun(w)

(* The counters of the run.                                                *)
Uncounted == {n \in Nodes : outcome[n] = "Ready" \/ \E w \in Workers : pc[w] = "fetch" /\ cur[w] = n}
Counters ==
  /\ remaining = Cardinality(Uncounted)
  /\ \A o \in Terminal : report[o] = Cardinality({n \in Nodes : outcome[n] = o})
  /\ runState # "Running" => Uncounted = {} /\ callbacks = {}
  /\ \A w \in Workers : pc[w] = "publish" =>
       Uncounted = {} /\ runState = "Running" /\ \A v \in Workers : pc[v] = "publish" => v = w

IInv == /\ Typed /\ Segments /\ Single /\ Counted /\ Looping /\ Joins /\ Told /\ Starting
        /\ Counters /\ SlotsOwed /\ WatcherHeld
-----------------------------------------------------------------------------
(* The graph is what freeze() has let through: its edges are between its   *)
(* own nodes.                                                              *)
LEMMA InputFacts ==
  ASSUME Typed
  PROVE  /\ input \in Inputs /\ IsFiniteSet(Nodes) /\ Coros \subseteq Nodes
         /\ Cardinality(Nodes) \in Nat /\ Cardinality(Nodes) < Wrap /\ Wrap \in Nat \ {0}
         /\ Nodes \subseteq Nat /\ None \notin Nodes /\ input.workers \subseteq Workers
         /\ \A m, n : m \in Pred(n) <=> n \in Succ(m)
         /\ \A m, n : <<m, n>> \in Required => m \in Pred(n)
         /\ input.suspends \in [Coros -> Nat]
         /\ {input.internal, input.cancels, input.closes} \subseteq BOOLEAN
<1>1. input \in Inputs /\ IsInput(input)
  BY GraphAssumption DEF Typed, TypeOK
<1>2. \A m, n : m \in Pred(n) <=> n \in Succ(m)
  BY DEF Pred, Succ
<1>3. \A m, n : <<m, n>> \in Required => m \in Pred(n)
  <2> SUFFICES ASSUME NEW m, NEW n, <<m, n>> \in Required PROVE m \in Pred(n)
    OBVIOUS
  <2>1. PICK e \in ToSet(input.edges) : <<m, n>> = <<e.from, e.to>>
    BY DEF Required, EdgesOf
  <2> QED BY <2>1 DEF Pred
<1>4. IsFiniteSet(Nodes) /\ Cardinality(Nodes) \in Nat /\ Cardinality(Nodes) < Wrap
  <2>1. IsFiniteSet(Nodes)
    BY <1>1 DEF IsInput, Nodes
  <2>2. Cardinality(Nodes) < Wrap
    BY <1>1 DEF IsInput, Nodes
  <2> QED BY <2>1, <2>2, FS_CardinalityType
<1>5. Nodes = 1 .. Cardinality(Nodes)
  BY <1>1 DEF IsInput, Nodes
<1>6. Nodes \subseteq Nat
  BY <1>4, <1>5
<1>7. None \notin Nodes
  BY <1>6, GraphAssumption
<1>8. Coros \subseteq Nodes /\ input.workers \subseteq Workers /\ input.suspends \in [Coros -> Nat]
      /\ {input.internal, input.cancels, input.closes} \subseteq BOOLEAN
  BY <1>1 DEF IsInput, Nodes, Coros
<1> QED BY <1>1, <1>2, <1>3, <1>4, <1>6, <1>7, <1>8, GraphAssumption

(* A counter above zero goes down by one.                                  *)
LEMMA Decremented ==
  ASSUME NEW k \in 1 .. Wrap - 1
  PROVE  Decrement(k) = k - 1 /\ Decrement(k) \in 0 .. Wrap - 1
<1>1. Wrap \in Nat \ {0}
  BY GraphAssumption
<1> DEFINE i == k + Wrap - 1
           x == i % Wrap
           a == i \div Wrap
<1>2. i \in Nat /\ i = k - 1 + Wrap
  BY <1>1
<1>3. i = (Wrap * a) + x /\ a \in Nat /\ x \in 0 .. Wrap - 1
  BY <1>1, <1>2
<1> HIDE DEF a, x
<1>4. a = 1
  <2>1. a < 2
    <3> SUFFICES ASSUME a >= 2 PROVE FALSE
      BY <1>3
    <3>1. Wrap * a >= Wrap * 2
      BY <1>1, <1>3
    <3> QED BY <3>1, <1>1, <1>2, <1>3
  <2>2. a # 0
    BY <1>1, <1>2, <1>3
  <2> QED BY <2>1, <2>2, <1>3
<1>5. x = k - 1
  BY <1>1, <1>2, <1>3, <1>4
<1> QED BY <1>5, <1>1 DEF Decrement, x

(* TypeOK in parts, so that a step need look only at those it changes.     *)
CallerType ==
  /\ input \in Inputs
  /\ rpc \in {"freeze", "refused", "admit", "materialize", "post", "returned", "thrown"}
  /\ roots \subseteq Nodes
  /\ refusal.reason \in {"none", "ForeignNode", "SelfEdge", "DuplicateEdge", "Cycle"}
EntryType == /\ predecessors \in [Nodes -> 0 .. Wrap - 1] /\ failedRequired \subseteq Nodes
             /\ outcome \in [Nodes -> Terminal \cup {"Ready"}]
RunType == /\ remaining \in 0 .. Wrap - 1 /\ report \in [Terminal -> Nat]
           /\ runState \in Terminal \cup {"Running"} /\ callbacks \subseteq Watchers
QueueType == starts \in [Nodes -> Nat] /\ resumes \in [Coros -> Nat]
CoroType == /\ task \in [Coros -> Terminal \cup {"Ready", "Running", "Suspended"}]
            /\ stop \in [Coros -> BOOLEAN] /\ left \in [Coros -> Nat] /\ armed \subseteq Coros
Steps == {"idle", "begin", "body", "segment", "check", "count", "fetch", "publish", "fire",
          "trigger", "edge", "release", "decide"}
WorkerType ==
  /\ pc \in [Workers -> Steps]
  /\ cur \in [Workers -> Nodes \cup {None}] /\ edge \in [Workers -> Nodes \cup {None}]
  /\ verdict \in [Workers -> Terminal] /\ firing \in [Workers -> SUBSET Watchers]
LoopType == loops \in [Workers -> Seq(Loop)]
OutsideType ==
  /\ cpc \in {"idle", "telling", "done"} /\ toCancel \subseteq Nodes
  /\ {cancelRequested, immediate, swept} \subseteq BOOLEAN
  /\ wpc \in [Watchers -> {"idle", "register", "waiting", "woken", "asleep", "timedOut", "done"}]
  /\ started \subseteq Nodes

Parts == /\ CallerType /\ EntryType /\ RunType /\ QueueType /\ CoroType /\ WorkerType
         /\ LoopType /\ OutsideType /\ slots \in 0 .. Cardinality(Nodes)
         /\ Places /\ Setting

(* The parts make up the types.                                            *)
LEMMA TypedParts == Typed <=> Parts
<1>1. ASSUME LoopType
      PROVE  \A w \in Workers : \A k \in DOMAIN loops[w] :
               loops[w][k] \in [failed : BOOLEAN, of : Nodes, todo : SUBSET Nodes]
  <2> SUFFICES ASSUME NEW w \in Workers, NEW k \in DOMAIN loops[w]
               PROVE  loops[w][k] \in Loop
    BY DEF Loop
  <2>1. loops[w] \in Seq(Loop)
    BY <1>1 DEF LoopType
  <2> QED BY <2>1
<1>2. LoopType <=> loops \in [Workers -> Seq(Loop)]
  BY DEF LoopType
<1> QED
  BY <1>1, <1>2
     DEF Typed, Parts, TypeOK, CallerType, EntryType, RunType, QueueType, CoroType,
         Steps,
     WorkerType, OutsideType

(* And so they do after a step.                                            *)
LEMMA TypedNext == Typed' <=> Parts'
BY TypedParts, PTL

(* What a step leaves alone keeps its type.                                *)
LEMMA TypesKept ==
  ASSUME Typed, UNCHANGED input
  PROVE  /\ Nodes' = Nodes /\ Coros' = Coros /\ Required' = Required
         /\ \A n : Pred(n)' = Pred(n) /\ Succ(n)' = Succ(n)
         /\ UNCHANGED <<rpc, roots, refusal>> => CallerType'
         /\ UNCHANGED <<predecessors, failedRequired, outcome>> => EntryType'
         /\ UNCHANGED <<remaining, report, runState, callbacks>> => RunType'
         /\ UNCHANGED <<starts, resumes>> => QueueType'
         /\ UNCHANGED <<task, stop, left, armed>> => CoroType'
         /\ UNCHANGED <<pc, cur, verdict, edge, firing>> => WorkerType'
         /\ UNCHANGED loops => LoopType'
         /\ UNCHANGED <<cpc, toCancel, cancelRequested, immediate, swept, wpc, started>>
              => OutsideType'
<1>1. Parts
  BY TypedParts
<1>2. Nodes' = Nodes /\ Coros' = Coros /\ Required' = Required
  BY DEF Nodes, Coros, Required, EdgesOf
<1>3. \A n : Pred(n)' = Pred(n) /\ Succ(n)' = Succ(n)
  BY DEF Pred, Succ
<1>4. UNCHANGED <<rpc, roots, refusal>> => CallerType'
  BY <1>1, <1>2 DEF Parts, CallerType
<1>5. UNCHANGED <<predecessors, failedRequired, outcome>> => EntryType'
  BY <1>1, <1>2 DEF Parts, EntryType, Terminal
<1>6. UNCHANGED <<remaining, report, runState, callbacks>> => RunType'
  BY <1>1, <1>2 DEF Parts, RunType, Terminal
<1>7. UNCHANGED <<starts, resumes>> => QueueType'
  BY <1>1, <1>2 DEF Parts, QueueType
<1>8. UNCHANGED <<task, stop, left, armed>> => CoroType'
  BY <1>1, <1>2 DEF Parts, CoroType, Terminal
<1>9. UNCHANGED <<pc, cur, verdict, edge, firing>> => WorkerType'
  BY <1>1, <1>2 DEF Parts, WorkerType, Terminal, Steps
<1>10. UNCHANGED loops => LoopType'
  BY <1>1, <1>2 DEF Parts, LoopType, Loop
<1>11. UNCHANGED <<cpc, toCancel, cancelRequested, immediate, swept, wpc, started>> => OutsideType'
  BY <1>1, <1>2 DEF Parts, OutsideType
<1> QED BY <1>2, <1>3, <1>4, <1>5, <1>6, <1>7, <1>8, <1>9, <1>10, <1>11

(* Places of a node that a step leaves alone.                              *)
SamePlace(n) ==
  /\ n \in roots' <=> n \in roots
  /\ starts'[n] = starts[n]
  /\ n \in Sleeps' <=> n \in Sleeps
  /\ \A w \in Workers : Has(w, n)' <=> Has(w, n)

(* A node whose place and entry a step leaves alone is still in one place. *)
LEMMA SingleKept ==
  ASSUME Single, NEW n \in Nodes, SamePlace(n), Live' <=> Live,
         outcome'[n] = outcome[n], predecessors'[n] = predecessors[n]
  PROVE  SingleAt(n)'
<1>1. SingleAt(n)
  BY DEF Single
<1>2. Due(n)' <=> Due(n)
  BY DEF Due, SamePlace
<1>3. /\ starts'[n] = starts[n]
      /\ n \in Sleeps' <=> n \in Sleeps
      /\ n \in roots' <=> n \in roots
      /\ \A w \in Workers : Has(w, n)' <=> Has(w, n)
  BY DEF SamePlace
<1>4. (n \in Sleeps)' <=> n \in Sleeps
  BY <1>3
<1> QED BY <1>1, <1>2, <1>3, <1>4 DEF SingleAt

(* A step before the count leaves what is told to the successors alone.    *)
Early == {"idle", "begin", "body", "segment", "check", "count"}
EarlyMove(v) == \/ pc'[v] = pc[v] /\ cur'[v] = cur[v]
                \/ pc[v] \in Early /\ pc'[v] \in Early

(* A step that marks nothing and tells nothing.                            *)
LEMMA ToldSame ==
  ASSUME IInv, UNCHANGED <<input, failedRequired, outcome, loops>>,
         \A v \in Workers : \A m : Marks(v, m)' <=> Marks(v, m)
  PROVE  Told'
<1>1. Nodes' = Nodes /\ Required' = Required
  BY DEF Nodes, Required, EdgesOf
<1>2. \A m : Bad(m)' <=> Bad(m)
  BY DEF Bad
<1>3. ASSUME NEW m \in Nodes, NEW n \in Nodes, <<m, n>> \in Required, Bad(m)
      PROVE  \/ n \in failedRequired
             \/ \E w \in Workers : \/ Marks(w, m)'
                                   \/ \E k \in DOMAIN loops[w] :
                                        loops[w][k].of = m /\ n \in loops[w][k].todo
  BY <1>3 DEF IInv, Told
<1> QED BY <1>1, <1>2, <1>3 DEF IInv, Told

(* Nobody begins or ends telling, and nobody tells.                        *)
LEMMA TellingSame ==
  ASSUME IInv, UNCHANGED <<input, predecessors, failedRequired, outcome, loops>>, Live' <=> Live,
         \A v \in Workers : \A m : Marks(v, m)' <=> Marks(v, m),
         \A v \in Workers : /\ pc'[v] = "release" <=> pc[v] = "release"
                            /\ pc[v] = "release" => edge'[v] = edge[v]
  PROVE  Counted' /\ Looping' /\ Joins' /\ Told'
<1>1. Nodes' = Nodes /\ (\A m : Pred(m)' = Pred(m) /\ Succ(m)' = Succ(m)) /\ Required' = Required
  BY DEF Nodes, Pred, Succ, Required, EdgesOf
<1>2. \A v \in Workers : \A m, n : Untold(v, m, n)' <=> Untold(v, m, n)
  <2> SUFFICES ASSUME NEW v \in Workers PROVE \A m, n : Untold(v, m, n)' <=> Untold(v, m, n)
    OBVIOUS
  <2>1. loops'[v] = loops[v] /\ (pc'[v] = "release" <=> pc[v] = "release")
        /\ (pc[v] = "release" => edge'[v] = edge[v])
    OBVIOUS
  <2> QED BY <2>1 DEF Untold
<1>3. \A m, n : Pending(m, n)' <=> Pending(m, n)
  BY <1>1, <1>2 DEF Pending
<1>4. Counted'
  BY <1>1 DEF IInv, Counted
<1>5. Looping'
  <2>1. ASSUME NEW v \in Workers, NEW k \in DOMAIN loops'[v] PROVE LoopAt(v, k)'
    BY <1>1 DEF IInv, Looping, LoopAt
  <2>2. ASSUME NEW v \in Workers, pc'[v] = "release"
        PROVE  edge'[v] \in Succ(Last(loops'[v]).of) /\ edge'[v] \notin Last(loops'[v]).todo
    <3>1. pc[v] = "release" /\ edge'[v] = edge[v] /\ loops' = loops
      BY <2>2
    <3> QED BY <3>1 DEF IInv, Looping
  <2> QED BY <1>1, <2>1, <2>2 DEF Looping
<1>6. Joins'
  <2>1. \A n : Waits(n)' = Waits(n)
    BY <1>1, <1>3 DEF Waits
  <2> QED BY <1>1, <2>1 DEF IInv, Joins
<1>7. Told'
  BY ToldSame
<1> QED BY <1>4, <1>5, <1>6, <1>7

(* In particular no step before the count does.                            *)
LEMMA TellingKept ==
  ASSUME IInv, UNCHANGED <<input, predecessors, failedRequired, outcome, loops, edge>>,
         Live' <=> Live, \A v \in Workers : EarlyMove(v)
  PROVE  Counted' /\ Looping' /\ Joins' /\ Told'
<1>1. /\ \A v \in Workers : \A m : Marks(v, m)' <=> Marks(v, m)
      /\ \A v \in Workers : pc'[v] = "release" <=> pc[v] = "release"
  BY DEF EarlyMove, Early, Marks, Marking
<1> QED BY <1>1, TellingSame

(* Nor does such a step count.                                             *)
LEMMA CountersKept ==
  ASSUME IInv, UNCHANGED <<input, outcome, remaining, report, runState>>,
         callbacks' = callbacks \/ runState = "Running", \A v \in Workers : EarlyMove(v)
  PROVE  Counters'
<1>1. \A v \in Workers : /\ pc'[v] = "publish" <=> pc[v] = "publish"
                         /\ \A n : pc'[v] = "fetch" /\ cur'[v] = n <=> pc[v] = "fetch" /\ cur[v] = n
  BY DEF EarlyMove, Early
<1>2. Nodes' = Nodes
  BY DEF Nodes
<1>3. Uncounted' = Uncounted
  BY <1>1, <1>2 DEF Uncounted
<1> QED BY <1>1, <1>2, <1>3 DEF IInv, Counters

(* The slots that are still owed.                                          *)
LEMMA OwedFacts ==
  ASSUME Typed
  PROVE  /\ Owed \subseteq Nodes /\ IsFiniteSet(Owed) /\ Cardinality(Owed) \in Nat
         /\ Cardinality(Owed) <= Cardinality(Nodes)
<1>1. Owed \subseteq Nodes
  <2>1. roots \subseteq Nodes
    BY DEF Typed, TypeOK
  <2>2. \A w \in Workers : pc[w] = "decide" => edge[w] \in Nodes
    BY DEF Typed, Places, PlaceAt
  <2> QED BY <2>1, <2>2 DEF Owed
<1> QED BY <1>1, InputFacts, FS_Subset, FS_CardinalityType

(* There are at most as many slots as nodes.                               *)
LEMMA SlotsTyped ==
  ASSUME Typed, SlotsOwed
  PROVE  slots \in 0 .. Cardinality(Nodes)
<1>1. Cardinality(Nodes) \in Nat
  BY InputFacts
<1> QED BY <1>1, OwedFacts DEF SlotsOwed

(* A step that owes the same.                                              *)
LEMMA OwedKept ==
  ASSUME IInv, UNCHANGED <<input, rpc, slots>>, Owed' = Owed
  PROVE  SlotsOwed'
  BY DEF IInv, SlotsOwed

(* A node gives its slot back.                                             *)
LEMMA OwedLess ==
  ASSUME IInv, UNCHANGED <<input, rpc>>, Live, NEW n \in Owed, Owed' = Owed \ {n},
         slots' = IF input.internal THEN slots ELSE slots - 1
  PROVE  SlotsOwed'
<1>1. IsFiniteSet(Owed) /\ Cardinality(Owed) \in Nat
  BY OwedFacts DEF IInv
<1>2. Cardinality(Owed') = Cardinality(Owed) - 1
  BY <1>1, FS_RemoveElement
<1>3. input.internal \in BOOLEAN
  BY InputFacts DEF IInv
<1>4. slots = IF input.internal THEN 0 ELSE Cardinality(Owed)
  BY DEF IInv, SlotsOwed, Live
<1>5. slots' = IF input.internal THEN 0 ELSE Cardinality(Owed')
  BY <1>1, <1>2, <1>3, <1>4
<1> QED BY <1>5 DEF SlotsOwed, Live

(* A step that moves neither a node nor a worker.                          *)
LEMMA CalmStep ==
  ASSUME IInv, Live' <=> Live, cancelRequested => cancelRequested',
         UNCHANGED <<input, entry, queues, coroutine, pc, cur, verdict, loops, edge,
                     remaining, report, runState, started, roots>>,
         callbacks' = callbacks \/ runState = "Running"
  PROVE  Segments' /\ Single' /\ Counted' /\ Looping' /\ Joins' /\ Told' /\ Starting' /\ Counters'
<1>1. /\ UNCHANGED <<input, predecessors, failedRequired, outcome, starts, resumes, task, stop,
                     left, armed, pc, cur, verdict, loops, edge, remaining, report, runState,
                     started, roots>>
  BY DEF entry, queues, coroutine
<1>2. Nodes' = Nodes /\ Coros' = Coros /\ Sleeps' = Sleeps
  BY <1>1 DEF Nodes, Coros, Sleeps
<1>3. Segments'
  BY <1>1, <1>2 DEF IInv, Segments
<1>4. Single'
  <2>1. ASSUME NEW n \in Nodes PROVE SingleAt(n)'
    <3>1. SamePlace(n)
      BY <1>1, <1>2 DEF SamePlace, Has
    <3> QED BY <3>1, <1>1, SingleKept DEF IInv
  <2> QED BY <2>1, <1>2 DEF Single
<1>5. \A v \in Workers : EarlyMove(v)
  BY <1>1 DEF EarlyMove
<1>6. Counted' /\ Looping' /\ Joins' /\ Told' /\ Counters'
  BY <1>1, <1>5, TellingKept, CountersKept
<1>7. Starting'
  BY <1>1, <1>2 DEF IInv, Starting, StartAt, Begun
<1> QED BY <1>3, <1>4, <1>6, <1>7

(* A step that moves no node owes the same slots.                          *)
LEMMA OwedCalm ==
  ASSUME UNCHANGED <<input, roots, predecessors, starts, edge, pc>>,
         (rpc \in {"post", "returned"})' <=> rpc \in {"post", "returned"}
  PROVE  Owed' = Owed
  BY DEF Owed, Nodes

(* TaskGraph::freeze().                                                    *)
LEMMA FreezeStep ==
  ASSUME IInv, Freeze
  PROVE  IInv'
<1> DEFINE n == Cardinality(Nodes)
<1>1. /\ rpc = "freeze" /\ rpc' \in {"admit", "refused"}
      /\ rpc' = "admit" => Reason(n, input.edges) = "none"
      /\ refusal'.reason = Reason(n, input.edges)
      /\ UNCHANGED <<entry, run, input, roots, slots, queues, coroutine, worker, outside, wpc,
                     started>>
  BY DEF Freeze
<1>2. /\ Reason(n, input.edges) \in {"none", "ForeignNode", "SelfEdge", "DuplicateEdge", "Cycle"}
      /\ Reason(n, input.edges) = "none" => ~Foreign(n, input.edges)
  BY DEF Reason
<1>3. rpc' = "admit" => \A m \in Nodes : Pred(m) \cup Succ(m) \subseteq Nodes
  <2> SUFFICES ASSUME ~Foreign(n, input.edges), NEW m \in Nodes, NEW x \in Pred(m) \cup Succ(m)
               PROVE  x \in Nodes
    BY <1>1, <1>2
  <2>1. Nodes = 1 .. n
    BY GraphAssumption DEF IInv, Typed, TypeOK, IsInput, Nodes
  <2>2. PICK e \in ToSet(input.edges) : x = e.from \/ x = e.to
    BY DEF Pred, Succ
  <2>3. PICK k \in DOMAIN input.edges : e = input.edges[k]
    BY DEF ToSet
  <2>4. {input.edges[k].from, input.edges[k].to} \subseteq 1 .. n
    BY DEF Foreign
  <2> QED BY <2>1, <2>2, <2>3, <2>4
<1>4. /\ Live' <=> Live
      /\ UNCHANGED <<input, entry, queues, coroutine, pc, cur, verdict, loops, edge, roots,
                     remaining, report, runState, callbacks, started, cancelRequested, cpc, slots,
                     firing, wpc, predecessors, starts>>
  BY <1>1 DEF Live, run, worker, outside, entry, queues
<1>5. Segments' /\ Single' /\ Counted' /\ Looping' /\ Joins' /\ Told' /\ Starting' /\ Counters'
  BY <1>4, CalmStep
<1>6. SlotsOwed' /\ WatcherHeld'
  BY <1>1, <1>4 DEF IInv, SlotsOwed, WatcherHeld
<1>7. Nodes' = Nodes /\ Coros' = Coros /\ \A m : Pred(m)' = Pred(m) /\ Succ(m)' = Succ(m)
  BY <1>4 DEF Nodes, Coros, Pred, Succ
<1>8. Places' /\ Setting'
  BY <1>1, <1>3, <1>4, <1>7 DEF IInv, Typed, Places, PlaceAt, Setting, Live
<1>9. UNCHANGED <<predecessors, failedRequired, outcome, remaining, report, runState, callbacks,
                  starts, resumes, task, stop, left, armed, pc, cur, verdict, edge, firing, loops,
                  cpc, toCancel, cancelRequested, immediate, swept, wpc, started, slots, roots, input>>
  BY <1>1 DEF entry, run, queues, coroutine, worker, outside
<1>10. CallerType'
  BY <1>1, <1>2, <1>7, <1>9 DEF IInv, Typed, TypeOK, CallerType
<1>11. slots' \in 0 .. Cardinality(Nodes')
  BY <1>7, <1>9 DEF IInv, Typed, TypeOK
<1>12. Typed'
  BY <1>8, <1>9, <1>10, <1>11, TypesKept, TypedNext DEF IInv, Parts
<1> QED BY <1>5, <1>6, <1>12 DEF IInv

-----------------------------------------------------------------------------
(* The other workers stay where they are.                                  *)
Others(w) == \A v \in Workers : v # w =>
  /\ pc'[v] = pc[v] /\ cur'[v] = cur[v] /\ verdict'[v] = verdict[v]
  /\ loops'[v] = loops[v] /\ edge'[v] = edge[v] /\ firing'[v] = firing[v]

(* One worker moves, to a place that suits it.                             *)
LEMMA PlacesKept ==
  ASSUME Places, NEW w \in Workers, Others(w), PlaceAt(w)', UNCHANGED <<input, rpc>>
  PROVE  Places'
<1>1. Nodes' = Nodes /\ Coros' = Coros /\ Live' = Live
  BY DEF Nodes, Coros, Live
<1>2. ASSUME NEW v \in Workers, v # w PROVE PlaceAt(v)'
  <2>1. PlaceAt(v)
    BY DEF Places
  <2>2. /\ pc'[v] = pc[v] /\ cur'[v] = cur[v] /\ loops'[v] = loops[v] /\ edge'[v] = edge[v]
        /\ firing'[v] = firing[v]
    BY <1>2 DEF Others
  <2> QED BY <1>1, <2>1, <2>2 DEF PlaceAt
<1> QED BY <1>2 DEF Places

(* The slots after a step are as many as it owes.                          *)
LEMMA SlotsNext ==
  ASSUME IInv, UNCHANGED input, CallerType', Places', SlotsOwed'
  PROVE  slots' \in 0 .. Cardinality(Nodes')
<1>1. Nodes' = Nodes /\ IsFiniteSet(Nodes) /\ Cardinality(Nodes) \in Nat
  BY InputFacts DEF IInv, Nodes
<1>2. Owed' \subseteq Nodes
  BY <1>1 DEF CallerType, Places, PlaceAt, Owed
<1>3. Cardinality(Owed') \in Nat /\ Cardinality(Owed') <= Cardinality(Nodes)
  BY <1>1, <1>2, FS_Subset, FS_CardinalityType
<1> QED BY <1>1, <1>3 DEF SlotsOwed

(* What a node that a worker has in hand is not.                           *)
LEMMA HasFacts ==
  ASSUME IInv, NEW w \in Workers, NEW n \in Nodes, Has(w, n)
  PROVE  /\ Live /\ outcome[n] = "Ready" /\ predecessors[n] = 0
         /\ n \notin roots /\ starts[n] = 0 /\ n \notin Sleeps
         /\ \A v \in Workers : Has(v, n) => v = w
<1>1. SingleAt(n)
  BY DEF IInv, Single
<1>2. Due(n)
  BY DEF Due
<1> QED BY <1>1, <1>2 DEF SingleAt

(* A worker's step after which a node may have been started.               *)
LEMMA StartingKept ==
  ASSUME IInv, NEW w \in Workers, Others(w),
         UNCHANGED <<input, rpc, roots, predecessors, failedRequired>>,
         cancelRequested => cancelRequested',
         \A n \in Nodes : starts'[n] # 0 => starts'[n] = starts[n],
         started \subseteq started',
         \A n \in started' : n \in started \/ (Has(w, n) /\ n \notin failedRequired),
         \A n \in Sleeps' : n \in Sleeps \/ n \in started',
         pc'[w] # "decide", pc'[w] = "begin" => cur'[w] \notin started',
         Begun(w)'
  PROVE  Starting'
<1>1. Nodes' = Nodes /\ Live' = Live
  BY DEF Nodes, Live
<1>2. ASSUME NEW n \in Nodes, n \in started'
      PROVE  /\ Live /\ n \notin roots /\ starts[n] = 0 /\ predecessors[n] = 0
             /\ n \notin failedRequired
             /\ \A v \in Workers : v # w => /\ pc[v] = "begin" => cur[v] # n
                                            /\ pc[v] = "decide" => edge[v] # n
  <2>1. CASE n \in started
    <3>1. StartAt(n)
      BY DEF IInv, Starting
    <3> QED BY <2>1, <3>1 DEF StartAt
  <2>2. CASE Has(w, n) /\ n \notin failedRequired
    <3>1. \A v \in Workers : v # w => ~Has(v, n)
      BY <2>2, HasFacts
    <3>2. \A v \in Workers : v # w => /\ pc[v] = "begin" => cur[v] # n
                                      /\ pc[v] = "decide" => edge[v] # n
      BY <3>1 DEF Has
    <3> QED BY <2>2, <3>2, HasFacts
  <2> QED BY <1>2, <2>1, <2>2
<1>3. ASSUME NEW n \in Nodes PROVE StartAt(n)'
  <2>1. StartAt(n)
    BY DEF IInv, Starting
  <2>2. n \in started' =>
          /\ Live' /\ n \notin roots' /\ starts'[n] = 0 /\ predecessors'[n] = 0
          /\ \A v \in Workers : /\ pc'[v] = "begin" => cur'[v] # n
                                /\ pc'[v] = "decide" => edge'[v] # n
    BY <1>1, <1>2 DEF Others
  <2>3. n \in roots' \/ n \in started' \/ starts'[n] # 0 => n \notin failedRequired
    BY <1>2, <2>1 DEF StartAt
  <2>4. n \in Sleeps' => n \in started'
    BY <2>1 DEF StartAt
  <2> QED BY <2>2, <2>3, <2>4 DEF StartAt
<1>4. ASSUME NEW v \in Workers PROVE Begun(v)'
  <2>1. CASE v = w
    BY <2>1
  <2>2. CASE v # w
    <3>1. Begun(v)
      BY DEF IInv, Starting
    <3>2. pc'[v] = pc[v] /\ cur'[v] = cur[v] /\ verdict'[v] = verdict[v]
      BY <2>2 DEF Others
    <3> QED BY <3>1, <3>2 DEF Begun
  <2> QED BY <2>1, <2>2
<1> QED BY <1>1, <1>3, <1>4 DEF Starting

(* A worker's step before its node is counted.                             *)
LEMMA EarlyStep ==
  ASSUME IInv, NEW w \in Workers, Others(w), Live,
         UNCHANGED <<input, entry, run, caller, loops, edge, firing, outside, wpc>>,
         EarlyMove(w), PlaceAt(w)', WorkerType', QueueType', CoroType', started' \subseteq Nodes,
         Segments', Single', Starting', SlotsOwed'
  PROVE  IInv'
<1>1. UNCHANGED <<input, predecessors, failedRequired, outcome, remaining, report, runState,
                  callbacks, rpc, roots, refusal, loops, edge, firing, cpc, toCancel,
                  cancelRequested, immediate, swept, wpc>>
  BY DEF entry, run, caller, outside
<1>2. \A v \in Workers : EarlyMove(v)
  BY DEF Others, EarlyMove
<1>3. Counted' /\ Looping' /\ Joins' /\ Told' /\ Counters'
  BY <1>1, <1>2, TellingKept, CountersKept DEF Live
<1>4. WatcherHeld'
  BY <1>1 DEF IInv, WatcherHeld
<1>5. Places'
  BY <1>1, PlacesKept DEF IInv, Typed
<1>6. /\ CallerType' /\ EntryType' /\ RunType' /\ LoopType' /\ Nodes' = Nodes
      /\ \A n : Pred(n)' = Pred(n) /\ Succ(n)' = Succ(n)
  BY <1>1, TypesKept DEF IInv
<1>7. OutsideType'
  <2>1. OutsideType
    BY TypedParts DEF IInv, Parts
  <2> QED BY <1>1, <1>6, <2>1 DEF OutsideType
<1>8. Setting'
  BY <1>1, <1>6 DEF IInv, Typed, Setting, Live
<1>9. Typed'
  BY <1>5, <1>6, <1>7, <1>8, SlotsNext, TypedNext DEF Parts
<1> QED BY <1>3, <1>4, <1>9 DEF IInv

(* A worker's step that moves no node.                                     *)
LEMMA SingleSame ==
  ASSUME IInv, UNCHANGED <<input, outcome, predecessors, rpc>>, \A n \in Nodes : SamePlace(n)
  PROVE  Single'
<1>1. Nodes' = Nodes /\ Live' = Live
  BY DEF Nodes, Live
<1>2. ASSUME NEW n \in Nodes PROVE SingleAt(n)'
  BY <1>1, SingleKept DEF IInv
<1> QED BY <1>1, <1>2 DEF Single

(* The worker that moves leaves node n where it is.                        *)
LEMMA PlaceKept ==
  ASSUME NEW w \in Workers, Others(w), NEW n, UNCHANGED roots, starts'[n] = starts[n],
         n \in Sleeps' <=> n \in Sleeps, Has(w, n)' <=> Has(w, n)
  PROVE  SamePlace(n)
<1>1. ASSUME NEW v \in Workers PROVE Has(v, n)' <=> Has(v, n)
  <2>1. CASE v = w
    BY <2>1
  <2>2. CASE v # w
    <3>1. pc'[v] = pc[v] /\ cur'[v] = cur[v] /\ edge'[v] = edge[v]
      BY <2>2 DEF Others
    <3>2. (n \in Sleeps)' <=> n \in Sleeps
      OBVIOUS
    <3> QED BY <3>1, <3>2 DEF Has
  <2> QED BY <2>1, <2>2
<1> QED BY <1>1 DEF SamePlace

(* A step that runs no segment keeps what holds of the coroutines.         *)
LEMMA SegmentsKept ==
  ASSUME IInv, NEW w \in Workers, Others(w),
         UNCHANGED <<input, resumes, task, left, armed>>, started \subseteq started',
         pc'[w] \notin {"segment", "check"}
  PROVE  Segments' /\ Sleeps' = Sleeps
<1>1. Coros' = Coros
  BY DEF Coros
<1>2. Sleeps' = Sleeps
  BY <1>1 DEF Sleeps
<1>3. ASSUME NEW v \in Workers, pc'[v] = "check"
      PROVE  task[cur'[v]] \in Terminal <=> cur'[v] \notin Sleeps
  <2>1. pc[v] = "check" /\ cur'[v] = cur[v]
    BY <1>3 DEF Others
  <2> QED BY <2>1 DEF IInv, Segments
<1>4. ASSUME NEW v \in Workers, pc'[v] = "segment", ~input.cancels
      PROVE  task[cur'[v]] \notin Terminal
  <2>1. pc[v] = "segment" /\ cur'[v] = cur[v]
    BY <1>4 DEF Others
  <2> QED BY <1>4, <2>1 DEF IInv, Segments
<1> QED BY <1>1, <1>2, <1>3, <1>4 DEF IInv, Segments, Terminal

(* A worker that goes to a place.                                          *)
LEMMA GoFacts ==
  ASSUME IInv, NEW w \in Workers, NEW p \in Steps, Go(w, p), UNCHANGED input
  PROVE  /\ pc'[w] = p /\ \A v \in Workers : v # w => pc'[v] = pc[v]
         /\ UNCHANGED <<edge, firing>> /\ cur' \in [Workers -> Nodes \cup {None}]
            /\ verdict' \in [Workers -> Terminal] => WorkerType'
         /\ UNCHANGED cur => cur' \in [Workers -> Nodes \cup {None}]
         /\ UNCHANGED verdict => verdict' \in [Workers -> Terminal]
<1>1. WorkerType
  BY TypedParts DEF IInv, Parts
<1>2. Nodes' = Nodes
  BY DEF Nodes
<1> QED BY <1>1, <1>2 DEF WorkerType, Go, Terminal, Steps

(* What the place of a worker says.                                        *)
LEMMA PlaceFacts ==
  ASSUME IInv, NEW w \in Workers
  PROVE  /\ PlaceAt(w) /\ Begun(w)
         /\ pc[w] # "idle" => Live /\ w \in input.workers
         /\ pc[w] \in {"begin", "body", "segment", "check", "count", "fetch", "publish", "fire",
                      "trigger"} => cur[w] \in Nodes
         /\ pc[w] \in {"edge", "release", "decide"} => loops[w] # <<>>
<1>1. PlaceAt(w) /\ Begun(w)
  BY DEF IInv, Typed, Places, Starting
<1> QED BY <1>1 DEF PlaceAt, At3, Marking

(* A step of a worker with its node, before the node is counted.           *)
LEMMA HandStep ==
  ASSUME IInv, NEW w \in Workers, Others(w), pc[w] \in At3, pc'[w] \in Early,
         UNCHANGED <<input, entry, run, caller, slots, starts, cur, loops, edge, firing, outside, wpc>>,
         pc'[w] \in {"segment", "check"} => cur[w] \in Coros,
         pc'[w] = "body" => cur[w] \notin Coros,
         WorkerType', resumes' \in [Coros -> Nat], CoroType',
         started' \subseteq started \cup {cur[w]}, Segments', Single', Starting'
  PROVE  IInv'
<1>1. UNCHANGED <<input, predecessors, failedRequired, outcome, rpc, roots, starts, edge>>
  BY DEF entry, caller
<1>2. Live /\ w \in input.workers /\ cur[w] \in Nodes
  BY PlaceFacts DEF At3
<1>3. Nodes' = Nodes /\ Coros' = Coros /\ Live' = Live
  BY <1>1 DEF Nodes, Coros, Live
<1>4. PlaceAt(w)'
  <2>1. PlaceAt(w)
    BY PlaceFacts
  <2> QED BY <1>1, <1>2, <1>3, <2>1 DEF PlaceAt, At3, Marking, Early
<1>5. SlotsOwed'
  <2>1. Owed' = Owed
    BY <1>1 DEF Owed, Nodes, Others, Early, At3
  <2> QED BY <1>1, <2>1, OwedKept
<1>6. QueueType'
  <2>1. QueueType
    BY TypedParts DEF IInv, Parts
  <2> QED BY <1>1, <1>3, <2>1 DEF QueueType
<1>7. started' \subseteq Nodes
  BY <1>2 DEF IInv, Typed, TypeOK
<1>8. EarlyMove(w)
  BY DEF EarlyMove, Early, At3
<1> QED BY <1>1, <1>2, <1>4, <1>5, <1>6, <1>7, <1>8, EarlyStep

(* Nobody else runs or checks a segment of a node that a worker has in hand. *)
LEMMA CheckApart ==
  ASSUME IInv, NEW w \in Workers, NEW v \in Workers, NEW n \in Nodes, Has(w, n), v # w,
         pc[v] \in {"segment", "check"}
  PROVE  cur[v] # n /\ cur[v] \in Coros
<1>0. cur[v] \in Coros
  BY PlaceFacts DEF PlaceAt
<1> SUFFICES ASSUME cur[v] = n PROVE FALSE
  BY <1>0
<1>1. n \notin Sleeps
  BY HasFacts
<1>2. Has(v, n)
  BY <1>1 DEF Has
<1> QED BY <1>2, HasFacts

(* The task of an ordinary node begins.                                    *)
LEMMA BeginStep ==
  ASSUME IInv, NEW w \in Workers, Begin(w)
  PROVE  IInv'
<1> DEFINE n == cur[w]
<1>1. /\ pc[w] = "begin" /\ n \notin Coros
      /\ UNCHANGED <<entry, run, caller, slots, queues, coroutine, cur, loops, edge, firing,
                     outside, wpc>>
  BY DEF Begin, At
<1>2. UNCHANGED <<input, predecessors, failedRequired, outcome, rpc, roots, starts, resumes, task,
                  stop, left, armed, cancelRequested>>
  BY <1>1 DEF entry, caller, queues, coroutine, outside
<1>3. PlaceAt(w) /\ Live /\ n \in Nodes /\ w \in input.workers /\ Begun(w) /\ Coros' = Coros
  BY <1>1, <1>2, PlaceFacts DEF Coros
<1>4. n \notin failedRequired /\ Has(w, n)
  BY <1>1, <1>3 DEF Begun, Has
<1>5. \/ /\ cancelRequested /\ Go(w, "count") /\ verdict' = [verdict EXCEPT ![w] = "Cancelled"]
         /\ started' = started
      \/ Go(w, "body") /\ started' = started \cup {n} /\ verdict' = verdict
  BY DEF Begin
<1>6. /\ WorkerType' /\ Others(w) /\ pc'[w] \in {"count", "body"} /\ verdict'[w] \in Terminal
      /\ pc'[w] = "count" => cancelRequested /\ verdict'[w] = "Cancelled"
      /\ pc'[w] = "body" => n \in started'
      /\ started \subseteq started' /\ started' \subseteq started \cup {n}
  <2>1. WorkerType
    BY TypedParts DEF IInv, Parts
  <2>2. ASSUME Go(w, "count"), verdict' = [verdict EXCEPT ![w] = "Cancelled"]
        PROVE  /\ WorkerType' /\ pc'[w] = "count" /\ verdict'[w] = "Cancelled"
               /\ \A v \in Workers : v # w => pc'[v] = pc[v] /\ verdict'[v] = verdict[v]
    <3>1. verdict' \in [Workers -> Terminal] /\ verdict'[w] = "Cancelled"
          /\ \A v \in Workers : v # w => verdict'[v] = verdict[v]
      BY <2>1, <2>2 DEF WorkerType, Terminal
    <3>2. "count" \in Steps
      BY DEF Steps
    <3> QED BY <1>1, <1>2, <2>2, <3>1, <3>2, GoFacts
  <2>3. ASSUME Go(w, "body"), verdict' = verdict
        PROVE  /\ WorkerType' /\ pc'[w] = "body" /\ \A v \in Workers : v # w => pc'[v] = pc[v]
    <3>1. "body" \in Steps
      BY DEF Steps
    <3> QED BY <1>1, <1>2, <2>3, <3>1, GoFacts
  <2>4. verdict[w] \in Terminal
    BY <2>1 DEF WorkerType
  <2>5. "Cancelled" \in Terminal
    BY DEF Terminal
  <2> QED BY <1>1, <1>5, <2>2, <2>3, <2>4, <2>5 DEF Others
<1>8. Segments' /\ Sleeps' = Sleeps
  BY <1>2, <1>6, SegmentsKept
<1>9. Single'
  <2>1. ASSUME NEW m \in Nodes PROVE SamePlace(m)
    <3>1. Has(w, m)' <=> Has(w, m)
      BY <1>1, <1>6 DEF Has
    <3> QED BY <1>2, <1>6, <1>8, <3>1, PlaceKept
  <2> QED BY <2>1, <1>2, SingleSame
<1>10. Starting'
  <2>1. Begun(w)'
    BY <1>1, <1>2, <1>6 DEF Begun
  <2> QED BY <2>1, <1>2, <1>4, <1>6, <1>8, StartingKept
<1>11. resumes' \in [Coros -> Nat] /\ CoroType'
  <2>1. QueueType
    BY TypedParts DEF IInv, Parts
  <2> QED BY <1>2, <2>1, TypesKept DEF IInv, QueueType
<1> QED BY <1>1, <1>2, <1>6, <1>8, <1>9, <1>10, <1>11, HandStep DEF At3, Early, queues

(* The callable of an ordinary node returns.                               *)
LEMMA EndBodyStep ==
  ASSUME IInv, NEW w \in Workers, EndBody(w)
  PROVE  IInv'
<1>1. /\ pc[w] = "body" /\ Go(w, "count")
      /\ UNCHANGED <<entry, run, caller, slots, queues, coroutine, cur, loops, edge, firing,
                     outside, wpc, started>>
  BY DEF EndBody, At
<1>2. UNCHANGED <<input, predecessors, failedRequired, outcome, rpc, roots, starts, resumes, task,
                  stop, left, armed, cancelRequested>>
  BY <1>1 DEF entry, caller, queues, coroutine, outside
<1>3. PlaceAt(w) /\ cur[w] \in Nodes /\ Begun(w)
  BY <1>1, PlaceFacts
<1>4. WorkerType' /\ Others(w) /\ pc'[w] = "count"
  <2>1. WorkerType /\ "count" \in Steps
    BY TypedParts DEF IInv, Parts, Steps
  <2>2. verdict' \in [Workers -> Terminal] /\ \A v \in Workers : v # w => verdict'[v] = verdict[v]
    BY <2>1 DEF WorkerType, Terminal, EndBody
  <2> QED BY <1>1, <1>2, <2>1, <2>2, GoFacts DEF Others
<1>5. Segments' /\ Sleeps' = Sleeps
  BY <1>1, <1>2, <1>4, SegmentsKept
<1>6. Single'
  <2>1. ASSUME NEW m \in Nodes PROVE SamePlace(m)
    <3>1. Has(w, m)' <=> Has(w, m)
      BY <1>1, <1>4 DEF Has
    <3> QED BY <1>2, <1>4, <1>5, <3>1, PlaceKept
  <2> QED BY <2>1, <1>2, SingleSame
<1>7. Starting'
  <2>1. Begun(w)'
    BY <1>1, <1>2, <1>3, <1>4 DEF Begun
  <2> QED BY <2>1, <1>1, <1>2, <1>4, <1>5, StartingKept
<1>8. resumes' \in [Coros -> Nat] /\ CoroType'
  <2>1. QueueType
    BY TypedParts DEF IInv, Parts
  <2> QED BY <1>2, <2>1, TypesKept DEF IInv, QueueType
<1> QED BY <1>1, <1>2, <1>4, <1>5, <1>6, <1>7, <1>8, HandStep DEF At3, Early, queues

(* A segment ends the coroutine.                                           *)
LEMMA EndSegmentStep ==
  ASSUME IInv, NEW w \in Workers, EndSegment(w)
  PROVE  IInv'
<1> DEFINE n == cur[w]
<1>1. /\ pc[w] = "segment" /\ Go(w, "check")
      /\ \E o \in Terminal : task' = [task EXCEPT ![n] = o]
      /\ UNCHANGED <<entry, run, caller, slots, queues, stop, left, armed, cur, verdict, loops,
                     edge, firing, outside, wpc, started>>
  BY DEF EndSegment, At
<1>2. UNCHANGED <<input, predecessors, failedRequired, outcome, rpc, roots, starts, resumes,
                  stop, left, armed, cancelRequested, cur, started>>
  BY <1>1 DEF entry, caller, queues, outside
<1>3. PlaceAt(w) /\ n \in Nodes /\ Begun(w) /\ n \in Coros /\ Has(w, n)
  <2>1. PlaceAt(w) /\ n \in Nodes /\ Begun(w)
    BY <1>1, PlaceFacts
  <2> QED BY <1>1, <2>1 DEF PlaceAt, Has
<1>4. WorkerType' /\ Others(w) /\ pc'[w] = "check"
  <2>1. "check" \in Steps
    BY DEF Steps
  <2> QED BY <1>1, <1>2, <2>1, GoFacts DEF Others
<1>5. CoroType' /\ resumes' \in [Coros -> Nat] /\ task'[n] \in Terminal
      /\ \A m \in Coros : m # n => task'[m] = task[m]
  <2>1. QueueType /\ CoroType /\ Coros' = Coros
    BY <1>2, TypedParts DEF IInv, Parts, Coros
  <2> QED BY <1>1, <1>2, <1>3, <2>1 DEF QueueType, CoroType, Terminal
<1>6. Sleeps' = Sleeps /\ Coros' = Coros /\ n \notin Sleeps /\ n \in started
  <2>1. n \in started
    BY <1>1, <1>3 DEF Begun
  <2> QED BY <1>2, <1>3, <2>1, HasFacts DEF Sleeps, Coros
<1>7. Segments'
  <2>1. \A m \in Sleeps : task'[m] \in {"Ready", "Suspended"}
    <3>1. Sleeps \subseteq Coros
      BY TypedParts DEF IInv, Parts, CoroType, Sleeps
    <3> QED BY <1>5, <1>6, <3>1 DEF IInv, Segments
  <2>2. ASSUME NEW v \in Workers, pc'[v] = "check"
        PROVE  task'[cur'[v]] \in Terminal <=> cur'[v] \notin Sleeps
    <3>1. CASE v = w
      BY <1>2, <1>5, <1>6, <3>1
    <3>2. CASE v # w
      <4>1. pc[v] = "check" /\ cur'[v] = cur[v] /\ PlaceAt(v) /\ cur[v] \in Nodes
        BY <1>4, <2>2, <3>2, PlaceFacts DEF Others
      <4>2. cur[v] \in Coros
        BY <4>1 DEF PlaceAt
      <4>3. cur[v] # n
        BY <4>1, <1>3, <3>2, CheckApart
      <4>4. task[cur[v]] \in Terminal <=> cur[v] \notin Sleeps
        BY <4>1 DEF IInv, Segments
      <4> QED BY <4>1, <4>2, <4>3, <4>4, <1>5
    <3> QED BY <3>1, <3>2
  <2>3. \A m \in Coros : task'[m] \in Terminal /\ ~input.cancels => m \in started
    BY <1>5, <1>6 DEF IInv, Segments
  <2>4. ASSUME NEW v \in Workers, pc'[v] = "segment", ~input.cancels
        PROVE  task'[cur'[v]] \notin Terminal
    <3>1. pc[v] = "segment" /\ cur'[v] = cur[v] /\ v # w
      BY <1>4, <2>4 DEF Others
    <3>2. cur[v] \in Coros /\ cur[v] # n
      BY <1>3, <3>1, CheckApart
    <3> QED BY <1>5, <2>4, <3>1, <3>2 DEF IInv, Segments
  <2> QED BY <1>2, <1>6, <2>1, <2>2, <2>3, <2>4 DEF IInv, Segments, Unbroken, Alone, Terminal
<1>8. Single'
  <2>1. ASSUME NEW m \in Nodes PROVE SamePlace(m)
    <3>1. Has(w, m)' <=> Has(w, m)
      BY <1>1, <1>2, <1>4, <1>6 DEF Has
    <3> QED BY <1>2, <1>4, <1>6, <3>1, PlaceKept
  <2> QED BY <2>1, <1>2, SingleSame
<1>9. Starting'
  <2>1. Begun(w)'
    BY <1>2, <1>4, <1>6 DEF Begun
  <2> QED BY <2>1, <1>2, <1>4, <1>6, StartingKept
<1> QED BY <1>1, <1>2, <1>3, <1>4, <1>5, <1>7, <1>8, <1>9, HandStep DEF At3, Early, queues

(* After a segment the worker asks whether the coroutine has completed.    *)
LEMMA CheckStep ==
  ASSUME IInv, NEW w \in Workers, Check(w)
  PROVE  IInv'
<1> DEFINE n == cur[w]
<1>1. /\ pc[w] = "check"
      /\ UNCHANGED <<entry, run, caller, slots, queues, coroutine, cur, loops, edge, firing,
                     outside, wpc, started>>
  BY DEF Check, At
<1>2. UNCHANGED <<input, predecessors, failedRequired, outcome, rpc, roots, starts, resumes, task,
                  stop, left, armed, cancelRequested>>
  BY <1>1 DEF entry, caller, queues, coroutine, outside
<1>3. PlaceAt(w) /\ n \in Nodes /\ Begun(w) /\ (task[n] \in Terminal <=> n \notin Sleeps)
  BY <1>1, PlaceFacts DEF IInv, Segments
<1>4. /\ WorkerType' /\ Others(w) /\ pc'[w] \in {"count", "idle"}
      /\ pc'[w] = "count" <=> n \notin Sleeps
  <2>1. WorkerType /\ "count" \in Steps /\ "idle" \in Steps
    BY TypedParts DEF IInv, Parts, Steps
  <2>2. CASE task[n] \in Terminal
    <3>1. Go(w, "count") /\ verdict' = [verdict EXCEPT ![w] = task[n]]
      BY <2>2 DEF Check
    <3>2. verdict' \in [Workers -> Terminal] /\ \A v \in Workers : v # w => verdict'[v] = verdict[v]
      BY <2>1, <2>2, <3>1 DEF WorkerType, Terminal
    <3> QED BY <1>1, <1>2, <1>3, <2>1, <2>2, <3>1, <3>2, GoFacts DEF Others
  <2>3. CASE task[n] \notin Terminal
    <3>1. Go(w, "idle") /\ verdict' = verdict
      BY <2>3 DEF Check
    <3> QED BY <1>1, <1>2, <1>3, <2>1, <2>3, <3>1, GoFacts DEF Others
  <2> QED BY <2>2, <2>3
<1>5. Segments' /\ Sleeps' = Sleeps
  BY <1>1, <1>2, <1>4, SegmentsKept
<1>6. Single'
  <2>1. ASSUME NEW m \in Nodes PROVE SamePlace(m)
    <3>1. Has(w, m)' <=> Has(w, m)
      BY <1>1, <1>4, <1>5 DEF Has
    <3> QED BY <1>2, <1>4, <1>5, <3>1, PlaceKept
  <2> QED BY <2>1, <1>2, SingleSame
<1>7. Starting'
  <2>1. Begun(w)'
    BY <1>1, <1>2, <1>3, <1>4 DEF Begun
  <2> QED BY <2>1, <1>1, <1>2, <1>4, <1>5, StartingKept
<1>8. resumes' \in [Coros -> Nat] /\ CoroType'
  <2>1. QueueType
    BY TypedParts DEF IInv, Parts
  <2> QED BY <1>2, <2>1, TypesKept DEF IInv, QueueType
<1> QED BY <1>1, <1>2, <1>4, <1>5, <1>6, <1>7, <1>8, HandStep DEF At3, Early, queues

(* The first segment of a coroutine.                                       *)
LEMMA BeginCoroutineStep ==
  ASSUME IInv, NEW w \in Workers, BeginCoroutine(w)
  PROVE  IInv'
<1> DEFINE n == cur[w]
<1>1. /\ pc[w] = "begin" /\ n \in Coros /\ Go(w, "segment") /\ started' = started \cup {n}
      /\ \/ RequestStop(n) /\ cancelRequested
         \/ UNCHANGED <<stop, task, armed, resumes>>
      /\ UNCHANGED <<entry, run, caller, slots, starts, left, cur, verdict, loops, edge,
                     firing, outside, wpc>>
  BY DEF BeginCoroutine, At
<1>2. UNCHANGED <<input, predecessors, failedRequired, outcome, rpc, roots, starts, left,
                  cancelRequested, cur>>
  BY <1>1 DEF entry, caller, outside
<1>3. PlaceAt(w) /\ n \in Nodes /\ Begun(w) /\ Has(w, n) /\ n \notin failedRequired
  <2>1. PlaceAt(w) /\ n \in Nodes /\ Begun(w)
    BY <1>1, PlaceFacts
  <2> QED BY <1>1, <2>1 DEF Begun, Has
<1>4. WorkerType' /\ Others(w) /\ pc'[w] = "segment"
  <2>1. "segment" \in Steps
    BY DEF Steps
  <2> QED BY <1>1, <1>2, <2>1, GoFacts DEF Others
<1>5. n \notin armed /\ n \notin Sleeps /\ Coros' = Coros
  BY <1>2, <1>3, HasFacts DEF Sleeps, Coros
<1>6. /\ armed' = armed /\ resumes' = resumes /\ CoroType'
      /\ \A m \in Coros : m # n => task'[m] = task[m]
      /\ task'[n] \in Terminal => task[n] \in Terminal \/ cancelRequested
  <2>1. CoroType
    BY TypedParts DEF IInv, Parts
  <2>2. CASE RequestStop(n) /\ cancelRequested
    <3>1. /\ stop' = [stop EXCEPT ![n] = TRUE] /\ armed' = armed /\ resumes' = resumes
          /\ task' = [task EXCEPT ![n] = IF @ = "Ready" THEN "Cancelled" ELSE @]
      BY <1>5, <2>2 DEF RequestStop
    <3> QED BY <1>1, <1>2, <1>5, <2>1, <2>2, <3>1 DEF CoroType, Terminal
  <2>3. CASE UNCHANGED <<stop, task, armed, resumes>>
    BY <1>1, <1>2, <1>5, <2>1, <2>3 DEF CoroType, Terminal
  <2> QED BY <1>1, <2>2, <2>3
<1>7. Sleeps' = Sleeps
  BY <1>5, <1>6 DEF Sleeps
<1>8. Segments'
  <2>1. \A m \in Sleeps : task'[m] \in {"Ready", "Suspended"}
    <3>1. Sleeps \subseteq Coros
      BY TypedParts DEF IInv, Parts, CoroType, Sleeps
    <3> QED BY <1>5, <1>6, <3>1 DEF IInv, Segments
  <2>2. ASSUME NEW v \in Workers, pc'[v] = "check"
        PROVE  task'[cur'[v]] \in Terminal <=> cur'[v] \notin Sleeps
    <3>1. pc[v] = "check" /\ cur'[v] = cur[v] /\ PlaceAt(v) /\ v # w
      BY <1>4, <2>2, PlaceFacts DEF Others
    <3>2. cur[v] \in Coros /\ cur[v] # n
      BY <1>3, <3>1, CheckApart DEF PlaceAt
    <3>3. task[cur[v]] \in Terminal <=> cur[v] \notin Sleeps
      BY <3>1 DEF IInv, Segments
    <3> QED BY <3>1, <3>2, <3>3, <1>6
  <2>3. \A m \in Coros : task'[m] \in Terminal /\ ~input.cancels => m \in started'
    BY <1>1, <1>6 DEF IInv, Segments
  <2>4. ASSUME NEW v \in Workers, pc'[v] = "segment", ~input.cancels
        PROVE  task'[cur'[v]] \notin Terminal
    <3>1. CASE v = w
      <4>1. n \notin started
        BY <1>1, <1>3 DEF IInv, Starting, StartAt
      <4>2. ~cancelRequested
        BY <2>4 DEF IInv, Typed, Setting
      <4> QED BY <1>1, <1>2, <1>6, <2>4, <3>1, <4>1, <4>2 DEF IInv, Segments
    <3>2. CASE v # w
      <4>1. pc[v] = "segment" /\ cur'[v] = cur[v]
        BY <1>4, <2>4, <3>2 DEF Others
      <4>2. cur[v] \in Coros /\ cur[v] # n
        BY <1>3, <3>2, <4>1, CheckApart
      <4> QED BY <1>6, <2>4, <4>1, <4>2 DEF IInv, Segments
    <3> QED BY <3>1, <3>2
  <2> QED BY <1>2, <1>5, <1>6, <1>7, <2>1, <2>2, <2>3, <2>4 DEF IInv, Segments, Unbroken, Alone, Terminal
<1>9. Single'
  <2>1. ASSUME NEW m \in Nodes PROVE SamePlace(m)
    <3>1. Has(w, m)' <=> Has(w, m)
      BY <1>1, <1>2, <1>4 DEF Has
    <3> QED BY <1>2, <1>4, <1>7, <3>1, PlaceKept
  <2> QED BY <2>1, <1>2, SingleSame
<1>10. Starting'
  <2>1. Begun(w)'
    BY <1>1, <1>2, <1>4 DEF Begun
  <2> QED BY <2>1, <1>1, <1>2, <1>3, <1>4, <1>7, StartingKept
<1>11. resumes' \in [Coros -> Nat]
  BY <1>6, TypedParts DEF IInv, Parts, QueueType
<1> QED BY <1>1, <1>2, <1>4, <1>6, <1>8, <1>9, <1>10, <1>11, HandStep DEF At3, Early

(* A step of a worker that moves the one node n.                           *)
LEMMA SingleMoved ==
  ASSUME IInv, NEW w \in Workers, Others(w), NEW n \in Nodes, UNCHANGED <<input, roots, rpc>>,
         \A m \in Nodes : m # n => /\ starts'[m] = starts[m]
                                   /\ m \in Sleeps' <=> m \in Sleeps
                                   /\ Has(w, m)' <=> Has(w, m)
                                   /\ outcome'[m] = outcome[m]
                                   /\ predecessors'[m] = predecessors[m],
         SingleAt(n)'
  PROVE  Single'
<1>1. Nodes' = Nodes /\ Live' = Live
  BY DEF Nodes, Live
<1>2. ASSUME NEW m \in Nodes, m # n PROVE SingleAt(m)'
  <2>1. Has(w, m)' <=> Has(w, m)
    BY <1>2
  <2>2. SamePlace(m)
    BY <1>2, <2>1, PlaceKept
  <2> QED BY <1>1, <1>2, <2>2, SingleKept DEF IInv
<1> QED BY <1>1, <1>2 DEF Single

(* A node that is in no worker's hand but w's.                             *)
LEMMA NotHad ==
  ASSUME NEW w \in Workers, Others(w), NEW n, \A v \in Workers : v # w => ~Has(v, n),
         \A v \in Workers : v # w /\ pc[v] = "check" => cur[v] # n
  PROVE  \A v \in Workers : v # w => ~Has(v, n)'
BY DEF Has, Others

(* A segment of a coroutine node suspends.                                 *)
LEMMA SuspendStep ==
  ASSUME IInv, NEW w \in Workers, SuspendSegment(w)
  PROVE  IInv'
<1> DEFINE n == cur[w]
<1>1. /\ pc[w] = "segment" /\ left[n] > 0 /\ Go(w, "check")
      /\ left' = [left EXCEPT ![n] = @ - 1]
      /\ task' = [task EXCEPT ![n] = IF @ = "Running" THEN "Suspended" ELSE @]
      /\ \/ armed' = armed \cup {n} /\ resumes' = resumes
         \/ resumes' = [resumes EXCEPT ![n] = @ + 1] /\ armed' = armed
      /\ UNCHANGED <<entry, run, caller, slots, starts, stop, cur, verdict, loops, edge,
                     firing, outside, wpc, started>>
  BY DEF SuspendSegment, At
<1>2. UNCHANGED <<input, predecessors, failedRequired, outcome, rpc, roots, starts, stop,
                  cancelRequested, cur, started>>
  BY <1>1 DEF entry, caller, outside
<1>3. PlaceAt(w) /\ n \in Nodes /\ Begun(w) /\ n \in Coros /\ Has(w, n) /\ n \in started
  <2>1. PlaceAt(w) /\ n \in Nodes /\ Begun(w)
    BY <1>1, PlaceFacts
  <2> QED BY <1>1, <2>1 DEF PlaceAt, Has, Begun
<1>4. WorkerType' /\ Others(w) /\ pc'[w] = "check"
  <2>1. "check" \in Steps
    BY DEF Steps
  <2> QED BY <1>1, <1>2, <2>1, GoFacts DEF Others
<1>5. QueueType /\ CoroType /\ Coros' = Coros /\ Sleeps \subseteq Coros
  BY <1>2, TypedParts DEF IInv, Parts, Coros, Sleeps, CoroType
<1>6. n \notin armed /\ resumes[n] = 0 /\ n \notin Sleeps
  BY <1>3, HasFacts DEF Sleeps
<1>7. ~Unbroken(input) /\ Alone(input)
  <2>1. ~Unbroken(input)
    BY <1>1, <1>3, <1>5 DEF IInv, Segments, CoroType
  <2> QED BY <2>1 DEF IInv, Segments
<1>8. /\ CoroType' /\ resumes' \in [Coros -> {0, 1}] /\ resumes' \in [Coros -> Nat]
      /\ Sleeps' = Sleeps \cup {n}
      /\ \A m \in armed' : resumes'[m] = 0
      /\ \A m \in Coros : m # n => task'[m] = task[m]
      /\ task'[n] \in {"Ready", "Suspended"}
  <2>1. resumes \in [Coros -> {0, 1}] /\ \A m \in armed : resumes[m] = 0
    BY DEF IInv, Segments
  <2>2. CoroType' /\ (\A m \in Coros : m # n => task'[m] = task[m])
    BY <1>1, <1>2, <1>3, <1>5 DEF CoroType, Terminal
  <2>3. task'[n] \in {"Ready", "Suspended"}
    <3>1. task[n] \notin Terminal
      BY <1>1, <1>7 DEF IInv, Segments, Alone
    <3> QED BY <1>1, <1>3, <1>5, <3>1 DEF CoroType, Terminal
  <2>4. resumes' \in [Coros -> {0, 1}] /\ Sleeps' = Sleeps \cup {n} /\ \A m \in armed' : resumes'[m] = 0
    <3>1. CASE armed' = armed \cup {n} /\ resumes' = resumes
      BY <1>3, <1>5, <1>6, <2>1, <3>1 DEF Sleeps
    <3>2. CASE resumes' = [resumes EXCEPT ![n] = @ + 1] /\ armed' = armed
      <4>1. /\ resumes'[n] = 1 /\ \A m \in Coros : m # n => resumes'[m] = resumes[m]
            /\ resumes' \in [Coros -> {0, 1}]
        BY <1>3, <1>6, <2>1, <3>2
      <4> QED BY <1>3, <1>5, <1>6, <2>1, <3>2, <4>1 DEF Sleeps, CoroType
    <3> QED BY <1>1, <3>1, <3>2
  <2> QED BY <2>2, <2>3, <2>4
<1>9. \A v \in Workers : v # w => ~Has(v, n)'
  <2>1. \A v \in Workers : v # w => ~Has(v, n)
    BY <1>3, HasFacts
  <2>2. \A v \in Workers : v # w /\ pc[v] = "check" => cur[v] # n
    BY <1>3, CheckApart
  <2> QED BY <1>2, <1>4, <2>1, <2>2 DEF Has, Others
<1>10. Segments'
  <2>1. \A m \in Sleeps' : task'[m] \in {"Ready", "Suspended"}
    BY <1>5, <1>8 DEF IInv, Segments
  <2>2. ASSUME NEW v \in Workers, pc'[v] = "check"
        PROVE  task'[cur'[v]] \in Terminal <=> cur'[v] \notin Sleeps'
    <3>1. CASE v = w
      BY <1>2, <1>8, <3>1 DEF Terminal
    <3>2. CASE v # w
      <4>1. pc[v] = "check" /\ cur'[v] = cur[v]
        BY <1>4, <2>2, <3>2 DEF Others
      <4>2. cur[v] \in Coros /\ cur[v] # n
        BY <1>3, <3>2, <4>1, CheckApart
      <4> QED BY <1>8, <4>1, <4>2 DEF IInv, Segments
    <3> QED BY <3>1, <3>2
  <2>3. \A m \in Coros : task'[m] \in Terminal /\ ~input.cancels => m \in started
    BY <1>8 DEF IInv, Segments, Terminal
  <2>4. ASSUME NEW v \in Workers, pc'[v] = "segment", ~input.cancels
        PROVE  task'[cur'[v]] \notin Terminal
    <3>1. pc[v] = "segment" /\ cur'[v] = cur[v] /\ v # w
      BY <1>4, <2>4 DEF Others
    <3>2. cur[v] \in Coros /\ cur[v] # n
      BY <1>3, <3>1, CheckApart
    <3> QED BY <1>8, <2>4, <3>1, <3>2 DEF IInv, Segments
  <2> QED BY <1>2, <1>5, <1>7, <1>8, <2>1, <2>2, <2>3, <2>4 DEF Segments, Unbroken, Alone, Terminal
<1>11. Single'
  <2>1. ~Has(w, n)'
    BY <1>2, <1>4, <1>8 DEF Has
  <2>2. SingleAt(n)'
    <3>1. SingleAt(n) /\ Live /\ outcome[n] = "Ready" /\ predecessors[n] = 0 /\ n \notin roots
          /\ starts[n] = 0
      BY <1>3, HasFacts DEF IInv, Single
    <3> QED BY <1>2, <1>8, <1>9, <2>1, <3>1 DEF SingleAt, Live
  <2>3. ASSUME NEW m \in Nodes, m # n
        PROVE  /\ starts'[m] = starts[m]
               /\ m \in Sleeps' <=> m \in Sleeps
               /\ Has(w, m)' <=> Has(w, m)
    BY <1>1, <1>2, <1>4, <1>8, <2>3 DEF Has
  <2> QED BY <1>2, <1>3, <1>4, <2>2, <2>3, SingleMoved
<1>12. Starting'
  <2>1. Begun(w)'
    BY <1>2, <1>3, <1>4 DEF Begun
  <2> QED BY <2>1, <1>1, <1>2, <1>3, <1>4, <1>8, StartingKept
<1> QED BY <1>1, <1>2, <1>3, <1>4, <1>8, <1>10, <1>11, <1>12, HandStep DEF At3, Early

(* A worker goes on with a coroutine whose resume was posted.              *)
LEMMA ClaimResumeStep ==
  ASSUME IInv, NEW w \in Workers, ClaimResume(w)
  PROVE  IInv'
<1>1. PICK n \in Coros :
        /\ resumes[n] > 0 /\ resumes' = [resumes EXCEPT ![n] = @ - 1]
        /\ task' = [task EXCEPT ![n] = IF @ \in {"Ready", "Suspended"} THEN "Running" ELSE @]
        /\ cur' = [cur EXCEPT ![w] = n]
  BY DEF ClaimResume
<1>2. /\ pc[w] = "idle" /\ w \in input.workers /\ Go(w, "segment")
      /\ UNCHANGED <<entry, run, caller, slots, starts, stop, left, armed, verdict, loops,
                     edge, firing, outside, wpc, started>>
  BY DEF ClaimResume, At
<1>3. UNCHANGED <<input, predecessors, failedRequired, outcome, rpc, roots, cancelRequested>>
  BY <1>2 DEF entry, caller, outside
<1>4. /\ QueueType /\ CoroType /\ WorkerType /\ Coros' = Coros /\ Nodes' = Nodes
      /\ Coros \subseteq Nodes /\ Sleeps \subseteq Coros /\ n \in Nodes /\ PlaceAt(w)
  BY <1>3, TypedParts, InputFacts, PlaceFacts
     DEF IInv, Parts, Coros, Nodes, Sleeps, CoroType
<1>5. WorkerType' /\ Others(w) /\ pc'[w] = "segment" /\ cur'[w] = n
  <2>1. "segment" \in Steps
    BY DEF Steps
  <2>2. cur' \in [Workers -> Nodes \cup {None}] /\ cur'[w] = n
        /\ \A v \in Workers : v # w => cur'[v] = cur[v]
    BY <1>1, <1>4 DEF WorkerType
  <2> QED BY <1>2, <1>3, <2>1, <2>2, GoFacts DEF Others
<1>6. n \in Sleeps /\ resumes[n] = 1 /\ n \notin armed /\ Alone(input) /\ ~Unbroken(input)
  <2>1. n \in Sleeps
    BY <1>1, <1>4 DEF Sleeps, QueueType
  <2> QED BY <1>1, <2>1 DEF IInv, Segments
<1>7. \A v \in Workers : v # w => pc[v] = "idle" /\ pc'[v] = "idle"
  BY <1>2, <1>5, <1>6, PlaceFacts DEF Alone, Others
<1>8. /\ SingleAt(n) /\ Live /\ outcome[n] = "Ready" /\ predecessors[n] = 0 /\ n \notin roots
      /\ starts[n] = 0
  <2>1. SingleAt(n) /\ Due(n)
    BY <1>4, <1>6 DEF IInv, Single, Due
  <2> QED BY <1>6, <2>1 DEF SingleAt
<1>9. n \in started /\ n \notin failedRequired
  <2>1. StartAt(n)
    BY <1>4 DEF IInv, Starting
  <2> QED BY <1>6, <2>1 DEF StartAt
<1>10. /\ CoroType' /\ resumes' \in [Coros -> {0, 1}] /\ QueueType' /\ Sleeps' = Sleeps \ {n}
       /\ \A m \in armed' : resumes'[m] = 0
       /\ \A m \in Coros : m # n => task'[m] = task[m]
       /\ task'[n] = "Running"
  <2>1. /\ resumes \in [Coros -> {0, 1}] /\ \A m \in armed : resumes[m] = 0
        /\ task[n] \in {"Ready", "Suspended"}
    BY <1>6 DEF IInv, Segments
  <2>2. CoroType' /\ (\A m \in Coros : m # n => task'[m] = task[m]) /\ task'[n] = "Running"
    BY <1>1, <1>2, <1>4, <2>1 DEF CoroType, Terminal
  <2>3. /\ resumes'[n] = 0 /\ \A m \in Coros : m # n => resumes'[m] = resumes[m]
        /\ resumes' \in [Coros -> {0, 1}]
    BY <1>1, <1>6, <2>1
  <2>4. QueueType'
    BY <1>2, <1>4, <2>3 DEF QueueType
  <2> QED BY <1>2, <1>4, <1>6, <2>1, <2>2, <2>3, <2>4 DEF Sleeps, CoroType
<1>11. Segments'
  <2>1. \A m \in Sleeps' : task'[m] \in {"Ready", "Suspended"}
    BY <1>4, <1>10 DEF IInv, Segments
  <2>2. \A v \in Workers : pc'[v] = "check" => (task'[cur'[v]] \in Terminal <=> cur'[v] \notin Sleeps')
    BY <1>5, <1>7
  <2>3. \A m \in Coros : task'[m] \in Terminal /\ ~input.cancels => m \in started
    BY <1>10 DEF IInv, Segments, Terminal
  <2>4. \A v \in Workers : pc'[v] = "segment" => task'[cur'[v]] \notin Terminal
    BY <1>5, <1>7, <1>10 DEF Terminal
  <2> QED BY <1>2, <1>3, <1>4, <1>6, <1>10, <2>1, <2>2, <2>3, <2>4 DEF Segments, Unbroken, Alone
<1>12. Single'
  <2>1. SingleAt(n)'
    <3>1. \A v \in Workers : v # w => ~Has(v, n)'
      BY <1>7 DEF Has
    <3> QED BY <1>2, <1>3, <1>8, <1>10, <3>1 DEF SingleAt, Live
  <2>2. ASSUME NEW m \in Nodes, m # n
        PROVE  /\ starts'[m] = starts[m]
               /\ m \in Sleeps' <=> m \in Sleeps
               /\ Has(w, m)' <=> Has(w, m)
    BY <1>2, <1>5, <1>10, <2>2 DEF Has
  <2> QED BY <1>3, <1>4, <1>5, <2>1, <2>2, SingleMoved
<1>13. Starting'
  <2>1. Begun(w)'
    BY <1>2, <1>5, <1>9 DEF Begun
  <2> QED BY <2>1, <1>2, <1>3, <1>5, <1>10, StartingKept
<1>14. PlaceAt(w)'
  <2>1. loops[w] = <<>> /\ firing[w] = {}
    BY <1>2, <1>4 DEF PlaceAt
  <2> QED BY <1>2, <1>3, <1>4, <1>5, <1>8, <2>1 DEF PlaceAt, At3, Marking, Live
<1>15. SlotsOwed'
  <2>1. Owed' = Owed
    BY <1>2, <1>3, <1>4, <1>5 DEF Owed, Others
  <2> QED BY <1>2, <1>3, <2>1, OwedKept
<1>16. EarlyMove(w) /\ started' \subseteq Nodes
  BY <1>2, <1>5 DEF EarlyMove, Early, IInv, Typed, TypeOK
<1> QED
  BY <1>2, <1>3, <1>5, <1>8, <1>10, <1>11, <1>12, <1>13, <1>14, <1>15, <1>16, EarlyStep

(* A worker takes the item that starts a node.                             *)
LEMMA ClaimStartStep ==
  ASSUME IInv, NEW w \in Workers, ClaimStart(w)
  PROVE  IInv'
<1>1. PICK n \in Nodes :
        /\ starts[n] > 0 /\ starts' = [starts EXCEPT ![n] = @ - 1]
        /\ slots' = IF input.internal THEN slots ELSE slots - 1
        /\ IF immediate THEN UNCHANGED <<pc, cur>>
                        ELSE Go(w, "begin") /\ cur' = [cur EXCEPT ![w] = n]
  BY DEF ClaimStart
<1>2. /\ pc[w] = "idle" /\ w \in input.workers
      /\ UNCHANGED <<entry, run, caller, resumes, coroutine, verdict, loops, edge, firing,
                     outside, wpc, started>>
  BY DEF ClaimStart, At
<1>3. UNCHANGED <<input, predecessors, failedRequired, outcome, rpc, roots, task, stop, left, armed,
                  cancelRequested>>
  BY <1>2 DEF entry, caller, coroutine, outside
<1>4. /\ QueueType /\ CoroType /\ WorkerType /\ Coros' = Coros /\ Nodes' = Nodes /\ PlaceAt(w)
  BY <1>3, TypedParts, PlaceFacts DEF IInv, Parts, Coros, Nodes
<1>5. /\ WorkerType' /\ Others(w)
      /\ \/ pc'[w] = "idle"
         \/ pc'[w] = "begin" /\ cur'[w] = n
  <2>1. CASE immediate
    <3>1. UNCHANGED <<pc, cur>>
      BY <1>1, <2>1
    <3> QED BY <1>2, <1>3, <1>4, <3>1, TypesKept DEF Others, IInv
  <2>2. CASE ~immediate
    <3>1. "begin" \in Steps /\ Go(w, "begin") /\ cur' = [cur EXCEPT ![w] = n]
      BY <1>1, <2>2 DEF Steps
    <3>2. cur' \in [Workers -> Nodes \cup {None}] /\ cur'[w] = n
          /\ \A v \in Workers : v # w => cur'[v] = cur[v]
      BY <1>4, <3>1 DEF WorkerType
    <3> QED BY <1>2, <1>3, <3>1, <3>2, GoFacts DEF Others
  <2> QED BY <2>1, <2>2
<1>6. /\ SingleAt(n) /\ Live /\ outcome[n] = "Ready" /\ predecessors[n] = 0 /\ n \notin roots
      /\ starts[n] = 1 /\ n \notin Sleeps /\ \A v \in Workers : ~Has(v, n)
  <2>1. SingleAt(n) /\ Due(n) /\ starts[n] # 0
    BY <1>1, <1>4 DEF IInv, Single, Due
  <2> QED BY <2>1 DEF SingleAt
<1>7. n \notin started /\ n \notin failedRequired
  <2>1. StartAt(n)
    BY DEF IInv, Starting
  <2> QED BY <1>6, <2>1 DEF StartAt
<1>8. /\ starts'[n] = 0 /\ \A m \in Nodes : m # n => starts'[m] = starts[m]
      /\ QueueType' /\ CoroType'
  <2>1. starts' \in [Nodes -> Nat] /\ starts'[n] = 0 /\ \A m \in Nodes : m # n => starts'[m] = starts[m]
    BY <1>1, <1>4, <1>6 DEF QueueType
  <2> QED BY <1>2, <1>3, <1>4, <2>1, TypesKept DEF QueueType, IInv
<1>9. Segments' /\ Sleeps' = Sleeps
  <2>1. pc'[w] \notin {"segment", "check"}
    BY <1>5
  <2> QED BY <1>2, <1>3, <1>5, <2>1, SegmentsKept
<1>10. Single'
  <2>1. SingleAt(n)'
    <3>1. \A v \in Workers : v # w => ~Has(v, n)'
      <4>1. \A v \in Workers : v # w /\ pc[v] = "check" => cur[v] # n
        BY <1>6 DEF Has
      <4> QED BY <1>5, <1>6, <4>1, NotHad
    <3> QED BY <1>3, <1>6, <1>8, <1>9, <3>1 DEF SingleAt, Live
  <2>2. ASSUME NEW m \in Nodes, m # n
        PROVE  /\ starts'[m] = starts[m]
               /\ m \in Sleeps' <=> m \in Sleeps
               /\ Has(w, m)' <=> Has(w, m)
    BY <1>2, <1>5, <1>8, <1>9, <2>2 DEF Has
  <2> QED BY <1>3, <1>5, <2>1, <2>2, SingleMoved
<1>11. Starting'
  <2>1. Begun(w)'
    BY <1>3, <1>5, <1>7 DEF Begun
  <2>2. \A m \in Nodes : starts'[m] # 0 => starts'[m] = starts[m]
    BY <1>8
  <2> QED BY <2>1, <2>2, <1>2, <1>3, <1>5, <1>7, <1>9, StartingKept
<1>12. PlaceAt(w)'
  <2>1. loops[w] = <<>> /\ firing[w] = {} /\ Live' = Live
    BY <1>2, <1>3, <1>4 DEF PlaceAt, Live, At3
  <2> QED BY <1>2, <1>3, <1>4, <1>5, <1>6, <2>1 DEF PlaceAt, At3, Marking
<1>13. SlotsOwed'
  <2>1. n \in Owed
    BY <1>1 DEF Owed
  <2>2. Owed' = Owed \ {n}
    <3>1. \A v \in Workers : pc[v] = "decide" => edge[v] # n
      BY <1>6 DEF Has
    <3>2. \A v \in Workers : pc'[v] = "decide" <=> pc[v] = "decide"
      BY <1>2, <1>5 DEF Others
    <3>3. \A m \in Nodes : starts'[m] > 0 <=> starts[m] > 0 /\ m # n
      BY <1>8
    <3>4. rpc \in {"post", "returned"}
      BY <1>6 DEF Live
    <3> QED BY <1>2, <1>3, <1>4, <1>6, <3>1, <3>2, <3>3, <3>4 DEF Owed
  <2> QED BY <1>1, <1>3, <1>6, <2>1, <2>2, OwedLess
<1>14. EarlyMove(w) /\ started' \subseteq Nodes
  BY <1>2, <1>5 DEF EarlyMove, Early, IInv, Typed, TypeOK
<1> QED
  BY <1>2, <1>3, <1>5, <1>6, <1>8, <1>9, <1>10, <1>11, <1>12, <1>13, <1>14, EarlyStep

-----------------------------------------------------------------------------
(* The steps of the watchers and of those who cancel and shut down.        *)
LEMMA CalmNext ==
  ASSUME IInv, cancelRequested => cancelRequested',
         UNCHANGED <<input, entry, queues, coroutine, worker, caller, slots, started, remaining,
                     report, runState>>,
         callbacks' = callbacks \/ runState = "Running", callbacks' \subseteq Watchers,
         OutsideType', Setting', WatcherHeld'
  PROVE  IInv'
<1>1. UNCHANGED <<rpc, roots, refusal, predecessors, failedRequired, outcome, starts, resumes, task,
                  stop, left, armed, pc, cur, verdict, loops, edge, firing>>
  BY DEF entry, queues, coroutine, worker, caller
<1>2. Segments' /\ Single' /\ Counted' /\ Looping' /\ Joins' /\ Told' /\ Starting' /\ Counters'
  <2>1. Live' <=> Live
    BY <1>1 DEF Live
  <2> QED BY <1>1, <2>1, CalmStep
<1>3. SlotsOwed'
  <2>1. Owed' = Owed
    BY <1>1, OwedCalm
  <2> QED BY <1>1, <2>1, OwedKept
<1>4. CallerType' /\ EntryType' /\ QueueType' /\ CoroType' /\ WorkerType' /\ LoopType'
      /\ Nodes' = Nodes /\ Coros' = Coros
  BY <1>1, TypesKept DEF IInv
<1>5. RunType' /\ slots' \in 0 .. Cardinality(Nodes')
  BY <1>4 DEF IInv, Typed, TypeOK, RunType, Terminal
<1>6. Places'
  BY <1>1, <1>4 DEF IInv, Typed, Places, PlaceAt, Live
<1>7. Typed'
  BY <1>4, <1>5, <1>6, TypedNext DEF Parts
<1> QED BY <1>2, <1>3, <1>7 DEF IInv

(* request_cancel() begins and returns; shutdown_now() sets the mode.      *)
LEMMA CallStep ==
  ASSUME IInv, CancelReturns \/ RequestCancel \/ ShutdownNow
  PROVE  IInv'
<1>1. /\ UNCHANGED <<input, entry, queues, coroutine, worker, caller, slots, started, remaining,
                     report, runState, callbacks, wpc>>
      /\ cancelRequested' = cancelRequested \/ (cancelRequested' = TRUE /\ input.cancels)
      /\ cpc' = "telling" => cpc = "telling" \/ input.cancels
  BY DEF CancelReturns, RequestCancel, ShutdownNow, run, caller
<1>2. UNCHANGED <<rpc, predecessors, firing>> /\ Nodes' = Nodes
      /\ \A n : Pred(n)' = Pred(n) /\ Succ(n)' = Succ(n)
  BY <1>1 DEF entry, caller, worker, Nodes, Pred, Succ
<1>3. Setting' /\ WatcherHeld'
  BY <1>1, <1>2 DEF IInv, Typed, Setting, WatcherHeld, Live
<1>4. OutsideType'
  <2>1. OutsideType
    BY TypedParts DEF IInv, Parts
  <2>2. CASE CancelReturns
    BY <1>1, <1>2, <2>1, <2>2 DEF OutsideType, CancelReturns
  <2>3. CASE RequestCancel
    BY <1>1, <1>2, <2>1, <2>3 DEF OutsideType, RequestCancel
  <2>4. CASE ShutdownNow
    BY <1>1, <1>2, <2>1, <2>4 DEF OutsideType, ShutdownNow
  <2> QED BY <2>2, <2>3, <2>4
<1>5. callbacks' \subseteq Watchers
  BY <1>1 DEF IInv, Typed, TypeOK
<1> QED BY <1>1, <1>3, <1>4, <1>5, CalmNext

(* A watcher finds the run complete, or leaves its callback while the run  *)
(* is still to complete.                                                   *)
LEMMA WatchStep ==
  ASSUME IInv, NEW x \in Watchers,
         AwaitReady(x) \/ BeginWait(x) \/ TimeOut(x) \/ Register(x) \/ GetReport(x) \/ EndWait(x)
  PROVE  IInv'
<1>1. /\ UNCHANGED <<input, entry, queues, coroutine, worker, caller, slots, started, outside,
                     remaining, report, runState>>
      /\ \E p \in {"register", "waiting", "woken", "asleep", "timedOut", "done"} :
            /\ wpc' = [wpc EXCEPT ![x] = p]
            /\ p = "register" => rpc = "returned"
            /\ p = "waiting" => rpc = "returned" /\ remaining # 0 /\ callbacks' = callbacks \cup {x}
            /\ p # "waiting" => callbacks' = callbacks
  <2>1. wpc[x] = "register" => rpc = "returned"
    BY DEF IInv, Typed, Setting
  <2>2. CASE AwaitReady(x)
    BY <2>2 DEF AwaitReady, run, caller
  <2>3. CASE BeginWait(x)
    BY <2>3 DEF BeginWait, run, caller
  <2>4. CASE TimeOut(x)
    BY <2>4 DEF TimeOut, run, caller
  <2>5. CASE Register(x)
    BY <2>1, <2>5 DEF Register, run, caller
  <2>6. CASE GetReport(x)
    BY <2>6 DEF GetReport, run, caller
  <2>7. CASE EndWait(x)
    BY <2>7 DEF EndWait, run, caller
  <2> QED BY <2>2, <2>3, <2>4, <2>5, <2>6, <2>7
<1>2. PICK p \in {"register", "waiting", "woken", "asleep", "timedOut", "done"} :
            /\ wpc' = [wpc EXCEPT ![x] = p]
            /\ p = "register" => rpc = "returned"
            /\ p = "waiting" => rpc = "returned" /\ remaining # 0 /\ callbacks' = callbacks \cup {x}
            /\ p # "waiting" => callbacks' = callbacks
  BY <1>1
<1>3. /\ UNCHANGED <<rpc, predecessors, firing, cancelRequested, cpc, toCancel, immediate, swept>>
      /\ Nodes' = Nodes /\ \A n : Pred(n)' = Pred(n) /\ Succ(n)' = Succ(n)
  BY <1>1 DEF entry, caller, worker, outside, Nodes, Pred, Succ
<1>4. OutsideType' /\ wpc'[x] = p /\ \A y \in Watchers : y # x => wpc'[y] = wpc[y]
  <2>1. OutsideType
    BY TypedParts DEF IInv, Parts
  <2> QED BY <1>1, <1>2, <1>3, <2>1 DEF OutsideType
<1>5. p = "waiting" => runState = "Running" /\ Live
  <2>1. remaining # 0 => Uncounted # {}
    BY FS_EmptySet DEF IInv, Counters
  <2> QED BY <1>2, <2>1 DEF IInv, Counters, Live
<1>6. callbacks' \subseteq Watchers /\ (callbacks' = callbacks \/ runState = "Running")
  BY <1>2, <1>5 DEF IInv, Typed, TypeOK
<1>7. Setting'
  BY <1>1, <1>2, <1>3, <1>4, <1>5 DEF IInv, Typed, Setting, Live
<1>8. WatcherHeld'
  BY <1>1, <1>2, <1>3, <1>4, <1>5 DEF IInv, WatcherHeld
<1> QED BY <1>1, <1>3, <1>4, <1>6, <1>7, <1>8, CalmNext

-----------------------------------------------------------------------------
(* The resume of a suspended coroutine is posted.                          *)
Resumed(n) ==
  /\ n \in armed /\ armed' = armed \ {n}
  /\ resumes' = [resumes EXCEPT ![n] = @ + 1]

(* The resume of a suspended coroutine is posted.                          *)
LEMMA ResumedFacts ==
  ASSUME IInv, NEW n \in Coros, Resumed(n), UNCHANGED input
  PROVE  /\ Sleeps' = Sleeps /\ armed' \subseteq Coros /\ resumes' \in [Coros -> {0, 1}]
         /\ \A m \in armed' : resumes'[m] = 0
<1>1. /\ resumes \in [Coros -> {0, 1}] /\ \A m \in armed : resumes[m] = 0
      /\ armed \subseteq Coros
  BY DEF IInv, Segments, Typed, TypeOK
<1>2. /\ resumes'[n] = 1 /\ \A m \in Coros : m # n => resumes'[m] = resumes[m]
      /\ resumes' \in [Coros -> {0, 1}]
  BY <1>1 DEF Resumed
<1>3. Coros' = Coros
  BY DEF Coros
<1> QED BY <1>1, <1>2, <1>3 DEF Resumed, Sleeps

(* A step that leaves the nodes and the workers where they are, and the    *)
(* states of the coroutines as they are unless somebody cancels.           *)
LEMMA QuietStep ==
  ASSUME IInv,
         UNCHANGED <<input, entry, run, caller, slots, starts, left, worker, cancelRequested,
                     immediate, swept, wpc, started>>,
         Sleeps' = Sleeps, armed' \subseteq Coros, resumes' \in [Coros -> {0, 1}],
         \A m \in armed' : resumes'[m] = 0, CoroType', OutsideType', cpc' = cpc,
         task' = task \/ (input.cancels /\ \A m \in Coros : task[m] \in Terminal => task'[m] = task[m])
  PROVE  IInv'
<1>1. UNCHANGED <<rpc, roots, refusal, predecessors, failedRequired, outcome, remaining, report,
                  runState, callbacks, pc, cur, verdict, loops, edge, firing>>
  BY DEF entry, run, caller, worker
<1>2. /\ CallerType' /\ EntryType' /\ RunType' /\ WorkerType' /\ LoopType' /\ Nodes' = Nodes
      /\ Coros' = Coros /\ \A n : Pred(n)' = Pred(n) /\ Succ(n)' = Succ(n)
  BY <1>1, TypesKept DEF IInv
<1>3. Segments'
  <2>1. CASE task' = task
    BY <1>1, <1>2, <2>1 DEF IInv, Segments, Unbroken, Alone, Terminal
  <2>2. CASE input.cancels /\ \A m \in Coros : task[m] \in Terminal => task'[m] = task[m]
    <3>1. Unbroken(input) /\ Sleeps = {}
      BY <2>2 DEF IInv, Segments, Alone
    <3>2. ASSUME NEW v \in Workers, pc[v] = "check" PROVE task'[cur[v]] \in Terminal
      <4>1. cur[v] \in Coros /\ task[cur[v]] \in Terminal
        BY <3>1, <3>2, PlaceFacts DEF IInv, Segments, PlaceAt
      <4> QED BY <2>2, <4>1
    <3> QED BY <1>1, <1>2, <2>2, <3>1, <3>2 DEF IInv, Segments, Unbroken, Alone, Terminal
  <2> QED BY <2>1, <2>2
<1>4. Single'
  <2>1. ASSUME NEW m \in Nodes PROVE SamePlace(m)
    <3>1. (m \in Sleeps)' <=> m \in Sleeps
      OBVIOUS
    <3> QED BY <1>1, <3>1 DEF SamePlace, Has
  <2> QED BY <1>1, <2>1, SingleSame
<1>5. Counted' /\ Looping' /\ Joins' /\ Told' /\ Counters'
  <2>1. \A v \in Workers : EarlyMove(v)
    BY <1>1 DEF EarlyMove
  <2>2. Live' <=> Live
    BY <1>1 DEF Live
  <2> QED BY <1>1, <2>1, <2>2, TellingKept, CountersKept
<1>6. Starting'
  BY <1>1, <1>2 DEF IInv, Starting, StartAt, Begun, Live
<1>7. SlotsOwed' /\ WatcherHeld'
  <2>1. Owed' = Owed
    BY <1>1, OwedCalm
  <2> QED BY <1>1, <2>1, OwedKept DEF IInv, WatcherHeld
<1>8. Places'
  BY <1>1, <1>2 DEF IInv, Typed, Places, PlaceAt, Live
<1>9. Setting'
  BY <1>1, <1>2 DEF IInv, Typed, Setting, Live
<1>10. QueueType' /\ slots' \in 0 .. Cardinality(Nodes')
  BY <1>2, TypedParts DEF IInv, Parts, QueueType
<1>11. Typed'
  BY <1>2, <1>8, <1>9, <1>10, TypedNext DEF Parts
<1> QED BY <1>3, <1>4, <1>5, <1>6, <1>7, <1>11 DEF IInv

(* The event a coroutine awaits.                                           *)
LEMMA WakeStep ==
  ASSUME IInv, Wake
  PROVE  IInv'
<1>1. PICK n \in armed : armed' = armed \ {n} /\ resumes' = [resumes EXCEPT ![n] = @ + 1]
  BY DEF Wake
<1>2. UNCHANGED <<entry, run, caller, slots, starts, task, stop, left, worker, outside, wpc, started>>
  BY DEF Wake
<1>3. UNCHANGED <<input, cpc, toCancel, cancelRequested, immediate, swept>>
  BY <1>2 DEF caller, outside
<1>4. CoroType /\ Coros' = Coros
  BY <1>3, TypedParts DEF IInv, Parts, Coros
<1>5. n \in Coros /\ Resumed(n)
  BY <1>1, <1>4 DEF Resumed, CoroType
<1>6. /\ Sleeps' = Sleeps /\ armed' \subseteq Coros /\ resumes' \in [Coros -> {0, 1}]
      /\ \A m \in armed' : resumes'[m] = 0
  BY <1>3, <1>5, ResumedFacts
<1>7. CoroType' /\ OutsideType'
  BY <1>2, <1>3, <1>4, <1>6, TypesKept DEF CoroType, Terminal, IInv
<1> QED BY <1>2, <1>3, <1>6, <1>7, QuietStep

(* cancel_pre_start() of a node: whoever is told is not suspended.         *)
LEMMA CancelNodeStep ==
  ASSUME IInv, CancelNode
  PROVE  IInv'
<1>1. PICK n \in toCancel :
        /\ IF n \in Coros THEN RequestStop(n) ELSE UNCHANGED <<stop, task, armed, resumes>>
        /\ toCancel' = toCancel \ {n}
  BY DEF CancelNode
<1>2. /\ cpc = "telling"
      /\ UNCHANGED <<entry, run, caller, slots, starts, left, worker, cancelRequested, cpc,
                     immediate, swept, wpc, started>>
  BY DEF CancelNode
<1>3. UNCHANGED input /\ Coros' = Coros /\ Nodes' = Nodes /\ CoroType /\ OutsideType /\ QueueType
  BY <1>2, TypedParts DEF caller, Coros, Nodes, IInv, Parts
<1>4. input.cancels /\ Sleeps = {} /\ armed = {} /\ resumes \in [Coros -> {0, 1}]
  <2>1. input.cancels
    BY <1>2 DEF IInv, Typed, Setting
  <2> QED BY <2>1 DEF IInv, Segments, Alone, Sleeps
<1>5. /\ armed' = armed /\ resumes' = resumes /\ CoroType'
      /\ \A m \in Coros : task[m] \in Terminal => task'[m] = task[m]
  <2>1. CASE n \in Coros
    <3>1. /\ armed' = armed /\ resumes' = resumes /\ stop' = [stop EXCEPT ![n] = TRUE]
          /\ task' = [task EXCEPT ![n] = IF @ = "Ready" THEN "Cancelled" ELSE @]
      BY <1>1, <1>4, <2>1 DEF RequestStop
    <3> QED BY <1>2, <1>3, <2>1, <3>1 DEF CoroType, Terminal
  <2>2. CASE n \notin Coros
    BY <1>1, <1>2, <1>3, <2>2 DEF CoroType, Terminal
  <2> QED BY <2>1, <2>2
<1>6. OutsideType'
  BY <1>1, <1>2, <1>3 DEF OutsideType
<1>7. Sleeps' = Sleeps
  BY <1>3, <1>5 DEF Sleeps
<1> QED BY <1>2, <1>3, <1>4, <1>5, <1>6, <1>7, QuietStep

-----------------------------------------------------------------------------
(* A step that only posts nodes or takes them back.                        *)
LEMMA PostNext ==
  ASSUME IInv, Live' <=> Live,
         UNCHANGED <<input, entry, run, resumes, coroutine, worker, cancelRequested, cpc, wpc, started>>,
         Single', Starting', SlotsOwed', QueueType', CallerType', OutsideType', Setting'
  PROVE  IInv'
<1>1. UNCHANGED <<predecessors, failedRequired, outcome, remaining, report, runState, callbacks, task,
                  stop, left, armed, pc, cur, verdict, loops, edge, firing>>
  BY DEF entry, run, coroutine, worker
<1>2. EntryType' /\ RunType' /\ CoroType' /\ WorkerType' /\ LoopType' /\ Nodes' = Nodes /\ Coros' = Coros
  BY <1>1, TypesKept DEF IInv
<1>3. Segments'
  <2>1. Sleeps' = Sleeps
    BY <1>1, <1>2 DEF Sleeps
  <2> QED BY <1>1, <1>2, <2>1 DEF IInv, Segments, Unbroken, Alone, Terminal
<1>4. Counted' /\ Looping' /\ Joins' /\ Told' /\ Counters'
  <2>1. \A v \in Workers : EarlyMove(v)
    BY <1>1 DEF EarlyMove
  <2> QED BY <1>1, <2>1, TellingKept, CountersKept
<1>5. WatcherHeld'
  BY <1>1 DEF IInv, WatcherHeld
<1>6. Places'
  BY <1>1, <1>2 DEF IInv, Typed, Places, PlaceAt
<1>7. Typed'
  BY <1>2, <1>6, SlotsNext, TypedNext DEF Parts
<1> QED BY <1>3, <1>4, <1>5, <1>7 DEF IInv

(* run() posts a root.                                                     *)
LEMMA PostRootStep ==
  ASSUME IInv, PostRoot
  PROVE  IInv'
<1>1. PICK n \in roots : /\ starts' = [starts EXCEPT ![n] = @ + 1] /\ roots' = roots \ {n}
                         /\ rpc' \in {"returned", "post"}
  BY DEF PostRoot
<1>2. /\ rpc = "post"
      /\ UNCHANGED <<entry, run, input, refusal, slots, resumes, coroutine, worker, outside, wpc,
                     started>>
  BY DEF PostRoot
<1>3. UNCHANGED <<predecessors, failedRequired, outcome, callbacks, runState, armed, pc, cur, edge,
                  cpc, toCancel, cancelRequested, immediate, swept>>
  BY <1>2 DEF entry, run, coroutine, worker, outside
<1>4. /\ Nodes' = Nodes /\ Coros' = Coros /\ OutsideType' /\ CallerType /\ QueueType
      /\ \A m : Pred(m)' = Pred(m) /\ Succ(m)' = Succ(m)
  BY <1>2, <1>3, TypesKept, TypedParts DEF IInv, Parts
<1>5. n \in Nodes /\ SingleAt(n) /\ StartAt(n) /\ Live /\ Live'
  BY <1>1, <1>2, <1>4 DEF CallerType, IInv, Single, Starting, Live
<1>6. /\ starts'[n] = 1 /\ starts[n] = 0 /\ starts' \in [Nodes -> Nat]
      /\ \A m \in Nodes : m # n => starts'[m] = starts[m]
  BY <1>1, <1>4, <1>5 DEF SingleAt, QueueType
<1>7. Sleeps' = Sleeps /\ \A v \in Workers : \A m : Has(v, m)' <=> Has(v, m)
  <2>1. Sleeps' = Sleeps
    BY <1>2, <1>3, <1>4 DEF Sleeps
  <2> QED BY <1>3, <2>1 DEF Has
<1>8. Single'
  <2>1. ASSUME NEW m \in Nodes PROVE SingleAt(m)'
    <3>1. CASE m = n
      <4>1. Due(n)
        BY <1>1 DEF Due
      <4> QED BY <1>1, <1>3, <1>5, <1>6, <1>7, <3>1, <4>1 DEF SingleAt
    <3>2. CASE m # n
      <4>1. SamePlace(m)
        BY <1>1, <1>6, <1>7, <3>2 DEF SamePlace
      <4> QED BY <1>3, <1>5, <4>1, SingleKept DEF IInv
    <3> QED BY <3>1, <3>2
  <2> QED BY <1>4, <2>1 DEF Single
<1>9. Starting'
  <2>1. ASSUME NEW m \in Nodes PROVE StartAt(m)'
    <3>1. StartAt(m)
      BY DEF IInv, Starting
    <3> QED BY <1>1, <1>2, <1>3, <1>5, <1>6, <1>7, <3>1 DEF StartAt
  <2>2. \A v \in Workers : Begun(v)'
    BY <1>2, <1>3 DEF IInv, Starting, Begun, worker
  <2> QED BY <1>4, <2>1, <2>2 DEF Starting
<1>10. SlotsOwed'
  <2>1. Owed' = Owed
    BY <1>1, <1>2, <1>3, <1>4, <1>5, <1>6 DEF Owed
  <2> QED BY <1>1, <1>2, <2>1 DEF IInv, SlotsOwed
<1>11. QueueType' /\ CallerType'
  BY <1>1, <1>2, <1>4, <1>6 DEF QueueType, CallerType
<1>12. Setting'
  BY <1>1, <1>2, <1>3, <1>4, <1>5 DEF IInv, Typed, Setting, Live
<1> QED BY <1>2, <1>3, <1>4, <1>5, <1>8, <1>9, <1>10, <1>11, <1>12, PostNext

(* shutdown_now() drops what has not been claimed.                         *)
LEMMA CancelUnstartedStep ==
  ASSUME IInv, CancelUnstarted
  PROVE  IInv'
<1> DEFINE S == {n \in Nodes : starts[n] # 0}
<1>1. /\ swept' = TRUE /\ starts' = [n \in Nodes |-> 0]
      /\ UNCHANGED <<entry, run, caller, resumes, coroutine, worker, cancelRequested, cpc, toCancel,
                     immediate, wpc, started>>
  BY DEF CancelUnstarted
<1>2. UNCHANGED <<input, rpc, roots, refusal, predecessors, failedRequired, outcome, callbacks,
                  runState, armed, pc, cur, edge>>
  BY <1>1 DEF entry, run, caller, coroutine, worker
<1>3. /\ Nodes' = Nodes /\ Coros' = Coros /\ Live' = Live /\ CallerType'
      /\ \A m : Pred(m)' = Pred(m) /\ Succ(m)' = Succ(m)
  BY <1>2, TypesKept DEF IInv, Live
<1>4. QueueType' /\ OutsideType'
  <2>1. QueueType /\ OutsideType
    BY TypedParts DEF IInv, Parts
  <2> QED BY <1>1, <1>2, <1>3, <2>1 DEF QueueType, OutsideType
<1>5. Sleeps' = Sleeps /\ \A v \in Workers : \A m : Has(v, m)' <=> Has(v, m)
  <2>1. Sleeps' = Sleeps
    BY <1>1, <1>2, <1>3 DEF Sleeps
  <2> QED BY <1>2, <2>1 DEF Has
<1>6. Single'
  <2>1. ASSUME NEW m \in Nodes PROVE SingleAt(m)'
    <3>1. SingleAt(m) /\ starts'[m] = 0
      BY <1>1 DEF IInv, Single
    <3>2. Due(m)' => Due(m)
      BY <1>2, <1>5, <3>1 DEF Due
    <3> QED BY <1>2, <1>3, <1>5, <3>1, <3>2 DEF SingleAt
  <2> QED BY <1>3, <2>1 DEF Single
<1>7. Starting'
  <2>1. ASSUME NEW m \in Nodes PROVE StartAt(m)'
    <3>1. StartAt(m) /\ starts'[m] = 0
      BY <1>1 DEF IInv, Starting
    <3> QED BY <1>1, <1>2, <1>3, <1>5, <3>1 DEF StartAt
  <2>2. \A v \in Workers : Begun(v)'
    BY <1>1, <1>2 DEF IInv, Starting, Begun, worker
  <2> QED BY <1>3, <2>1, <2>2 DEF Starting
<1>8. SlotsOwed'
  <2>1. /\ IsFiniteSet(Nodes) /\ IsFiniteSet(Owed) /\ Cardinality(Owed) \in Nat
        /\ input.internal \in BOOLEAN
    BY InputFacts, OwedFacts DEF IInv
  <2>2. IsFiniteSet(S) /\ Cardinality(S) \in Nat
    BY <2>1, FS_Subset, FS_CardinalityType
  <2>3. \A n \in Nodes : starts[n] \in {0, 1}
    BY DEF IInv, Single, SingleAt
  <2>4. Cardinality(UNION {{n} \X (1 .. starts[n]) : n \in Nodes}) = Cardinality(S)
    <3>1. UNION {{n} \X (1 .. starts[n]) : n \in Nodes} = S \X {1}
      <4>1. ASSUME NEW n \in Nodes PROVE {n} \X (1 .. starts[n]) = IF n \in S THEN {n} \X {1} ELSE {}
        <5>1. CASE starts[n] = 0
          <6>1. 1 .. starts[n] = {}
            BY <5>1
          <6> QED BY <5>1, <6>1
        <5>2. CASE starts[n] = 1
          <6>1. 1 .. starts[n] = {1}
            BY <5>2
          <6> QED BY <5>2, <6>1
        <5> QED BY <2>3, <5>1, <5>2
      <4> QED BY <4>1
    <3>2. IsFiniteSet({1}) /\ Cardinality({1}) = 1
      BY FS_Singleton
    <3>3. Cardinality(S \X {1}) = Cardinality(S) * Cardinality({1})
      BY <2>2, <3>2, FS_Product
    <3>4. Cardinality(S) * 1 = Cardinality(S)
      <4> HIDE DEF S
      <4> QED BY <2>2
    <3> HIDE DEF S
    <3> QED BY <3>1, <3>2, <3>3, <3>4
  <2>5. slots' = IF input.internal THEN slots ELSE slots - Cardinality(S)
    BY <2>4 DEF CancelUnstarted
  <2>6. \A n \in S : n \in Owed /\ Live /\ n \notin roots /\ predecessors[n] = 0
                     /\ \A v \in Workers : pc[v] = "decide" => edge[v] # n
    <3> SUFFICES ASSUME NEW n \in S
                 PROVE  n \in Owed /\ Live /\ n \notin roots /\ predecessors[n] = 0
                        /\ \A v \in Workers : pc[v] = "decide" => edge[v] # n
      OBVIOUS
    <3>1. SingleAt(n) /\ starts[n] > 0
      BY <2>3 DEF IInv, Single
    <3>2. Due(n)
      BY DEF Due
    <3> QED BY <3>1, <3>2 DEF SingleAt, Owed, Has
  <2>7. ~Live => S = {}
    BY <2>6
  <2>8. Owed' = Owed \ S
    <3>1. \A n \in Nodes : starts'[n] > 0 <=> FALSE
      BY <1>1
    <3>2. \A n \in Nodes : starts[n] > 0 <=> n \in S
      BY <2>3
    <3>3. Owed' = (IF rpc \in {"post", "returned"} THEN roots ELSE Nodes)
                  \cup {n \in Nodes : predecessors[n] > 0}
                  \cup {edge[w] : w \in {v \in Workers : pc[v] = "decide"}}
      BY <1>2, <1>3, <3>1 DEF Owed
    <3>4. Owed = (IF rpc \in {"post", "returned"} THEN roots ELSE Nodes)
                 \cup {n \in Nodes : predecessors[n] > 0} \cup S
                 \cup {edge[w] : w \in {v \in Workers : pc[v] = "decide"}}
      BY <3>2 DEF Owed
    <3>5. \A n \in S : n \notin {m \in Nodes : predecessors[m] > 0}
                      /\ n \notin {edge[w] : w \in {v \in Workers : pc[v] = "decide"}}
      BY <2>6
    <3> HIDE DEF S
    <3> QED BY <2>6, <3>3, <3>4, <3>5 DEF Live
  <2>9. Cardinality(Owed') = Cardinality(Owed) - Cardinality(S)
    <3>1. Owed \cap S = S
      BY <2>6
    <3>2. Cardinality(Owed \ S) = Cardinality(Owed) - Cardinality(Owed \cap S)
      <4> HIDE DEF S
      <4> QED BY <2>1, FS_Difference
    <3> QED BY <2>8, <3>1, <3>2
  <2>10. CASE input.internal
    BY <1>2, <2>5, <2>10 DEF IInv, SlotsOwed
  <2>11. CASE ~input.internal /\ Live
    <3>1. slots = Cardinality(Owed)
      BY <2>11 DEF IInv, SlotsOwed, Live
    <3> HIDE DEF S
    <3> QED BY <1>2, <2>5, <2>9, <2>11, <3>1 DEF SlotsOwed, Live
  <2>12. CASE ~input.internal /\ ~Live
    <3>1. Cardinality(S) = 0 /\ Owed' = Owed
      BY <2>7, <2>8, <2>12, FS_EmptySet
    <3>2. slots' = slots
      <4>1. slots \in Nat
        BY SlotsTyped, InputFacts DEF IInv
      <4> HIDE DEF S
      <4> QED BY <2>5, <2>12, <3>1, <4>1
    <3> QED BY <1>2, <3>1, <3>2, OwedKept
  <2> QED BY <2>1, <2>10, <2>11, <2>12
<1>9. Setting'
  BY <1>1, <1>2, <1>3 DEF IInv, Typed, Setting
<1> QED BY <1>1, <1>2, <1>3, <1>4, <1>6, <1>7, <1>8, <1>9, PostNext

-----------------------------------------------------------------------------
(* Before the counters are set nothing has moved.                          *)
Fresh ==
  /\ \A w \in Workers : pc[w] = "idle" /\ loops[w] = <<>> /\ firing[w] = {}
  /\ \A n \in Nodes : outcome[n] = "Ready" /\ starts[n] = 0
  /\ Sleeps = {} /\ failedRequired = {} /\ started = {} /\ callbacks = {}

(* Then the parts about places and outcomes hold.                          *)
LEMMA FreshInv ==
  Fresh /\ (\A n \in roots : Live /\ predecessors[n] = 0)
    => Single /\ Counted /\ Looping /\ Told /\ Starting /\ Uncounted = Nodes
<1> SUFFICES ASSUME Fresh, \A n \in roots : Live /\ predecessors[n] = 0
             PROVE  Single /\ Counted /\ Looping /\ Told /\ Starting /\ Uncounted = Nodes
  OBVIOUS
<1>1. /\ \A w \in Workers : pc[w] = "idle" /\ DOMAIN loops[w] = {} /\ firing[w] = {}
      /\ \A n \in Nodes : outcome[n] = "Ready" /\ starts[n] = 0
      /\ Sleeps = {} /\ failedRequired = {} /\ started = {} /\ callbacks = {}
  BY DEF Fresh
<1>2. \A w \in Workers : \A n : ~Has(w, n) /\ ~Marks(w, n)
  BY <1>1 DEF Has, Marks, Marking
<1>3. Single
  BY <1>1, <1>2 DEF Single, SingleAt, Due
<1>4. Counted /\ Looping
  BY <1>1, <1>2 DEF Counted, Looping
<1>5. Told
  BY <1>1 DEF Told, Bad
<1>6. Starting
  BY <1>1 DEF Starting, StartAt, Begun
<1>7. Uncounted = Nodes
  BY <1>1 DEF Uncounted
<1> QED BY <1>3, <1>4, <1>5, <1>6, <1>7

(* And after a step, too.                                                  *)
LEMMA FreshNext ==
  (Fresh /\ (\A n \in roots : Live /\ predecessors[n] = 0))'
    => (Single /\ Counted /\ Looping /\ Told /\ Starting /\ Uncounted = Nodes)'
BY FreshInv, PTL

(* The invariant says so of every state before materialize().              *)
LEMMA NotLive ==
  ASSUME IInv, ~Live
  PROVE  /\ Fresh /\ roots = {} /\ Owed = Nodes /\ Uncounted = Nodes
         /\ Nodes # {} => runState = "Running"
<1>1. \A n \in Nodes : SingleAt(n) /\ ~Due(n) /\ outcome[n] = "Ready" /\ n \notin started
  BY DEF IInv, Single, SingleAt, Counted, Starting, StartAt
<1>2. roots = {} /\ (\A n \in Nodes : starts[n] = 0) /\ started = {}
  BY <1>1 DEF Due, IInv, Typed, TypeOK
<1>3. Sleeps = {}
  <2>1. Sleeps \subseteq Nodes
    BY InputFacts DEF IInv, Typed, TypeOK, Sleeps
  <2> QED BY <1>1, <2>1 DEF Due
<1>4. \A w \in Workers : pc[w] = "idle" /\ loops[w] = <<>> /\ firing[w] = {}
  <2> SUFFICES ASSUME NEW w \in Workers PROVE pc[w] = "idle" /\ loops[w] = <<>> /\ firing[w] = {}
    OBVIOUS
  <2>1. pc[w] = "idle"
    BY PlaceFacts
  <2> QED BY <2>1, PlaceFacts DEF PlaceAt, At3
<1>5. failedRequired = {} /\ callbacks = {} /\ \A n \in Nodes : predecessors[n] = 0
  <2>1. failedRequired = {}
    BY <1>1 DEF IInv, Typed, TypeOK, Told, Bad
  <2>2. callbacks = {} /\ predecessors = [n \in Nodes |-> 0]
    BY DEF IInv, Typed, Setting
  <2> QED BY <2>1, <2>2
<1>6. Fresh
  BY <1>1, <1>2, <1>3, <1>4, <1>5 DEF Fresh
<1>7. Uncounted = Nodes
  BY <1>2, <1>6, FreshInv
<1>8. Owed = Nodes
  BY <1>2, <1>4, <1>5 DEF Owed, Live
<1> QED BY <1>2, <1>6, <1>7, <1>8 DEF IInv, Counters

(* run() is admitted; an empty graph is complete at once.                  *)
LEMMA AdmitStep ==
  ASSUME IInv, Admit
  PROVE  IInv'
<1>1. /\ rpc = "admit" /\ slots' = IF input.internal THEN 0 ELSE Cardinality(Nodes)
      /\ UNCHANGED <<entry, remaining, report, callbacks, input, roots, refusal, queues, coroutine,
                     worker, outside, wpc, started>>
  BY DEF Admit
<1>2. UNCHANGED <<predecessors, failedRequired, outcome, starts, resumes, task, stop, left, armed, pc,
                  cur, verdict, loops, edge, firing, cpc, toCancel, cancelRequested, immediate, swept>>
  BY <1>1 DEF entry, queues, coroutine, worker, outside
<1>3. /\ ~Live /\ Fresh /\ roots = {} /\ Owed = Nodes /\ Uncounted = Nodes
      /\ Nodes # {} => runState = "Running"
  BY <1>1, NotLive DEF Live
<1>4. /\ EntryType' /\ QueueType' /\ CoroType' /\ WorkerType' /\ LoopType' /\ OutsideType'
      /\ Nodes' = Nodes /\ Coros' = Coros /\ \A n : Pred(n)' = Pred(n) /\ Succ(n)' = Succ(n)
  BY <1>1, <1>2, TypesKept DEF IInv
<1>5. /\ rpc' \in {"returned", "materialize"}
      /\ rpc' = "returned" => Nodes = {} /\ runState' = "Succeeded"
      /\ rpc' = "materialize" => runState' = runState /\ Nodes # {}
  BY DEF Admit
<1>6. CallerType' /\ RunType'
  BY <1>1, <1>4, <1>5, <1>3 DEF IInv, Typed, TypeOK, CallerType, RunType, Terminal
<1>7. Places' /\ Setting'
  <2>1. Places'
    BY <1>2, <1>3 DEF Places, PlaceAt, Fresh, At3, Marking, IInv, Typed
  <2>2. Setting'
    BY <1>1, <1>2, <1>3, <1>4, <1>5 DEF IInv, Typed, Setting, Live
  <2> QED BY <2>1, <2>2
<1>8. SlotsOwed'
  <2>1. Owed' = Nodes
    <3>1. {edge'[w] : w \in {v \in Workers : pc'[v] = "decide"}} = {}
      BY <1>2, <1>3 DEF Fresh
    <3>2. Owed' = (IF rpc' \in {"post", "returned"} THEN {} ELSE Nodes)
                  \cup {n \in Nodes : predecessors[n] > 0} \cup {n \in Nodes : starts[n] > 0}
      BY <1>1, <1>2, <1>3, <1>4, <3>1 DEF Owed
    <3> QED BY <1>5, <3>2
  <2> QED BY <1>1, <1>5, <2>1 DEF SlotsOwed
<1>9. slots' \in 0 .. Cardinality(Nodes')
  BY <1>1, <1>4, InputFacts DEF IInv
<1>10. Typed'
  BY <1>4, <1>6, <1>7, <1>9, TypedNext DEF Parts
<1>11. WatcherHeld'
  BY <1>1, <1>2, <1>3 DEF IInv, WatcherHeld, Fresh
<1>12. CASE rpc' = "materialize"
  <2>1. Live' <=> Live
    BY <1>3, <1>12 DEF Live
  <2>2. Segments' /\ Single' /\ Counted' /\ Looping' /\ Joins' /\ Told' /\ Starting' /\ Counters'
    BY <1>1, <1>2, <1>5, <1>12, <2>1, CalmStep
  <2> QED BY <1>8, <1>10, <1>11, <2>2 DEF IInv
<1>13. CASE rpc' = "returned"
  <2>1. Sleeps' = Sleeps
    BY <1>2, <1>4 DEF Sleeps
  <2>2. Fresh' /\ roots' = {}
    BY <1>1, <1>2, <1>3, <1>4, <2>1 DEF Fresh
  <2>3. (Single /\ Counted /\ Looping /\ Told /\ Starting /\ Uncounted = Nodes)'
    BY <2>2, FreshNext
  <2>4. Joins' /\ Segments'
    BY <1>1, <1>2, <1>4, <1>5, <1>13, <2>1
       DEF Joins, IInv, Segments, Unbroken, Alone, Terminal
  <2>5. Counters'
    BY <1>1, <1>2, <1>3, <1>4, <1>5, <1>13, <2>2, <2>3 DEF Counters, IInv, Fresh
  <2> QED BY <1>8, <1>10, <1>11, <2>3, <2>4, <2>5 DEF IInv
<1> QED BY <1>5, <1>12, <1>13

(* The counters are set, or the run fails and gives its slots back.        *)
LEMMA MaterializeStep ==
  ASSUME IInv, Materialize
  PROVE  IInv'
<1>1. /\ rpc = "materialize"
      /\ UNCHANGED <<failedRequired, outcome, run, input, refusal, queues, coroutine, worker,
                     outside, wpc, started>>
      /\ \/ /\ predecessors' = [n \in Nodes |-> Cardinality(Pred(n))]
            /\ roots' = {n \in Nodes : Pred(n) = {}} /\ rpc' = "post" /\ slots' = slots
         \/ rpc' = "thrown" /\ slots' = 0 /\ predecessors' = predecessors /\ roots' = roots
  BY DEF Materialize
<1>2. UNCHANGED <<failedRequired, outcome, remaining, report, runState, callbacks, starts, resumes,
                  task, stop, left, armed, pc, cur, verdict, loops, edge, firing, cpc, toCancel,
                  cancelRequested, immediate, swept>>
  BY <1>1 DEF run, queues, coroutine, worker, outside
<1>3. /\ ~Live /\ Fresh /\ roots = {} /\ Owed = Nodes /\ Uncounted = Nodes
      /\ IsFiniteSet(Nodes) /\ Cardinality(Nodes) \in Nat /\ Cardinality(Nodes) < Wrap
      /\ Wrap \in Nat \ {0}
  BY <1>1, NotLive, InputFacts DEF Live, IInv
<1>4. /\ RunType' /\ QueueType' /\ CoroType' /\ WorkerType' /\ LoopType' /\ OutsideType'
      /\ Nodes' = Nodes /\ Coros' = Coros /\ \A n : Pred(n)' = Pred(n) /\ Succ(n)' = Succ(n)
  BY <1>1, <1>2, TypesKept DEF IInv
<1>5. \A n \in Nodes : /\ Pred(n) \cup Succ(n) \subseteq Nodes /\ IsFiniteSet(Pred(n))
                       /\ Cardinality(Pred(n)) \in 0 .. Wrap - 1
                       /\ Cardinality(Pred(n)) = 0 <=> Pred(n) = {}
  <2> SUFFICES ASSUME NEW n \in Nodes
               PROVE  /\ Pred(n) \cup Succ(n) \subseteq Nodes /\ IsFiniteSet(Pred(n))
                      /\ Cardinality(Pred(n)) \in 0 .. Wrap - 1
                      /\ Cardinality(Pred(n)) = 0 <=> Pred(n) = {}
    OBVIOUS
  <2>1. Pred(n) \cup Succ(n) \subseteq Nodes
    BY <1>1 DEF IInv, Typed, Setting
  <2>2. /\ IsFiniteSet(Pred(n)) /\ Cardinality(Pred(n)) <= Cardinality(Nodes)
        /\ Cardinality(Pred(n)) \in Nat
    BY <1>3, <2>1, FS_Subset, FS_CardinalityType
  <2> QED BY <1>3, <2>1, <2>2, FS_EmptySet
<1>6. Sleeps' = {} /\ Fresh'
  <2>1. Sleeps' = Sleeps
    BY <1>2, <1>4 DEF Sleeps
  <2> QED BY <1>1, <1>2, <1>3, <1>4, <2>1 DEF Fresh
<1>7. \A n \in roots' : Live' /\ predecessors'[n] = 0
  BY <1>1, <1>3, <1>5 DEF Live
<1>8. (Single /\ Counted /\ Looping /\ Told /\ Starting /\ Uncounted = Nodes)'
  BY <1>6, <1>7, FreshNext
<1>9. Segments' /\ Counters'
  <2>1. Segments'
    BY <1>1, <1>2, <1>3, <1>4, <1>6 DEF IInv, Segments, Unbroken, Alone, Terminal, Fresh
  <2>2. \A v \in Workers : EarlyMove(v)
    BY <1>2 DEF EarlyMove
  <2> QED BY <1>1, <1>2, <2>1, <2>2, CountersKept
<1>10. Joins'
  <2>1. CASE rpc' = "thrown"
    BY <2>1 DEF Joins, Live
  <2>2. CASE rpc' # "thrown"
    <3> SUFFICES ASSUME NEW n \in Nodes PROVE predecessors'[n] = Cardinality(Waits(n)')
      BY <1>4 DEF Joins
    <3>1. Waits(n)' = Pred(n)
      BY <1>4, <1>5, <1>6 DEF Waits, Pending, Fresh
    <3> QED BY <1>1, <2>2, <3>1
  <2> QED BY <2>1, <2>2
<1>11. EntryType' /\ CallerType'
  <2>1. EntryType /\ CallerType
    BY TypedParts DEF IInv, Parts
  <2> QED BY <1>1, <1>2, <1>4, <1>5, <2>1 DEF EntryType, CallerType, Terminal
<1>12. Places'
  BY <1>4, <1>6 DEF Places, PlaceAt, Fresh, At3, Marking
<1>13. Setting'
  <2>1. rpc' = "post" \/ predecessors' = predecessors
    BY <1>1
  <2> QED BY <1>1, <1>2, <1>3, <1>4, <1>5, <2>1 DEF IInv, Typed, Setting, Live
<1>14. SlotsOwed'
  <2>1. CASE rpc' = "thrown"
    <3>1. slots' = 0
      BY <1>1, <2>1
    <3> QED BY <2>1, <3>1 DEF SlotsOwed
  <2>2. CASE rpc' = "post"
    <3>1. {edge'[w] : w \in {v \in Workers : pc'[v] = "decide"}} = {}
      BY <1>2, <1>3 DEF Fresh
    <3>2. Owed' = {n \in Nodes : Pred(n) = {}} \cup {n \in Nodes : Cardinality(Pred(n)) > 0}
                  \cup {n \in Nodes : starts[n] > 0}
      BY <1>1, <1>2, <1>4, <2>2, <3>1 DEF Owed
    <3>3. Owed' = Nodes
      BY <1>5, <3>2
    <3>4. slots' = slots /\ slots = IF input.internal THEN 0 ELSE Cardinality(Nodes)
      BY <1>1, <1>3, <2>2 DEF IInv, SlotsOwed
    <3> QED BY <1>1, <2>2, <3>3, <3>4 DEF SlotsOwed
  <2> QED BY <1>1, <2>1, <2>2
<1>15. Typed'
  <2>1. slots' \in 0 .. Cardinality(Nodes')
    BY <1>1, <1>3, <1>4 DEF IInv, Typed, TypeOK
  <2> QED BY <1>4, <1>11, <1>12, <1>13, <2>1, TypedNext DEF Parts
<1>16. WatcherHeld'
  BY <1>1, <1>2 DEF IInv, WatcherHeld
<1> QED BY <1>8, <1>9, <1>10, <1>14, <1>15, <1>16 DEF IInv

-----------------------------------------------------------------------------
(* A worker's step from the count of its node on.                          *)
LEMMA LateStep ==
  ASSUME IInv, NEW w \in Workers, Others(w), Live, w \in input.workers,
         UNCHANGED <<input, caller, resumes, coroutine, outside, started>>,
         pc'[w] \notin {"segment", "check"},
         EntryType', RunType', starts' \in [Nodes -> Nat], WorkerType', LoopType', PlaceAt(w)',
         wpc' = wpc \/ \E x \in Watchers : wpc' = [wpc EXCEPT ![x] = "woken"],
         Single', Counted', Looping', Joins', Told', Starting', Counters', SlotsOwed', WatcherHeld'
  PROVE  IInv'
<1>1. UNCHANGED <<rpc, roots, refusal, task, stop, left, armed, cpc, toCancel, cancelRequested,
                  immediate, swept>>
  BY DEF caller, coroutine, outside
<1>2. /\ CallerType' /\ CoroType' /\ Nodes' = Nodes /\ Coros' = Coros /\ Live' = Live
      /\ \A n : Pred(n)' = Pred(n) /\ Succ(n)' = Succ(n)
  BY <1>1, TypesKept DEF IInv, Live
<1>3. Segments'
  BY <1>1, SegmentsKept
<1>4. Places'
  BY <1>1, PlacesKept DEF IInv, Typed
<1>5. OutsideType' /\ \A x \in Watchers : wpc'[x] = "register" => wpc[x] = "register"
  <2>1. OutsideType
    BY TypedParts DEF IInv, Parts
  <2> QED BY <1>1, <1>2, <2>1 DEF OutsideType
<1>6. Setting'
  BY <1>1, <1>2, <1>5 DEF IInv, Typed, Setting, Live
<1>7. QueueType'
  BY <1>2, TypedParts DEF IInv, Parts, QueueType
<1>8. Typed'
  BY <1>2, <1>4, <1>5, <1>6, <1>7, SlotsNext, TypedNext DEF Parts
<1> QED BY <1>3, <1>8 DEF IInv

(* What a worker that marks or tells leaves alone of its place.            *)
LEMMA LatePlace ==
  ASSUME IInv, NEW w \in Workers, Live, w \in input.workers, UNCHANGED <<input, rpc>>,
         pc'[w] \in Marking \cup {"count", "edge", "release", "decide"},
         pc'[w] \in Marking \cup {"count"} => cur'[w] \in Nodes,
         pc'[w] \in {"edge", "release", "decide"} => loops'[w] # <<>>,
         pc'[w] = "fire" \/ firing'[w] = {}, pc'[w] = "decide" => edge'[w] \in Nodes
  PROVE  PlaceAt(w)'
BY DEF PlaceAt, Live, At3, Marking, Nodes, Coros

(* mark_node_terminal(): the outcome is stored.                            *)
LEMMA CountStep ==
  ASSUME IInv, NEW w \in Workers, Count(w)
  PROVE  IInv'
<1>0. PICK n : n = cur[w]
  OBVIOUS
<1>1. /\ pc[w] = "count" /\ Go(w, "fetch")
      /\ outcome' = [outcome EXCEPT ![n] = verdict[w]]
      /\ report' = [report EXCEPT ![verdict[w]] = @ + 1]
      /\ UNCHANGED <<predecessors, failedRequired, remaining, runState, callbacks, caller, slots,
                     queues, coroutine, cur, verdict, loops, edge, firing, outside, wpc, started>>
  BY <1>0 DEF Count, At
<1>2. UNCHANGED <<input, rpc, roots, refusal, starts, resumes, task, left, armed, cancelRequested>>
  BY <1>1 DEF caller, queues, coroutine, outside
<1>3. /\ PlaceAt(w) /\ Live /\ w \in input.workers /\ n \in Nodes /\ Has(w, n)
      /\ outcome[n] = "Ready" /\ predecessors[n] = 0 /\ n \notin roots /\ starts[n] = 0
      /\ n \notin Sleeps /\ \A v \in Workers : Has(v, n) => v = w
  <2>1. PlaceAt(w) /\ Live /\ w \in input.workers /\ n \in Nodes /\ Has(w, n)
    BY <1>0, <1>1, PlaceFacts DEF Has
  <2> QED BY <2>1, HasFacts
<1>4. WorkerType' /\ Others(w) /\ pc'[w] = "fetch" /\ cur'[w] = n /\ verdict[w] \in Terminal
  <2>1. "fetch" \in Steps /\ verdict[w] \in Terminal
    BY TypedParts DEF Steps, IInv, Parts, WorkerType
  <2> QED BY <1>0, <1>1, <1>2, <2>1, GoFacts DEF Others
<1>5. /\ EntryType' /\ RunType' /\ LoopType' /\ QueueType /\ Nodes' = Nodes /\ Coros' = Coros
      /\ outcome'[n] = verdict[w] /\ \A m \in Nodes : m # n => outcome'[m] = outcome[m]
      /\ report'[verdict[w]] = report[verdict[w]] + 1
      /\ \A o \in Terminal : o # verdict[w] => report'[o] = report[o]
      /\ Required' = Required /\ \A m : Pred(m)' = Pred(m) /\ Succ(m)' = Succ(m)
  <2>1. EntryType /\ RunType /\ QueueType
    BY TypedParts DEF IInv, Parts
  <2>2. LoopType' /\ Nodes' = Nodes /\ Coros' = Coros /\ Required' = Required
        /\ \A m : Pred(m)' = Pred(m) /\ Succ(m)' = Succ(m)
    BY <1>1, <1>2, TypesKept DEF IInv
  <2> QED BY <1>1, <1>3, <1>4, <2>1, <2>2 DEF EntryType, RunType, Terminal
<1>6. Sleeps' = Sleeps /\ outcome'[n] # "Ready"
  BY <1>2, <1>4, <1>5 DEF Sleeps, Terminal
<1>7. Single'
  <2>1. SingleAt(n)'
    <3>1. \A v \in Workers : v # w => ~Has(v, n)'
      <4>1. \A v \in Workers : v # w /\ pc[v] = "check" => cur[v] # n
        BY <1>3 DEF Has
      <4> QED BY <1>3, <1>4, <4>1, NotHad
    <3>2. ~Has(w, n)'
      BY <1>4 DEF Has
    <3> QED BY <1>1, <1>2, <1>3, <1>6, <3>1, <3>2 DEF SingleAt, Due
  <2>2. ASSUME NEW m \in Nodes, m # n PROVE Has(w, m)' <=> Has(w, m)
    BY <1>0, <1>1, <1>4, <2>2 DEF Has
  <2> QED BY <1>1, <1>2, <1>3, <1>4, <1>5, <1>6, <2>1, <2>2, SingleMoved
<1>8. /\ \A v \in Workers : \A m : Marks(v, m)' <=> Marks(v, m) \/ (v = w /\ m = n)
      /\ \A v \in Workers : ~Marks(v, n)
      /\ \A v \in Workers : \A k \in DOMAIN loops[v] : loops[v][k].of # n /\ loops[v][k].of \in Nodes
      /\ \A v \in Workers : pc'[v] = "release" <=> pc[v] = "release"
  <2>1. \A v \in Workers : \A m : Marks(v, m)' <=> Marks(v, m) \/ (v = w /\ m = n)
    BY <1>0, <1>1, <1>4 DEF Marks, Marking, Others
  <2>2. \A v \in Workers : ~Marks(v, n)
    BY <1>3 DEF IInv, Counted
  <2>3. \A v \in Workers : \A k \in DOMAIN loops[v] : loops[v][k].of # n /\ loops[v][k].of \in Nodes
    BY <1>3 DEF IInv, Looping, LoopAt, Typed, TypeOK
  <2>4. \A v \in Workers : pc'[v] = "release" <=> pc[v] = "release"
    BY <1>1, <1>4 DEF Others
  <2> QED BY <2>1, <2>2, <2>3, <2>4
<1>9. Counted'
  <2>1. \A m \in Nodes : outcome'[m] # "Ready" => Live' /\ predecessors'[m] = 0
    BY <1>1, <1>2, <1>3, <1>5 DEF IInv, Counted, Live
  <2>2. \A v \in Workers : \A m \in Nodes : Marks(v, m)' => outcome'[m] # "Ready"
    BY <1>5, <1>6, <1>8 DEF IInv, Counted
  <2>3. \A v, u \in Workers : \A m \in Nodes : Marks(v, m)' /\ Marks(u, m)' => v = u
    BY <1>8 DEF IInv, Counted
  <2>4. \A v, u \in Workers : \A k \in DOMAIN loops'[v] : ~Marks(u, loops[v][k].of)'
    BY <1>1, <1>8 DEF IInv, Counted
  <2> QED BY <1>1, <1>5, <2>1, <2>2, <2>3, <2>4 DEF IInv, Counted
<1>10. Looping'
  <2>1. ASSUME NEW v \in Workers, NEW k \in DOMAIN loops[v] PROVE LoopAt(v, k)'
    <3>1. LoopAt(v, k) /\ outcome'[loops[v][k].of] = outcome[loops[v][k].of]
      BY <1>5, <1>8 DEF IInv, Looping
    <3> QED BY <1>1, <1>5, <3>1 DEF LoopAt
  <2> QED BY <1>1, <1>5, <1>8, <2>1 DEF IInv, Looping
<1>11. Joins'
  <2>1. ASSUME NEW m \in Nodes PROVE Waits(m)' = Waits(m)
    <3>1. \A v \in Workers : \A u : Untold(v, u, m)' <=> Untold(v, u, m)
      BY <1>1, <1>8 DEF Untold
    <3>2. \A u \in Nodes : Pending(u, m)' <=> Pending(u, m)
      BY <1>3, <1>5, <1>6, <1>8, <3>1 DEF Pending
    <3> QED BY <1>5, <3>2 DEF Waits
  <2> QED BY <1>1, <1>2, <1>5, <2>1 DEF IInv, Joins, Live
<1>12. Told'
  <2>1. \A m \in Nodes : m # n => (Bad(m)' <=> Bad(m))
    BY <1>5 DEF Bad
  <2>2. ~Bad(n)
    BY <1>3 DEF Bad
  <2>3. \A m \in failedRequired : \E u \in Nodes : <<u, m>> \in Required /\ Bad(u)'
    BY <2>1, <2>2 DEF IInv, Told
  <2>4. ASSUME NEW u \in Nodes, NEW m \in Nodes, <<u, m>> \in Required, Bad(u)'
        PROVE  \/ m \in failedRequired
               \/ \E v \in Workers : \/ Marks(v, u)'
                                     \/ \E k \in DOMAIN loops[v] :
                                          loops[v][k].of = u /\ m \in loops[v][k].todo
    BY <1>8, <2>1, <2>4 DEF IInv, Told
  <2> QED BY <1>1, <1>5, <2>3, <2>4 DEF Told
<1>13. Starting'
  <2>1. Begun(w)'
    BY <1>4 DEF Begun
  <2> QED BY <2>1, <1>1, <1>2, <1>4, <1>6, StartingKept
<1>14. Counters'
  <2>1. n \in Uncounted /\ runState = "Running" /\ \A v \in Workers : pc[v] # "publish"
    BY <1>3 DEF Uncounted, IInv, Counters
  <2>2. Uncounted' = Uncounted
    <3>1. ASSUME NEW m \in Nodes
          PROVE  (outcome'[m] = "Ready" \/ \E v \in Workers : pc'[v] = "fetch" /\ cur'[v] = m)
                 <=> (outcome[m] = "Ready" \/ \E v \in Workers : pc[v] = "fetch" /\ cur[v] = m)
      <4>1. CASE m = n
        BY <1>3, <1>4, <4>1
      <4>2. CASE m # n
        BY <1>0, <1>1, <1>4, <1>5, <4>2 DEF Others
      <4> QED BY <4>1, <4>2
    <3> QED BY <1>5, <3>1 DEF Uncounted
  <2>3. ASSUME NEW o \in Terminal PROVE report'[o] = Cardinality({m \in Nodes : outcome'[m] = o})
    <3>1. /\ report[o] = Cardinality({m \in Nodes : outcome[m] = o})
          /\ IsFiniteSet({m \in Nodes : outcome[m] = o})
      BY InputFacts, FS_Subset DEF IInv, Counters
    <3>2. CASE o = verdict[w]
      <4>1. {m \in Nodes : outcome'[m] = o} = {m \in Nodes : outcome[m] = o} \cup {n}
        BY <1>3, <1>5, <3>2
      <4>2. n \notin {m \in Nodes : outcome[m] = o}
        BY <1>3 DEF Terminal
      <4>3. PICK S : S = {m \in Nodes : outcome[m] = o}
        OBVIOUS
      <4>4. Cardinality(S \cup {n}) = Cardinality(S) + 1
        BY <3>1, <4>2, <4>3, FS_AddElement
      <4>5. report'[o] = report[o] + 1
        BY <1>5, <3>2
      <4> QED BY <3>1, <4>1, <4>3, <4>4, <4>5
    <3>3. CASE o # verdict[w]
      <4>1. {m \in Nodes : outcome'[m] = o} = {m \in Nodes : outcome[m] = o}
        BY <1>3, <1>5, <3>3 DEF Terminal
      <4> QED BY <1>5, <3>1, <3>3, <4>1
    <3> QED BY <3>2, <3>3
  <2>4. \A v \in Workers : pc'[v] # "publish"
    BY <1>4, <2>1 DEF Others
  <2> QED BY <1>1, <1>5, <2>1, <2>2, <2>3, <2>4 DEF IInv, Counters
<1>15. SlotsOwed'
  <2>1. Owed' = Owed
    BY <1>1, <1>2, <1>4, <1>5 DEF Owed, Others
  <2> QED BY <1>1, <1>2, <2>1, OwedKept
<1>16. WatcherHeld'
  BY <1>1 DEF IInv, WatcherHeld
<1>17. PlaceAt(w)'
  <2>1. firing'[w] = {}
    BY <1>1, <1>3 DEF PlaceAt
  <2> QED BY <1>2, <1>3, <1>4, <2>1, LatePlace DEF Marking
<1>18. starts' \in [Nodes -> Nat] /\ resumes' = resumes
  BY <1>2, <1>5 DEF QueueType
<1> QED BY <1>1, <1>2, <1>3, <1>4, <1>5, <1>7, <1>9, <1>10, <1>11, <1>12, <1>13, <1>14, <1>15,
           <1>16, <1>17, <1>18, LateStep

(* A step of the worker that marks its node, other than the count itself.  *)
LEMMA MarkingStep ==
  ASSUME IInv, NEW w \in Workers, Others(w), pc[w] \in Marking, pc'[w] \in Marking,
         UNCHANGED <<input, entry, report, caller, slots, queues, coroutine, cur, verdict, loops,
                     edge, outside, started>>,
         WorkerType', remaining' \in 0 .. Wrap - 1, runState' \in Terminal \cup {"Running"},
         callbacks' \subseteq Watchers, pc'[w] = "fire" \/ firing'[w] = {},
         wpc' = wpc \/ \E x \in Watchers : wpc' = [wpc EXCEPT ![x] = "woken"],
         Counters', WatcherHeld'
  PROVE  IInv'
<1>1. UNCHANGED <<predecessors, failedRequired, outcome, rpc, roots, refusal, starts, resumes, task,
                  left, armed, cancelRequested>>
  BY DEF entry, caller, queues, coroutine, outside
<1>2. PlaceAt(w) /\ Live /\ w \in input.workers /\ cur[w] \in Nodes
  BY PlaceFacts DEF Marking
<1>3. /\ EntryType' /\ LoopType' /\ Nodes' = Nodes /\ Coros' = Coros /\ QueueType
      /\ Live' = Live
  BY <1>1, TypesKept, TypedParts DEF IInv, Parts, Live
<1>4. Sleeps' = Sleeps
  BY <1>1, <1>3 DEF Sleeps
<1>5. Single'
  <2>1. ASSUME NEW m \in Nodes PROVE SamePlace(m)
    <3>1. Has(w, m)' <=> Has(w, m)
      BY DEF Has, Marking
    <3> QED BY <1>1, <1>4, <3>1, PlaceKept
  <2> QED BY <1>1, <2>1, SingleSame
<1>6. Counted' /\ Looping' /\ Joins' /\ Told'
  <2>1. \A v \in Workers : \A m : Marks(v, m)' <=> Marks(v, m)
    BY DEF Marks, Others
  <2>2. \A v \in Workers : pc'[v] = "release" <=> pc[v] = "release"
    BY DEF Others, Marking
  <2> QED BY <1>1, <1>3, <2>1, <2>2, TellingSame
<1>7. Starting'
  <2>1. Begun(w)'
    BY DEF Begun, Marking
  <2> QED BY <1>1, <1>4, <2>1, StartingKept DEF Marking
<1>8. SlotsOwed'
  <2>1. Owed' = Owed
    BY <1>1, <1>3 DEF Owed, Others, Marking
  <2> QED BY <1>1, <2>1, OwedKept
<1>9. RunType'
  BY TypedParts DEF IInv, Parts, RunType, Terminal
<1>10. PlaceAt(w)'
  BY <1>1, <1>2, LatePlace DEF Marking
<1>11. starts' \in [Nodes -> Nat]
  BY <1>1, <1>3 DEF QueueType
<1> QED BY <1>1, <1>2, <1>3, <1>5, <1>6, <1>7, <1>8, <1>9, <1>10, <1>11, LateStep DEF Marking

(* mark_node_terminal(): the remaining nodes are counted down.             *)
LEMMA FetchStep ==
  ASSUME IInv, NEW w \in Workers, Fetch(w)
  PROVE  IInv'
<1>0. PICK n : n = cur[w]
  OBVIOUS
<1>1. /\ pc[w] = "fetch" /\ Go(w, IF remaining = 1 THEN "publish" ELSE "trigger")
      /\ remaining' = Decrement(remaining)
      /\ UNCHANGED <<entry, report, runState, callbacks, caller, slots, queues, coroutine, cur,
                     verdict, loops, edge, firing, outside, wpc, started>>
  BY DEF Fetch, At
<1>2. UNCHANGED <<input, outcome>>
  BY <1>1 DEF caller, entry
<1>3. /\ PlaceAt(w) /\ n \in Nodes /\ n \in Uncounted /\ IsFiniteSet(Uncounted)
      /\ remaining = Cardinality(Uncounted) /\ remaining \in 0 .. Wrap - 1 /\ Nodes' = Nodes
  <2>1. PlaceAt(w) /\ n \in Nodes
    BY <1>0, <1>1, PlaceFacts
  <2>2. IsFiniteSet(Uncounted)
    <3>1. Uncounted \subseteq Nodes
      BY DEF Uncounted
    <3> QED BY <3>1, InputFacts, FS_Subset DEF IInv
  <2> QED BY <1>0, <1>1, <1>2, <2>1, <2>2 DEF Uncounted, IInv, Counters, Typed, TypeOK, Nodes
<1>4. remaining \in 1 .. Wrap - 1 /\ remaining' = remaining - 1 /\ remaining' \in 0 .. Wrap - 1
  <2>1. remaining # 0
    BY <1>3, FS_EmptySet
  <2>2. remaining \in 1 .. Wrap - 1
    BY <1>3, <2>1, InputFacts DEF IInv
  <2> QED BY <1>1, <2>2, Decremented
<1>5. WorkerType' /\ Others(w) /\ pc'[w] = IF remaining = 1 THEN "publish" ELSE "trigger"
  <2>1. (IF remaining = 1 THEN "publish" ELSE "trigger") \in Steps
    BY DEF Steps
  <2> QED BY <1>1, <1>2, <2>1, GoFacts DEF Others
<1>6. Uncounted' = Uncounted \ {n}
  <2>1. outcome[n] # "Ready" /\ \A v \in Workers : pc[v] = "fetch" /\ cur[v] = n => v = w
    BY <1>0, <1>1, <1>3 DEF IInv, Counted, Marks, Marking
  <2>2. ASSUME NEW m \in Nodes
        PROVE  (outcome[m] = "Ready" \/ \E v \in Workers : pc'[v] = "fetch" /\ cur[v] = m)
               <=> (outcome[m] = "Ready" \/ \E v \in Workers : pc[v] = "fetch" /\ cur[v] = m)
                   /\ m # n
    BY <1>0, <1>1, <1>5, <2>1 DEF Others
  <2> QED BY <1>1, <1>2, <1>3, <2>2 DEF Uncounted
<1>7. Counters'
  <2>1. remaining' = Cardinality(Uncounted') /\ IsFiniteSet(Uncounted')
    BY <1>3, <1>4, <1>6, FS_RemoveElement
  <2>2. runState = "Running" /\ \A v \in Workers : pc[v] # "publish"
    BY <1>3 DEF IInv, Counters
  <2>3. ASSUME NEW v \in Workers, pc'[v] = "publish"
        PROVE  Uncounted' = {} /\ \A u \in Workers : pc'[u] = "publish" => u = v
    <3>1. v = w /\ remaining = 1
      BY <1>5, <2>2, <2>3 DEF Others
    <3>2. remaining' = 0
      BY <1>4, <3>1
    <3> QED BY <1>5, <2>1, <2>2, <3>1, <3>2, FS_EmptySet DEF Others
  <2> QED BY <1>1, <1>2, <1>3, <2>1, <2>2, <2>3 DEF IInv, Counters
<1>8. WatcherHeld'
  BY <1>1 DEF IInv, WatcherHeld
<1>9. firing'[w] = {} /\ runState' \in Terminal \cup {"Running"} /\ callbacks' \subseteq Watchers
  BY <1>1, <1>3 DEF PlaceAt, IInv, Typed, TypeOK
<1> QED BY <1>1, <1>2, <1>4, <1>5, <1>7, <1>8, <1>9, MarkingStep DEF Marking

(* The run is published, by whoever counted the last node.                 *)
LEMMA PublishStep ==
  ASSUME IInv, NEW w \in Workers, Publish(w)
  PROVE  IInv'
<1>1. /\ pc[w] = "publish" /\ Go(w, "fire") /\ callbacks' = {}
      /\ firing' = [firing EXCEPT ![w] = callbacks]
      /\ UNCHANGED <<entry, remaining, report, caller, slots, queues, coroutine, cur, verdict,
                     loops, edge, outside, wpc, started>>
  BY DEF Publish, At
<1>2. runState' \in {"Failed", "Cancelled", "Succeeded"}
  <2>1. RunType
    BY TypedParts DEF IInv, Parts
  <2> QED BY <2>1 DEF Publish, RunType, Terminal
<1>3. UNCHANGED <<input, outcome>> /\ PlaceAt(w) /\ WorkerType /\ RunType
  BY <1>1, PlaceFacts, TypedParts DEF caller, entry, IInv, Parts
<1>4. /\ WorkerType' /\ Others(w) /\ pc'[w] = "fire" /\ firing'[w] = callbacks
      /\ \A v \in Workers : v # w => firing'[v] = firing[v]
  <2>1. "fire" \in Steps /\ Nodes' = Nodes
    BY <1>3 DEF Steps, Nodes
  <2> QED BY <1>1, <1>3, <2>1 DEF WorkerType, RunType, Terminal, Steps, Others, Go
<1>5. Counters'
  <2>1. Uncounted = {} /\ \A v \in Workers : pc[v] = "publish" => v = w
    BY <1>1 DEF IInv, Counters
  <2>2. Uncounted' = Uncounted /\ Nodes' = Nodes
    <3>1. \A v \in Workers : pc'[v] = "fetch" <=> pc[v] = "fetch"
      BY <1>1, <1>4 DEF Others
    <3> QED BY <1>1, <1>3, <3>1 DEF Uncounted, Nodes
  <2>3. \A v \in Workers : pc'[v] # "publish"
    BY <1>4, <2>1 DEF Others
  <2> QED BY <1>1, <1>3, <2>1, <2>2, <2>3 DEF IInv, Counters
<1>6. WatcherHeld'
  <2> SUFFICES ASSUME NEW x \in Watchers, wpc[x] = "waiting"
               PROVE  \E v \in Workers : x \in firing'[v]
    BY <1>1 DEF WatcherHeld
  <2>1. firing[w] = {}
    BY <1>1, <1>3 DEF PlaceAt
  <2> QED BY <1>4, <2>1 DEF IInv, WatcherHeld
<1>7. remaining' \in 0 .. Wrap - 1 /\ runState' \in Terminal \cup {"Running"}
  BY <1>1, <1>2, <1>3 DEF RunType, Terminal
<1> QED BY <1>1, <1>3, <1>4, <1>5, <1>6, <1>7, MarkingStep DEF Marking

(* The callbacks of the watchers are run.                                  *)
LEMMA FireStep ==
  ASSUME IInv, NEW w \in Workers, Fire(w)
  PROVE  IInv'
<1>1. /\ pc[w] = "fire"
      /\ UNCHANGED <<entry, run, caller, slots, queues, coroutine, cur, verdict, loops, edge,
                     outside, started>>
  BY DEF Fire, At
<1>2. UNCHANGED <<input, outcome, remaining, report, runState, callbacks>> /\ WorkerType /\ OutsideType
      /\ Nodes' = Nodes
  BY <1>1, TypedParts DEF caller, entry, run, IInv, Parts, Nodes
<1>3. /\ WorkerType' /\ Others(w) /\ pc'[w] \in {"fire", "trigger"}
      /\ pc'[w] = "fire" \/ firing'[w] = {}
      /\ wpc' = wpc \/ \E x \in Watchers : wpc' = [wpc EXCEPT ![x] = "woken"]
      /\ WatcherHeld'
  <2>1. CASE \E x \in firing[w] : /\ firing' = [firing EXCEPT ![w] = @ \ {x}]
                                  /\ wpc' = [wpc EXCEPT ![x] = "woken"]
                                  /\ UNCHANGED pc
    <3>1. PICK x \in firing[w] : /\ firing' = [firing EXCEPT ![w] = @ \ {x}]
                                 /\ wpc' = [wpc EXCEPT ![x] = "woken"]
                                 /\ UNCHANGED pc
      BY <2>1
    <3>2. x \in Watchers /\ firing'[w] = firing[w] \ {x}
          /\ \A v \in Workers : v # w => firing'[v] = firing[v]
      BY <1>2, <3>1 DEF WorkerType
    <3>3. WorkerType' /\ Others(w)
      BY <1>1, <1>2, <3>1, <3>2 DEF WorkerType, Terminal, Steps, Others
    <3>4. WatcherHeld'
      <4> SUFFICES ASSUME NEW y \in Watchers, wpc'[y] = "waiting"
                   PROVE  \/ y \in callbacks' /\ runState' = "Running"
                          \/ \E v \in Workers : y \in firing'[v]
        BY DEF WatcherHeld
      <4>1. y # x /\ wpc[y] = "waiting"
        BY <1>2, <3>1, <3>2 DEF OutsideType
      <4> QED BY <1>2, <3>2, <4>1 DEF IInv, WatcherHeld
    <3> QED BY <1>1, <3>1, <3>2, <3>3, <3>4
  <2>2. CASE firing[w] = {} /\ Go(w, "trigger") /\ UNCHANGED <<firing, wpc>>
    <3>1. "trigger" \in Steps
      BY DEF Steps
    <3>2. WorkerType' /\ Others(w) /\ pc'[w] = "trigger"
      BY <1>1, <1>2, <2>2, <3>1, GoFacts DEF Others
    <3>3. WatcherHeld'
      BY <1>2, <2>2 DEF IInv, WatcherHeld
    <3> QED BY <2>2, <3>2, <3>3
  <2> QED BY <2>1, <2>2 DEF Fire
<1>4. Counters'
  <2>1. \A v \in Workers : /\ pc'[v] = "publish" <=> pc[v] = "publish"
                           /\ pc'[v] = "fetch" <=> pc[v] = "fetch"
    BY <1>1, <1>3 DEF Others
  <2>2. Uncounted' = Uncounted
    BY <1>1, <1>2, <2>1 DEF Uncounted
  <2> QED BY <1>2, <2>1, <2>2 DEF IInv, Counters
<1>5. remaining' \in 0 .. Wrap - 1 /\ runState' \in Terminal \cup {"Running"} /\ callbacks' \subseteq Watchers
  BY <1>2 DEF IInv, Typed, TypeOK
<1> QED BY <1>1, <1>2, <1>3, <1>4, <1>5, MarkingStep DEF Marking

-----------------------------------------------------------------------------
(* trigger_successors().  A worker that tells successors counts no node.   *)
LEMMA TellCounters ==
  ASSUME IInv, NEW w \in Workers, Others(w), UNCHANGED <<input, outcome, remaining, report, runState,
         callbacks>>, {pc[w], pc'[w]} \cap {"fetch", "publish"} = {}
  PROVE  Counters'
<1>1. /\ \A v \in Workers : pc'[v] = "publish" <=> pc[v] = "publish"
      /\ \A v \in Workers : \A n : pc'[v] = "fetch" /\ cur'[v] = n <=> pc[v] = "fetch" /\ cur[v] = n
  BY DEF Others
<1>2. Uncounted' = Uncounted /\ Nodes' = Nodes
  BY <1>1 DEF Uncounted, Nodes
<1> QED BY <1>1, <1>2 DEF IInv, Counters

(* The successor that has become free is posted, or ended on the spot.     *)
LEMMA DecideStep ==
  ASSUME IInv, NEW w \in Workers, Decide(w)
  PROVE  IInv'
<1>0. PICK n : n = edge[w]
  OBVIOUS
<1>1. /\ pc[w] = "decide"
      /\ UNCHANGED <<entry, run, caller, resumes, coroutine, loops, edge, firing, outside, wpc, started>>
      /\ \/ /\ n \in failedRequired \/ cancelRequested
            /\ slots' = IF input.internal THEN slots ELSE slots - 1
            /\ cur' = [cur EXCEPT ![w] = n] /\ verdict' = [verdict EXCEPT ![w] = "Cancelled"]
            /\ Go(w, "count") /\ starts' = starts
         \/ /\ n \notin failedRequired /\ starts' = [starts EXCEPT ![n] = @ + 1]
            /\ Go(w, "edge") /\ slots' = slots /\ cur' = cur /\ verdict' = verdict
  BY <1>0 DEF Decide, At
<1>2. UNCHANGED <<input, predecessors, failedRequired, outcome, remaining, report, runState, callbacks,
                  rpc, roots, task, left, armed, cancelRequested>>
  BY <1>1 DEF entry, run, caller, coroutine, outside
<1>3. /\ PlaceAt(w) /\ Live /\ w \in input.workers /\ n \in Nodes /\ Has(w, n) /\ loops[w] # <<>>
      /\ outcome[n] = "Ready" /\ predecessors[n] = 0 /\ n \notin roots /\ starts[n] = 0
      /\ n \notin Sleeps /\ (\A v \in Workers : Has(v, n) => v = w) /\ n \notin started
  <2>1. PlaceAt(w) /\ Live /\ w \in input.workers /\ n \in Nodes /\ Has(w, n)
    BY <1>0, <1>1, PlaceFacts DEF Has, PlaceAt
  <2>2. n \notin started /\ loops[w] # <<>>
    BY <1>0, <1>1, <2>1, PlaceFacts DEF IInv, Starting, StartAt
  <2> QED BY <2>1, <2>2, HasFacts
<1>4. /\ WorkerType /\ QueueType /\ EntryType' /\ RunType' /\ LoopType' /\ Nodes' = Nodes
      /\ Coros' = Coros /\ Live' = Live
  BY <1>1, <1>2, TypesKept, TypedParts DEF IInv, Parts, Live
<1>5. /\ WorkerType' /\ Others(w) /\ starts' \in [Nodes -> Nat]
      /\ \A m \in Nodes : m # n => starts'[m] = starts[m]
      /\ \/ /\ n \in failedRequired \/ cancelRequested
            /\ slots' = IF input.internal THEN slots ELSE slots - 1
            /\ pc'[w] = "count" /\ cur'[w] = n /\ verdict'[w] = "Cancelled" /\ starts'[n] = 0
         \/ /\ n \notin failedRequired
            /\ pc'[w] = "edge" /\ starts'[n] = 1 /\ slots' = slots
  <2>1. CASE /\ n \in failedRequired \/ cancelRequested
             /\ slots' = IF input.internal THEN slots ELSE slots - 1
             /\ cur' = [cur EXCEPT ![w] = n] /\ verdict' = [verdict EXCEPT ![w] = "Cancelled"]
             /\ Go(w, "count") /\ starts' = starts
    <3>1. /\ cur' \in [Workers -> Nodes \cup {None}] /\ verdict' \in [Workers -> Terminal]
          /\ cur'[w] = n /\ verdict'[w] = "Cancelled"
          /\ \A v \in Workers : v # w => cur'[v] = cur[v] /\ verdict'[v] = verdict[v]
      BY <1>3, <1>4, <2>1 DEF WorkerType, Terminal
    <3>2. "count" \in Steps
      BY DEF Steps
    <3>3. WorkerType' /\ Others(w) /\ pc'[w] = "count"
      BY <1>1, <1>2, <2>1, <3>1, <3>2, GoFacts DEF Others
    <3> QED BY <1>3, <1>4, <2>1, <3>1, <3>3 DEF QueueType
  <2>2. CASE /\ n \notin failedRequired /\ starts' = [starts EXCEPT ![n] = @ + 1]
             /\ Go(w, "edge") /\ slots' = slots /\ cur' = cur /\ verdict' = verdict
    <3>1. "edge" \in Steps
      BY DEF Steps
    <3>2. WorkerType' /\ Others(w) /\ pc'[w] = "edge"
      BY <1>1, <1>2, <2>2, <3>1, GoFacts DEF Others
    <3>3. starts' \in [Nodes -> Nat] /\ starts'[n] = 1 /\ \A m \in Nodes : m # n => starts'[m] = starts[m]
      BY <1>3, <1>4, <2>2 DEF QueueType
    <3> QED BY <2>2, <3>2, <3>3
  <2> QED BY <1>1, <2>1, <2>2
<1>6. Sleeps' = Sleeps
  BY <1>1, <1>2, <1>4 DEF Sleeps
<1>7. Single'
  <2>1. \A v \in Workers : v # w => ~Has(v, n)'
    <3>1. \A v \in Workers : v # w /\ pc[v] = "check" => cur[v] # n
      BY <1>3 DEF Has
    <3> QED BY <1>3, <1>5, <3>1, NotHad
  <2>2. pc'[w] = "edge" => ~Has(w, n)'
    BY DEF Has
  <2>3. SingleAt(n)'
    BY <1>2, <1>3, <1>4, <1>5, <1>6, <2>1, <2>2 DEF SingleAt
  <2>4. ASSUME NEW m \in Nodes, m # n PROVE Has(w, m)' <=> Has(w, m)
    BY <1>0, <1>1, <1>5, <2>4 DEF Has
  <2> QED BY <1>2, <1>3, <1>5, <1>6, <2>3, <2>4, SingleMoved
<1>8. Counted' /\ Looping' /\ Joins' /\ Told'
  <2>1. \A v \in Workers : \A m : Marks(v, m)' <=> Marks(v, m)
    BY <1>1, <1>5 DEF Marks, Others, Marking
  <2>2. \A v \in Workers : /\ pc'[v] = "release" <=> pc[v] = "release"
                           /\ pc[v] = "release" => edge'[v] = edge[v]
    BY <1>1, <1>5 DEF Others
  <2> QED BY <1>1, <1>2, <1>4, <2>1, <2>2, TellingSame
<1>9. Starting'
  <2>1. ASSUME NEW m \in Nodes PROVE StartAt(m)'
    <3>1. StartAt(m)
      BY DEF IInv, Starting
    <3>2. m \in started => starts'[m] = 0
      BY <1>3, <1>5, <3>1 DEF StartAt
    <3>3. starts'[m] # 0 => m \notin failedRequired
      BY <1>5, <3>1 DEF StartAt
    <3>4. ASSUME m \in started, NEW v \in Workers
          PROVE  (pc'[v] = "begin" => cur'[v] # m) /\ (pc'[v] = "decide" => edge'[v] # m)
      BY <1>1, <1>5, <3>1, <3>4 DEF StartAt, Others
    <3> QED BY <1>1, <1>2, <1>4, <1>6, <3>1, <3>2, <3>3, <3>4 DEF StartAt
  <2>2. ASSUME NEW v \in Workers PROVE Begun(v)'
    <3>1. CASE v = w
      BY <1>2, <1>5, <3>1 DEF Begun
    <3>2. CASE v # w
      BY <1>1, <1>2, <1>5, <3>2 DEF IInv, Starting, Begun, Others
    <3> QED BY <3>1, <3>2
  <2> QED BY <1>4, <2>1, <2>2 DEF Starting
<1>10. Counters'
  BY <1>1, <1>2, <1>5, TellCounters
<1>11. SlotsOwed'
  <2>1. n \in Owed
    BY <1>0, <1>1 DEF Owed
  <2>2. \A v \in Workers : pc'[v] = "decide" <=> pc[v] = "decide" /\ v # w
    BY <1>1, <1>5 DEF Others
  <2>3. \A v \in Workers : v # w /\ pc[v] = "decide" => edge[v] # n
    BY <1>3 DEF Has
  <2>4. rpc \in {"post", "returned"}
    BY <1>3 DEF Live
  <2>5. CASE pc'[w] = "count"
    <3>1. Owed' = Owed \ {n}
      <4>1. \A m \in Nodes : starts'[m] > 0 <=> starts[m] > 0 /\ m # n
        BY <1>3, <1>5, <2>5
      <4> QED BY <1>0, <1>1, <1>2, <1>3, <1>4, <2>2, <2>3, <2>4, <4>1 DEF Owed
    <3> QED BY <1>2, <1>3, <1>5, <2>1, <2>5, <3>1, OwedLess
  <2>6. CASE pc'[w] = "edge"
    <3>1. Owed' = Owed
      <4>1. \A m \in Nodes : starts'[m] > 0 <=> starts[m] > 0 \/ m = n
        BY <1>3, <1>5, <2>6
      <4> QED BY <1>0, <1>1, <1>2, <1>3, <1>4, <2>2, <2>3, <2>4, <4>1 DEF Owed
    <3> QED BY <1>2, <1>5, <2>6, <3>1, OwedKept
  <2> QED BY <1>5, <2>5, <2>6
<1>12. PlaceAt(w)'
  <2>1. firing'[w] = {}
    BY <1>1, <1>3 DEF PlaceAt
  <2> QED BY <1>1, <1>2, <1>3, <1>5, <2>1, LatePlace DEF Marking
<1>13. WatcherHeld'
  BY <1>1, <1>2 DEF IInv, WatcherHeld
<1> QED BY <1>1, <1>2, <1>3, <1>4, <1>5, <1>7, <1>8, <1>9, <1>10, <1>11, <1>12, <1>13, LateStep

(* What belongs to a successor that has not been told yet.                 *)
LEMMA UntoldFacts ==
  ASSUME IInv, NEW w \in Workers, NEW k \in DOMAIN loops[w], NEW n \in Nodes, NEW m \in Nodes,
         m = loops[w][k].of, n \in Succ(m),
         n \in loops[w][k].todo \/ (pc[w] = "release" /\ edge[w] = n /\ k = Len(loops[w]))
  PROVE  /\ Live /\ Pending(m, n) /\ IsFiniteSet(Waits(n)) /\ predecessors[n] = Cardinality(Waits(n))
         /\ predecessors[n] \in 1 .. Wrap - 1
         /\ ~Due(n) /\ outcome[n] = "Ready" /\ n \notin started
<1>1. Live
  BY DEF IInv, Looping, LoopAt, Counted
<1>2. Pending(m, n)
  BY InputFacts DEF Pending, Untold, IInv
<1>3. IsFiniteSet(Waits(n)) /\ Waits(n) # {}
  <2>1. Waits(n) \subseteq Nodes
    BY DEF Waits
  <2> QED BY <1>2, <2>1, InputFacts, FS_Subset DEF IInv, Waits
<1>4. predecessors[n] = Cardinality(Waits(n)) /\ predecessors[n] \in 0 .. Wrap - 1
  BY <1>1 DEF IInv, Joins, Typed, TypeOK
<1>5. predecessors[n] \in 1 .. Wrap - 1
  <2>1. predecessors[n] # 0
    BY <1>3, <1>4, FS_EmptySet
  <2> QED BY <1>4, <2>1, InputFacts DEF IInv
<1>6. ~Due(n) /\ outcome[n] = "Ready" /\ n \notin started
  <2>1. SingleAt(n) /\ StartAt(n)
    BY DEF IInv, Single, Starting
  <2> QED BY <1>5, <2>1 DEF SingleAt, StartAt, IInv, Counted, Typed, TypeOK, Terminal
<1> QED BY <1>1, <1>2, <1>3, <1>4, <1>5, <1>6

(* A step that only tells: nobody's node moves.                            *)
LEMMA TellStep ==
  ASSUME IInv, NEW w \in Workers, Others(w), pc[w] \in {"trigger", "edge"},
         pc'[w] \in {"idle", "edge", "release"},
         UNCHANGED <<input, predecessors, outcome, run, caller, slots, queues, coroutine, cur, verdict,
                     firing, outside, wpc, started>>,
         failedRequired' \subseteq Nodes, failedRequired \subseteq failedRequired',
         \A n \in failedRequired' : n \in failedRequired \/ (~Due(n) /\ n \notin started),
         WorkerType', LoopType', loops'[w] # <<>> <=> pc'[w] # "idle",
         Counted', Looping', Joins', Told'
  PROVE  IInv'
<1>1. UNCHANGED <<remaining, report, runState, callbacks, rpc, roots, starts, resumes, task, left,
                  armed, cancelRequested>>
  BY DEF run, caller, queues, coroutine, outside
<1>2. /\ PlaceAt(w) /\ Live /\ w \in input.workers /\ Nodes' = Nodes /\ Coros' = Coros /\ RunType'
      /\ Live' = Live /\ EntryType /\ QueueType
  BY <1>1, PlaceFacts, TypesKept, TypedParts DEF IInv, Parts, Live
<1>3. Sleeps' = Sleeps
  BY <1>1, <1>2 DEF Sleeps
<1>4. Single'
  <2>1. ASSUME NEW m \in Nodes PROVE SamePlace(m)
    <3>1. Has(w, m)' <=> Has(w, m)
      BY DEF Has
    <3> QED BY <1>1, <1>3, <3>1, PlaceKept
  <2> QED BY <1>1, <2>1, SingleSame
<1>5. Starting'
  <2>1. ASSUME NEW m \in Nodes PROVE StartAt(m)'
    <3>1. StartAt(m)
      BY DEF IInv, Starting
    <3>2. ASSUME m \in started, NEW v \in Workers
          PROVE  (pc'[v] = "begin" => cur'[v] # m) /\ (pc'[v] = "decide" => edge'[v] # m)
      BY <3>1, <3>2 DEF StartAt, Others
    <3>3. m \in roots \/ m \in started \/ starts[m] # 0 => m \notin failedRequired'
      BY <3>1 DEF StartAt, Due
    <3> QED BY <1>1, <1>2, <1>3, <3>1, <3>2, <3>3 DEF StartAt
  <2>2. ASSUME NEW v \in Workers PROVE Begun(v)'
    <3>1. CASE v = w
      BY <3>1 DEF Begun
    <3>2. CASE v # w
      <4>1. pc'[v] = pc[v] /\ cur'[v] = cur[v] /\ verdict'[v] = verdict[v] /\ Begun(v)
        BY <3>2 DEF Others, IInv, Starting
      <4>2. pc[v] = "begin" => Due(cur[v])
        BY DEF Due, Has
      <4> QED BY <1>1, <4>1, <4>2 DEF Begun
    <3> QED BY <3>1, <3>2
  <2> QED BY <1>2, <2>1, <2>2 DEF Starting
<1>6. Counters'
  BY <1>1, TellCounters
<1>7. SlotsOwed'
  <2>1. Owed' = Owed
    BY <1>1, <1>2 DEF Owed, Others
  <2> QED BY <1>1, <2>1, OwedKept
<1>8. WatcherHeld'
  BY <1>1 DEF IInv, WatcherHeld
<1>9. PlaceAt(w)'
  <2>1. firing[w] = {}
    BY <1>2 DEF PlaceAt
  <2>2. CASE pc'[w] = "idle"
    BY <2>1, <2>2 DEF PlaceAt, At3, Marking
  <2>3. CASE pc'[w] # "idle"
    BY <1>1, <1>2, <2>1, <2>3, LatePlace DEF Marking
  <2> QED BY <2>2, <2>3
<1>10. EntryType' /\ starts' \in [Nodes -> Nat]
  BY <1>1, <1>2 DEF EntryType, QueueType, Terminal
<1> QED BY <1>1, <1>2, <1>4, <1>5, <1>6, <1>7, <1>8, <1>9, <1>10, LateStep

(* The innermost loop is added, replaced or removed.                       *)
LEMMA SeqFacts ==
  ASSUME NEW S, NEW s \in Seq(S), NEW x \in S
  PROVE  /\ Append(s, x) \in Seq(S) /\ DOMAIN Append(s, x) = 1 .. Len(s) + 1
         /\ Append(s, x)[Len(s) + 1] = x /\ \A k \in DOMAIN s : Append(s, x)[k] = s[k]
         /\ DOMAIN s = 1 .. Len(s) /\ Len(s) \in Nat /\ Last(Append(s, x)) = x
BY DEF Last

(* Removing it.                                                            *)
LEMMA FrontFacts ==
  ASSUME NEW S, NEW s \in Seq(S), s # <<>>
  PROVE  /\ Len(s) \in Nat \ {0} /\ DOMAIN s = 1 .. Len(s) /\ Last(s) = s[Len(s)] /\ Last(s) \in S
         /\ Front(s) \in Seq(S) /\ Len(Front(s)) = Len(s) - 1
         /\ DOMAIN Front(s) = 1 .. Len(s) - 1 /\ \A k \in DOMAIN Front(s) : Front(s)[k] = s[k]
         /\ Front(s) = <<>> <=> Len(s) = 1
<1>1. Len(s) \in Nat \ {0} /\ DOMAIN s = 1 .. Len(s)
  OBVIOUS
<1>2. Front(s) \in Seq(S) /\ Len(Front(s)) = Len(s) - 1
  BY <1>1 DEF Front
<1>3. \A k \in 1 .. Len(s) - 1 : Front(s)[k] = s[k]
  BY <1>1 DEF Front
<1> QED BY <1>1, <1>2, <1>3 DEF Last

(* Replacing it.                                                           *)
LEMMA LastFacts ==
  ASSUME NEW S, NEW s \in Seq(S), s # <<>>, NEW x \in S
  PROVE  /\ Append(Front(s), x) \in Seq(S) /\ DOMAIN Append(Front(s), x) = DOMAIN s
         /\ Last(Append(Front(s), x)) = x /\ Append(Front(s), x)[Len(s)] = x
         /\ \A k \in DOMAIN s : k # Len(s) => Append(Front(s), x)[k] = s[k]
         /\ Append(Front(s), x) # <<>> /\ Len(Append(Front(s), x)) = Len(s)
<1>1. /\ Front(s) \in Seq(S) /\ Len(Front(s)) = Len(s) - 1 /\ Len(s) \in Nat \ {0}
      /\ DOMAIN s = 1 .. Len(s) /\ DOMAIN Front(s) = 1 .. Len(s) - 1
      /\ \A k \in DOMAIN Front(s) : Front(s)[k] = s[k]
  BY FrontFacts
<1> DEFINE t == Front(s)
<1> HIDE DEF t
<1>2. /\ Append(t, x) \in Seq(S) /\ DOMAIN Append(t, x) = 1 .. Len(t) + 1
      /\ Append(t, x)[Len(t) + 1] = x /\ \A k \in DOMAIN t : Append(t, x)[k] = t[k]
      /\ Last(Append(t, x)) = x /\ Len(Append(t, x)) = Len(t) + 1
  <2>1. t \in Seq(S)
    BY <1>1 DEF t
  <2> QED BY <2>1, SeqFacts
<1> QED BY <1>1, <1>2 DEF t

(* A worker begins to tell the successors of its node.                     *)
LEMMA EnterStep ==
  ASSUME IInv, NEW w \in Workers, Enter(w)
  PROVE  IInv'
<1>0. PICK n, l, d : /\ n = cur[w] /\ d = Len(loops[w]) + 1
                     /\ l = [failed |-> outcome[n] # "Succeeded", of |-> n, todo |-> Succ(n)]
  OBVIOUS
<1>1. /\ pc[w] = "trigger" /\ Go(w, "edge") /\ loops' = [loops EXCEPT ![w] = Append(@, l)]
      /\ UNCHANGED <<entry, run, caller, slots, queues, coroutine, cur, verdict, edge, firing,
                     outside, wpc, started>>
  BY <1>0 DEF Enter, At
<1>2. UNCHANGED <<input, predecessors, failedRequired, outcome, rpc>>
  BY <1>1 DEF entry, caller
<1>3. /\ n \in Nodes /\ Live /\ Marks(w, n) /\ Succ(n) \subseteq Nodes /\ l \in Loop
      /\ loops \in [Workers -> Seq(Loop)]
  <2>1. n \in Nodes /\ Live /\ Marks(w, n)
    BY <1>0, <1>1, PlaceFacts DEF Marks, Marking
  <2>2. Succ(n) \subseteq Nodes
    BY <2>1 DEF IInv, Typed, Setting, Live
  <2>3. loops \in [Workers -> Seq(Loop)]
    BY DEF IInv, Typed
  <2> QED BY <1>0, <2>1, <2>2, <2>3 DEF Loop
<1>4. /\ Nodes' = Nodes /\ Required' = Required /\ Live' = Live /\ Loop' = Loop
      /\ \A m : Pred(m)' = Pred(m) /\ Succ(m)' = Succ(m)
  BY <1>2, TypesKept DEF IInv, Live, Loop
<1>5. WorkerType' /\ pc'[w] = "edge" /\ \A v \in Workers : v # w => pc'[v] = pc[v]
  <2>1. "edge" \in Steps
    BY DEF Steps
  <2> QED BY <1>1, <1>2, <2>1, GoFacts
<1>6. /\ loops'[w] = Append(loops[w], l) /\ loops'[w] \in Seq(Loop) /\ d \in Nat \ {0}
      /\ DOMAIN loops[w] = 1 .. d - 1 /\ DOMAIN loops'[w] = 1 .. d /\ loops'[w][d] = l
      /\ \A k \in DOMAIN loops[w] : loops'[w][k] = loops[w][k]
      /\ \A v \in Workers : v # w => loops'[v] = loops[v]
  BY <1>0, <1>1, <1>3, SeqFacts
<1>7. LoopType' /\ Others(w) /\ loops'[w] # <<>>
  <2>1. loops' \in [Workers -> Seq(Loop)]
    BY <1>1, <1>3, <1>6
  <2>2. loops'[w] # <<>>
    BY <1>6
  <2> QED BY <1>1, <1>4, <1>5, <1>6, <2>1, <2>2 DEF LoopType, Others
<1>8. /\ \A v \in Workers : \A m : Marks(v, m)' <=> Marks(v, m) /\ v # w
      /\ \A m : Marks(w, m) => m = n
      /\ \A v \in Workers : \A k \in DOMAIN loops[v] : loops[v][k].of # n /\ loops[v][k].of \in Nodes
      /\ \A v \in Workers : pc'[v] = "release" <=> pc[v] = "release"
  <2>1. \A v \in Workers : \A m : Marks(v, m)' <=> Marks(v, m) /\ v # w
    BY <1>1, <1>5 DEF Marks, Marking
  <2>2. \A m : Marks(w, m) => m = n
    BY <1>0 DEF Marks
  <2>3. \A v \in Workers : \A k \in DOMAIN loops[v] : loops[v][k].of # n /\ loops[v][k].of \in Nodes
    BY <1>3 DEF IInv, Counted, Typed, TypeOK
  <2>4. \A v \in Workers : pc'[v] = "release" <=> pc[v] = "release"
    BY <1>1, <1>5
  <2> QED BY <2>1, <2>2, <2>3, <2>4
<1>9. \A v \in Workers : \A k \in DOMAIN loops'[v] :
        \/ k \in DOMAIN loops[v] /\ loops'[v][k] = loops[v][k]
        \/ v = w /\ k = d /\ loops'[v][k] = l
  BY <1>6
<1>10. l.of = n /\ l.todo = Succ(n) /\ (l.failed <=> outcome[n] # "Succeeded")
  BY <1>0
<1>11. Counted'
  <2>1. \A v, u \in Workers : \A m \in Nodes : Marks(v, m)' /\ Marks(u, m)' => v = u
    BY <1>8 DEF IInv, Counted
  <2>2. \A v, u \in Workers : \A k \in DOMAIN loops'[v] : ~Marks(u, loops[v][k].of)'
    <3> SUFFICES ASSUME NEW v \in Workers, NEW u \in Workers, NEW k \in DOMAIN loops'[v],
                        Marks(u, loops'[v][k].of), u # w
                 PROVE  FALSE
      BY <1>8
    <3>1. CASE k \in DOMAIN loops[v] /\ loops'[v][k] = loops[v][k]
      BY <3>1 DEF IInv, Counted
    <3>2. CASE v = w /\ k = d /\ loops'[v][k] = l
      BY <1>3, <1>10, <3>2 DEF IInv, Counted
    <3> QED BY <1>9, <3>1, <3>2
  <2>3. \A v, u \in Workers : \A k \in DOMAIN loops'[v], j \in DOMAIN loops'[u] :
          loops'[v][k].of = loops'[u][j].of => v = u /\ k = j
    <3> SUFFICES ASSUME NEW v \in Workers, NEW u \in Workers, NEW k \in DOMAIN loops'[v],
                        NEW j \in DOMAIN loops'[u], loops'[v][k].of = loops'[u][j].of
                 PROVE  v = u /\ k = j
      OBVIOUS
    <3>1. \/ k \in DOMAIN loops[v] /\ loops'[v][k] = loops[v][k]
          \/ v = w /\ k = d /\ loops'[v][k] = l
      BY <1>9
    <3>2. \/ j \in DOMAIN loops[u] /\ loops'[u][j] = loops[u][j]
          \/ u = w /\ j = d /\ loops'[u][j] = l
      BY <1>9
    <3> QED BY <1>8, <1>10, <3>1, <3>2 DEF IInv, Counted
  <2>4. \A m \in Nodes : outcome[m] # "Ready" => Live /\ predecessors[m] = 0
    BY DEF IInv, Counted
  <2>5. \A v \in Workers : \A m \in Nodes : Marks(v, m)' => outcome[m] # "Ready"
    BY <1>8 DEF IInv, Counted
  <2> QED BY <1>2, <1>4, <2>1, <2>2, <2>3, <2>4, <2>5 DEF Counted
<1>12. Looping'
  <2>1. ASSUME NEW v \in Workers, NEW k \in DOMAIN loops'[v] PROVE LoopAt(v, k)'
    <3>1. CASE k \in DOMAIN loops[v] /\ loops'[v][k] = loops[v][k]
      BY <1>2, <1>4, <3>1 DEF IInv, Looping, LoopAt
    <3>2. CASE v = w /\ k = d /\ loops'[v][k] = l
      <4>1. outcome[n] # "Ready"
        BY <1>3 DEF IInv, Counted
      <4> QED BY <1>2, <1>4, <1>10, <3>2, <4>1 DEF LoopAt
    <3> QED BY <1>9, <3>1, <3>2
  <2>2. ASSUME NEW v \in Workers, pc'[v] = "release"
        PROVE  edge'[v] \in Succ(Last(loops'[v]).of) /\ edge'[v] \notin Last(loops'[v]).todo
    <3>1. v # w /\ pc[v] = "release" /\ edge'[v] = edge[v] /\ loops'[v] = loops[v]
      BY <1>1, <1>5, <1>6, <2>2
    <3> QED BY <3>1 DEF IInv, Looping
  <2> QED BY <1>4, <2>1, <2>2 DEF Looping
<1>13. Joins'
  <2>1. ASSUME NEW m \in Nodes, NEW a \in Nodes PROVE Pending(m, a)' <=> Pending(m, a)
    <3>1. CASE m = n
      <4>1. n \in Pred(a) => Untold(w, n, a)'
        <5>1. n \in Pred(a) => a \in l.todo
          BY <1>10, InputFacts DEF IInv
        <5> QED BY <1>6, <1>10, <5>1 DEF Untold
      <4> QED BY <1>2, <1>3, <1>4, <3>1, <4>1 DEF Pending
    <3>2. CASE m # n
      <4>1. \A v \in Workers : Marks(v, m)' <=> Marks(v, m)
        BY <1>8, <3>2
      <4>2. ASSUME NEW v \in Workers PROVE Untold(v, m, a)' <=> Untold(v, m, a)
        <5>1. CASE v # w
          BY <1>1, <1>5, <1>6, <5>1 DEF Untold
        <5>2. CASE v = w
          <6>1. pc[v] # "release" /\ pc'[v] # "release"
            BY <1>1, <1>5, <5>2
          <6>2. /\ Untold(v, m, a)' <=> \E k \in DOMAIN loops'[v] :
                                          loops'[v][k].of = m /\ a \in loops'[v][k].todo
                /\ Untold(v, m, a) <=> \E k \in DOMAIN loops[v] :
                                         loops[v][k].of = m /\ a \in loops[v][k].todo
            BY <6>1 DEF Untold
          <6>3. \A k \in DOMAIN loops[v] : k \in DOMAIN loops'[v] /\ loops'[v][k] = loops[v][k]
            BY <1>6, <5>2
          <6> QED BY <1>9, <1>10, <3>2, <6>2, <6>3
        <5> QED BY <5>1, <5>2
      <4> QED BY <1>2, <1>4, <4>1, <4>2 DEF Pending
    <3> QED BY <3>1, <3>2
  <2>2. \A a \in Nodes : Waits(a)' = Waits(a)
    BY <1>4, <2>1 DEF Waits
  <2> QED BY <1>2, <1>4, <2>2 DEF IInv, Joins
<1>14. Told'
  <2>1. \A m : Bad(m)' <=> Bad(m)
    BY <1>2 DEF Bad
  <2>2. ASSUME NEW m \in Nodes, NEW a \in Nodes, <<m, a>> \in Required, Bad(m), a \notin failedRequired
        PROVE  \E v \in Workers : \/ Marks(v, m)'
                                  \/ \E k \in DOMAIN loops'[v] :
                                       loops'[v][k].of = m /\ a \in loops'[v][k].todo
    <3>1. CASE m = n
      <4>1. a \in l.todo
        BY <1>10, <2>2, <3>1, InputFacts DEF IInv
      <4> QED BY <1>6, <1>10, <3>1, <4>1
    <3>2. CASE m # n
      <4>1. PICK v \in Workers : \/ Marks(v, m)
                                 \/ \E k \in DOMAIN loops[v] :
                                      loops[v][k].of = m /\ a \in loops[v][k].todo
        BY <2>2 DEF IInv, Told
      <4>2. CASE Marks(v, m)
        BY <1>8, <3>2, <4>2
      <4>3. CASE \E k \in DOMAIN loops[v] : loops[v][k].of = m /\ a \in loops[v][k].todo
        BY <1>6, <4>3
      <4> QED BY <4>1, <4>2, <4>3
    <3> QED BY <3>1, <3>2
  <2>3. \A a \in failedRequired : \E m \in Nodes : <<m, a>> \in Required /\ Bad(m)
    BY DEF IInv, Told
  <2>4. \A m, a \in Nodes : <<m, a>> \in Required /\ Bad(m) =>
          \/ a \in failedRequired
          \/ \E v \in Workers : \/ Marks(v, m)'
                                \/ \E k \in DOMAIN loops'[v] :
                                     loops'[v][k].of = m /\ a \in loops'[v][k].todo
    BY <2>2
  <2> QED BY <1>2, <1>4, <2>1, <2>3, <2>4 DEF Told
<1>15. failedRequired \subseteq Nodes
  BY DEF IInv, Typed, TypeOK
<1> QED BY <1>1, <1>2, <1>5, <1>7, <1>11, <1>12, <1>13, <1>14, <1>15, TellStep

(* A worker has told all successors of a node.                             *)
LEMMA EndLoopStep ==
  ASSUME IInv, NEW w \in Workers, EndLoop(w)
  PROVE  IInv'
<1>0. PICK l, d : l = Last(loops[w]) /\ d = Len(loops[w])
  OBVIOUS
<1>1. /\ pc[w] = "edge" /\ l.todo = {} /\ Go(w, IF d = 1 THEN "idle" ELSE "edge")
      /\ loops' = [loops EXCEPT ![w] = Front(@)]
      /\ UNCHANGED <<entry, run, caller, slots, queues, coroutine, cur, verdict, edge, firing,
                     outside, wpc, started>>
  BY <1>0 DEF EndLoop, At
<1>2. UNCHANGED <<input, predecessors, failedRequired, outcome, rpc>>
  BY <1>1 DEF entry, caller
<1>3. loops[w] # <<>> /\ loops \in [Workers -> Seq(Loop)]
  BY <1>1, PlaceFacts DEF IInv, Typed
<1>4. /\ Nodes' = Nodes /\ Required' = Required /\ Live' = Live /\ Loop' = Loop
      /\ \A m : Pred(m)' = Pred(m) /\ Succ(m)' = Succ(m)
  BY <1>2, TypesKept DEF IInv, Live, Loop
<1>5. /\ WorkerType' /\ pc'[w] = IF d = 1 THEN "idle" ELSE "edge"
      /\ \A v \in Workers : v # w => pc'[v] = pc[v]
  <2>1. (IF d = 1 THEN "idle" ELSE "edge") \in Steps
    BY DEF Steps
  <2> QED BY <1>1, <1>2, <2>1, GoFacts
<1>6. /\ loops'[w] = Front(loops[w]) /\ loops'[w] \in Seq(Loop) /\ d \in Nat \ {0}
      /\ DOMAIN loops[w] = 1 .. d /\ DOMAIN loops'[w] = 1 .. d - 1 /\ loops[w][d] = l
      /\ \A k \in DOMAIN loops'[w] : loops'[w][k] = loops[w][k]
      /\ \A v \in Workers : v # w => loops'[v] = loops[v]
      /\ loops'[w] = <<>> <=> d = 1
  <2>0. PICK s \in Seq(Loop) : s = loops[w]
    BY <1>3
  <2>1. loops'[w] = Front(s) /\ \A v \in Workers : v # w => loops'[v] = loops[v]
    BY <1>1, <1>3, <2>0
  <2>2. /\ Len(s) \in Nat \ {0} /\ DOMAIN s = 1 .. Len(s) /\ Last(s) = s[Len(s)]
        /\ Front(s) \in Seq(Loop) /\ DOMAIN Front(s) = 1 .. Len(s) - 1
        /\ \A k \in DOMAIN Front(s) : Front(s)[k] = s[k]
        /\ Front(s) = <<>> <=> Len(s) = 1
    BY <1>3, <2>0, FrontFacts
  <2>3. d = Len(s) /\ l = Last(s) /\ loops[w] = s
    BY <1>0, <2>0
  <2> QED BY <2>1, <2>2, <2>3
<1>7. LoopType' /\ Others(w) /\ (loops'[w] # <<>> <=> pc'[w] # "idle")
  <2>1. loops' \in [Workers -> Seq(Loop)]
    BY <1>1, <1>3, <1>6
  <2> QED BY <1>1, <1>4, <1>5, <1>6, <2>1 DEF LoopType, Others
<1>8. \A v \in Workers : \A k \in DOMAIN loops'[v] : k \in DOMAIN loops[v] /\ loops'[v][k] = loops[v][k]
  BY <1>6
<1>9. /\ \A v \in Workers : \A m : Marks(v, m)' <=> Marks(v, m)
      /\ pc[w] # "release" /\ pc'[w] # "release"
  BY <1>1, <1>5 DEF Marks, Marking
<1>10. Counted'
  <2>1. \A v, u \in Workers : \A k \in DOMAIN loops'[v] : ~Marks(u, loops[v][k].of)'
    <3> SUFFICES ASSUME NEW v \in Workers, NEW u \in Workers, NEW k \in DOMAIN loops'[v]
                 PROVE  ~Marks(u, loops'[v][k].of)
      BY <1>9
    <3> QED BY <1>8 DEF IInv, Counted
  <2>2. \A v, u \in Workers : \A k \in DOMAIN loops'[v], j \in DOMAIN loops'[u] :
          loops'[v][k].of = loops'[u][j].of => v = u /\ k = j
    BY <1>8 DEF IInv, Counted
  <2>3. \A v \in Workers : \A m \in Nodes : Marks(v, m)' => outcome[m] # "Ready"
    BY <1>9 DEF IInv, Counted
  <2>4. \A v, u \in Workers : \A m \in Nodes : Marks(v, m)' /\ Marks(u, m)' => v = u
    BY <1>9 DEF IInv, Counted
  <2>5. \A m \in Nodes : outcome[m] # "Ready" => Live /\ predecessors[m] = 0
    BY DEF IInv, Counted
  <2> QED BY <1>2, <1>4, <2>1, <2>2, <2>3, <2>4, <2>5 DEF Counted
<1>11. Looping'
  <2>1. ASSUME NEW v \in Workers, NEW k \in DOMAIN loops'[v] PROVE LoopAt(v, k)'
    BY <1>2, <1>4, <1>8 DEF IInv, Looping, LoopAt
  <2>2. ASSUME NEW v \in Workers, pc'[v] = "release"
        PROVE  edge'[v] \in Succ(Last(loops'[v]).of) /\ edge'[v] \notin Last(loops'[v]).todo
    <3>1. v # w /\ pc[v] = "release" /\ edge'[v] = edge[v] /\ loops'[v] = loops[v]
      BY <1>1, <1>5, <1>6, <1>9, <2>2
    <3> QED BY <3>1 DEF IInv, Looping
  <2> QED BY <1>4, <2>1, <2>2 DEF Looping
<1>12. \A k \in DOMAIN loops[w] : loops[w][k].todo # {} => k \in DOMAIN loops'[w]
  BY <1>1, <1>6
<1>13. Joins'
  <2>1. ASSUME NEW m \in Nodes, NEW a \in Nodes, NEW v \in Workers
        PROVE  Untold(v, m, a)' <=> Untold(v, m, a)
    <3>1. CASE v # w
      BY <1>1, <1>5, <1>6, <3>1 DEF Untold
    <3>2. CASE v = w
      <4>1. /\ Untold(v, m, a)' <=> \E k \in DOMAIN loops'[v] :
                                      loops'[v][k].of = m /\ a \in loops'[v][k].todo
            /\ Untold(v, m, a) <=> \E k \in DOMAIN loops[v] :
                                     loops[v][k].of = m /\ a \in loops[v][k].todo
        BY <1>9, <3>2 DEF Untold
      <4> QED BY <1>8, <1>12, <3>2, <4>1
    <3> QED BY <3>1, <3>2
  <2>2. \A m, a \in Nodes : Pending(m, a)' <=> Pending(m, a)
    BY <1>2, <1>4, <1>9, <2>1 DEF Pending
  <2>3. \A a \in Nodes : Waits(a)' = Waits(a)
    BY <1>4, <2>2 DEF Waits
  <2> QED BY <1>2, <1>4, <2>3 DEF IInv, Joins
<1>14. Told'
  <2>1. \A m : Bad(m)' <=> Bad(m)
    BY <1>2 DEF Bad
  <2>2. ASSUME NEW m \in Nodes, NEW a \in Nodes, <<m, a>> \in Required, Bad(m), a \notin failedRequired
        PROVE  \E v \in Workers : \/ Marks(v, m)'
                                  \/ \E k \in DOMAIN loops'[v] :
                                       loops'[v][k].of = m /\ a \in loops'[v][k].todo
    <3>1. PICK v \in Workers : \/ Marks(v, m)
                               \/ \E k \in DOMAIN loops[v] :
                                    loops[v][k].of = m /\ a \in loops[v][k].todo
      BY <2>2 DEF IInv, Told
    <3>2. CASE Marks(v, m)
      BY <1>9, <3>2
    <3>3. CASE \E k \in DOMAIN loops[v] : loops[v][k].of = m /\ a \in loops[v][k].todo
      BY <1>6, <1>8, <1>12, <3>3
    <3> QED BY <3>1, <3>2, <3>3
  <2>3. \A a \in failedRequired : \E m \in Nodes : <<m, a>> \in Required /\ Bad(m)
    BY DEF IInv, Told
  <2>4. \A m, a \in Nodes : <<m, a>> \in Required /\ Bad(m) =>
          \/ a \in failedRequired
          \/ \E v \in Workers : \/ Marks(v, m)'
                                \/ \E k \in DOMAIN loops'[v] :
                                     loops'[v][k].of = m /\ a \in loops'[v][k].todo
    BY <2>2
  <2> QED BY <1>2, <1>4, <2>1, <2>3, <2>4 DEF Told
<1>15. failedRequired \subseteq Nodes /\ pc'[w] \in {"idle", "edge"}
  BY <1>5 DEF IInv, Typed, TypeOK
<1> QED BY <1>1, <1>2, <1>5, <1>7, <1>10, <1>11, <1>13, <1>14, <1>15, TellStep

(* A worker takes the next successor of the node in hand.                  *)
LEMMA NextEdgeStep ==
  ASSUME IInv, NEW w \in Workers, NextEdge(w)
  PROVE  IInv'
<1>0. PICK l, d : l = Last(loops[w]) /\ d = Len(loops[w])
  OBVIOUS
<1>a. PICK b \in l.todo :
        /\ loops' = [loops EXCEPT ![w] = Append(Front(@), [l EXCEPT !.todo = @ \ {b}])]
        /\ failedRequired' = IF l.failed /\ <<l.of, b>> \in Required
                             THEN failedRequired \cup {b} ELSE failedRequired
        /\ edge' = [edge EXCEPT ![w] = b]
  BY <1>0 DEF NextEdge, Required
<1>b. PICK r : r = [l EXCEPT !.todo = @ \ {b}]
  OBVIOUS
<1>1. /\ pc[w] = "edge" /\ Go(w, "release")
      /\ UNCHANGED <<predecessors, outcome, run, caller, slots, queues, coroutine, cur, verdict,
                     firing, outside, wpc, started>>
  BY DEF NextEdge, At
<1>2. UNCHANGED <<input, predecessors, outcome, rpc>>
  BY <1>1 DEF caller
<1>3. loops[w] # <<>> /\ loops \in [Workers -> Seq(Loop)]
  BY <1>1, PlaceFacts DEF IInv, Typed
<1>4. /\ Nodes' = Nodes /\ Required' = Required /\ Live' = Live /\ Loop' = Loop
      /\ \A m : Pred(m)' = Pred(m) /\ Succ(m)' = Succ(m)
  BY <1>2, TypesKept DEF IInv, Live, Loop
<1>5. /\ l \in Loop /\ d \in Nat \ {0} /\ DOMAIN loops[w] = 1 .. d /\ loops[w][d] = l
      /\ b \in Nodes /\ l.of \in Nodes
      /\ r \in Loop /\ r.of = l.of /\ r.failed = l.failed /\ r.todo = l.todo \ {b}
  <2>1. l \in Loop /\ d \in Nat \ {0} /\ DOMAIN loops[w] = 1 .. d /\ loops[w][d] = l
    <3>1. loops[w] \in Seq(Loop)
      BY <1>3
    <3> QED BY <1>0, <1>3, <3>1, FrontFacts
  <2> QED BY <1>a, <1>b, <2>1 DEF Loop
<1>6. /\ loops'[w] \in Seq(Loop) /\ loops'[w] # <<>> /\ Len(loops'[w]) = d
      /\ DOMAIN loops'[w] = 1 .. d /\ loops'[w][d] = r /\ Last(loops'[w]) = r
      /\ \A k \in 1 .. d : k # d => loops'[w][k] = loops[w][k]
      /\ \A v \in Workers : v # w => loops'[v] = loops[v]
  <2>0. PICK s \in Seq(Loop) : s = loops[w]
    BY <1>3
  <2>1. loops'[w] = Append(Front(s), r) /\ \A v \in Workers : v # w => loops'[v] = loops[v]
    BY <1>a, <1>b, <1>3, <2>0
  <2>2. PICK t : t = Append(Front(s), r)
    OBVIOUS
  <2>3. /\ t \in Seq(Loop) /\ DOMAIN t = DOMAIN s /\ Last(t) = r /\ t[Len(s)] = r
        /\ \A k \in DOMAIN s : k # Len(s) => t[k] = s[k]
        /\ t # <<>> /\ Len(t) = Len(s)
    BY <1>3, <1>5, <2>0, <2>2, LastFacts
  <2>4. d = Len(s) /\ loops[w] = s /\ DOMAIN s = 1 .. d
    BY <1>0, <1>5, <2>0
  <2> QED BY <2>1, <2>2, <2>3, <2>4
<1>7. /\ WorkerType' /\ pc'[w] = "release" /\ (\A v \in Workers : v # w => pc'[v] = pc[v])
      /\ edge'[w] = b /\ \A v \in Workers : v # w => edge'[v] = edge[v]
  <2>1. "release" \in Steps /\ WorkerType
    BY TypedParts DEF Steps, IInv, Parts
  <2> QED BY <1>a, <1>1, <1>4, <1>5, <2>1 DEF WorkerType, Go, Terminal, Steps
<1>8. LoopType' /\ Others(w)
  <2>1. loops' \in [Workers -> Seq(Loop)]
    BY <1>a, <1>3, <1>6
  <2> QED BY <1>1, <1>4, <1>6, <1>7, <2>1 DEF LoopType, Others
<1>9. /\ \A v \in Workers : \A m : Marks(v, m)' <=> Marks(v, m)
      /\ \A v \in Workers : DOMAIN loops'[v] = DOMAIN loops[v]
      /\ \A v \in Workers : \A k \in DOMAIN loops[v] :
           /\ loops'[v][k].of = loops[v][k].of /\ loops'[v][k].failed = loops[v][k].failed
           /\ v # w \/ k # d => loops'[v][k].todo = loops[v][k].todo
  BY <1>1, <1>5, <1>6, <1>7 DEF Marks, Marking
<1>10. LoopAt(w, d) /\ l.todo \subseteq Succ(l.of) /\ (l.failed <=> outcome[l.of] # "Succeeded")
       /\ outcome[l.of] # "Ready"
  <2>1. LoopAt(w, d)
    BY <1>5 DEF IInv, Looping
  <2> QED BY <1>5, <2>1 DEF LoopAt
<1>11. ~Due(b) /\ b \notin started
  BY <1>5, <1>10, UntoldFacts
<1>12. Counted'
  <2>1. \A v, u \in Workers : \A k \in DOMAIN loops'[v] : ~Marks(u, loops[v][k].of)'
    <3> SUFFICES ASSUME NEW v \in Workers, NEW u \in Workers, NEW k \in DOMAIN loops'[v]
                 PROVE  ~Marks(u, loops'[v][k].of)
      BY <1>9
    <3> QED BY <1>9 DEF IInv, Counted
  <2>2. \A v, u \in Workers : \A k \in DOMAIN loops'[v], j \in DOMAIN loops'[u] :
          loops'[v][k].of = loops'[u][j].of => v = u /\ k = j
    BY <1>9 DEF IInv, Counted
  <2>3. \A v \in Workers : \A m \in Nodes : Marks(v, m)' => outcome[m] # "Ready"
    BY <1>9 DEF IInv, Counted
  <2>4. \A v, u \in Workers : \A m \in Nodes : Marks(v, m)' /\ Marks(u, m)' => v = u
    BY <1>9 DEF IInv, Counted
  <2>5. \A m \in Nodes : outcome[m] # "Ready" => Live /\ predecessors[m] = 0
    BY DEF IInv, Counted
  <2> QED BY <1>2, <1>4, <2>1, <2>2, <2>3, <2>4, <2>5 DEF Counted
<1>13. Looping'
  <2>1. ASSUME NEW v \in Workers, NEW k \in DOMAIN loops'[v] PROVE LoopAt(v, k)'
    <3>1. k \in DOMAIN loops[v] /\ LoopAt(v, k)
      BY <1>9 DEF IInv, Looping
    <3>2. loops'[v][k].todo \subseteq loops[v][k].todo
      BY <1>5, <1>6, <1>9, <3>1
    <3> QED BY <1>2, <1>4, <1>9, <3>1, <3>2 DEF LoopAt
  <2>2. ASSUME NEW v \in Workers, pc'[v] = "release"
        PROVE  edge'[v] \in Succ(Last(loops'[v]).of) /\ edge'[v] \notin Last(loops'[v]).todo
    <3>1. CASE v = w
      BY <1>5, <1>6, <1>7, <1>10, <3>1
    <3>2. CASE v # w
      <4>1. pc[v] = "release" /\ edge'[v] = edge[v] /\ loops'[v] = loops[v]
        BY <1>6, <1>7, <2>2, <3>2
      <4> QED BY <4>1 DEF IInv, Looping
    <3> QED BY <3>1, <3>2
  <2> QED BY <1>4, <2>1, <2>2 DEF Looping
<1>14. Joins'
  <2>1. ASSUME NEW m \in Nodes, NEW a \in Nodes, NEW v \in Workers
        PROVE  Untold(v, m, a)' <=> Untold(v, m, a)
    <3>1. CASE v # w
      BY <1>6, <1>7, <3>1 DEF Untold
    <3>2. CASE v = w
      <4>1. Untold(v, m, a)' <=> \E k \in 1 .. d :
              loops'[w][k].of = m /\ (a \in loops'[w][k].todo \/ (b = a /\ k = d))
        BY <1>6, <1>7, <3>2 DEF Untold
      <4>2. Untold(v, m, a) <=> \E k \in 1 .. d : loops[w][k].of = m /\ a \in loops[w][k].todo
        BY <1>1, <1>5, <3>2 DEF Untold
      <4>3. \A k \in 1 .. d : /\ loops'[w][k].of = loops[w][k].of
                              /\ (a \in loops'[w][k].todo \/ (b = a /\ k = d)) <=> a \in loops[w][k].todo
        BY <1>5, <1>6
      <4> QED BY <4>1, <4>2, <4>3
    <3> QED BY <3>1, <3>2
  <2>2. \A m, a \in Nodes : Pending(m, a)' <=> Pending(m, a)
    BY <1>2, <1>4, <1>9, <2>1 DEF Pending
  <2>3. \A a \in Nodes : Waits(a)' = Waits(a)
    BY <1>4, <2>2 DEF Waits
  <2> QED BY <1>2, <1>4, <2>3 DEF IInv, Joins
<1>15. Told'
  <2>1. \A m : Bad(m)' <=> Bad(m)
    BY <1>2 DEF Bad
  <2>2. ASSUME NEW m \in Nodes, NEW a \in Nodes, <<m, a>> \in Required, Bad(m), a \notin failedRequired'
        PROVE  \E v \in Workers : \/ Marks(v, m)'
                                  \/ \E k \in DOMAIN loops'[v] :
                                       loops'[v][k].of = m /\ a \in loops'[v][k].todo
    <3>1. PICK v \in Workers : \/ Marks(v, m)
                               \/ \E k \in DOMAIN loops[v] :
                                    loops[v][k].of = m /\ a \in loops[v][k].todo
      BY <1>a, <2>2 DEF IInv, Told
    <3>2. CASE Marks(v, m)
      BY <1>9, <3>2
    <3>3. CASE \E k \in DOMAIN loops[v] : loops[v][k].of = m /\ a \in loops[v][k].todo
      <4>1. PICK k \in DOMAIN loops[v] : loops[v][k].of = m /\ a \in loops[v][k].todo
        BY <3>3
      <4>2. CASE v = w /\ k = d
        <5>1. m = l.of /\ l.failed
          BY <1>5, <1>10, <2>2, <4>1, <4>2 DEF Bad
        <5>2. a # b
          BY <1>a, <2>2, <5>1
        <5>3. a \in loops'[v][k].todo
          BY <1>5, <1>6, <4>1, <4>2, <5>2
        <5> QED BY <1>9, <4>1, <5>3
      <4>3. CASE ~(v = w /\ k = d)
        BY <1>9, <4>1, <4>3
      <4> QED BY <4>2, <4>3
    <3> QED BY <3>1, <3>2, <3>3
  <2>3. ASSUME NEW a \in failedRequired' PROVE \E m \in Nodes : <<m, a>> \in Required /\ Bad(m)
    <3>1. CASE a \in failedRequired
      BY <3>1 DEF IInv, Told
    <3>2. CASE a \notin failedRequired
      BY <1>a, <1>5, <1>10, <2>3, <3>2 DEF Bad
    <3> QED BY <3>1, <3>2
  <2>4. \A m, a \in Nodes : <<m, a>> \in Required /\ Bad(m) =>
          \/ a \in failedRequired'
          \/ \E v \in Workers : \/ Marks(v, m)'
                                \/ \E k \in DOMAIN loops'[v] :
                                     loops'[v][k].of = m /\ a \in loops'[v][k].todo
    BY <2>2
  <2> QED BY <1>2, <1>4, <2>1, <2>3, <2>4 DEF Told
<1>16. /\ failedRequired' \subseteq Nodes /\ failedRequired \subseteq failedRequired'
       /\ \A a \in failedRequired' : a \in failedRequired \/ (~Due(a) /\ a \notin started)
  BY <1>a, <1>5, <1>11 DEF IInv, Typed, TypeOK
<1> QED BY <1>1, <1>2, <1>6, <1>7, <1>8, <1>12, <1>13, <1>14, <1>15, <1>16, TellStep

(* A worker counts its node off a successor.                               *)
LEMMA ReleaseStep ==
  ASSUME IInv, NEW w \in Workers, Release(w)
  PROVE  IInv'
<1>0. PICK n, l, d, p : n = edge[w] /\ l = Last(loops[w]) /\ d = Len(loops[w]) /\ p = predecessors[n]
  OBVIOUS
<1>1. /\ pc[w] = "release" /\ Go(w, IF p = 1 THEN "decide" ELSE "edge")
      /\ predecessors' = [predecessors EXCEPT ![n] = Decrement(@)]
      /\ UNCHANGED <<failedRequired, outcome, run, caller, slots, queues, coroutine, cur, verdict,
                     loops, edge, firing, outside, wpc, started>>
  BY <1>0 DEF Release, At
<1>2. UNCHANGED <<remaining, report, runState, callbacks, input, rpc, roots, starts, resumes, task,
                  left, armed, cancelRequested>>
  BY <1>1 DEF run, caller, queues, coroutine, outside
<1>3. /\ PlaceAt(w) /\ loops[w] # <<>> /\ loops \in [Workers -> Seq(Loop)] /\ Live
      /\ w \in input.workers
  BY <1>1, PlaceFacts DEF IInv, Typed
<1>4. /\ Nodes' = Nodes /\ Coros' = Coros /\ Required' = Required /\ Live' = Live /\ Loop' = Loop
      /\ \A x : Pred(x)' = Pred(x) /\ Succ(x)' = Succ(x)
      /\ LoopType' /\ RunType' /\ QueueType' /\ EntryType /\ QueueType
  BY <1>1, <1>2, TypesKept, TypedParts DEF IInv, Live, Loop, Parts
<1>5. /\ WorkerType' /\ pc'[w] = IF p = 1 THEN "decide" ELSE "edge"
      /\ \A v \in Workers : v # w => pc'[v] = pc[v]
  <2>1. (IF p = 1 THEN "decide" ELSE "edge") \in Steps
    BY DEF Steps
  <2> QED BY <1>1, <1>2, <2>1, GoFacts
<1>6. /\ l \in Loop /\ d \in DOMAIN loops[w] /\ loops[w][d] = l
  <2>1. PICK s \in Seq(Loop) : s = loops[w]
    BY <1>3
  <2>2. Len(s) \in Nat \ {0} /\ DOMAIN s = 1 .. Len(s) /\ Last(s) = s[Len(s)] /\ Last(s) \in Loop
    BY <1>3, <2>1, FrontFacts
  <2> QED BY <1>0, <2>1, <2>2
<1>7. PICK m \in Nodes : m = l.of
  BY <1>6 DEF Loop
<1>8. n \in Succ(m) /\ n \notin l.todo /\ n \in Nodes
  <2>1. n \in Succ(m) /\ n \notin l.todo
    BY <1>0, <1>1, <1>7 DEF IInv, Looping
  <2> QED BY <1>3, <2>1 DEF IInv, Typed, Setting, Live
<1>9. /\ Pending(m, n) /\ IsFiniteSet(Waits(n)) /\ p = Cardinality(Waits(n)) /\ p \in 1 .. Wrap - 1
      /\ ~Due(n) /\ outcome[n] = "Ready" /\ n \notin started
  BY <1>0, <1>1, <1>6, <1>7, <1>8, UntoldFacts
<1>10. /\ predecessors'[n] = p - 1 /\ predecessors' \in [Nodes -> 0 .. Wrap - 1]
       /\ \A a \in Nodes : a # n => predecessors'[a] = predecessors[a]
       /\ p \in Nat \ {0} /\ (p = 1 <=> predecessors'[n] = 0)
  <2>1. Decrement(p) = p - 1 /\ Decrement(p) \in 0 .. Wrap - 1
    BY <1>9, Decremented
  <2>2. p \in Nat \ {0}
    BY <1>9, InputFacts DEF IInv
  <2> QED BY <1>0, <1>1, <1>4, <1>8, <2>1, <2>2 DEF EntryType
<1>11. Others(w)
  BY <1>1, <1>5 DEF Others
<1>12. /\ \A v \in Workers : \A x : Marks(v, x)' <=> Marks(v, x)
       /\ outcome[m] # "Ready" /\ \A v \in Workers : ~Marks(v, m)
  <2>1. \A v \in Workers : \A x : Marks(v, x)' <=> Marks(v, x)
    BY <1>1, <1>5 DEF Marks, Marking
  <2>2. LoopAt(w, d) /\ \A v \in Workers : ~Marks(v, loops[w][d].of)
    BY <1>6 DEF IInv, Counted, Looping
  <2> QED BY <1>6, <1>7, <2>1, <2>2 DEF LoopAt
<1>13. Counted'
  <2>1. \A a \in Nodes : outcome[a] # "Ready" => Live /\ predecessors'[a] = 0
    BY <1>9, <1>10 DEF IInv, Counted
  <2> QED BY <1>1, <1>4, <1>12, <2>1 DEF IInv, Counted
<1>14. Looping'
  <2>1. ASSUME NEW v \in Workers, NEW k \in DOMAIN loops'[v] PROVE LoopAt(v, k)'
    BY <1>1, <1>4, <2>1 DEF IInv, Looping, LoopAt
  <2>2. ASSUME NEW v \in Workers, pc'[v] = "release"
        PROVE  edge'[v] \in Succ(Last(loops'[v]).of) /\ edge'[v] \notin Last(loops'[v]).todo
    <3>1. pc[v] = "release" /\ edge'[v] = edge[v] /\ loops' = loops
      BY <1>1, <1>5, <2>2
    <3> QED BY <3>1 DEF IInv, Looping
  <2> QED BY <1>4, <2>1, <2>2 DEF Looping
<1>15. Joins'
  <2>1. ASSUME NEW x \in Nodes, NEW a \in Nodes, NEW v \in Workers, ~(x = m /\ a = n)
        PROVE  Untold(v, x, a)' <=> Untold(v, x, a)
    <3>1. CASE v # w
      BY <1>1, <1>5, <3>1 DEF Untold
    <3>2. CASE v = w
      <4>1. Untold(v, x, a)' <=> \E k \in DOMAIN loops[v] : loops[v][k].of = x /\ a \in loops[v][k].todo
        BY <1>1, <1>5, <3>2 DEF Untold
      <4>2. Untold(v, x, a) <=> \E k \in DOMAIN loops[v] :
              loops[v][k].of = x /\ (a \in loops[v][k].todo \/ (n = a /\ k = d))
        BY <1>0, <1>1, <3>2 DEF Untold
      <4>3. \A k \in DOMAIN loops[v] : loops[v][k].of = x => ~(n = a /\ k = d)
        BY <1>6, <1>7, <2>1, <3>2
      <4> QED BY <4>1, <4>2, <4>3
    <3> QED BY <3>1, <3>2
  <2>2. ASSUME NEW v \in Workers PROVE ~Untold(v, m, n)'
    <3> SUFFICES ASSUME Untold(v, m, n)' PROVE FALSE
      OBVIOUS
    <3>1. PICK k \in DOMAIN loops[v] : /\ loops[v][k].of = m
                                       /\ n \in loops[v][k].todo \/ (pc'[v] = "release" /\ edge[v] = n /\ k = Len(loops[v]))
      BY <1>1 DEF Untold
    <3>2. v = w /\ k = d
      BY <1>6, <1>7, <3>1 DEF IInv, Counted
    <3> QED BY <1>5, <1>6, <1>8, <3>1, <3>2
  <2>3. \A x, a \in Nodes : ~(x = m /\ a = n) => (Pending(x, a)' <=> Pending(x, a))
    BY <1>1, <1>4, <1>12, <2>1 DEF Pending
  <2>4. ~Pending(m, n)'
    BY <1>1, <1>12, <2>2 DEF Pending
  <2>5. Waits(n)' = Waits(n) \ {m}
    BY <1>4, <1>8, <2>3, <2>4 DEF Waits
  <2>6. \A a \in Nodes : a # n => Waits(a)' = Waits(a)
    BY <1>4, <2>3 DEF Waits
  <2>7. Cardinality(Waits(n)') = p - 1
    <3>1. m \in Waits(n)
      BY <1>9 DEF Waits
    <3> QED BY <1>9, <2>5, <3>1, FS_RemoveElement
  <2>8. \A a \in Nodes : predecessors'[a] = Cardinality(Waits(a)')
    <3> SUFFICES ASSUME NEW a \in Nodes PROVE predecessors'[a] = Cardinality(Waits(a)')
      OBVIOUS
    <3>1. CASE a = n
      BY <1>10, <2>7, <3>1
    <3>2. CASE a # n
      BY <1>3, <1>10, <2>6, <3>2 DEF IInv, Joins
    <3> QED BY <3>1, <3>2
  <2> QED BY <1>4, <2>8 DEF Joins
<1>16. Told'
  BY <1>1, <1>2, <1>12, ToldSame
<1>17. Sleeps' = Sleeps
  BY <1>2, <1>4 DEF Sleeps
<1>18. Single'
  <2>1. starts[n] = 0 /\ n \notin roots /\ n \notin Sleeps /\ \A v \in Workers : ~Has(v, n)
    <3>1. starts[n] = 0
      BY <1>9 DEF Due
    <3> QED BY <1>9, <3>1 DEF Due
  <2>2. \A v \in Workers : Has(v, n)' => v = w /\ p = 1
    <3> SUFFICES ASSUME NEW v \in Workers, Has(v, n)' PROVE v = w /\ p = 1
      OBVIOUS
    <3>1. CASE v = w
      <4>1. p # 1 => ~Has(w, n)'
        BY <1>5 DEF Has
      <4> QED BY <3>1, <4>1
    <3>2. CASE v # w
      BY <1>5, <1>11, <1>17, <2>1, <3>2 DEF Has, Others
    <3> QED BY <3>1, <3>2
  <2>3. SingleAt(n)'
    <3>1. Due(n)' => p = 1
      BY <1>2, <1>17, <2>1, <2>2 DEF Due
    <3>2. (n \notin Sleeps)' /\ starts'[n] = 0 /\ n \notin roots'
      BY <1>2, <1>17, <2>1
    <3> QED BY <1>1, <1>4, <1>3, <1>9, <1>10, <2>2, <3>1, <3>2 DEF SingleAt
  <2>4. ASSUME NEW a \in Nodes, a # n PROVE Has(w, a)' <=> Has(w, a)
    BY <1>0, <1>1, <1>5, <2>4 DEF Has
  <2> QED BY <1>1, <1>2, <1>8, <1>10, <1>11, <1>17, <2>3, <2>4, SingleMoved
<1>19. Starting'
  <2>1. ASSUME NEW a \in Nodes PROVE StartAt(a)'
    <3>1. StartAt(a)
      BY DEF IInv, Starting
    <3>2. a \in started => a # n /\ predecessors'[a] = predecessors[a]
      BY <1>9, <1>10
    <3>3. ASSUME a \in started, NEW v \in Workers
          PROVE  (pc'[v] = "begin" => cur'[v] # a) /\ (pc'[v] = "decide" => edge'[v] # a)
      <4>1. CASE v = w
        BY <1>0, <1>1, <1>5, <3>2, <3>3, <4>1
      <4>2. CASE v # w
        BY <1>11, <3>1, <3>3, <4>2 DEF StartAt, Others
      <4> QED BY <4>1, <4>2
    <3> QED BY <1>1, <1>2, <1>4, <1>17, <3>1, <3>2, <3>3 DEF StartAt
  <2>2. ASSUME NEW v \in Workers PROVE Begun(v)'
    <3>1. CASE v = w
      BY <1>5, <3>1 DEF Begun
    <3>2. CASE v # w
      BY <1>1, <1>2, <1>11, <3>2 DEF IInv, Starting, Begun, Others
    <3> QED BY <3>1, <3>2
  <2> QED BY <1>4, <2>1, <2>2 DEF Starting
<1>20. Counters'
  BY <1>1, <1>2, <1>5, <1>11, TellCounters
<1>21. SlotsOwed'
  <2>1. Owed' = Owed
    <3>1. \A a \in Nodes : a # n => (predecessors'[a] > 0 <=> predecessors[a] > 0)
      BY <1>10
    <3>2. predecessors[n] > 0 /\ (predecessors'[n] > 0 <=> p # 1)
      BY <1>0, <1>10
    <3>3. \A v \in Workers : pc'[v] = "decide" <=> pc[v] = "decide" \/ (v = w /\ p = 1)
      BY <1>1, <1>5
    <3> QED BY <1>0, <1>1, <1>2, <1>4, <1>8, <3>1, <3>2, <3>3 DEF Owed
  <2> QED BY <1>1, <1>2, <2>1, OwedKept
<1>22. WatcherHeld'
  BY <1>1, <1>2 DEF IInv, WatcherHeld
<1>23. PlaceAt(w)'
  <2>1. firing'[w] = {} /\ loops'[w] # <<>> /\ edge'[w] \in Nodes
    BY <1>0, <1>1, <1>3, <1>8 DEF PlaceAt
  <2> QED BY <1>2, <1>3, <1>5, <2>1, LatePlace DEF Marking
<1>24. EntryType' /\ starts' \in [Nodes -> Nat]
  BY <1>1, <1>2, <1>4, <1>10 DEF EntryType, QueueType, Terminal
<1> QED BY <1>1, <1>2, <1>3, <1>4, <1>5, <1>11, <1>13, <1>14, <1>15, <1>16, <1>18, <1>19, <1>20, <1>21,
           <1>22, <1>23, <1>24, LateStep

-----------------------------------------------------------------------------
(* At the start nothing has moved.                                         *)
LEMMA InitStep ==
  ASSUME WholeInputs, Init
  PROVE  IInv
<1>1. /\ input \in Inputs /\ IsInput(input) /\ rpc = "freeze" /\ roots = {} /\ slots = 0
      /\ refusal.reason = "none" /\ cancelRequested = FALSE /\ cpc = "idle"
  BY GraphAssumption DEF Init
<1>2. /\ predecessors = [n \in Nodes |-> 0] /\ failedRequired = {} /\ callbacks = {} /\ armed = {}
      /\ outcome = [n \in Nodes |-> "Ready"] /\ starts = [n \in Nodes |-> 0] /\ started = {}
      /\ resumes = [n \in Coros |-> 0] /\ task = [n \in Coros |-> "Ready"] /\ left = input.suspends
      /\ remaining = Cardinality(Nodes) /\ report = [o \in Terminal |-> 0] /\ runState = "Running"
      /\ pc = [w \in Workers |-> "idle"] /\ loops = [w \in Workers |-> <<>>]
      /\ firing = [w \in Workers |-> {}] /\ wpc = [x \in Watchers |-> "idle"]
      /\ cur = [w \in Workers |-> None] /\ edge = [w \in Workers |-> None]
      /\ verdict = [w \in Workers |-> "Cancelled"] /\ stop = [n \in Coros |-> FALSE]
      /\ toCancel = {} /\ immediate = FALSE /\ swept = FALSE
  BY DEF Init
<1>3. /\ IsFiniteSet(Nodes) /\ Cardinality(Nodes) \in Nat /\ Cardinality(Nodes) < Wrap
      /\ Wrap \in Nat \ {0} /\ Coros \subseteq Nodes /\ left \in [Coros -> Nat]
  <2>1. IsFiniteSet(Nodes) /\ Cardinality(Nodes) < Wrap
    BY <1>1 DEF IsInput, Nodes
  <2>2. Coros \subseteq Nodes /\ left \in [Coros -> Nat]
    BY <1>1, <1>2 DEF IsInput, Nodes, Coros
  <2> QED BY <2>1, <2>2, FS_CardinalityType, GraphAssumption
<1>4. Sleeps = {} /\ ~Live
  BY <1>1, <1>2 DEF Sleeps, Live
<1>5. Typed
  <2>1. CallerType
    BY <1>1 DEF CallerType
  <2>2. EntryType
    BY <1>2, <1>3 DEF EntryType
  <2>3. RunType
    BY <1>2, <1>3 DEF RunType
  <2>4. QueueType /\ CoroType
    BY <1>2, <1>3 DEF QueueType, CoroType
  <2>5. WorkerType
    BY <1>2 DEF WorkerType, Steps, Terminal
  <2>6. LoopType /\ OutsideType
    <3>1. <<>> \in Seq(Loop)
      OBVIOUS
    <3>2. LoopType
      BY <1>2, <3>1 DEF LoopType
    <3> QED BY <1>1, <1>2, <3>2 DEF OutsideType
  <2>7. Places
    BY <1>2 DEF Places, PlaceAt, At3, Marking
  <2>8. Setting
    BY <1>1, <1>2, <1>4 DEF Setting
  <2>9. slots \in 0 .. Cardinality(Nodes)
    BY <1>1, <1>3
  <2> QED BY <2>1, <2>2, <2>3, <2>4, <2>5, <2>6, <2>7, <2>8, <2>9, TypedParts DEF Parts
<1>6. Segments
  <2>1. Unbroken(input) \/ Alone(input)
    BY <1>1 DEF WholeInputs
  <2>2. Unbroken(input) => \A n \in Coros : left[n] = 0
    BY <1>2 DEF Unbroken, Coros
  <2>3. \A w \in Workers : pc[w] = "idle"
    BY <1>2
  <2> QED BY <1>2, <1>4, <2>1, <2>2, <2>3 DEF Segments, Terminal
<1>7. Single /\ Counted /\ Looping /\ Told /\ Starting /\ Uncounted = Nodes
  <2>1. Fresh
    BY <1>2, <1>4 DEF Fresh
  <2> QED BY <1>1, <2>1, FreshInv
<1>8. Counters
  <2>1. \A o \in Terminal : {n \in Nodes : outcome[n] = o} = {}
    BY <1>2 DEF Terminal
  <2>2. \A o \in Terminal : report[o] = Cardinality({n \in Nodes : outcome[n] = o})
    BY <1>2, <2>1, FS_EmptySet
  <2> QED BY <1>2, <1>7, <2>2 DEF Counters
<1>9. Joins /\ SlotsOwed
  BY <1>1, <1>4 DEF Joins, SlotsOwed
<1>10. WatcherHeld
  BY <1>2 DEF WatcherHeld
<1> QED BY <1>5, <1>6, <1>7, <1>8, <1>9, <1>10 DEF IInv

(* Every step keeps the invariant.                                         *)
LEMMA NextStep ==
  ASSUME IInv, Next
  PROVE  IInv'
<1>1. CASE Runner
  BY <1>1, FreezeStep, AdmitStep, MaterializeStep, PostRootStep DEF Runner
<1>2. CASE Wake
  BY <1>2, WakeStep
<1>3. CASE Canceller \/ RequestCancel \/ ShutdownNow
  BY <1>3, CancelNodeStep, CallStep DEF Canceller
<1>4. CASE CancelUnstarted
  BY <1>4, CancelUnstartedStep
<1>5. ASSUME NEW w \in Workers, Work(w) PROVE IInv'
  <2>1. CASE ClaimStart(w)
    BY <2>1, ClaimStartStep
  <2>2. CASE ClaimResume(w)
    BY <2>2, ClaimResumeStep
  <2>3. CASE Node(w)
    BY <2>3, BeginStep, EndBodyStep, BeginCoroutineStep, SuspendStep, EndSegmentStep,
       CheckStep
       DEF Node
  <2>4. CASE Mark(w)
    BY <2>4, CountStep, FetchStep, PublishStep, FireStep DEF Mark
  <2>5. CASE Propagate(w)
    BY <2>5, EnterStep, NextEdgeStep, EndLoopStep, ReleaseStep, DecideStep DEF Propagate
  <2> QED BY <1>5, <2>1, <2>2, <2>3, <2>4, <2>5 DEF Work
<1>6. ASSUME NEW x \in Watchers, AwaitReady(x) \/ BeginWait(x) \/ TimeOut(x) \/ Watch(x) PROVE IInv'
  BY <1>6, WatchStep DEF Watch
<1> QED BY <1>1, <1>2, <1>3, <1>4, <1>5, <1>6 DEF Next

(* A step that changes nothing keeps it too.                               *)
LEMMA StutterStep == IInv /\ UNCHANGED vars => IInv'
<1> SUFFICES ASSUME IInv, UNCHANGED vars PROVE IInv'
  OBVIOUS
<1>1. /\ UNCHANGED <<input, rpc, roots, refusal, slots, predecessors, failedRequired, outcome>>
      /\ UNCHANGED <<remaining, report, runState, callbacks, starts, resumes, task, stop, left, armed>>
      /\ UNCHANGED <<pc, cur, verdict, loops, edge, firing, cancelRequested, cpc, toCancel, immediate>>
      /\ UNCHANGED <<swept, wpc, started>>
  BY DEF vars, entry, run, caller, queues, coroutine, worker, outside
<1>2. Segments' /\ Single' /\ Counted' /\ Looping' /\ Joins' /\ Told' /\ Starting' /\ Counters'
  BY <1>1, CalmStep DEF Live, entry, queues, coroutine
<1>3. Nodes' = Nodes
  BY <1>1 DEF Nodes
<1>4. SlotsOwed' /\ WatcherHeld'
  BY <1>1, <1>3 DEF IInv, SlotsOwed, Owed, WatcherHeld
<1>5. Typed'
  <2>1. Places'
    BY <1>1, <1>3 DEF IInv, Typed, Places, PlaceAt, Live, Coros
  <2>2. Setting'
    BY <1>1 DEF IInv, Typed, Setting, Live, Nodes, Pred, Succ
  <2>3. slots' \in 0 .. Cardinality(Nodes')
    BY <1>1, <1>3 DEF IInv, Typed, TypeOK
  <2> QED BY <1>1, <2>1, <2>2, <2>3, TypesKept, TypedNext DEF IInv, Parts
<1> QED BY <1>2, <1>4, <1>5 DEF IInv

(* R-070, R-071: for the inputs above the inductive invariant holds, in    *)
(* particular each node is counted once and each join once.                *)
THEOREM Inductive == WholeInputs => (Spec => []IInv)
<1> SUFFICES ASSUME WholeInputs PROVE Spec => []IInv
  OBVIOUS
<1>1. Init => IInv
  BY InitStep
<1>2. IInv /\ [Next]_vars => IInv'
  BY NextStep, StutterStep
<1> QED BY <1>1, <1>2, PTL DEF Spec

(* R-072: TypeOK, and the report of a completed run counts each node once, *)
(* under the outcome it has.                                               *)
THEOREM ReportsAgree == WholeInputs => (Spec => []Inv)
<1> SUFFICES ASSUME WholeInputs PROVE Spec => []Inv
  OBVIOUS
<1>1. IInv => Inv
  <2> SUFFICES ASSUME IInv PROVE Inv
    OBVIOUS
  <2>1. runState # "Running" => \A n \in Nodes : outcome[n] # "Ready"
    BY DEF IInv, Counters, Uncounted
  <2> QED BY <2>1 DEF IInv, Inv, Typed, ReportAgrees, Counters
<1> QED BY <1>1, Inductive, PTL

(* R-070: every slot of the run comes back exactly once.                   *)
THEOREM SlotsReturn == WholeInputs => (Spec => []SlotsOwed)
<1> SUFFICES ASSUME WholeInputs PROVE Spec => []SlotsOwed
  OBVIOUS
<1>1. IInv => SlotsOwed
  BY DEF IInv
<1> QED BY <1>1, Inductive, PTL

(* R-076: a watcher that waits is registered with a run that will still    *)
(* complete, or is about to be called.                                     *)
THEOREM WatchersHeld == WholeInputs => (Spec => []WatcherHeld)
<1> SUFFICES ASSUME WholeInputs PROVE Spec => []WatcherHeld
  OBVIOUS
<1>1. IInv => WatcherHeld
  BY DEF IInv
<1> QED BY <1>1, Inductive, PTL

-----------------------------------------------------------------------------
(* The run implements DependencyRun.  A node in the hands of a worker has  *)
(* no counted-down predecessor missing, and was told how they ended.       *)
LEMMA ReadyFacts ==
  ASSUME IInv, NEW w \in Workers, NEW n \in Nodes, Has(w, n)
  PROVE  /\ outcome[n] = "Ready"
         /\ \A m \in Pred(n) : m \in Nodes /\ outcome[m] # "Ready"
         /\ n \notin failedRequired => \A m : <<m, n>> \in Required => outcome[m] = "Succeeded"
         /\ n \in failedRequired => \E m \in Nodes : <<m, n>> \in Required /\ outcome[m] # "Succeeded"
<1>1. outcome[n] = "Ready" /\ predecessors[n] = 0 /\ Live
  BY DEF IInv, Single, SingleAt, Due
<1>2. \A m \in Nodes : ~Pending(m, n)
  <2>1. Waits(n) \subseteq Nodes /\ IsFiniteSet(Waits(n))
    BY InputFacts, FS_Subset DEF IInv, Waits
  <2>2. Cardinality(Waits(n)) = 0
    BY <1>1 DEF IInv, Joins
  <2> QED BY <2>1, <2>2, FS_EmptySet DEF Waits
<1>3. ASSUME NEW m \in Pred(n)
      PROVE  /\ m \in Nodes /\ outcome[m] # "Ready"
             /\ \A v \in Workers : ~Marks(v, m) /\ ~Untold(v, m, n)
  <2>1. m \in Nodes
    BY <1>1 DEF IInv, Typed, Setting, Live
  <2> QED BY <1>2, <2>1 DEF Pending
<1>4. ASSUME n \notin failedRequired, NEW m, <<m, n>> \in Required PROVE outcome[m] = "Succeeded"
  <2>1. m \in Pred(n)
    BY <1>4, InputFacts DEF IInv
  <2>2. m \in Nodes /\ outcome[m] # "Ready" /\ \A v \in Workers : ~Marks(v, m) /\ ~Untold(v, m, n)
    BY <1>3, <2>1
  <2>3. ~Bad(m)
    BY <1>4, <2>2 DEF IInv, Told, Untold
  <2> QED BY <2>2, <2>3 DEF Bad
<1>5. n \in failedRequired => \E m \in Nodes : <<m, n>> \in Required /\ outcome[m] # "Succeeded"
  BY DEF IInv, Told, Bad
<1> QED BY <1>1, <1>3, <1>4, <1>5

(* The edges of the promised graph are those of the frozen one.            *)
LEMMA PromisedGraph ==
  /\ Graph(input).nodes = Nodes /\ Graph(input).require = Required
  /\ \A m, n : <<m, n>> \in Graph(input).require \cup Graph(input).after => m \in Pred(n)
<1>1. Graph(input).nodes = Nodes /\ Graph(input).require = Required
      /\ Graph(input).after = EdgesOf(input, {FALSE})
  BY DEF Graph, Nodes, Required
<1>2. ASSUME NEW m, NEW n, NEW kinds, <<m, n>> \in EdgesOf(input, kinds) PROVE m \in Pred(n)
  <2>1. PICK e \in ToSet(input.edges) : <<m, n>> = <<e.from, e.to>>
    BY <1>2 DEF EdgesOf
  <2> QED BY <2>1 DEF Pred
<1> QED BY <1>1, <1>2 DEF Required

(* The status of a node is its outcome, once it has one.                   *)
LEMMA StatusFacts ==
  /\ \A n \in Nodes : outcome[n] # "Ready" => Status[n] = outcome[n]
  /\ \A n \in Nodes : outcome[n] = "Ready" => Status[n] = IF n \in started THEN "Started" ELSE "Waiting"
  /\ Status = [n \in Nodes |-> Status[n]]
BY DEF Status

(* The next status, from the next outcomes.                                *)
LEMMA StatusNext ==
  ASSUME UNCHANGED input
  PROVE  Status' = [n \in Nodes |-> IF outcome'[n] # "Ready" THEN outcome'[n]
                                    ELSE IF n \in started' THEN "Started" ELSE "Waiting"]
BY DEF Status, Nodes

(* A body begins.                                                          *)
LEMMA StartPromised ==
  ASSUME IInv, NEW w \in Workers, NEW n \in Nodes, Has(w, n), n \notin started, n \notin failedRequired,
         ~cancelRequested, started' = started \cup {n},
         UNCHANGED <<input, outcome, cancelRequested, runState>>
  PROVE  Promise!Start(n)
<1>1. Status[n] = "Waiting"
  BY ReadyFacts, StatusFacts
<1>2. Promise!Unblocked(n)
  <2>1. \A m \in Pred(n) : m \in Nodes /\ Status[m] = outcome[m] /\ outcome[m] \in Terminal
    BY ReadyFacts, StatusFacts DEF IInv, Typed, TypeOK
  <2> QED BY <2>1, PromisedGraph DEF Promise!Unblocked, Promise!Done, Promise!Terminal, Terminal
<1>3. Promise!Allowed(n)
  <2>1. \A m \in Nodes : <<m, n>> \in Required => Status[m] = "Succeeded"
    BY ReadyFacts, StatusFacts
  <2> QED BY <2>1, PromisedGraph DEF Promise!Allowed
<1>4. Promise!Become(n, "Started")
  <2>1. Status' = [Status EXCEPT ![n] = "Started"]
    BY ReadyFacts, StatusNext DEF Status
  <2>2. Graph(input)' = Graph(input)
    BY DEF Graph, EdgesOf
  <2> QED BY <2>1, <2>2 DEF Promise!Become
<1> QED BY <1>1, <1>2, <1>3, <1>4 DEF Promise!Start

(* A node is counted: it finishes, or is skipped if it has not started.    *)
LEMMA CountPromised ==
  ASSUME IInv, NEW w \in Workers, Count(w)
  PROVE  \E n \in Nodes : Promise!Finish(n) \/ Promise!Skip(n)
<1>1. PICK n : n = cur[w]
  OBVIOUS
<1>2. PICK s : s = verdict[w]
  OBVIOUS
<1>3. /\ pc[w] = "count" /\ outcome' = [outcome EXCEPT ![n] = s]
      /\ UNCHANGED <<input, started, cancelRequested, runState>>
  BY <1>1, <1>2 DEF Count, At, caller, outside
<1>4. /\ n \in Nodes /\ Has(w, n) /\ s \in Terminal /\ outcome \in [Nodes -> Terminal \cup {"Ready"}]
      /\ n \notin started => s = "Cancelled" /\ (cancelRequested \/ n \in failedRequired)
  BY <1>1, <1>2, <1>3, PlaceFacts DEF IInv, Typed, TypeOK, Has, Begun
<1>5. Promise!Become(n, s)
  <2>1. Status' = [Status EXCEPT ![n] = s]
    BY <1>3, <1>4, StatusNext DEF Status, Terminal
  <2>2. Graph(input)' = Graph(input)
    BY <1>3 DEF Graph, EdgesOf
  <2> QED BY <1>3, <2>1, <2>2 DEF Promise!Become
<1>6. CASE n \in started
  <2>1. Status[n] = "Started"
    BY <1>4, <1>6, ReadyFacts, StatusFacts
  <2> QED BY <1>4, <1>5, <2>1 DEF Promise!Finish, Promise!Terminal, Terminal
<1>7. CASE n \notin started
  <2>1. Status[n] = "Waiting"
    BY <1>4, <1>7, ReadyFacts, StatusFacts
  <2>2. Promise!Unblocked(n)
    <3>1. \A m \in Pred(n) : m \in Nodes /\ Status[m] = outcome[m] /\ outcome[m] \in Terminal
      BY <1>4, ReadyFacts, StatusFacts DEF IInv, Typed, TypeOK
    <3> QED BY <3>1, PromisedGraph DEF Promise!Unblocked, Promise!Done, Promise!Terminal, Terminal
  <2>3. cancelRequested \/ ~Promise!Allowed(n)
    <3>1. ASSUME n \in failedRequired
          PROVE  \E m \in Nodes : <<m, n>> \in Required /\ Status[m] # "Succeeded"
      BY <1>4, <3>1, ReadyFacts, StatusFacts
    <3> QED BY <1>4, <1>7, <3>1, PromisedGraph DEF Promise!Allowed
  <2> QED BY <1>4, <1>5, <1>7, <2>1, <2>2, <2>3 DEF Promise!Skip
<1> QED BY <1>6, <1>7

(* The verdict is published, as the outcomes say.                          *)
LEMMA PublishPromised ==
  ASSUME IInv, NEW w \in Workers, Publish(w)
  PROVE  Promise!Publish
<1>1. /\ pc[w] = "publish" /\ UNCHANGED <<input, outcome, started, cancelRequested>>
      /\ runState' = CASE report["Failed"] > 0 -> "Failed"
                       [] report["Failed"] = 0 /\ report["Cancelled"] > 0 -> "Cancelled"
                       [] OTHER -> "Succeeded"
  BY DEF Publish, At, caller, outside, entry
<1>2. runState = "Running" /\ \A n \in Nodes : outcome[n] \in Terminal
  BY <1>1 DEF IInv, Counters, Uncounted, Typed, TypeOK
<1>3. \A n \in Nodes : Status[n] = outcome[n]
  BY <1>2, StatusFacts DEF Terminal
<1>4. ASSUME NEW o \in Terminal
      PROVE  report[o] \in Nat /\ (report[o] > 0 <=> \E n \in Nodes : Status[n] = o)
  <2> DEFINE S == {n \in Nodes : outcome[n] = o}
  <2>1. S \subseteq Nodes /\ report[o] = Cardinality(S)
    BY DEF IInv, Counters
  <2>2. IsFiniteSet(S)
    BY <2>1, InputFacts, FS_Subset DEF IInv
  <2>3. Cardinality(S) \in Nat /\ (Cardinality(S) = 0 <=> S = {})
    BY <2>2, FS_CardinalityType, FS_EmptySet
  <2>4. S # {} <=> \E n \in Nodes : Status[n] = o
    BY <1>3
  <2> QED BY <2>1, <2>3, <2>4
<1>5. runState' = Promise!Verdict
  <2>1. /\ report["Failed"] \in Nat /\ report["Cancelled"] \in Nat
        /\ report["Failed"] > 0 <=> \E n \in Nodes : Status[n] = "Failed"
        /\ report["Cancelled"] > 0 <=> \E n \in Nodes : Status[n] = "Cancelled"
    <3>1. "Failed" \in Terminal /\ "Cancelled" \in Terminal
      BY DEF Terminal
    <3> QED BY <1>4, <3>1
  <2>2. \A n \in Nodes : Status[n] \in {"Succeeded", "Failed", "Cancelled"}
    BY <1>2, <1>3 DEF Terminal
  <2>3. CASE \E n \in Nodes : Status[n] = "Failed"
    <3>1. runState' = "Failed" /\ ~\A n \in Nodes : Status[n] = "Succeeded"
      BY <1>1, <2>1, <2>3
    <3>2. Promise!Verdict = "Failed"
      BY <2>3, <3>1, PromisedGraph DEF Promise!Verdict
    <3> QED BY <3>1, <3>2
  <2>4. CASE \A n \in Nodes : Status[n] = "Succeeded"
    <3>1. runState' = "Succeeded" /\ ~\E n \in Nodes : Status[n] = "Failed"
      BY <1>1, <2>1, <2>4
    <3>2. Promise!Verdict = "Succeeded"
      BY <2>4, <3>1, PromisedGraph DEF Promise!Verdict
    <3> QED BY <3>1, <3>2
  <2>5. CASE (~\E n \in Nodes : Status[n] = "Failed") /\ ~\A n \in Nodes : Status[n] = "Succeeded"
    <3>1. runState' = "Cancelled"
      BY <1>1, <2>1, <2>2, <2>5
    <3>2. Promise!Verdict = "Cancelled"
      BY <2>5, PromisedGraph DEF Promise!Verdict
    <3> QED BY <3>1, <3>2
  <2> QED BY <2>3, <2>4, <2>5
<1>6. \A n \in Graph(input).nodes : Promise!Done(n)
  BY <1>2, <1>3, PromisedGraph DEF Promise!Done, Promise!Terminal, Terminal
<1>7. UNCHANGED <<Graph(input), Status, cancelRequested>>
  BY <1>1 DEF Graph, EdgesOf, Status, Nodes
<1> QED BY <1>2, <1>5, <1>6, <1>7 DEF Promise!Publish

(* The run of an empty graph is complete at once.                          *)
LEMMA EmptyPromised ==
  ASSUME IInv, Admit, Nodes = {}
  PROVE  Promise!Publish
<1>1. /\ rpc = "admit" /\ runState' = "Succeeded"
      /\ UNCHANGED <<input, outcome, started, cancelRequested>>
  BY DEF Admit, entry, outside
<1>2. runState = "Running"
  BY <1>1 DEF IInv, Typed, Setting
<1>3. Graph(input).nodes = {}
  BY PromisedGraph
<1>4. Promise!Verdict = "Succeeded"
  BY <1>3 DEF Promise!Verdict
<1>5. UNCHANGED <<Graph(input), Status, cancelRequested>>
  BY <1>1 DEF Graph, EdgesOf, Status, Nodes
<1> QED BY <1>1, <1>2, <1>3, <1>4, <1>5 DEF Promise!Publish

(* A step that the promise does not see.                                   *)
Unseen == UNCHANGED <<input, outcome, started, cancelRequested, runState>>

(* It is a stutter.                                                        *)
LEMMA UnseenPromised == Unseen => UNCHANGED Promise!vars
BY DEF Unseen, Promise!vars, Graph, EdgesOf, Status, Nodes

(* What a worker does is a step of the promise or unseen.                  *)
LEMMA WorkPromised ==
  ASSUME IInv, NEW w \in Workers, Work(w), Coros = {} \/ ~input.cancels
  PROVE  \/ Unseen \/ Promise!Publish
         \/ \E n \in Nodes : Promise!Start(n) \/ Promise!Finish(n) \/ Promise!Skip(n)
<1>1. CASE ClaimStart(w) \/ ClaimResume(w)
  BY <1>1 DEF ClaimStart, ClaimResume, Unseen, entry, run, caller, outside
<1>2. CASE Node(w)
  <2>1. CASE EndBody(w) \/ SuspendSegment(w) \/ EndSegment(w) \/ Check(w)
    BY <2>1
       DEF EndBody, SuspendSegment, EndSegment, Check, Unseen, entry, run, caller,
           outside
  <2>2. CASE Begin(w) /\ cancelRequested
    BY <2>2 DEF Begin, Unseen, entry, run, caller, outside
  <2>3. CASE (Begin(w) /\ ~cancelRequested) \/ BeginCoroutine(w)
    <3>1. PICK n : n = cur[w]
      OBVIOUS
    <3>2. /\ pc[w] = "begin" /\ started' = started \cup {n}
          /\ UNCHANGED <<input, outcome, cancelRequested, runState>>
      BY <2>3, <3>1 DEF Begin, BeginCoroutine, At, entry, run, caller, outside
    <3>3. ~cancelRequested
      BY <2>3 DEF BeginCoroutine, IInv, Typed, Setting
    <3>4. n \in Nodes /\ Has(w, n) /\ n \notin started /\ n \notin failedRequired
      BY <3>1, <3>2, PlaceFacts DEF Has, Begun, IInv, Starting, StartAt
    <3> QED BY <3>2, <3>3, <3>4, StartPromised
  <2> QED BY <1>2, <2>1, <2>2, <2>3 DEF Node
<1>3. CASE Mark(w)
  <2>1. CASE Count(w)
    BY <2>1, CountPromised
  <2>2. CASE Publish(w)
    BY <2>2, PublishPromised
  <2>3. CASE Fetch(w) \/ Fire(w)
    BY <2>3 DEF Fetch, Fire, Unseen, entry, run, caller, outside
  <2> QED BY <1>3, <2>1, <2>2, <2>3 DEF Mark
<1>4. CASE Propagate(w)
  BY <1>4
     DEF Propagate, Enter, NextEdge, EndLoop, Release, Decide, Unseen, entry, run,
         caller, outside
<1> QED BY <1>1, <1>2, <1>3, <1>4 DEF Work

(* So is every step.                                                       *)
LEMMA StepPromised ==
  ASSUME IInv, [Next]_vars, Coros = {} \/ ~input.cancels
  PROVE  [Promise!Next]_(Promise!vars)
<1>1. CASE UNCHANGED vars
  <2>1. Unseen
    BY <1>1 DEF vars, Unseen, entry, run, caller, outside
  <2> QED BY <2>1, UnseenPromised
<1>2. CASE Runner
  <2>1. CASE Admit /\ Nodes = {}
    BY <2>1, EmptyPromised DEF Promise!Next
  <2>2. CASE (Admit /\ Nodes # {}) \/ Freeze \/ Materialize \/ PostRoot
    <3>1. Unseen
      BY <2>2 DEF Admit, Freeze, Materialize, PostRoot, Unseen, entry, run, caller, outside
    <3> QED BY <3>1, UnseenPromised
  <2> QED BY <1>2, <2>1, <2>2 DEF Runner
<1>3. CASE Wake \/ Canceller \/ ShutdownNow \/ CancelUnstarted
  <2>1. Unseen
    BY <1>3
       DEF Wake, Canceller, CancelNode, CancelReturns, ShutdownNow, CancelUnstarted,
           Unseen, entry,
       run, caller, outside
  <2> QED BY <2>1, UnseenPromised
<1>4. CASE RequestCancel
  <2>1. cancelRequested' = TRUE /\ UNCHANGED <<input, outcome, started, runState>>
    BY <1>4 DEF RequestCancel, entry, run, caller
  <2>2. UNCHANGED <<Graph(input), Status, runState>>
    BY <2>1 DEF Graph, EdgesOf, Status, Nodes
  <2> QED BY <2>1, <2>2 DEF Promise!Next, Promise!Cancel
<1>5. ASSUME NEW w \in Workers, Work(w) PROVE [Promise!Next]_(Promise!vars)
  <2>1. \/ Unseen \/ Promise!Publish
        \/ \E n \in Nodes : Promise!Start(n) \/ Promise!Finish(n) \/ Promise!Skip(n)
    BY <1>5, WorkPromised
  <2> QED BY <2>1, UnseenPromised, PromisedGraph DEF Promise!Next
<1>6. ASSUME NEW x \in Watchers, AwaitReady(x) \/ BeginWait(x) \/ TimeOut(x) \/ Watch(x)
      PROVE  [Promise!Next]_(Promise!vars)
  <2>1. Unseen
    BY <1>6
       DEF AwaitReady, BeginWait, TimeOut, Watch, Register, GetReport, EndWait, Unseen,
           entry, run,
       caller, outside
  <2> QED BY <2>1, UnseenPromised
<1> QED BY <1>1, <1>2, <1>3, <1>4, <1>5, <1>6 DEF Next

(* A coroutine node begins even after request_cancel(), which the promise  *)
(* rules out: no run with such a node is cancelled.                        *)
Heeded == \A i \in Inputs : i.coros = {} \/ ~i.cancels

(* R-070, R-071, R-072: a run of such inputs implements DependencyRun: its *)
(* nodes start in order, once, and if their required predecessors have     *)
(* succeeded, and its verdict is published once, when all have ended.      *)
THEOREM ImplementsDependencyRun == WholeInputs /\ Heeded => (Spec => DagSpec)
<1> SUFFICES ASSUME WholeInputs, Heeded PROVE Spec => DagSpec
  OBVIOUS
<1>1. Init => Promise!Init
  <2> SUFFICES ASSUME Init PROVE Promise!Init
    OBVIOUS
  <2>1. /\ input \in Inputs /\ outcome = [n \in Nodes |-> "Ready"] /\ started = {}
        /\ cancelRequested = FALSE /\ runState = "Running"
    BY DEF Init
  <2>2. Status = [n \in Graph(input).nodes |-> "Waiting"]
    BY <2>1, PromisedGraph DEF Status
  <2>3. Graph(input) \in AllGraphs
    BY <2>1 DEF AllGraphs
  <2> QED BY <2>1, <2>2, <2>3 DEF Promise!Init
<1>2. IInv /\ [Next]_vars => [Promise!Next]_(Promise!vars)
  <2> SUFFICES ASSUME IInv, [Next]_vars PROVE [Promise!Next]_(Promise!vars)
    OBVIOUS
  <2>1. Coros = {} \/ ~input.cancels
    BY InputFacts DEF IInv, Heeded, Coros
  <2> QED BY <2>1, StepPromised
<1> QED BY <1>1, <1>2, Inductive, PTL DEF Spec, DagSpec, Promise!Spec
=============================================================================
