-------------------------- MODULE TaskAwait_proof --------------------------
(***************************************************************************)
(* Proofs about TaskAwait, for any workers, outside threads, tasks,        *)
(* programs and helping depth: one resume owner, one post per await, one   *)
(* destruction of a frame, a stop request that reaches a suspended         *)
(* coroutine, and metrics that agree with the tasks.                       *)
(***************************************************************************)
EXTENDS TaskAwait, FiniteSetTheorems, TLAPS

Frames == [task : Tasks, before : Nat]
Active == Places \ {"cold", "suspended", "done"}
Left == {"publish", "suspended"}   \* the handshake is armed or over

(* The type of each variable, and what a busy thread has.                  *)
Typed ==
  /\ TypeOK
  /\ stack \in [Workers -> Seq(Frames)]
  /\ local \subseteq Awaits
  /\ \A x \in Threads : step[x] # "none" => target[x] \in DOMAIN program.body
  /\ \A w \in leaving : stack[w] # <<>> /\ pending[w] = None
  /\ \A c \in Cancellers : cpc[c] = "idle" => c \in program.outside

(* Where the body of a task is, and which operation that place belongs to. *)
Op(t) == Body(t)[ip[t]].op
Begun(t) == ip[t] \in 1 .. Len(Body(t))
WhereAt(t) ==
  /\ pc[t] = "cold" => ip[t] = 0
  /\ pc[t] # "cold" => t \in DOMAIN program.body /\ ip[t] <= Len(Body(t))
  /\ pc[t] \in {"register", "stopcb", "suspend", "check", "id", "recheck", "arm",
                "publish", "suspended", "resumed", "waiting"} => Begun(t)
  /\ pc[t] = "register" => Op(t) = "await"
  /\ pc[t] \in {"check", "id", "recheck"} => Op(t) = "sleep"
  /\ pc[t] \in {"stopcb", "suspend", "arm"} => Op(t) \in {"await", "sleep"}
  /\ pc[t] \in {"publish", "suspended", "resumed"} => Op(t) \in {"await", "sleep", "yield"}
  /\ pc[t] = "waiting" => Op(t) \in Waits
Where == \A t \in Tasks : WhereAt(t)

(* The two sequence numbers differ while a segment that has announced the  *)
(* hand-off of its frame is still inside await_suspend().                  *)
Handed(t) == \/ pc[t] \in {"id", "recheck", "arm", "publish"}
             \/ pc[t] \in {"stopcb", "suspend"} /\ Op(t) # "sleep"
NumberAt(t) == handoff[t] = published[t] + IF Handed(t) THEN 1 ELSE 0
Numbers == \A t \in Tasks : NumberAt(t)

(* A segment that has not returned control began after the last one had    *)
(* published; one that is on its way out has published or is the last.     *)
Going(w, k) == w \in leaving /\ k = Len(stack[w])
SegmentAt(w, k, t) ==
  /\ pc[t] # "cold"
  /\ ~Going(w, k) => pc[t] \in Active /\ stack[w][k].before = published[t]
  /\ Going(w, k) => \/ stack[w][k].before < published[t]
                    \/ stack[w][k].before = published[t] /\ pc[t] = "done"
Owner(w, k) == stack[w][k].before = published[stack[w][k].task]
Segmented ==
  /\ \A w \in Workers : \A k \in DOMAIN stack[w] : SegmentAt(w, k, stack[w][k].task)
  /\ \A w, v \in Workers : \A k \in DOMAIN stack[w], j \in DOMAIN stack[v] :
       stack[w][k].task = stack[v][j].task /\ Owner(w, k) /\ Owner(v, j) => w = v /\ k = j

(* A ready item is in one place.                                           *)
Single ==
  /\ global \cap local = {}
  /\ \A w \in Workers : pending[w] # None =>
       /\ pending[w] \notin global \cup local
       /\ \A v \in Workers : pending[v] = pending[w] => v = w
  /\ \A w \in Workers : slot[w] # None =>
       /\ slot[w].item \notin global \cup local
       /\ \A v \in Workers : /\ pending[v] # slot[w].item
                             /\ slot[v] # None /\ slot[v].item = slot[w].item => v = w

(* The item that starts a task is there before the start; a resume, while  *)
(* the coroutine leaves or has left control on the await it belongs to.    *)
Due(i) == \/ i \in global \cup local
          \/ \E w \in Workers : pending[w] = i \/ (slot[w] # None /\ slot[w].item = i)
Ready ==
  \A i \in Items : Due(i) =>
    \/ /\ i \in Starts /\ i[1] \in DOMAIN program.body
       /\ pc[i[1]] = "cold" /\ destroyed[i[1]] = 0
    \/ /\ i \in Awaits /\ i[2] = ip[i[1]] /\ hs[i] = "Resolved" /\ pc[i[1]] \in Left

(* Handshakes: those of awaits to come are fresh, an armed one belongs to  *)
(* a coroutine that leaves or has left control, and only a resolved one    *)
(* has been posted.                                                        *)
ShakeAt(a) ==
  /\ a[2] > ip[a[1]] => hs[a] = "Init"
  /\ hs[a] = "Armed" => a[2] = ip[a[1]] /\ pc[a[1]] \in Left
  /\ hs[a] # "Resolved" => posts[a] = 0
  /\ posts[a] <= 1
Shakes ==
  /\ \A a \in Awaits : ShakeAt(a)
  /\ \A t \in Tasks : pc[t] \in Left => hs[Await(t)] \in {"Armed", "Resolved"}

(* What is to be triggered later are awaits that have begun.               *)
Past == {a \in Awaits : a[2] <= ip[a[1]]}
Called == /\ \A u \in Tasks : callbacks[u] \subseteq Past
          /\ \A x \in Threads : firing[x] \subseteq Past
          /\ timers \cup cancelling \subseteq {a \in Past : IsSleep(a)}

(* What the state says of the place, and what is left of a frame that was  *)
(* destroyed.                                                              *)
InAwait == {"register", "stopcb", "suspend", "check", "id", "recheck", "arm"}
StateAt(t) ==
  /\ pc[t] = "cold" => state[t] \in {"Ready", "Cancelled"}
  /\ pc[t] \in {"body", "register", "suspend", "resumed", "waiting", "error"} => state[t] = "Running"
  /\ pc[t] = "stopcb" => state[t] = IF Op(t) = "sleep" THEN "Suspended" ELSE "Running"
  /\ pc[t] \in {"check", "id", "recheck", "arm"} \cup Left => state[t] = "Suspended"
  /\ pc[t] = "unwind" =>
       \/ state[t] = "Running"
       \/ state[t] = "Suspended" /\ Begun(t) /\ Op(t) = "sleep" /\ hs[Await(t)] # "Resolved"
  /\ pc[t] \in InAwait => hs[Await(t)] # "Resolved"
  /\ pc[t] = "done" => Done(t)
  /\ destroyed[t] \in {0, 1}
  /\ destroyed[t] = 1 => pc[t] \in {"cold", "done"} /\ Done(t)
Ended == \A t \in Tasks : StateAt(t)
Unspoilt ==
  \A w \in Workers : \A k \in DOMAIN stack[w] : Owner(w, k) => destroyed[stack[w][k].task] = 0

(* From the construction of the stop callback to the resumption either it  *)
(* is registered, or a stop has triggered the await; a stop that finds it  *)
(* registered is about to call it.  A timer that is left behind its        *)
(* recheck can be withdrawn.                                               *)
Hooked(t) == \/ pc[t] \in {"check", "id", "recheck", "arm", "publish", "suspended"}
             \/ pc[t] = "suspend" /\ Op(t) # "sleep"
StopsAt(t) ==
  /\ t \in stopcb => Hooked(t) \/ pc[t] = "resumed"
  /\ Hooked(t) /\ t \notin stopcb => /\ hs[Await(t)] \in {"Triggered", "Resolved"}
                                     /\ stop[t] \/ Op(t) = "yield"
  /\ pc[t] = "recheck" => Await(t) \in timerId
  /\ pc[t] \in {"arm"} \cup Left /\ Await(t) \in timers =>
       Await(t) \in timerId /\ (stop[t] => t \in stopcb)
Calling ==
  /\ \A x \in Threads : step[x] # "none" => stop[target[x]] = TRUE
  /\ \A t \in stopcb : stop[t] => \E x \in Threads : step[x] = "stop" /\ target[x] = t
Stops == (\A t \in Tasks : StopsAt(t)) /\ Calling

IInv == /\ Typed /\ Where /\ Numbers /\ Segmented /\ Single /\ Ready
        /\ Shakes /\ Called /\ Ended /\ Unspoilt /\ Stops
-----------------------------------------------------------------------------
(* What a sequence holds is of the sequence's type.                        *)
LEMMA InSeq ==
  ASSUME NEW S, NEW q \in Seq(S), NEW i \in 1 .. Len(q)
  PROVE  q[i] \in S
  OBVIOUS

(* The programs: what a body is made of, and the items that come of it.    *)
LEMMA BodyType ==
  ASSUME program \in Programs, NEW t \in DOMAIN program.body
  PROVE  /\ t \in Tasks /\ Len(Body(t)) \in Nat
         /\ \A i \in 1 .. Len(Body(t)) :
              /\ Body(t)[i].op \in Ops /\ Body(t)[i].of \in Tasks \cup {None}
              /\ <<t, i>> \in Awaits
              /\ Body(t)[i].op \in {"yield", "sleep", "point"} => Body(t)[i].of = None
              /\ Body(t)[i].op \notin {"yield", "sleep", "point"} => Body(t)[i].of \in DOMAIN program.body
<1>1. /\ t \in Tasks /\ Body(t) \in Seq([op : Ops, of : Tasks \cup {None}])
  BY AwaitAssumption DEF Body
<1>2. ASSUME NEW i \in 1 .. Len(Body(t)) PROVE Body(t)[i] \in [op : Ops, of : Tasks \cup {None}]
  BY <1>1, InSeq
<1>3. ASSUME NEW i \in 1 .. Len(Body(t))
      PROVE  /\ Body(t)[i].op \in {"yield", "sleep", "point"} => Body(t)[i].of = None
             /\ Body(t)[i].op \notin {"yield", "sleep", "point"} => Body(t)[i].of \in DOMAIN program.body
  BY AwaitAssumption DEF Body
<1>4. ASSUME NEW i \in 1 .. Len(Body(t)) PROVE <<t, i>> \in Awaits
  BY DEF Awaits, Body
<1> QED BY <1>1, <1>2, <1>3, <1>4

(* A start is told from a resume by its number.                            *)
LEMMA ItemKinds ==
  /\ \A a \in Awaits : a = <<a[1], a[2]>> /\ a[1] \in Tasks /\ a[2] \in Nat \ {0} /\ a \in Items
  /\ \A i \in Starts : i = <<i[1], i[2]>> /\ i[1] \in Tasks /\ i[2] = 0 /\ i \in Items
  /\ Starts \cap Awaits = {} /\ None \notin Items
<1>1. ASSUME NEW a \in Awaits PROVE a = <<a[1], a[2]>> /\ a[1] \in Tasks /\ a[2] \in Nat \ {0}
  <2>1. PICK p \in Programs : \E t \in DOMAIN p.body : a \in {t} \X (1 .. Len(p.body[t]))
    BY DEF Awaits
  <2>2. PICK t \in DOMAIN p.body : a \in {t} \X (1 .. Len(p.body[t]))
    BY <2>1
  <2>3. t \in Tasks /\ Len(p.body[t]) \in Nat
    BY AwaitAssumption
  <2> QED BY <2>2, <2>3
<1>2. ASSUME NEW i \in Starts PROVE i = <<i[1], i[2]>> /\ i[1] \in Tasks /\ i[2] = 0
  BY DEF Starts
<1>3. None \notin Items
  BY AwaitAssumption
<1> QED BY <1>1, <1>2, <1>3 DEF Items

(* The innermost frame of a worker.                                        *)
LEMMA TopType ==
  ASSUME Typed, NEW w \in Workers, stack[w] # <<>>
  PROVE  /\ Len(stack[w]) \in DOMAIN stack[w] /\ Len(stack[w]) \in Nat \ {0}
         /\ DOMAIN stack[w] = 1 .. Len(stack[w])
         /\ Top(w) = stack[w][Len(stack[w])].task /\ Top(w) \in Tasks
         /\ Last(stack[w]) = stack[w][Len(stack[w])]
         /\ Last(stack[w]).before \in Nat
<1>1. stack[w] \in Seq(Frames)
  BY DEF Typed
<1>2. Len(stack[w]) \in Nat \ {0} /\ DOMAIN stack[w] = 1 .. Len(stack[w])
  BY <1>1
<1>3. stack[w][Len(stack[w])] \in Frames
  BY <1>1, <1>2
<1> QED BY <1>2, <1>3 DEF Top, Last, Frames

(* Any frame of a worker, as TopType says of the innermost one.            *)
LEMMA FrameType ==
  ASSUME Typed, NEW w \in Workers, NEW k \in DOMAIN stack[w]
  PROVE  /\ stack[w][k].task \in Tasks /\ stack[w][k].before \in Nat
         /\ k \in Nat \ {0} /\ k <= Len(stack[w]) /\ Len(stack[w]) \in Nat
<1>1. stack[w] \in Seq(Frames)
  BY DEF Typed
<1>2. k \in 1 .. Len(stack[w]) /\ stack[w][k] \in Frames
  BY <1>1
<1> QED BY <1>1, <1>2 DEF Frames

(* The worker executes t, which may go on.                                 *)
Works(w, t) == stack[w] # <<>> /\ w \notin leaving /\ pending[w] = None /\ ~Busy(w) /\ t = Top(w)

(* Who works on a task: the innermost frame of w is the segment of t,      *)
(* begun at the publication that t still stands at (execute_one()).        *)
LEMMA WorksFacts ==
  ASSUME IInv, NEW w \in Workers, NEW t, Works(w, t)
  PROVE  /\ t \in Tasks /\ pc[t] \in Active /\ t \in DOMAIN program.body
         /\ Len(stack[w]) \in DOMAIN stack[w]
         /\ stack[w][Len(stack[w])].task = t
         /\ stack[w][Len(stack[w])].before = published[t]
         /\ ip[t] \in Nat /\ ip[t] <= Len(Body(t))
<1>1. /\ Len(stack[w]) \in DOMAIN stack[w] /\ t \in Tasks
      /\ stack[w][Len(stack[w])].task = t
  BY TopType DEF IInv, Works
<1>2. SegmentAt(w, Len(stack[w]), t)
  BY <1>1 DEF IInv, Segmented
<1>3. pc[t] \in Active /\ stack[w][Len(stack[w])].before = published[t]
  BY <1>2 DEF SegmentAt, Going, Works
<1>4. WhereAt(t) /\ ip[t] \in Nat
  BY <1>1 DEF IInv, Where, Typed, TypeOK
<1> QED BY <1>1, <1>3, <1>4 DEF WhereAt, Active
-----------------------------------------------------------------------------
(* Steps that move one task, t.                                            *)
Others(t) ==
  \A u \in Tasks : u # t =>
    /\ pc'[u] = pc[u] /\ ip'[u] = ip[u] /\ state'[u] = state[u]
    /\ handoff'[u] = handoff[u] /\ published'[u] = published[u]
    /\ destroyed'[u] = destroyed[u]

Moves(t) == /\ UNCHANGED program /\ Others(t)
            /\ WhereAt(t)' /\ NumberAt(t)' /\ ip'[t] >= ip[t]

(* A step that moves only t keeps the place and the counters of every      *)
(* other task, and what the step says of t is enough.                      *)
LEMMA MovesWhere ==
  ASSUME Where, Numbers, NEW t \in Tasks, Moves(t)
  PROVE  Where' /\ Numbers'
<1>1. ASSUME NEW u \in Tasks, u # t PROVE WhereAt(u)' /\ NumberAt(u)'
  <2>1. /\ pc'[u] = pc[u] /\ ip'[u] = ip[u] /\ program' = program
        /\ handoff'[u] = handoff[u] /\ published'[u] = published[u]
    BY <1>1 DEF Moves, Others
  <2>2. WhereAt(u) /\ NumberAt(u)
    BY DEF Where, Numbers
  <2>3. WhereAt(u)'
    BY <2>1, <2>2 DEF WhereAt, Begun, Op, Body
  <2>4. Handed(u)' = Handed(u)
    BY <2>1 DEF Handed, Op, Body
  <2> QED BY <2>1, <2>2, <2>3, <2>4 DEF NumberAt
<1> QED BY <1>1 DEF Moves, Where, Numbers

(* The step is inside a segment of t that goes on.                         *)
LEMMA InnerSegmented ==
  ASSUME IInv, NEW w \in Workers, NEW t, Works(w, t), Moves(t), pc'[t] \in Active,
         published'[t] = published[t], UNCHANGED <<stack, leaving>>
  PROVE  Segmented'
<1>1. t \in Tasks /\ pc[t] \in Active
  BY WorksFacts
<1>2. \A u \in Tasks : published'[u] = published[u]
  BY DEF Moves, Others
<1>3. \A u \in Tasks : u # t => pc'[u] = pc[u]
  BY DEF Moves, Others
<1>4. ASSUME NEW v \in Workers, NEW k \in DOMAIN stack[v]
      PROVE  SegmentAt(v, k, stack[v][k].task)'
  <2>1. PICK u \in Tasks : u = stack[v][k].task
    BY FrameType DEF IInv
  <2>2. SegmentAt(v, k, u)
    BY <2>1 DEF IInv, Segmented
  <2>3. SegmentAt(v, k, u)'
    <3>1. CASE u = t
      BY <1>1, <1>2, <2>2, <3>1 DEF SegmentAt, Going, Active
    <3>2. CASE u # t
      BY <1>2, <1>3, <2>2, <3>2 DEF SegmentAt, Going
    <3> QED BY <3>1, <3>2
  <2> QED BY <2>1, <2>3
<1>5. \A v \in Workers : \A k \in DOMAIN stack[v] : Owner(v, k)' = Owner(v, k)
  BY <1>2, FrameType DEF IInv, Owner
<1> QED BY <1>4, <1>5 DEF IInv, Segmented

(* A step that changes no frame and moves no task keeps the segments.      *)
LEMMA StillSegmented ==
  ASSUME Segmented, UNCHANGED <<pc, published, stack, leaving>>
  PROVE  Segmented'
  BY DEF Segmented, SegmentAt, Going, Owner

(* publish_await_suspend().                                                *)
LEMMA PublishSegmented ==
  ASSUME IInv, NEW w \in Workers, NEW t, Works(w, t), Moves(t), pc'[t] # "cold",
         published'[t] = published[t] + 1, leaving' = leaving \cup {w}, UNCHANGED stack
  PROVE  Segmented'
<1>1. /\ t \in Tasks /\ pc[t] \in Active
      /\ Len(stack[w]) \in DOMAIN stack[w]
      /\ stack[w][Len(stack[w])].task = t
      /\ stack[w][Len(stack[w])].before = published[t]
  BY WorksFacts
<1>2. \A u \in Tasks : u # t => pc'[u] = pc[u] /\ published'[u] = published[u]
  BY DEF Moves, Others
<1>3. published[t] \in Nat
  BY <1>1 DEF IInv, Typed, TypeOK
<1>4. ASSUME NEW v \in Workers, NEW k \in DOMAIN stack[v], stack[v][k].task = t
      PROVE  /\ stack[v][k].before < published'[t] /\ (Going(v, k))'
  <2>1. SegmentAt(v, k, t)
    BY <1>4 DEF IInv, Segmented
  <2>2. stack[v][k].before \in Nat
    BY FrameType DEF IInv
  <2>3. CASE ~Going(v, k)
    <3>1. Owner(v, k) /\ Owner(w, Len(stack[w]))
      BY <1>1, <1>4, <2>1, <2>3 DEF SegmentAt, Owner
    <3>2. v = w /\ k = Len(stack[w])
      BY <1>1, <1>4, <3>1 DEF IInv, Segmented
    <3> QED BY <1>1, <1>3, <3>2 DEF Going
  <2>4. CASE Going(v, k)
    BY <1>3, <2>1, <2>2, <2>4 DEF SegmentAt, Going
  <2> QED BY <2>3, <2>4
<1>5. ASSUME NEW v \in Workers, NEW k \in DOMAIN stack[v]
      PROVE  SegmentAt(v, k, stack[v][k].task)'
  <2>1. PICK u \in Tasks : u = stack[v][k].task
    BY FrameType DEF IInv
  <2>2. SegmentAt(v, k, u)
    BY <2>1 DEF IInv, Segmented
  <2>3. CASE u = t
    BY <1>4, <2>1, <2>3 DEF SegmentAt
  <2>4. CASE u # t
    <3>1. Going(v, k)' = Going(v, k)
      BY <1>1, <2>1, <2>4 DEF Going
    <3> QED BY <1>2, <2>1, <2>2, <2>4, <3>1 DEF SegmentAt
  <2> QED BY <2>3, <2>4
<1>6. ASSUME NEW v \in Workers, NEW k \in DOMAIN stack[v], Owner(v, k)'
      PROVE  Owner(v, k)
  <2>1. stack[v][k].task \in Tasks /\ stack[v][k].before \in Nat
    BY FrameType DEF IInv
  <2>2. stack[v][k].task # t
    BY <1>3, <1>4, <1>6, <2>1 DEF Owner
  <2> QED BY <1>2, <1>6, <2>1, <2>2 DEF Owner
<1> QED BY <1>5, <1>6 DEF IInv, Segmented

(* The end of a body.                                                      *)
LEMMA FinishSegmented ==
  ASSUME IInv, NEW w \in Workers, NEW t, Works(w, t), Moves(t), pc'[t] = "done",
         published'[t] = published[t], leaving' = leaving \cup {w}, UNCHANGED stack
  PROVE  Segmented'
<1>1. /\ t \in Tasks /\ pc[t] \in Active
      /\ Len(stack[w]) \in DOMAIN stack[w]
      /\ stack[w][Len(stack[w])].task = t
      /\ stack[w][Len(stack[w])].before = published[t]
  BY WorksFacts
<1>2. \A u \in Tasks : published'[u] = published[u] /\ (u # t => pc'[u] = pc[u])
  BY DEF Moves, Others
<1>4. ASSUME NEW v \in Workers, NEW k \in DOMAIN stack[v], stack[v][k].task = t
      PROVE  SegmentAt(v, k, t)'
  <2>1. SegmentAt(v, k, t)
    BY <1>4 DEF IInv, Segmented
  <2>3. CASE ~Going(v, k)
    <3>1. Owner(v, k) /\ Owner(w, Len(stack[w]))
      BY <1>1, <1>4, <2>1, <2>3 DEF SegmentAt, Owner
    <3>2. v = w /\ k = Len(stack[w])
      BY <1>1, <1>4, <3>1 DEF IInv, Segmented
    <3> QED BY <1>1, <1>2, <3>2 DEF Going, SegmentAt
  <2>4. CASE Going(v, k)
    BY <1>1, <1>2, <2>1, <2>4 DEF SegmentAt, Going
  <2> QED BY <2>3, <2>4
<1>5. ASSUME NEW v \in Workers, NEW k \in DOMAIN stack[v]
      PROVE  SegmentAt(v, k, stack[v][k].task)'
  <2>1. PICK u \in Tasks : u = stack[v][k].task
    BY FrameType DEF IInv
  <2>2. SegmentAt(v, k, u)
    BY <2>1 DEF IInv, Segmented
  <2>3. CASE u = t
    BY <1>4, <2>1, <2>3 DEF SegmentAt
  <2>4. CASE u # t
    <3>1. Going(v, k)' = Going(v, k)
      BY <1>1, <2>1, <2>4 DEF Going
    <3> QED BY <1>2, <2>1, <2>2, <2>4, <3>1 DEF SegmentAt
  <2> QED BY <2>3, <2>4
<1>6. \A v \in Workers : \A k \in DOMAIN stack[v] : Owner(v, k)' = Owner(v, k)
  BY <1>2, FrameType DEF IInv, Owner
<1> QED BY <1>5, <1>6 DEF IInv, Segmented

(* A frame is pushed when a segment begins.                                *)
LEMMA PushFacts ==
  ASSUME stack \in [Workers -> Seq(Frames)], NEW w \in Workers, NEW f \in Frames,
         stack' = [stack EXCEPT ![w] = Append(@, f)]
  PROVE  /\ stack' \in [Workers -> Seq(Frames)]
         /\ Len(stack[w]) \in Nat /\ Len(stack'[w]) = Len(stack[w]) + 1
         /\ DOMAIN stack[w] = 1 .. Len(stack[w]) /\ DOMAIN stack'[w] = 1 .. Len(stack[w]) + 1
         /\ \A k \in DOMAIN stack[w] : stack'[w][k] = stack[w][k]
         /\ stack'[w][Len(stack[w]) + 1] = f /\ stack'[w] # <<>>
         /\ \A v \in Workers : v # w => stack'[v] = stack[v]
<1>1. stack[w] \in Seq(Frames) /\ stack'[w] = Append(stack[w], f)
  OBVIOUS
<1>2. \A v \in Workers : v # w => stack'[v] = stack[v]
  OBVIOUS
<1>3. /\ Append(stack[w], f) \in Seq(Frames)
      /\ Len(Append(stack[w], f)) = Len(stack[w]) + 1
      /\ \A k \in 1 .. Len(stack[w]) : Append(stack[w], f)[k] = stack[w][k]
      /\ Append(stack[w], f)[Len(stack[w]) + 1] = f
  BY <1>1
<1>4. stack' \in [Workers -> Seq(Frames)]
  BY <1>1, <1>3
<1>5. Len(stack[w]) \in Nat /\ DOMAIN stack[w] = 1 .. Len(stack[w])
  BY <1>1
<1>6. Len(stack'[w]) = Len(stack[w]) + 1 /\ DOMAIN stack'[w] = 1 .. Len(stack[w]) + 1
  BY <1>1, <1>3, <1>4, <1>5
<1>7. stack'[w] # <<>>
  BY <1>5, <1>6
<1> QED BY <1>1, <1>2, <1>3, <1>4, <1>5, <1>6, <1>7

(* begin_resume() and start(): the claimed segment is the only one of its  *)
(* task that goes on, since its task was cold or suspended.                *)
LEMMA BeginSegmented ==
  ASSUME IInv, NEW w \in Workers, w \notin leaving, NEW t \in Tasks,
         pc[t] \in {"cold", "suspended"}, Moves(t), pc'[t] \in Active,
         destroyed[t] = 0, destroyed'[t] = 0,
         published'[t] = published[t], UNCHANGED leaving,
         stack' = [stack EXCEPT ![w] = Append(@, [task |-> t, before |-> handoff[t]])]
  PROVE  Segmented' /\ Unspoilt'
<1> DEFINE f == [task |-> t, before |-> handoff[t]]
<1>0. handoff[t] = published[t]
  <2>1. NumberAt(t) /\ published[t] \in Nat
    BY DEF IInv, Numbers, Typed, TypeOK
  <2> QED BY <2>1 DEF NumberAt, Handed
<1>1. f \in Frames /\ f.task = t /\ f.before = published[t]
  BY <1>0 DEF IInv, Typed, TypeOK, Frames
<1>2. /\ stack[w] \in Seq(Frames) /\ Len(stack[w]) \in Nat
      /\ Len(stack'[w]) = Len(stack[w]) + 1
      /\ DOMAIN stack[w] = 1 .. Len(stack[w]) /\ DOMAIN stack'[w] = 1 .. Len(stack[w]) + 1
      /\ \A k \in DOMAIN stack[w] : stack'[w][k] = stack[w][k]
      /\ stack'[w][Len(stack[w]) + 1] = f
      /\ \A v \in Workers : v # w => stack'[v] = stack[v]
  BY <1>1, PushFacts DEF IInv, Typed
<1> HIDE DEF f
<1>3. \A u \in Tasks : /\ published'[u] = published[u] /\ (u # t => pc'[u] = pc[u])
                       /\ destroyed'[u] = destroyed[u]
  BY DEF Moves, Others
<1>4. ASSUME NEW v \in Workers, NEW k \in DOMAIN stack[v]
      PROVE  /\ stack'[v][k] = stack[v][k] /\ k \in DOMAIN stack'[v] /\ ~(v = w /\ k = Len(stack[w]) + 1)
             /\ Owner(v, k)' = Owner(v, k)
             /\ Going(v, k)' = Going(v, k)
             /\ SegmentAt(v, k, stack[v][k].task)
             /\ stack[v][k].task = t => ~Owner(v, k)
             /\ stack[v][k].task \in Tasks
  <2>1. stack'[v][k] = stack[v][k] /\ k \in DOMAIN stack'[v] /\ ~(v = w /\ k = Len(stack[w]) + 1)
    BY <1>2
  <2>2. stack[v][k].task \in Tasks /\ stack[v][k].before \in Nat
    BY FrameType DEF IInv
  <2>3. SegmentAt(v, k, stack[v][k].task)
    BY DEF IInv, Segmented
  <2>4. Going(v, k)' = Going(v, k)
    <3>1. CASE v = w
      BY <1>2, <3>1 DEF Going
    <3>2. CASE v # w
      BY <1>2, <3>2 DEF Going
    <3> QED BY <3>1, <3>2
  <2>5. stack[v][k].task = t => ~Owner(v, k)
    <3> SUFFICES ASSUME stack[v][k].task = t PROVE ~Owner(v, k)
      OBVIOUS
    <3>1. Going(v, k) /\ pc[t] # "done" /\ pc[t] # "cold"
      BY <2>3 DEF SegmentAt, Active
    <3>2. published[t] \in Nat
      BY DEF IInv, Typed, TypeOK
    <3> QED BY <2>2, <2>3, <3>1, <3>2 DEF SegmentAt, Owner
  <2>6. Owner(v, k)' = Owner(v, k)
    BY <1>3, <2>1, <2>2 DEF Owner
  <2> QED BY <2>1, <2>2, <2>3, <2>4, <2>5, <2>6
<1>5. ASSUME NEW v \in Workers, NEW k \in DOMAIN stack'[v]
      PROVE  k \in DOMAIN stack[v] \/ (v = w /\ k = Len(stack[w]) + 1)
  BY <1>2
<1>6. ASSUME NEW v \in Workers, NEW k \in DOMAIN stack'[v]
      PROVE  SegmentAt(v, k, stack[v][k].task)'
  <2>1. CASE k \in DOMAIN stack[v]
    <3>1. PICK u \in Tasks : u = stack[v][k].task
      BY <1>4, <2>1
    <3>2. SegmentAt(v, k, u)
      BY <1>4, <2>1, <3>1
    <3>3. SegmentAt(v, k, u)'
      <4>1. CASE u = t
        BY <1>3, <1>4, <2>1, <3>1, <3>2, <4>1 DEF SegmentAt, Owner, Active
      <4>2. CASE u # t
        BY <1>3, <1>4, <2>1, <3>1, <3>2, <4>2 DEF SegmentAt
      <4> QED BY <4>1, <4>2
    <3> QED BY <1>4, <2>1, <3>1, <3>3
  <2>2. CASE v = w /\ k = Len(stack[w]) + 1
    <3>1. ~Going(v, k)'
      BY <2>2 DEF Going
    <3>2. SegmentAt(v, k, t)'
      BY <1>1, <1>2, <1>3, <2>2, <3>1 DEF SegmentAt, Active
    <3> QED BY <1>1, <1>2, <2>2, <3>2
  <2> QED BY <1>5, <2>1, <2>2
<1>7. ASSUME NEW v \in Workers, NEW k \in DOMAIN stack'[v], Owner(v, k)'
      PROVE  \/ k \in DOMAIN stack[v] /\ Owner(v, k) /\ stack'[v][k] = stack[v][k] /\ stack[v][k].task # t
             \/ (v = w /\ k = Len(stack[w]) + 1 /\ stack'[v][k].task = t)
  BY <1>1, <1>2, <1>4, <1>5, <1>7
<1>8. Segmented'
  <2> SUFFICES ASSUME NEW v \in Workers, NEW x \in Workers,
                      NEW k \in DOMAIN stack'[v], NEW j \in DOMAIN stack'[x],
                      stack'[v][k].task = stack'[x][j].task, Owner(v, k)', Owner(x, j)'
               PROVE  v = x /\ k = j
    BY <1>6 DEF Segmented
  <2>1. CASE k \in DOMAIN stack[v] /\ Owner(v, k) /\ stack'[v][k] = stack[v][k] /\ stack[v][k].task # t
    <3>1. j \in DOMAIN stack[x] /\ Owner(x, j) /\ stack'[x][j] = stack[x][j]
      BY <1>7, <2>1
    <3> QED BY <2>1, <3>1 DEF IInv, Segmented
  <2>2. CASE v = w /\ k = Len(stack[w]) + 1 /\ stack'[v][k].task = t
    BY <1>7, <2>2
  <2> QED BY <1>7, <2>1, <2>2
<1>9. Unspoilt'
  <2> SUFFICES ASSUME NEW v \in Workers, NEW k \in DOMAIN stack'[v], Owner(v, k)'
               PROVE  destroyed'[stack'[v][k].task] = 0
    BY DEF Unspoilt
  <2>1. CASE k \in DOMAIN stack[v] /\ Owner(v, k) /\ stack'[v][k] = stack[v][k]
    BY <1>3, <1>4, <2>1 DEF IInv, Unspoilt
  <2> QED BY <1>7, <2>1
<1> QED BY <1>8, <1>9

(* A frame is popped when its segment has returned control.                *)
LEMMA PopFacts ==
  ASSUME Typed, NEW w \in Workers, stack[w] # <<>>,
         stack' = [stack EXCEPT ![w] = Front(@)]
  PROVE  /\ stack' \in [Workers -> Seq(Frames)]
         /\ Len(stack[w]) \in Nat \ {0} /\ stack'[w] = Front(stack[w])
         /\ DOMAIN stack[w] = 1 .. Len(stack[w]) /\ Len(stack'[w]) = Len(stack[w]) - 1
         /\ DOMAIN stack'[w] = 1 .. Len(stack[w]) - 1
         /\ \A k \in DOMAIN stack'[w] : stack'[w][k] = stack[w][k]
         /\ \A v \in Workers : v # w => stack'[v] = stack[v]
<1>1. stack[w] \in Seq(Frames) /\ stack \in [Workers -> Seq(Frames)]
  BY DEF Typed
<1>2. Len(stack[w]) \in Nat \ {0} /\ DOMAIN stack[w] = 1 .. Len(stack[w])
  BY <1>1
<1>3. stack'[w] = SubSeq(stack[w], 1, Len(stack[w]) - 1)
  BY <1>1 DEF Front
<1>4. /\ SubSeq(stack[w], 1, Len(stack[w]) - 1) \in Seq(Frames)
      /\ Len(SubSeq(stack[w], 1, Len(stack[w]) - 1)) = Len(stack[w]) - 1
      /\ \A k \in 1 .. Len(stack[w]) - 1 : SubSeq(stack[w], 1, Len(stack[w]) - 1)[k] = stack[w][k]
  BY <1>1, <1>2
<1>5. \A v \in Workers : v # w => stack'[v] = stack[v]
  BY <1>1
<1>6. stack' \in [Workers -> Seq(Frames)]
  BY <1>1, <1>3, <1>4
<1>7. DOMAIN stack'[w] = 1 .. Len(stack[w]) - 1
  BY <1>2, <1>3, <1>4
<1>8. stack'[w] = Front(stack[w])
  BY <1>3 DEF Front
<1> QED BY <1>2, <1>3, <1>4, <1>5, <1>6, <1>7, <1>8

(* The return of a segment that has left the task: no frame of a segment   *)
(* that goes on is popped.                                                 *)
LEMMA LeaveSegmented ==
  ASSUME IInv, NEW w \in Workers, w \in leaving, UNCHANGED <<pc, published>>,
         leaving' = leaving \ {w}, stack' = [stack EXCEPT ![w] = Front(@)]
  PROVE  Segmented'
<1>1. /\ Len(stack[w]) \in Nat \ {0}
      /\ DOMAIN stack[w] = 1 .. Len(stack[w]) /\ Len(stack'[w]) = Len(stack[w]) - 1
      /\ DOMAIN stack'[w] = 1 .. Len(stack[w]) - 1
      /\ \A k \in DOMAIN stack'[w] : stack'[w][k] = stack[w][k]
      /\ \A v \in Workers : v # w => stack'[v] = stack[v]
  BY PopFacts DEF IInv, Typed
<1>2. ASSUME NEW v \in Workers, NEW k \in DOMAIN stack'[v]
      PROVE  /\ k \in DOMAIN stack[v] /\ stack'[v][k] = stack[v][k]
             /\ Owner(v, k)' = Owner(v, k)
             /\ Going(v, k)' = Going(v, k)
             /\ SegmentAt(v, k, stack[v][k].task)
  <2>1. k \in DOMAIN stack[v] /\ stack'[v][k] = stack[v][k]
    BY <1>1
  <2>2. Owner(v, k)' = Owner(v, k)
    BY <2>1 DEF Owner
  <2>3. Going(v, k)' = Going(v, k)
    <3>1. CASE v = w
      BY <1>1, <3>1 DEF Going
    <3>2. CASE v # w
      BY <1>1, <3>2 DEF Going
    <3> QED BY <3>1, <3>2
  <2> QED BY <2>1, <2>2, <2>3 DEF IInv, Segmented
<1>3. \A v \in Workers : \A k \in DOMAIN stack'[v] : SegmentAt(v, k, stack[v][k].task)'
  BY <1>2 DEF SegmentAt
<1> QED BY <1>2, <1>3 DEF IInv, Segmented
-----------------------------------------------------------------------------
(* What a step may do to a handshake, and to a task for that matter.       *)
HsMove(b) ==
  \/ hs'[b] = hs[b] /\ posts'[b] = posts[b]
  \/ hs[b] = "Init" /\ hs'[b] = "Triggered" /\ posts'[b] = posts[b] /\ b[2] <= ip[b[1]]
  \/ hs[b] = "Armed" /\ hs'[b] = "Resolved" /\ posts'[b] = posts[b] + 1
  \/ /\ b[2] = ip'[b[1]] /\ pc[b[1]] \notin Left /\ pc'[b[1]] = "publish"
     /\ \/ hs[b] = "Init" /\ hs'[b] = "Armed" /\ posts'[b] = posts[b]
        \/ hs[b] \in {"Init", "Triggered"} /\ hs'[b] = "Resolved" /\ posts'[b] = posts[b] + 1
PcMove(u) ==
  /\ ip'[u] \in Nat /\ ip'[u] >= ip[u]
  /\ \/ pc'[u] = pc[u] /\ ip'[u] = ip[u]
     \/ pc[u] = "publish" /\ pc'[u] = "suspended" /\ ip'[u] = ip[u]
     \/ pc[u] \notin Left /\ pc'[u] \notin Left
     \/ pc[u] \notin Left /\ pc'[u] = "publish" /\ hs'[<<u, ip'[u]>>] \in {"Armed", "Resolved"}
     \/ pc'[u] \notin Left /\ ip'[u] = ip[u] /\ hs[<<u, ip[u]>>] = "Resolved"

(* The await a task is at, from its register step to its resume: the one   *)
(* its counter names, in the body.                                         *)
LEMMA CurrentAwait ==
  ASSUME Typed, Where, NEW t \in Tasks,
         pc[t] \in {"register", "stopcb", "suspend", "check", "id", "recheck", "arm",
                    "publish", "suspended", "resumed", "waiting"}
  PROVE  /\ Await(t) \in Awaits /\ Await(t) \in Past /\ Await(t) = <<t, ip[t]>>
         /\ Await(t)[1] = t /\ Await(t)[2] = ip[t] /\ ip[t] \in Nat
         /\ t \in DOMAIN program.body /\ Begun(t) /\ Of(t) \in Tasks \cup {None} /\ Op(t) \in Ops
         /\ IsSleep(Await(t)) <=> Op(t) = "sleep"
         /\ Op(t) \in {"yield", "sleep", "point"} => Of(t) = None
         /\ Op(t) \notin {"yield", "sleep", "point"} => Of(t) \in DOMAIN program.body
<1>1. t \in DOMAIN program.body /\ Begun(t) /\ ip[t] \in Nat /\ program \in Programs
  BY DEF Where, WhereAt, Typed, TypeOK
<1>2. Await(t) = <<t, ip[t]>> /\ Await(t)[1] = t /\ Await(t)[2] = ip[t]
  BY DEF Await
<1>3. <<t, ip[t]>> \in Awaits
  BY <1>1, BodyType DEF Begun
<1>4. Await(t) \in Past
  BY <1>1, <1>2, <1>3 DEF Past
<1>5. IsSleep(Await(t)) <=> Op(t) = "sleep"
  BY <1>2 DEF IsSleep, Op
<1> QED BY <1>1, <1>2, <1>3, <1>4, <1>5, BodyType DEF Begun, Of, Op

(* Handshakes move along Init, Triggered or Armed, Resolved, and the task  *)
(* that a step moves has its own in order.                                 *)
LEMMA ShakesStep ==
  ASSUME IInv, \A b \in Awaits : HsMove(b), \A u \in Tasks : PcMove(u)
  PROVE  Shakes'
<1>1. ASSUME NEW b \in Awaits PROVE ShakeAt(b)'
  <2>1. b = <<b[1], b[2]>> /\ b[1] \in Tasks /\ b[2] \in Nat /\ ip[b[1]] \in Nat /\ posts[b] \in Nat
    BY ItemKinds DEF IInv, Typed, TypeOK
  <2>2. ShakeAt(b) /\ HsMove(b) /\ PcMove(b[1])
    BY <2>1 DEF IInv, Shakes
  <2>3. hs[b] \in {"Init", "Triggered", "Armed", "Resolved"}
    BY DEF IInv, Typed, TypeOK
  <2>4. b[2] = ip[b[1]] => b = <<b[1], ip[b[1]]>>
    BY <2>1
  <2>5. CASE hs'[b] = hs[b] /\ posts'[b] = posts[b]
    BY <2>1, <2>2, <2>3, <2>4, <2>5 DEF ShakeAt, PcMove, Left
  <2>6. CASE hs[b] = "Init" /\ hs'[b] = "Triggered" /\ posts'[b] = posts[b] /\ b[2] <= ip[b[1]]
    BY <2>1, <2>2, <2>6 DEF ShakeAt, PcMove
  <2>7. CASE hs[b] = "Armed" /\ hs'[b] = "Resolved" /\ posts'[b] = posts[b] + 1
    BY <2>1, <2>2, <2>7 DEF ShakeAt, PcMove
  <2>8. CASE /\ b[2] = ip'[b[1]] /\ pc[b[1]] \notin Left /\ pc'[b[1]] = "publish"
             /\ \/ hs[b] = "Init" /\ hs'[b] = "Armed" /\ posts'[b] = posts[b]
                \/ hs[b] \in {"Init", "Triggered"} /\ hs'[b] = "Resolved" /\ posts'[b] = posts[b] + 1
    BY <2>1, <2>2, <2>8 DEF ShakeAt, PcMove, Left
  <2> QED BY <2>2, <2>5, <2>6, <2>7, <2>8 DEF HsMove
<1>2. ASSUME NEW t \in Tasks, pc'[t] \in Left PROVE hs'[<<t, ip'[t]>>] \in {"Armed", "Resolved"}
  <2>1. PcMove(t)
    OBVIOUS
  <2>2. CASE pc[t] \in Left /\ ip'[t] = ip[t]
    <3>1. <<t, ip[t]>> \in Awaits /\ hs[<<t, ip[t]>>] \in {"Armed", "Resolved"}
      BY <2>2, CurrentAwait DEF IInv, Shakes, Left, Await
    <3>2. HsMove(<<t, ip[t]>>)
      BY <3>1
    <3> QED BY <2>2, <3>1, <3>2 DEF HsMove
  <2> QED BY <1>2, <2>1, <2>2 DEF PcMove, Left
<1> QED BY <1>1, <1>2 DEF Shakes, Await

(* A callback or a timer registered for an await is not registered ahead   *)
(* of it: counters only grow.                                              *)
LEMMA CalledStep ==
  ASSUME IInv, UNCHANGED program, \A u \in Tasks : ip'[u] \in Nat /\ ip'[u] >= ip[u],
         \A u \in Tasks : callbacks'[u] \subseteq Past,
         \A x \in Threads : firing'[x] \subseteq Past,
         timers' \cup cancelling' \subseteq {a \in Past : IsSleep(a)}
  PROVE  Called'
<1>1. ASSUME NEW a \in Past PROVE a \in Past' /\ IsSleep(a)' = IsSleep(a)
  <2>1. a \in Awaits /\ a[1] \in Tasks /\ a[2] \in Nat /\ a[2] <= ip[a[1]] /\ ip[a[1]] \in Nat
    BY ItemKinds DEF Past, IInv, Typed, TypeOK
  <2>2. a[2] <= ip'[a[1]]
    BY <2>1
  <2> QED BY <2>1, <2>2 DEF Past, IsSleep, Body
<1> QED BY <1>1 DEF Called

(* An item in a queue or in a worker's hands stays fit to be begun: its    *)
(* task is cold for a start, and has left the await for a resume, which    *)
(* was resolved once.                                                      *)
LEMMA ReadyStep ==
  ASSUME IInv, UNCHANGED program, \A b \in Awaits : HsMove(b),
         \A i \in Items : Due(i)' =>
           \/ /\ Due(i) /\ ip'[i[1]] = ip[i[1]] /\ destroyed'[i[1]] = destroyed[i[1]]
              /\ pc'[i[1]] = pc[i[1]] \/ (pc[i[1]] = "publish" /\ pc'[i[1]] = "suspended")
           \/ i \in Awaits /\ i[2] = ip'[i[1]] /\ hs'[i] = "Resolved" /\ pc'[i[1]] \in Left
  PROVE  Ready'
<1> SUFFICES ASSUME NEW i \in Items, Due(i)'
             PROVE  \/ /\ i \in Starts /\ i[1] \in DOMAIN program.body
                       /\ pc'[i[1]] = "cold" /\ destroyed'[i[1]] = 0
                    \/ /\ i \in Awaits /\ i[2] = ip'[i[1]] /\ hs'[i] = "Resolved" /\ pc'[i[1]] \in Left
  BY DEF Ready
<1>1. CASE /\ Due(i) /\ ip'[i[1]] = ip[i[1]] /\ destroyed'[i[1]] = destroyed[i[1]]
           /\ pc'[i[1]] = pc[i[1]] \/ (pc[i[1]] = "publish" /\ pc'[i[1]] = "suspended")
  <2>1. ASSUME i \in Awaits, hs[i] = "Resolved" PROVE hs'[i] = "Resolved"
    BY <2>1 DEF HsMove
  <2> QED BY <1>1, <2>1 DEF IInv, Ready, Left
<1> QED BY <1>1
-----------------------------------------------------------------------------
(* Ready items: a post puts one more into a queue or a slot.               *)
SlotType ==
  /\ slot \in [Workers -> [item : Awaits, owner : Tasks] \cup {None}]
  /\ \A w \in Workers : slot[w] # None => \E k \in DOMAIN stack[w] : stack[w][k].task = slot[w].owner
QueueType ==
  /\ global \subseteq Items /\ local \subseteq Awaits
  /\ SlotType /\ posts \in [Awaits -> Nat]

(* The types of the queues and of the deferred slots.                      *)
LEMMA QueueTyped ==
  ASSUME Typed
  PROVE  QueueType
  BY DEF Typed, TypeOK, QueueType, SlotType

(* post_resume() of an item that is nowhere: queued, or in the deferred    *)
(* slot of the worker, once.                                               *)
LEMMA PostStep ==
  ASSUME Typed, Single, NEW x \in Threads, NEW a \in Awaits, ~Due(a), Post(x, a),
         UNCHANGED <<pending, stack>>
  PROVE  /\ Single' /\ QueueType' /\ posts'[a] = posts[a] + 1
         /\ \A b \in Awaits : b # a => posts'[b] = posts[b]
         /\ \A i \in Items : Due(i)' => Due(i) \/ i = a
<1>1. /\ posts \in [Awaits -> Nat] /\ slot \in [Workers -> [item : Awaits, owner : Tasks] \cup {None}]
      /\ global \subseteq Items /\ local \subseteq Awaits /\ a \in Items
      /\ SlotType
  BY ItemKinds, QueueTyped DEF QueueType, SlotType
<1>2. /\ posts' \in [Awaits -> Nat] /\ posts'[a] = posts[a] + 1
      /\ \A b \in Awaits : b # a => posts'[b] = posts[b]
  BY <1>1 DEF Post
<1>3. CASE /\ Executing(x) /\ UNCHANGED <<global, local>>
           /\ slot' = [slot EXCEPT ![x] = [item |-> a, owner |-> Top(x)]]
  <2>1. x \in Workers /\ stack[x] # <<>>
    BY <1>3 DEF Executing
  <2>2. PICK t \in Tasks : /\ t = Top(x) /\ \E k \in DOMAIN stack[x] : stack[x][k].task = t
    BY <2>1, TopType
  <2>3. /\ slot'[x] = [item |-> a, owner |-> t]
        /\ \A v \in Workers : v # x => slot'[v] = slot[v]
        /\ slot' \in [Workers -> [item : Awaits, owner : Tasks] \cup {None}]
    BY <1>1, <1>3, <2>1, <2>2
  <2>4. SlotType'
    BY <1>1, <2>2, <2>3 DEF SlotType
  <2>5. slot'[x].item = a
    BY <2>3
  <2>6. \A i \in Items : Due(i)' => Due(i) \/ i = a
    BY <1>3, <2>3, <2>5 DEF Due
  <2>7. Single'
    <3>1. /\ a \notin global \cup local
          /\ \A v \in Workers : pending[v] # a /\ ~(slot[v] # None /\ slot[v].item = a)
      BY DEF Due
    <3>2. global' \cap local' = {}
      BY <1>3 DEF Single
    <3>3. ASSUME NEW w \in Workers, pending'[w] # None
          PROVE  /\ pending'[w] \notin global' \cup local'
                 /\ \A v \in Workers : pending'[v] = pending'[w] => v = w
      BY <1>3, <3>3 DEF Single
    <3>4. ASSUME NEW w \in Workers, slot'[w] # None
          PROVE  /\ slot'[w].item \notin global' \cup local'
                 /\ \A v \in Workers : /\ pending'[v] # slot'[w].item
                                       /\ slot'[v] # None /\ slot'[v].item = slot'[w].item => v = w
      <4>1. CASE w = x
        BY <1>3, <2>3, <2>5, <3>1, <4>1
      <4>2. CASE w # x
        BY <1>3, <2>3, <2>5, <3>1, <3>4, <4>2 DEF Single
      <4> QED BY <4>1, <4>2
    <3> QED BY <3>2, <3>3, <3>4 DEF Single
  <2> QED BY <1>1, <1>2, <1>3, <2>4, <2>6, <2>7 DEF QueueType
<1>4. CASE UNCHANGED slot /\ \/ local' = local \cup {a} /\ UNCHANGED global
                             \/ global' = global \cup {a} /\ UNCHANGED local
  <2>1. \A i \in Items : Due(i)' => Due(i) \/ i = a
    BY <1>4 DEF Due
  <2>2. Single'
    BY <1>4 DEF Single, Due
  <2>3. QueueType'
    BY <1>1, <1>2, <1>4 DEF QueueType, SlotType
  <2> QED BY <1>2, <2>1, <2>2, <2>3
<1> QED BY <1>3, <1>4 DEF Post

(* A step that posts nothing makes nothing ready.                          *)
LEMMA NoPostStep ==
  ASSUME Typed, Single, NoPost, UNCHANGED <<pending, stack>>
  PROVE  /\ Single' /\ QueueType' /\ posts' = posts
         /\ \A i : Due(i)' => Due(i)
<1>1. Single' /\ posts' = posts /\ \A i : Due(i)' => Due(i)
  BY DEF NoPost, Single, Due
<1>2. QueueType'
  BY QueueTyped DEF NoPost, QueueType, SlotType
<1> QED BY <1>1, <1>2

(* A trigger of an await that has begun.                                   *)
LEMMA AdvanceStep ==
  ASSUME IInv, NEW x \in Threads, NEW a \in Past, Advance(x, a), UNCHANGED <<pending, stack>>
  PROVE  /\ Single' /\ QueueType'
         /\ hs' \in [Awaits -> {"Init", "Triggered", "Armed", "Resolved"}]
         /\ \A b \in Awaits : /\ HsMove(b)
                              /\ hs[b] \in {"Triggered", "Resolved"} => hs'[b] \in {"Triggered", "Resolved"}
                              /\ hs'[b] = "Resolved" => hs[b] \in {"Armed", "Resolved"}
         /\ hs'[a] \in {"Triggered", "Resolved"}
         /\ \A i \in Items : Due(i)' => Due(i) \/ (i \in Awaits /\ hs[i] = "Armed" /\ hs'[i] = "Resolved")
<1>0. a \in Awaits /\ a[2] <= ip[a[1]] /\ a \in Items
  BY ItemKinds DEF Past
<1>1. hs \in [Awaits -> {"Init", "Triggered", "Armed", "Resolved"}] /\ Typed /\ Single
  BY DEF IInv, Typed, TypeOK
<1>2. CASE hs[a] = "Init" /\ hs' = [hs EXCEPT ![a] = "Triggered"] /\ NoPost
  <2>1. hs'[a] = "Triggered" /\ \A b \in Awaits : b # a => hs'[b] = hs[b]
    BY <1>0, <1>1, <1>2
  <2>2. Single' /\ QueueType' /\ posts' = posts /\ \A i \in Items : Due(i)' => Due(i)
    BY <1>1, <1>2, NoPostStep
  <2>3. hs' \in [Awaits -> {"Init", "Triggered", "Armed", "Resolved"}]
    BY <1>1, <1>2
  <2>4. ASSUME NEW b \in Awaits PROVE HsMove(b)
    BY <1>0, <1>2, <2>1, <2>2 DEF HsMove
  <2> QED BY <1>1, <1>2, <2>1, <2>2, <2>3, <2>4
<1>3. CASE hs[a] = "Armed" /\ hs' = [hs EXCEPT ![a] = "Resolved"] /\ Post(x, a)
  <2>1. hs'[a] = "Resolved" /\ \A b \in Awaits : b # a => hs'[b] = hs[b]
    BY <1>0, <1>1, <1>3
  <2>0. ~Due(a)
    BY <1>0, <1>3, ItemKinds DEF IInv, Ready
  <2>2. /\ Single' /\ QueueType' /\ posts'[a] = posts[a] + 1
        /\ \A b \in Awaits : b # a => posts'[b] = posts[b]
        /\ \A i \in Items : Due(i)' => Due(i) \/ i = a
    BY <1>0, <1>1, <1>3, <2>0, PostStep
  <2>3. hs' \in [Awaits -> {"Init", "Triggered", "Armed", "Resolved"}]
    BY <1>1, <1>3
  <2>4. ASSUME NEW b \in Awaits PROVE HsMove(b)
    BY <1>3, <2>1, <2>2 DEF HsMove
  <2> QED BY <1>0, <1>1, <1>3, <2>1, <2>2, <2>3, <2>4
<1>4. CASE hs[a] \in {"Triggered", "Resolved"} /\ UNCHANGED hs /\ NoPost
  <2>2. Single' /\ QueueType' /\ posts' = posts /\ \A i \in Items : Due(i)' => Due(i)
    BY <1>1, <1>4, NoPostStep
  <2>4. ASSUME NEW b \in Awaits PROVE HsMove(b)
    BY <1>4, <2>2 DEF HsMove
  <2> QED BY <1>1, <1>4, <2>2, <2>4
<1> QED BY <1>2, <1>3, <1>4 DEF Advance
-----------------------------------------------------------------------------
(* The types by the parts that change together.                            *)
TaskType ==
  /\ state \in [Tasks -> States] /\ stop \in [Tasks -> BOOLEAN]
  /\ pc \in [Tasks -> Places] /\ ip \in [Tasks -> Nat]
  /\ handoff \in [Tasks -> Nat] /\ published \in [Tasks -> Nat] /\ destroyed \in [Tasks -> Nat]
AwaitType ==
  /\ hs \in [Awaits -> {"Init", "Triggered", "Armed", "Resolved"}]
  /\ cancelled \subseteq Awaits
  /\ callbacks \in [Tasks -> SUBSET Awaits] /\ stopcb \subseteq Tasks
  /\ timers \subseteq Awaits /\ timerId \subseteq Awaits /\ cancelling \subseteq Awaits
WorkerType ==
  /\ gmutex \in Closers \cup {None}
  /\ stack \in [Workers -> Seq(Frames)]
  /\ pending \in [Workers -> Items \cup {None}] /\ leaving \subseteq Workers
  /\ \A w \in leaving : stack[w] # <<>> /\ pending[w] = None
JobType ==
  /\ step \in [Threads -> {"none", "stop", "ready"}]
  /\ target \in [Threads -> Tasks \cup {None}]
  /\ firing \in [Threads -> SUBSET Awaits]
  /\ \A x \in Threads : step[x] # "none" => target[x] \in DOMAIN program.body
OutsideType ==
  /\ program \in Programs /\ immediate \in BOOLEAN
  /\ cpc \in [Cancellers \cup Closers -> {"idle", "global", "timers", "done"}]
  /\ \A c \in Cancellers : cpc[c] = "idle" => c \in program.outside
  /\ gauge \in [Gauges -> Nat]

(* The type invariant is that of its parts, so a step need look only at    *)
(* those it changes.                                                       *)
LEMMA TypedParts ==
  Typed <=> TaskType /\ AwaitType /\ QueueType /\ WorkerType /\ JobType /\ OutsideType
<1>1. ASSUME stack \in [Workers -> Seq(Frames)], NEW w \in Workers, NEW k \in DOMAIN stack[w]
      PROVE  stack[w][k] \in [task : Tasks, before : Nat]
  <2>1. stack[w] \in Seq(Frames)
    BY <1>1
  <2>2. k \in 1 .. Len(stack[w])
    BY <2>1
  <2> QED BY <2>1, <2>2, InSeq DEF Frames
<1>2. local \subseteq Awaits => local \subseteq Items
  BY DEF Items
<1>3. ASSUME Typed
      PROVE  TaskType /\ AwaitType /\ QueueType /\ WorkerType /\ JobType /\ OutsideType
  BY <1>3, QueueTyped
     DEF Typed, TypeOK, TaskType, AwaitType, WorkerType, JobType, OutsideType
<1>4. ASSUME TaskType, AwaitType, QueueType, WorkerType, JobType, OutsideType
      PROVE  Typed
  <2>1. TypeOK
    BY <1>1, <1>2, <1>4
       DEF TypeOK, TaskType, AwaitType, QueueType, SlotType, WorkerType, JobType, OutsideType
  <2> QED BY <1>4, <2>1 DEF Typed, QueueType, WorkerType, JobType, OutsideType
<1> QED BY <1>3, <1>4

(* The type invariant of the next state, part by part.                     *)
LEMMA TypedNext ==
  ASSUME TaskType', AwaitType', QueueType', WorkerType', JobType', OutsideType'
  PROVE  Typed'
<1>1. (TaskType /\ AwaitType /\ QueueType /\ WorkerType /\ JobType /\ OutsideType)' => Typed'
  BY TypedParts, PTL
<1> QED BY <1>1

(* A handshake that was triggered stays so, or is resolved (handshake.hpp: *)
(* no transition leads back).                                              *)
LEMMA HsKeeps ==
  ASSUME NEW b \in Awaits, HsMove(b), hs[b] \in {"Triggered", "Resolved"}
  PROVE  hs'[b] \in {"Triggered", "Resolved"}
  BY DEF HsMove

(* A step that moves no task.                                              *)
LEMMA StillStep ==
  ASSUME IInv, UNCHANGED <<program, pc, ip, handoff, published, destroyed, stack, leaving>>,
         \A b \in Awaits : HsMove(b),
         \A t \in Tasks : state'[t] = state[t] \/ (state[t] = "Ready" /\ state'[t] = "Cancelled"),
         \A i \in Items : Due(i)' => Due(i) \/ (i \in Awaits /\ hs[i] = "Armed" /\ hs'[i] = "Resolved"),
         \A u \in Tasks : callbacks'[u] \subseteq Past,
         \A x \in Threads : firing'[x] \subseteq Past,
         timers' \cup cancelling' \subseteq {a \in Past : IsSleep(a)}
  PROVE  Where' /\ Numbers' /\ Segmented' /\ Ready' /\ Shakes' /\ Called' /\ Ended' /\ Unspoilt'
<1>1. Where' /\ Numbers'
  BY DEF IInv, Where, WhereAt, Begun, Op, Body, Numbers, NumberAt, Handed
<1>2. Segmented'
  BY StillSegmented DEF IInv
<1>3. \A u \in Tasks : ip[u] \in Nat
  BY DEF IInv, Typed, TypeOK
<1>4. Shakes'
  BY <1>3, ShakesStep DEF PcMove
<1>5. Called'
  BY <1>3, CalledStep
<1>6. Ready'
  <2>1. ASSUME NEW i \in Awaits, hs[i] = "Armed" PROVE i[2] = ip[i[1]] /\ pc[i[1]] \in Left
    BY <2>1 DEF IInv, Shakes, ShakeAt
  <2> QED BY <2>1, ReadyStep
<1>7. Ended'
  <2> SUFFICES ASSUME NEW t \in Tasks PROVE StateAt(t)'
    BY DEF Ended
  <2>1. StateAt(t) /\ WhereAt(t)
    BY DEF IInv, Ended, Where
  <2>2. state[t] = "Ready" => pc[t] = "cold"
    BY <2>1 DEF StateAt, IInv, Typed, TypeOK, Places, Done, Terminal, Left
  <2>3. Op(t)' = Op(t) /\ Begun(t)' = Begun(t)
    BY DEF Op, Begun, Body
  <2>4. ASSUME pc[t] = "unwind" \/ pc[t] \in InAwait, Begun(t), hs[<<t, ip[t]>>] # "Resolved"
        PROVE  hs'[<<t, ip[t]>>] # "Resolved"
    <3>1. t \in DOMAIN program.body /\ <<t, ip[t]>> \in Awaits
      BY <2>1, <2>4, BodyType DEF WhereAt, Begun, IInv, Typed, TypeOK, InAwait
    <3>2. ShakeAt(<<t, ip[t]>>) /\ HsMove(<<t, ip[t]>>)
      BY <3>1 DEF IInv, Shakes
    <3> QED BY <2>4, <3>2 DEF ShakeAt, HsMove, Left, InAwait
  <2>5. pc[t] \in InAwait => Begun(t)
    BY <2>1 DEF InAwait, WhereAt
  <2> QED BY <2>1, <2>2, <2>3, <2>4, <2>5 DEF StateAt, Await, Done, Terminal
<1>8. Unspoilt'
  BY DEF IInv, Unspoilt, Owner
<1> QED BY <1>1, <1>2, <1>4, <1>5, <1>6, <1>7, <1>8

(* A step that moves one task keeps what is known of the others.            *)
LEMMA EndedStep ==
  ASSUME IInv, NEW t \in Tasks, UNCHANGED program, Others(t), StateAt(t)',
         \A b \in Awaits : HsMove(b)
  PROVE  Ended'
<1> SUFFICES ASSUME NEW u \in Tasks, u # t PROVE StateAt(u)'
  BY DEF Ended
<1>1. StateAt(u) /\ WhereAt(u)
  BY DEF IInv, Ended, Where
<1>2. /\ pc'[u] = pc[u] /\ ip'[u] = ip[u] /\ state'[u] = state[u] /\ destroyed'[u] = destroyed[u]
  BY DEF Others
<1>3. Op(u)' = Op(u) /\ Begun(u)' = Begun(u)
  BY <1>2 DEF Op, Begun, Body
<1>4. ASSUME pc[u] = "unwind" \/ pc[u] \in InAwait, Begun(u), hs[<<u, ip[u]>>] # "Resolved"
      PROVE  hs'[<<u, ip[u]>>] # "Resolved"
  <2>1. u \in DOMAIN program.body /\ <<u, ip[u]>> \in Awaits
    BY <1>1, <1>4, BodyType DEF WhereAt, Begun, IInv, Typed, TypeOK, InAwait
  <2>2. ShakeAt(<<u, ip[u]>>) /\ HsMove(<<u, ip[u]>>)
    BY <2>1 DEF IInv, Shakes
  <2> QED BY <1>2, <1>4, <2>2 DEF ShakeAt, HsMove, Left, InAwait
<1>5. pc[u] \in InAwait => Begun(u)
  BY <1>1 DEF InAwait, WhereAt
<1> QED BY <1>1, <1>2, <1>3, <1>4, <1>5 DEF StateAt, Await, Done

(* A step inside a segment of t, which stays inside.                       *)
Kept(t) == UNCHANGED <<published, destroyed, stack, leaving>> /\ pc'[t] \in Active
(* Any step of a segment that goes on and does not leave its await: all    *)
(* parts of the invariant but the types and the stop requests.             *)
LEMMA InnerStep ==
  ASSUME IInv, NEW w \in Workers, NEW t, Works(w, t), pc[t] # "publish", Moves(t), Kept(t),
         StateAt(t)', ip'[t] \in Nat,
         pc'[t] = "publish" => hs'[<<t, ip'[t]>>] \in {"Armed", "Resolved"},
         \A b \in Awaits : HsMove(b),
         \A i \in Items : Due(i)' =>
           \/ Due(i) \/ (i \in Awaits /\ hs[i] = "Armed" /\ hs'[i] = "Resolved")
           \/ i \in Awaits /\ i = <<t, ip'[t]>> /\ hs'[i] = "Resolved" /\ pc'[t] = "publish",
         \A u \in Tasks : callbacks'[u] \subseteq Past,
         \A x \in Threads : firing'[x] \subseteq Past,
         timers' \cup cancelling' \subseteq {a \in Past : IsSleep(a)}
  PROVE  Where' /\ Numbers' /\ Segmented' /\ Ready' /\ Shakes' /\ Called' /\ Ended' /\ Unspoilt'
<1>0. t \in Tasks /\ pc[t] \in Active /\ pc[t] \notin Left /\ UNCHANGED program
  BY WorksFacts DEF Left, Active, Moves
<1>1. Where' /\ Numbers'
  BY <1>0, MovesWhere DEF IInv
<1>2. Segmented'
  BY InnerSegmented DEF Kept
<1>3. \A u \in Tasks : ip[u] \in Nat
  BY DEF IInv, Typed, TypeOK
<1>4. ASSUME NEW u \in Tasks PROVE PcMove(u) /\ ip'[u] \in Nat /\ ip'[u] >= ip[u]
  <2>1. CASE u = t
    BY <1>0, <1>3, <2>1 DEF PcMove, Moves, Kept, Active, Left
  <2>2. CASE u # t
    BY <1>3, <2>2 DEF PcMove, Moves, Others
  <2> QED BY <2>1, <2>2
<1>5. Shakes'
  BY <1>4, ShakesStep
<1>6. Called'
  BY <1>0, <1>4, CalledStep
<1>7. Ready'
  <2>1. ASSUME NEW i \in Items, Due(i) PROVE i[1] # t /\ i[1] \in Tasks
    BY <1>0, <2>1, ItemKinds DEF IInv, Ready, Left, Active
  <2>2. ASSUME NEW i \in Awaits, hs[i] = "Armed"
        PROVE  i[2] = ip[i[1]] /\ pc[i[1]] \in Left /\ i[1] # t /\ i[1] \in Tasks
    BY <1>0, <2>2, ItemKinds DEF IInv, Shakes, ShakeAt
  <2>3. \A i \in Items : Due(i)' =>
           \/ /\ Due(i) /\ ip'[i[1]] = ip[i[1]] /\ destroyed'[i[1]] = destroyed[i[1]]
              /\ pc'[i[1]] = pc[i[1]] \/ (pc[i[1]] = "publish" /\ pc'[i[1]] = "suspended")
           \/ i \in Awaits /\ i[2] = ip'[i[1]] /\ hs'[i] = "Resolved" /\ pc'[i[1]] \in Left
    BY <2>1, <2>2 DEF Moves, Others, Left
  <2> QED BY <1>0, <2>3, ReadyStep
<1>8. Ended'
  BY <1>0, EndedStep DEF Moves
<1>9. Unspoilt'
  BY DEF IInv, Unspoilt, Owner, Kept
<1> QED BY <1>1, <1>2, <1>5, <1>6, <1>7, <1>8, <1>9
-----------------------------------------------------------------------------
(* What stop requests have done is not undone while the task stays.        *)
LEMMA StopsKept ==
  ASSUME IInv, NEW u \in Tasks, UNCHANGED program, pc'[u] = pc[u], ip'[u] = ip[u],
         u \in stopcb' <=> u \in stopcb, stop[u] => stop'[u],
         \A b \in Awaits : HsMove(b),
         <<u, ip[u]>> \in timers' => <<u, ip[u]>> \in timers, timerId \subseteq timerId'
  PROVE  StopsAt(u)'
<1>1. StopsAt(u) /\ Op(u)' = Op(u) /\ Hooked(u)' = Hooked(u)
  BY DEF IInv, Stops, Op, Body, Hooked
<1>2. Await(u) = <<u, ip[u]>> /\ Await(u)' = <<u, ip[u]>>
  BY DEF Await
<1>3. Hooked(u) => <<u, ip[u]>> \in Awaits /\ (IsSleep(<<u, ip[u]>>) <=> Op(u) = "sleep")
  BY <1>2, CurrentAwait DEF Hooked, IInv
<1>4. Hooked(u) /\ hs[<<u, ip[u]>>] \in {"Triggered", "Resolved"} =>
        hs'[<<u, ip[u]>>] \in {"Triggered", "Resolved"}
  BY <1>3, HsKeeps
<1>5. ASSUME pc[u] \in {"arm"} \cup Left, <<u, ip[u]>> \in timers', stop'[u] PROVE u \in stopcb
  <2>1. Hooked(u) /\ <<u, ip[u]>> \in timers
    BY <1>5 DEF Hooked, Left
  <2>2. Op(u) = "sleep"
    BY <1>3, <2>1 DEF IInv, Called
  <2> QED BY <1>1, <1>2, <1>5, <2>1, <2>2 DEF StopsAt
<1> QED BY <1>1, <1>2, <1>4, <1>5 DEF StopsAt

(* A step that reaches no stop request and takes no timer id keeps what is *)
(* known of the stops.                                                     *)
LEMMA StopsStill ==
  ASSUME IInv, UNCHANGED <<program, pc, ip, stop, step, target, stopcb>>,
         \A b \in Awaits : HsMove(b), timers' \subseteq timers, timerId \subseteq timerId'
  PROVE  Stops'
<1>1. \A u \in Tasks : StopsAt(u)'
  BY StopsKept
<1> QED BY <1>1 DEF IInv, Stops, Calling

(* A step of t leaves the stop callbacks of the others alone.              *)
LEMMA StopsInner ==
  ASSUME IInv, NEW t \in Tasks, Moves(t), StopsAt(t)',
         UNCHANGED <<stop, step, target>>, \A u \in stopcb' : u \in stopcb \/ ~stop[u],
         \A u \in Tasks : u # t => (u \in stopcb' <=> u \in stopcb),
         \A b \in Awaits : HsMove(b),
         \A a \in timers' : a \in timers \/ a[1] = t, timerId \subseteq timerId'
  PROVE  Stops'
<1>1. ASSUME NEW u \in Tasks, u # t PROVE StopsAt(u)'
  <2>1. <<u, ip[u]>> \in timers' => <<u, ip[u]>> \in timers
    BY <1>1
  <2> QED BY <1>1, <2>1, StopsKept DEF Moves, Others
<1>2. Calling'
  BY DEF IInv, Stops, Calling
<1> QED BY <1>1, <1>2 DEF Stops

(* request_cancel() begins.                                                *)
LEMMA CancelBeginStep ==
  ASSUME IInv, NEW x \in Threads, NEW u \in DOMAIN program.body, CancelBegin(x, u),
         UNCHANGED <<program, stopcb>>
  PROVE  /\ JobType' /\ stop' \in [Tasks -> BOOLEAN] /\ u \in Tasks
         /\ firing' = firing /\ Calling'
         /\ \A v \in Tasks : stop[v] => stop'[v]
<1>1. u \in Tasks /\ TaskType /\ AwaitType /\ JobType /\ program \in Programs
  BY TypedParts, BodyType DEF IInv, OutsideType
<1>2. step[x] = "none" /\ firing' = firing
  BY DEF CancelBegin, Busy
<1>3. /\ stop' \in [Tasks -> BOOLEAN] /\ stop'[u] = TRUE
      /\ \A v \in Tasks : v # u => stop'[v] = stop[v]
  BY <1>1 DEF CancelBegin, TaskType
<1>4. /\ step' \in [Threads -> {"none", "stop", "ready"}]
      /\ step'[x] = IF stop[u] THEN "ready" ELSE "stop"
      /\ target' \in [Threads -> Tasks \cup {None}] /\ target'[x] = u
      /\ \A y \in Threads : y # x => step'[y] = step[y] /\ target'[y] = target[y]
  BY <1>1 DEF CancelBegin, JobType
<1>5. JobType'
  BY <1>1, <1>2, <1>4 DEF JobType
<1>6. Calling'
  <2>a. ASSUME NEW y \in Threads, step'[y] # "none" PROVE stop'[target'[y]] = TRUE
    <3>1. CASE y = x
      BY <1>3, <1>4, <3>1
    <3>2. CASE y # x
      <4>1. PICK v \in Tasks : v = target[y] /\ stop[v] = TRUE
        BY <1>1, <1>4, <2>a, <3>2, BodyType DEF IInv, Stops, Calling, JobType
      <4> QED BY <1>3, <1>4, <3>2, <4>1
    <3> QED BY <3>1, <3>2
  <2> SUFFICES ASSUME NEW v \in stopcb, stop'[v]
               PROVE  \E y \in Threads : step'[y] = "stop" /\ target'[y] = v
    BY <2>a DEF Calling
  <2>0. v \in Tasks
    BY <1>1 DEF AwaitType
  <2>1. CASE stop[v]
    <3>1. PICK y \in Threads : step[y] = "stop" /\ target[y] = v
      BY <2>1 DEF IInv, Stops, Calling
    <3> QED BY <1>2, <1>4, <3>1
  <2>2. CASE ~stop[v]
    BY <1>3, <1>4, <2>0, <2>2
  <2> QED BY <2>1, <2>2
<1>7. \A v \in Tasks : stop[v] => stop'[v]
  BY <1>3
<1> QED BY <1>1, <1>2, <1>3, <1>5, <1>6, <1>7
-----------------------------------------------------------------------------
(* The steps of threads that move no task.                                 *)
LEMMA PastLists ==
  ASSUME IInv
  PROVE  /\ \A u \in Tasks : callbacks[u] \subseteq Past
         /\ \A x \in Threads : firing[x] \subseteq Past
         /\ timers \cup cancelling \subseteq {a \in Past : IsSleep(a)}
         /\ Past \subseteq Awaits
  BY DEF IInv, Called, Past

(* A step that leaves the handshakes alone moves none.                     *)
LEMMA NoHsMove ==
  ASSUME UNCHANGED <<hs, posts>>
  PROVE  \A b \in Awaits : HsMove(b)
  BY DEF HsMove

(* A step that leaves the queues alone makes nothing ready.                *)
LEMMA NoFlow ==
  ASSUME IInv, UNCHANGED <<global, local, pending, slot, stack, posts>>
  PROVE  Single' /\ QueueType' /\ \A i : Due(i)' => Due(i)
<1>1. NoPost /\ Typed /\ Single
  BY DEF NoPost, IInv
<1> QED BY <1>1, NoPostStep

(* request_cancel(), its second step: the Ready task becomes Cancelled.    *)
LEMMA CancelIfReadyStep ==
  ASSUME IInv, NEW x \in Threads, CancelIfReady(x), UNCHANGED program, gauge' \in [Gauges -> Nat]
  PROVE  IInv'
<1>1. /\ TaskType /\ AwaitType /\ WorkerType /\ JobType /\ OutsideType
      /\ \A u \in Tasks : callbacks[u] \subseteq Past
      /\ \A y \in Threads : firing[y] \subseteq Past
      /\ timers \cup cancelling \subseteq {a \in Past : IsSleep(a)} /\ Past \subseteq Awaits
  BY TypedParts, PastLists DEF IInv
<1>2. PICK u \in Tasks : u = target[x]
  BY <1>1, BodyType DEF CancelIfReady, JobType, OutsideType
<1>3. /\ UNCHANGED <<stop, pc, ip, hs, cancelled, stopcb, handoff, published, timers, timerId,
                     global, local, gmutex, stack, pending, leaving, slot, immediate, cpc,
                     cancelling, destroyed, posts>>
      /\ step[x] = "ready"
      /\ step' = [step EXCEPT ![x] = "none"] /\ target' = [target EXCEPT ![x] = None]
  BY DEF CancelIfReady, clock, queues, workers, outside
<1>4. /\ state' = state \/ (state[u] = "Ready" /\ state' = [state EXCEPT ![u] = "Cancelled"])
      /\ firing' = firing \/ firing' = [firing EXCEPT ![x] = callbacks[u]]
      /\ callbacks' = callbacks \/ callbacks' = [callbacks EXCEPT ![u] = {}]
  BY <1>2 DEF CancelIfReady, SetState
<1>5. Single' /\ QueueType' /\ (\A b \in Awaits : HsMove(b)) /\ \A i : Due(i)' => Due(i)
  BY <1>3, NoHsMove, NoFlow
<1>6. /\ \A v \in Tasks : callbacks'[v] \subseteq Past
      /\ \A y \in Threads : firing'[y] \subseteq Past
      /\ \A t \in Tasks : state'[t] = state[t] \/ (state[t] = "Ready" /\ state'[t] = "Cancelled")
  BY <1>1, <1>4 DEF TaskType, AwaitType, JobType
<1>7. Where' /\ Numbers' /\ Segmented' /\ Ready' /\ Shakes' /\ Called' /\ Ended' /\ Unspoilt'
  BY <1>1, <1>3, <1>5, <1>6, StillStep
<1>8. JobType'
  <2>1. firing' \in [Threads -> SUBSET Awaits]
    BY <1>1, <1>4 DEF JobType, AwaitType
  <2> QED BY <1>1, <1>3, <2>1 DEF JobType
<1>9. TaskType' /\ AwaitType' /\ WorkerType' /\ OutsideType'
  BY <1>1, <1>3, <1>4 DEF TaskType, AwaitType, WorkerType, OutsideType, States, Terminal
<1>10. Stops'
  <2>1. \A v \in Tasks : StopsAt(v)'
    BY <1>3, <1>5, StopsKept
  <2>2. Calling'
    BY <1>1, <1>3 DEF IInv, Stops, Calling, JobType
  <2> QED BY <2>1, <2>2 DEF Stops
<1>11. Typed'
  BY <1>5, <1>8, <1>9, TypedNext
<1> QED BY <1>5, <1>7, <1>10, <1>11 DEF IInv

(* request_stop() calls the stop callback of the await, which triggers the *)
(* handshake.                                                              *)
LEMMA StopCallbackStep ==
  ASSUME IInv, NEW x \in Threads, StopCallback(x), UNCHANGED program, gauge' \in [Gauges -> Nat]
  PROVE  IInv'
<1>1. /\ TaskType /\ AwaitType /\ WorkerType /\ JobType /\ OutsideType /\ Typed /\ Single
      /\ \A u \in Tasks : callbacks[u] \subseteq Past
      /\ \A y \in Threads : firing[y] \subseteq Past
      /\ timers \cup cancelling \subseteq {a \in Past : IsSleep(a)} /\ Past \subseteq Awaits
  BY TypedParts, PastLists DEF IInv
<1>2. PICK u \in DOMAIN program.body : u = target[x]
  BY <1>1 DEF StopCallback, JobType
<1>3. u \in Tasks
  BY <1>1, BodyType DEF OutsideType
<1>4. /\ UNCHANGED <<state, stop, pc, ip, callbacks, handoff, published, timerId, gmutex, stack,
                     pending, leaving, target, firing, immediate, cpc, cancelling, destroyed>>
      /\ step[x] = "stop" /\ step' = [step EXCEPT ![x] = "ready"]
  BY DEF StopCallback, tasks, workers, outside
<1>5. /\ Single' /\ QueueType' /\ hs' \in [Awaits -> {"Init", "Triggered", "Armed", "Resolved"}]
      /\ cancelled' \subseteq Awaits
      /\ \A b \in Awaits : HsMove(b)
      /\ \A i \in Items : Due(i)' => Due(i) \/ (i \in Awaits /\ hs[i] = "Armed" /\ hs'[i] = "Resolved")
      /\ \/ u \notin stopcb /\ UNCHANGED <<stopcb, timers>>
         \/ /\ u \in stopcb /\ stopcb' = stopcb \ {u} /\ timers' = timers \ ({Await(u)} \cap timerId)
            /\ Await(u) \in Awaits => hs'[Await(u)] \in {"Triggered", "Resolved"}
  <2>1. CASE u \notin stopcb /\ UNCHANGED <<hs, cancelled, stopcb, timers>> /\ NoPost
    <3>1. Single' /\ QueueType' /\ posts' = posts /\ \A i : Due(i)' => Due(i)
      BY <1>1, <1>4, <2>1, NoPostStep
    <3>2. \A b \in Awaits : HsMove(b)
      BY <2>1, <3>1, NoHsMove
    <3> QED BY <1>1, <2>1, <3>1, <3>2 DEF AwaitType
  <2>2. CASE /\ u \in stopcb /\ TriggerCancel(x, Await(u)) /\ stopcb' = stopcb \ {u}
             /\ timers' = timers \ ({Await(u)} \cap timerId)
    <3>1. PICK a \in Past : a = Await(u)
      <4>1. StopsAt(u)
        BY <1>3 DEF IInv, Stops
      <4>2. Hooked(u) \/ pc[u] = "resumed"
        BY <2>2, <4>1 DEF StopsAt
      <4> QED BY <1>3, <4>2, CurrentAwait DEF IInv, Hooked
    <3>2. Advance(x, a) /\ cancelled' \subseteq Awaits
      BY <1>1, <2>2, <3>1 DEF TriggerCancel, AwaitType
    <3>3. /\ Single' /\ QueueType'
          /\ hs' \in [Awaits -> {"Init", "Triggered", "Armed", "Resolved"}]
          /\ \A b \in Awaits : HsMove(b)
          /\ hs'[a] \in {"Triggered", "Resolved"}
          /\ \A i \in Items : Due(i)' => Due(i) \/ (i \in Awaits /\ hs[i] = "Armed" /\ hs'[i] = "Resolved")
      BY <1>4, <3>2, AdvanceStep
    <3> QED BY <2>2, <3>1, <3>2, <3>3
  <2> QED BY <1>2, <2>1, <2>2 DEF StopCallback
<1>6. /\ \A v \in Tasks : callbacks'[v] \subseteq Past
      /\ \A y \in Threads : firing'[y] \subseteq Past
      /\ timers' \subseteq timers /\ timers' \cup cancelling' \subseteq {a \in Past : IsSleep(a)}
  BY <1>1, <1>4, <1>5
<1>7. Where' /\ Numbers' /\ Segmented' /\ Ready' /\ Shakes' /\ Called' /\ Ended' /\ Unspoilt'
  BY <1>4, <1>5, <1>6, StillStep
<1>8. JobType' /\ TaskType' /\ WorkerType' /\ OutsideType'
  BY <1>1, <1>2, <1>4 DEF JobType, TaskType, WorkerType, OutsideType
<1>9. AwaitType'
  BY <1>1, <1>4, <1>5, <1>6 DEF AwaitType
<1>10. Stops'
  <2>1. ASSUME NEW v \in Tasks, v # u \/ u \notin stopcb PROVE StopsAt(v)'
    BY <1>4, <1>5, <1>6, <2>1, StopsKept
  <2>2. ASSUME u \in stopcb PROVE StopsAt(u)'
    <3>1. StopsAt(u) /\ (Hooked(u) \/ pc[u] = "resumed") /\ Await(u) = <<u, ip[u]>>
      BY <1>3, <2>2 DEF IInv, Stops, StopsAt, Await
    <3>2. Await(u) \in Awaits
      BY <1>3, <3>1, CurrentAwait DEF IInv, Hooked
    <3>3. /\ hs'[<<u, ip[u]>>] \in {"Triggered", "Resolved"} /\ u \notin stopcb'
          /\ timers' = timers \ ({<<u, ip[u]>>} \cap timerId)
      BY <1>5, <2>2, <3>1, <3>2
    <3>4. Hooked(u)' = Hooked(u) /\ Await(u)' = <<u, ip[u]>> /\ Op(u)' = Op(u)
      BY <1>4 DEF Hooked, Op, Body, Await
    <3>5. stop[u] = TRUE
      BY <1>2, <1>4 DEF IInv, Stops, Calling
    <3> QED BY <1>4, <3>1, <3>3, <3>4, <3>5 DEF StopsAt
  <2>3. Calling'
    BY <1>1, <1>2, <1>4, <1>5 DEF IInv, Stops, Calling, JobType
  <2> QED BY <2>1, <2>2, <2>3 DEF Stops
<1>11. Typed'
  BY <1>5, <1>8, <1>9, TypedNext
<1> QED BY <1>5, <1>7, <1>10, <1>11 DEF IInv

(* A trigger from outside the task: the rest of the step keeps the lists.  *)
LEMMA TriggerStep ==
  ASSUME IInv, NEW x \in Threads, NEW a \in Past, Advance(x, a),
         cancelled' \subseteq Awaits,
         UNCHANGED <<program, state, stop, pc, ip, callbacks, stopcb, handoff, published, timerId,
                     gmutex, stack, pending, leaving, step, target, destroyed>>,
         firing' \in [Threads -> SUBSET Past], timers' \subseteq timers,
         cancelling' \subseteq cancelling, OutsideType'
  PROVE  IInv'
<1>1. /\ TaskType /\ AwaitType /\ WorkerType /\ JobType /\ OutsideType /\ Typed /\ Single
      /\ \A u \in Tasks : callbacks[u] \subseteq Past
      /\ timers \cup cancelling \subseteq {b \in Past : IsSleep(b)} /\ Past \subseteq Awaits
  BY TypedParts, PastLists DEF IInv
<1>2. /\ Single' /\ QueueType'
      /\ hs' \in [Awaits -> {"Init", "Triggered", "Armed", "Resolved"}]
      /\ \A b \in Awaits : HsMove(b)
      /\ \A i \in Items : Due(i)' => Due(i) \/ (i \in Awaits /\ hs[i] = "Armed" /\ hs'[i] = "Resolved")
  BY AdvanceStep
<1>3. Where' /\ Numbers' /\ Segmented' /\ Ready' /\ Shakes' /\ Called' /\ Ended' /\ Unspoilt'
  <2>1. \A y \in Threads : firing'[y] \subseteq Past
    OBVIOUS
  <2>2. timers' \cup cancelling' \subseteq {b \in Past : IsSleep(b)}
    BY <1>1
  <2> QED BY <1>1, <1>2, <2>1, <2>2, StillStep
<1>4. JobType'
  <2>1. firing' \in [Threads -> SUBSET Awaits]
    BY <1>1
  <2> QED BY <1>1, <2>1 DEF JobType
<1>5. TaskType' /\ WorkerType'
  BY <1>1 DEF TaskType, WorkerType
<1>6. AwaitType'
  BY <1>1, <1>2 DEF AwaitType
<1>7. Stops'
  BY <1>2, StopsStill
<1>8. Typed'
  BY <1>2, <1>4, <1>5, <1>6, TypedNext
<1> QED BY <1>2, <1>3, <1>7, <1>8 DEF IInv

(* The completion callbacks of a task that has ended, called one by one.   *)
LEMMA DeliverStep ==
  ASSUME IInv, NEW x \in Threads, Deliver(x), UNCHANGED program, gauge' \in [Gauges -> Nat]
  PROVE  IInv'
<1>1. /\ AwaitType /\ JobType /\ OutsideType
      /\ \A y \in Threads : firing[y] \subseteq Past
  BY TypedParts, PastLists DEF IInv
<1>2. PICK a \in firing[x] : Trigger(x, a) /\ firing' = [firing EXCEPT ![x] = @ \ {a}]
  BY DEF Deliver
<1>3. a \in Past /\ Advance(x, a) /\ cancelled' \subseteq Awaits
  BY <1>1, <1>2 DEF Trigger, AwaitType
<1>4. UNCHANGED <<state, stop, pc, ip, callbacks, stopcb, handoff, published, timers, timerId,
                  gmutex, stack, pending, leaving, step, target, immediate, cpc, cancelling,
                  destroyed>>
  BY DEF Deliver, tasks, clock, workers, outside
<1>5. firing' \in [Threads -> SUBSET Past]
  BY <1>1, <1>2 DEF JobType
<1>6. OutsideType'
  BY <1>1, <1>4 DEF OutsideType
<1> QED BY <1>3, <1>4, <1>5, <1>6, TriggerStep

(* A worker fires a due timer: TimerQueue::process_due().                  *)
LEMMA FireTimerStep ==
  ASSUME IInv, NEW w \in Workers, FireTimer(w), UNCHANGED program, gauge' \in [Gauges -> Nat]
  PROVE  IInv'
<1>1. /\ AwaitType /\ JobType /\ OutsideType
      /\ \A y \in Threads : firing[y] \subseteq Past
      /\ timers \cup cancelling \subseteq {b \in Past : IsSleep(b)} /\ w \in Threads
  BY TypedParts, PastLists DEF IInv, Threads
<1>2. PICK a \in timers : timers' = timers \ {a} /\ Trigger(w, a)
  BY DEF FireTimer
<1>3. a \in Past /\ Advance(w, a) /\ cancelled' \subseteq Awaits /\ timers' \subseteq timers
  BY <1>1, <1>2 DEF Trigger, AwaitType
<1>4. UNCHANGED <<state, stop, pc, ip, callbacks, stopcb, handoff, published, timerId,
                  gmutex, stack, pending, leaving, step, target, firing, immediate, cpc,
                  cancelling, destroyed>>
  BY DEF FireTimer, tasks, workers, jobs, outside
<1>5. firing' \in [Threads -> SUBSET Past]
  BY <1>1, <1>4 DEF JobType
<1>6. OutsideType'
  BY <1>1, <1>4 DEF OutsideType
<1> QED BY <1>1, <1>3, <1>4, <1>5, <1>6, TriggerStep

(* cancel_all_timers(): the awaits of the timers taken are cancelled one   *)
(* by one.                                                                 *)
LEMMA CancelTimerStep ==
  ASSUME IInv, NEW c \in Cancellers \cup Closers, CancelTimer(c), UNCHANGED program,
         gauge' \in [Gauges -> Nat]
  PROVE  IInv'
<1>1. /\ AwaitType /\ JobType /\ OutsideType /\ TaskType /\ WorkerType
      /\ \A u \in Tasks : callbacks[u] \subseteq Past
      /\ \A y \in Threads : firing[y] \subseteq Past
      /\ timers \cup cancelling \subseteq {b \in Past : IsSleep(b)} /\ c \in Threads
  BY TypedParts, PastLists DEF IInv, Threads
<1>2. UNCHANGED <<state, stop, pc, ip, callbacks, stopcb, handoff, published, timers, timerId,
                  gmutex, stack, pending, leaving, step, target, firing, immediate, destroyed>>
  BY DEF CancelTimer, tasks, clock, workers, jobs
<1>3. /\ cpc' = cpc \/ cpc' = [cpc EXCEPT ![c] = "done"]
      /\ cancelling' \subseteq cancelling
  BY DEF CancelTimer
<1>4. OutsideType'
  BY <1>1, <1>2, <1>3 DEF OutsideType
<1>5. firing' \in [Threads -> SUBSET Past]
  BY <1>1, <1>2 DEF JobType
<1>6. CASE \E a \in cancelling : TriggerCancel(c, a)
  <2>1. PICK a \in cancelling : TriggerCancel(c, a)
    BY <1>6
  <2>2. a \in Past /\ Advance(c, a) /\ cancelled' \subseteq Awaits
    BY <1>1, <2>1 DEF TriggerCancel, AwaitType
  <2> QED BY <1>1, <1>2, <1>3, <1>4, <1>5, <2>2, TriggerStep
<1>7. CASE UNCHANGED <<hs, cancelled, cancelling>> /\ NoPost
  <2>1. /\ Single' /\ QueueType' /\ (\A b \in Awaits : HsMove(b)) /\ \A i : Due(i)' => Due(i)
    BY <1>2, <1>7, NoPostStep, NoHsMove DEF IInv, NoPost
  <2>2. Where' /\ Numbers' /\ Segmented' /\ Ready' /\ Shakes' /\ Called' /\ Ended' /\ Unspoilt'
    BY <1>1, <1>2, <1>7, <2>1, StillStep
  <2>3. TaskType' /\ AwaitType' /\ WorkerType' /\ JobType'
    BY <1>1, <1>2, <1>7 DEF TaskType, AwaitType, WorkerType, JobType
  <2>4. Stops'
    BY <1>2, <2>1, StopsStill
  <2>5. Typed'
    BY <1>4, <2>1, <2>3, TypedNext
  <2> QED BY <2>1, <2>2, <2>4, <2>5 DEF IInv
<1> QED BY <1>6, <1>7 DEF CancelTimer

(* A claim takes an item from a queue to the hands of the worker.          *)
LEMMA ClaimStep ==
  ASSUME IInv, NEW w \in Workers, Claim(w), UNCHANGED program, gauge' \in [Gauges -> Nat]
  PROVE  IInv'
<1>1. /\ AwaitType /\ JobType /\ OutsideType /\ TaskType /\ WorkerType /\ QueueType /\ Single
      /\ \A u \in Tasks : callbacks[u] \subseteq Past
      /\ \A y \in Threads : firing[y] \subseteq Past
      /\ timers \cup cancelling \subseteq {b \in Past : IsSleep(b)}
  BY TypedParts, PastLists DEF IInv
<1>2. UNCHANGED <<state, stop, pc, ip, hs, cancelled, callbacks, stopcb, handoff, published,
                  timers, timerId, gmutex, stack, leaving, slot, step, target, firing,
                  immediate, cpc, cancelling, destroyed, posts>>
  BY DEF Claim, tasks, awaits, clock, jobs, outside
<1>3. PICK i : /\ pending' = [pending EXCEPT ![w] = i] /\ i \in global \cup local
               /\ \/ local' = local \ {i} /\ UNCHANGED global /\ i \in local
                  \/ global' = global \ {i} /\ UNCHANGED local /\ i \in global
  BY DEF Claim
<1>4. i \in Items /\ pending[w] = None /\ w \notin leaving
  <2>1. i \in Items
    BY <1>1, <1>3 DEF QueueType, Items
  <2>2. pending[w] = None /\ w \notin leaving
    BY <1>1 DEF Claim, InLoop, Helping, At, WorkerType
  <2> QED BY <2>1, <2>2
<1>5. pending'[w] = i /\ \A v \in Workers : v # w => pending'[v] = pending[v]
  BY <1>1, <1>3 DEF WorkerType
<1>6. WorkerType'
  BY <1>1, <1>2, <1>3, <1>4 DEF WorkerType
<1>7. \A j : Due(j)' => Due(j)
  BY <1>2, <1>3, <1>5 DEF Due
<1>8. i \notin global' \cup local' /\ global' \subseteq global /\ local' \subseteq local
  BY <1>1, <1>3 DEF Single
<1>9. Single'
  <2>1. global' \cap local' = {}
    BY <1>1, <1>8 DEF Single
  <2>2. ASSUME NEW v \in Workers, pending'[v] # None
        PROVE  /\ pending'[v] \notin global' \cup local'
               /\ \A x \in Workers : pending'[x] = pending'[v] => x = v
    BY <1>1, <1>3, <1>5, <1>8, <2>2 DEF Single
  <2>3. ASSUME NEW v \in Workers, slot'[v] # None
        PROVE  /\ slot'[v].item \notin global' \cup local'
               /\ \A x \in Workers : /\ pending'[x] # slot'[v].item
                                     /\ slot'[x] # None /\ slot'[x].item = slot'[v].item => x = v
    BY <1>1, <1>2, <1>3, <1>5, <1>8, <2>3 DEF Single
  <2> QED BY <2>1, <2>2, <2>3 DEF Single
<1>10. QueueType'
  BY <1>1, <1>2, <1>8 DEF QueueType, SlotType
<1>11. TaskType' /\ AwaitType' /\ JobType' /\ OutsideType'
  BY <1>1, <1>2 DEF TaskType, AwaitType, JobType, OutsideType
<1>12. \A b \in Awaits : HsMove(b)
  BY <1>2, NoHsMove
<1>13. Where' /\ Numbers' /\ Segmented' /\ Ready' /\ Shakes' /\ Called' /\ Ended' /\ Unspoilt'
  BY <1>1, <1>2, <1>7, <1>12, StillStep
<1>14. Stops'
  BY <1>2, <1>12, StopsStill
<1>15. Typed'
  BY <1>6, <1>10, <1>11, TypedNext
<1> QED BY <1>9, <1>13, <1>14, <1>15 DEF IInv

(* request_cancel() by an outside thread, whatever else it does to the     *)
(* start items and the timers.                                             *)
LEMMA CancelOutside ==
  ASSUME IInv, NEW c \in Cancellers \cup Closers, NEW u \in DOMAIN program.body, CancelBegin(c, u),
         UNCHANGED <<program, state, pc, ip, hs, cancelled, callbacks, stopcb, handoff, published,
                     timers, timerId, local, gmutex, stack, pending, leaving, slot, cancelling,
                     destroyed, posts>>,
         global' \subseteq global, OutsideType'
  PROVE  IInv'
<1>1. /\ AwaitType /\ TaskType /\ WorkerType /\ QueueType /\ Single /\ c \in Threads
      /\ \A v \in Tasks : callbacks[v] \subseteq Past
      /\ \A y \in Threads : firing[y] \subseteq Past
      /\ timers \cup cancelling \subseteq {b \in Past : IsSleep(b)}
  BY TypedParts, PastLists DEF IInv, Threads
<1>2. /\ JobType' /\ stop' \in [Tasks -> BOOLEAN] /\ firing' = firing /\ Calling'
      /\ \A v \in Tasks : stop[v] => stop'[v]
  BY <1>1, CancelBeginStep
<1>3. \A j : Due(j)' => Due(j)
  BY DEF Due
<1>4. Single' /\ QueueType'
  BY <1>1 DEF Single, QueueType, SlotType
<1>5. TaskType' /\ AwaitType' /\ WorkerType'
  BY <1>1, <1>2 DEF TaskType, AwaitType, WorkerType
<1>6. \A b \in Awaits : HsMove(b)
  BY NoHsMove
<1>7. Where' /\ Numbers' /\ Segmented' /\ Ready' /\ Shakes' /\ Called' /\ Ended' /\ Unspoilt'
  BY <1>1, <1>2, <1>3, <1>6, StillStep
<1>8. Stops'
  <2>1. \A v \in Tasks : StopsAt(v)'
    BY <1>2, <1>6, StopsKept
  <2> QED BY <1>2, <2>1 DEF Stops
<1>9. Typed'
  BY <1>2, <1>4, <1>5, TypedNext
<1> QED BY <1>4, <1>7, <1>8, <1>9 DEF IInv

(* A thread outside the runtime cancels a task.                            *)
LEMMA CancelStep ==
  ASSUME IInv, NEW c \in Cancellers, Cancel(c), UNCHANGED program, gauge' \in [Gauges -> Nat]
  PROVE  IInv'
<1>1. OutsideType /\ c \in Cancellers \cup Closers
  BY TypedParts DEF IInv
<1>2. /\ cpc[c] = "idle" /\ cpc' = [cpc EXCEPT ![c] = "done"] /\ CancelBegin(c, Cancels[c])
      /\ UNCHANGED <<state, pc, ip, hs, cancelled, callbacks, stopcb, handoff, published,
                     timers, timerId, global, local, gmutex, stack, pending, leaving, slot,
                     immediate, cancelling, destroyed, posts>>
  BY DEF Cancel, awaits, clock, queues, workers
<1>3. PICK u \in DOMAIN program.body : u = Cancels[c]
  BY <1>1, <1>2, AwaitAssumption DEF OutsideType
<1>4. OutsideType'
  BY <1>1, <1>2 DEF OutsideType
<1> QED BY <1>1, <1>2, <1>3, <1>4, CancelOutside

(* shutdown_now(): the policy changes and the global queue is locked.      *)
LEMMA ShutdownNowStep ==
  ASSUME IInv, NEW c \in Closers, ShutdownNow(c), UNCHANGED program, gauge' \in [Gauges -> Nat]
  PROVE  IInv'
<1>1. /\ AwaitType /\ TaskType /\ WorkerType /\ JobType /\ OutsideType
      /\ \A v \in Tasks : callbacks[v] \subseteq Past
      /\ \A y \in Threads : firing[y] \subseteq Past
      /\ timers \cup cancelling \subseteq {b \in Past : IsSleep(b)}
  BY TypedParts, PastLists DEF IInv
<1>2. /\ UNCHANGED <<state, stop, pc, ip, hs, cancelled, callbacks, stopcb, handoff, published,
                     timers, timerId, global, local, stack, pending, leaving, slot, step, target,
                     firing, cancelling, destroyed, posts>>
      /\ immediate' = TRUE /\ gmutex' = c /\ cpc' = [cpc EXCEPT ![c] = "global"]
  BY DEF ShutdownNow, tasks, awaits, clock, workers, jobs
<1>3. Single' /\ QueueType' /\ (\A i : Due(i)' => Due(i)) /\ \A b \in Awaits : HsMove(b)
  BY <1>2, NoFlow, NoHsMove
<1>4. Where' /\ Numbers' /\ Segmented' /\ Ready' /\ Shakes' /\ Called' /\ Ended' /\ Unspoilt'
  BY <1>1, <1>2, <1>3, StillStep
<1>5. TaskType' /\ AwaitType' /\ WorkerType' /\ JobType' /\ OutsideType'
  BY <1>1, <1>2 DEF TaskType, AwaitType, WorkerType, JobType, OutsideType
<1>6. Stops'
  BY <1>2, <1>3, StopsStill
<1>7. Typed'
  BY <1>3, <1>5, TypedNext
<1> QED BY <1>3, <1>4, <1>6, <1>7 DEF IInv

(* cancel_unstarted(): the start items of the global queue are taken out   *)
(* and their tasks cancelled, with global_mutex_ held; then the timers are *)
(* taken.                                                                  *)
LEMMA CancelUnstartedStep ==
  ASSUME IInv, NEW c \in Cancellers \cup Closers, CancelUnstarted(c), UNCHANGED program,
         gauge' \in [Gauges -> Nat]
  PROVE  IInv'
<1>1. /\ AwaitType /\ TaskType /\ WorkerType /\ JobType /\ OutsideType
      /\ \A v \in Tasks : callbacks[v] \subseteq Past
      /\ \A y \in Threads : firing[y] \subseteq Past
      /\ timers \cup cancelling \subseteq {b \in Past : IsSleep(b)}
  BY TypedParts, PastLists DEF IInv
<1>2. UNCHANGED <<state, pc, ip, hs, cancelled, callbacks, stopcb, handoff, published,
                  timerId, local, stack, pending, leaving, slot, immediate, destroyed, posts>>
  BY DEF CancelUnstarted, awaits, workers
<1>3. CASE \E i \in global \cap Starts : /\ global' = global \ {i}
                                         /\ CancelBegin(c, i[1])
                                         /\ UNCHANGED <<gmutex, cpc, timers, cancelling>>
  <2>1. PICK i \in global \cap Starts : /\ global' = global \ {i}
                                        /\ CancelBegin(c, i[1])
                                        /\ UNCHANGED <<gmutex, cpc, timers, cancelling>>
    BY <1>3
  <2>2. i[1] \in DOMAIN program.body
    BY ItemKinds DEF IInv, Ready, Due
  <2>3. OutsideType'
    BY <1>1, <1>2, <2>1 DEF OutsideType
  <2> QED BY <1>2, <2>1, <2>2, <2>3, CancelOutside
<1>4. CASE /\ gmutex' = None /\ cpc' = [cpc EXCEPT ![c] = "timers"]
           /\ cancelling' = timers /\ timers' = {}
           /\ UNCHANGED <<stop, step, target, firing, global>>
  <2>1. Single' /\ QueueType' /\ (\A i : Due(i)' => Due(i)) /\ \A b \in Awaits : HsMove(b)
    BY <1>2, <1>4, NoFlow, NoHsMove
  <2>2. Where' /\ Numbers' /\ Segmented' /\ Ready' /\ Shakes' /\ Called' /\ Ended' /\ Unspoilt'
    BY <1>1, <1>2, <1>4, <2>1, StillStep
  <2>3. TaskType' /\ AwaitType' /\ WorkerType' /\ JobType' /\ OutsideType'
    BY <1>1, <1>2, <1>4 DEF TaskType, AwaitType, WorkerType, JobType, OutsideType
  <2>4. Stops'
    BY <1>2, <1>4, <2>1, StopsStill
  <2>5. Typed'
    BY <2>1, <2>3, TypedNext
  <2> QED BY <2>1, <2>2, <2>4, <2>5 DEF IInv
<1> QED BY <1>3, <1>4 DEF CancelUnstarted, jobs
-----------------------------------------------------------------------------
(* The steps of a task.                                                    *)
LEMMA AtFacts ==
  ASSUME IInv, NEW w \in Workers, NEW place, At(w, place)
  PROVE  \E t \in Tasks : /\ t = Top(w) /\ Works(w, t) /\ pc[t] = place
                          /\ t \in DOMAIN program.body /\ ip[t] \in Nat
                          /\ WhereAt(t) /\ NumberAt(t) /\ StateAt(t) /\ StopsAt(t)
                          /\ handoff[t] \in Nat /\ published[t] \in Nat
<1>1. Works(w, Top(w))
  BY DEF At, Works
<1>2. PICK t : t = Top(w)
  OBVIOUS
<1>3. t \in Tasks /\ t \in DOMAIN program.body /\ ip[t] \in Nat
  BY <1>1, <1>2, WorksFacts
<1>4. /\ WhereAt(t) /\ NumberAt(t) /\ StateAt(t) /\ StopsAt(t)
      /\ handoff[t] \in Nat /\ published[t] \in Nat
  BY <1>3 DEF IInv, Where, Numbers, Ended, Stops, Typed, TypeOK
<1> QED BY <1>1, <1>2, <1>3, <1>4 DEF At

(* What is known of the task whose next operation a worker begins.         *)
LEMMA NextFacts ==
  ASSUME IInv, NEW w \in Workers, NEW op, NextIs(w, op)
  PROVE  \E t \in Tasks : /\ t = Top(w) /\ Works(w, t) /\ pc[t] = "body"
                          /\ t \in DOMAIN program.body /\ ip[t] \in Nat
                          /\ ip[t] < Len(Body(t)) /\ ip[t] + 1 \in 1 .. Len(Body(t))
                          /\ Len(Body(t)) \in Nat
                          /\ Following(t) = Body(t)[ip[t] + 1] /\ Following(t).op = op
                          /\ <<t, ip[t] + 1>> \in Awaits
                          /\ op \notin {"yield", "sleep", "point"} => Following(t).of \in DOMAIN program.body
                          /\ WhereAt(t) /\ NumberAt(t) /\ StateAt(t) /\ StopsAt(t)
                          /\ handoff[t] \in Nat /\ published[t] \in Nat
<1>1. PICK t \in Tasks :
        /\ t = Top(w) /\ Works(w, t) /\ pc[t] = "body"
        /\ t \in DOMAIN program.body /\ ip[t] \in Nat
        /\ WhereAt(t) /\ NumberAt(t) /\ StateAt(t) /\ StopsAt(t)
        /\ handoff[t] \in Nat /\ published[t] \in Nat
  BY AtFacts DEF NextIs
<1>2. ip[t] < Len(Body(t)) /\ Following(t).op = op
  BY <1>1 DEF NextIs
<1>3. Len(Body(t)) \in Nat /\ program \in Programs
  BY <1>1, BodyType DEF IInv, Typed, TypeOK
<1>4. ip[t] + 1 \in 1 .. Len(Body(t)) /\ Following(t) = Body(t)[ip[t] + 1]
  BY <1>1, <1>2, <1>3 DEF Following
<1>5. <<t, ip[t] + 1>> \in Awaits /\ (op \notin {"yield", "sleep", "point"} => Following(t).of \in DOMAIN program.body)
  BY <1>1, <1>2, <1>3, <1>4, BodyType
<1> QED BY <1>1, <1>2, <1>3, <1>4, <1>5

(* The running body goes on to a place outside of await_suspend().         *)
LEMMA SimpleStep ==
  ASSUME IInv, NEW w \in Workers, NEW t \in Tasks, Works(w, t),
         pc[t] \in {"body", "register", "resumed", "waiting"},
         NEW p \in {"body", "error", "unwind", "resumed", "register", "waiting", "suspend"},
         pc' = [pc EXCEPT ![t] = p],
         \/ ip' = ip /\ p \in {"body", "error", "unwind"}
         \/ pc[t] = "body" /\ ip[t] < Len(Body(t)) /\ ip' = [ip EXCEPT ![t] = @ + 1],
         p = "register" => Following(t).op = "await",
         p = "resumed" => Following(t).op = "await",
         p = "waiting" => Following(t).op \in Waits,
         p = "suspend" => Following(t).op = "sleep",
         UNCHANGED <<program, state, hs, cancelled, callbacks, handoff, published, timers, timerId,
                     global, local, gmutex, stack, pending, leaving, slot, firing, immediate, cpc,
                     cancelling, destroyed, posts>>,
         stopcb' = stopcb \ {t}, stop' \in [Tasks -> BOOLEAN], \A u \in Tasks : stop[u] => stop'[u],
         JobType', Calling', gauge' \in [Gauges -> Nat]
  PROVE  IInv'
<1>1. /\ AwaitType /\ TaskType /\ WorkerType /\ JobType /\ OutsideType
      /\ \A v \in Tasks : callbacks[v] \subseteq Past
      /\ \A y \in Threads : firing[y] \subseteq Past
      /\ timers \cup cancelling \subseteq {b \in Past : IsSleep(b)}
  BY TypedParts, PastLists DEF IInv
<1>2. /\ t \in DOMAIN program.body /\ ip[t] \in Nat /\ Len(Body(t)) \in Nat /\ ip[t] <= Len(Body(t))
      /\ WhereAt(t) /\ NumberAt(t) /\ StateAt(t) /\ handoff[t] \in Nat /\ published[t] \in Nat
  BY <1>1, WorksFacts, BodyType DEF IInv, Where, Numbers, Ended, TaskType, OutsideType
<1>3. /\ pc'[t] = p /\ \A u \in Tasks : u # t => pc'[u] = pc[u] /\ ip'[u] = ip[u]
      /\ \/ ip'[t] = ip[t] /\ p \in {"body", "error", "unwind"}
         \/ ip'[t] = ip[t] + 1 /\ ip[t] < Len(Body(t)) /\ pc[t] = "body"
  BY <1>1 DEF TaskType
<1>4. Others(t)
  BY <1>3 DEF Others
<1>5. /\ p = "register" => ip'[t] = ip[t] + 1 /\ Op(t)' = "await"
      /\ p = "resumed" => ip'[t] = ip[t] + 1 /\ Op(t)' = "await"
      /\ p = "waiting" => ip'[t] = ip[t] + 1 /\ Op(t)' \in Waits
      /\ p = "suspend" => ip'[t] = ip[t] + 1 /\ Op(t)' = "sleep"
  <2>1. ip'[t] = ip[t] + 1 => Following(t).op = Op(t)'
    BY DEF Following, Op, Body
  <2>2. p \notin {"body", "error", "unwind"} => ip'[t] = ip[t] + 1
    BY <1>3
  <2> QED BY <2>1, <2>2
<1>6. Len(Body(t))' = Len(Body(t)) /\ ip'[t] \in Nat /\ ip'[t] <= Len(Body(t)) /\ ip'[t] >= ip[t]
  BY <1>2, <1>3 DEF Body
<1>7. WhereAt(t)'
  BY <1>2, <1>3, <1>5, <1>6 DEF WhereAt, Begun
<1>8. ~Handed(t) /\ ~Handed(t)'
  BY <1>3, <1>5 DEF Handed
<1>9. NumberAt(t)'
  BY <1>2, <1>8 DEF NumberAt
<1>10. StateAt(t)'
  <2>1. ASSUME ip[t] < Len(Body(t)) PROVE hs[<<t, ip[t] + 1>>] = "Init"
    <3>1. <<t, ip[t] + 1>> \in Awaits
      BY <1>1, <1>2, <2>1, BodyType DEF OutsideType
    <3>2. ShakeAt(<<t, ip[t] + 1>>)
      BY <3>1 DEF IInv, Shakes
    <3> QED BY <1>2, <3>2 DEF ShakeAt
  <2> QED BY <1>2, <1>3, <2>1 DEF StateAt, Left, Done, InAwait, Await
<1>11. Single' /\ QueueType' /\ (\A i : Due(i)' => Due(i)) /\ \A b \in Awaits : HsMove(b)
  BY NoFlow, NoHsMove
<1>12. Where' /\ Numbers' /\ Segmented' /\ Ready' /\ Shakes' /\ Called' /\ Ended' /\ Unspoilt'
  <2>1. Moves(t)
    BY <1>4, <1>6, <1>7, <1>9 DEF Moves
  <2>2. Kept(t) /\ pc'[t] # "publish" /\ pc[t] # "publish"
    BY <1>3 DEF Kept, Active, Places
  <2> QED BY <1>1, <1>6, <1>10, <1>11, <2>1, <2>2, InnerStep
<1>13. Stops'
  <2>1. ASSUME NEW u \in Tasks, u # t PROVE StopsAt(u)'
    BY <1>3, <1>11, <2>1, StopsKept
  <2>2. StopsAt(t)'
    BY <1>3, <1>5 DEF StopsAt, Hooked, Left
  <2> QED BY <2>1, <2>2 DEF Stops
<1>14. TaskType' /\ AwaitType' /\ WorkerType' /\ OutsideType'
  <2>1. pc' \in [Tasks -> Places] /\ ip' \in [Tasks -> Nat]
    BY <1>1, <1>2 DEF TaskType, Places
  <2> QED BY <1>1, <2>1 DEF TaskType, AwaitType, WorkerType, OutsideType
<1>15. Typed'
  BY <1>11, <1>14, TypedNext
<1> QED BY <1>11, <1>12, <1>13, <1>15 DEF IInv

(* What such a step of t leaves as it is.                                  *)
Quiet == UNCHANGED <<program, state, hs, cancelled, callbacks, handoff, published, timers, timerId,
                     global, local, gmutex, stack, pending, leaving, slot, firing, immediate, cpc,
                     cancelling, destroyed, posts>>

(* SimpleStep, for a step that changes nothing but the place of the task.  *)
LEMMA SimpleQuiet ==
  ASSUME IInv, NEW w \in Workers, NEW t \in Tasks, Works(w, t),
         pc[t] \in {"body", "register", "resumed", "waiting"},
         NEW p \in {"body", "error", "unwind", "resumed", "register", "waiting", "suspend"},
         pc' = [pc EXCEPT ![t] = p],
         \/ ip' = ip /\ p \in {"body", "error", "unwind"}
         \/ pc[t] = "body" /\ ip[t] < Len(Body(t)) /\ ip' = [ip EXCEPT ![t] = @ + 1],
         p = "register" => Following(t).op = "await",
         p = "resumed" => Following(t).op = "await",
         p = "waiting" => Following(t).op \in Waits,
         p = "suspend" => Following(t).op = "sleep",
         Quiet, UNCHANGED <<stop, step, target>>, stopcb' = stopcb \ {t},
         gauge' \in [Gauges -> Nat]
  PROVE  IInv'
<1>1. TaskType /\ JobType /\ Calling
  BY TypedParts DEF IInv, Stops
<1>2. JobType' /\ Calling' /\ stop' \in [Tasks -> BOOLEAN] /\ \A u \in Tasks : stop[u] => stop'[u]
  BY <1>1 DEF JobType, Calling, TaskType, Quiet
<1> QED BY <1>2, SimpleStep DEF Quiet

(* co_await of a task handle: await_ready().                               *)
LEMMA BeginAwaitStep ==
  ASSUME IInv, NEW w \in Workers, BeginAwait(w), UNCHANGED program, gauge' \in [Gauges -> Nat]
  PROVE  IInv'
<1>1. PICK t \in Tasks : /\ t = Top(w) /\ Works(w, t) /\ pc[t] = "body" /\ ip[t] < Len(Body(t))
                         /\ Following(t).op = "await" /\ StopsAt(t)
  BY NextFacts DEF BeginAwait
<1>2. PICK p \in {"error", "resumed", "register"} : pc' = [pc EXCEPT ![t] = p]
  BY <1>1 DEF BeginAwait, Goto
<1>3. /\ ip' = [ip EXCEPT ![t] = @ + 1] /\ UNCHANGED <<stop, step, target, stopcb>> /\ Quiet
  BY <1>1 DEF BeginAwait, Advanced, Quiet, awaits, clock, queues, workers, jobs, outside
<1>4. stopcb' = stopcb \ {t}
  BY <1>1, <1>3 DEF StopsAt, Hooked
<1> QED BY <1>1, <1>2, <1>3, <1>4, SimpleQuiet

(* cancellation_point(): goes on, or unwinds the body.                     *)
LEMMA PointStep ==
  ASSUME IInv, NEW w \in Workers, Point(w), UNCHANGED program, gauge' \in [Gauges -> Nat]
  PROVE  IInv'
<1>1. PICK t \in Tasks : /\ t = Top(w) /\ Works(w, t) /\ pc[t] = "body" /\ ip[t] < Len(Body(t))
                         /\ StopsAt(t)
  BY NextFacts DEF Point
<1>2. PICK p \in {"unwind", "body"} : pc' = [pc EXCEPT ![t] = p]
  BY <1>1 DEF Point, Goto
<1>3. /\ ip' = [ip EXCEPT ![t] = @ + 1] /\ UNCHANGED <<stop, step, target, stopcb>> /\ Quiet
  BY <1>1 DEF Point, Advanced, Quiet, awaits, clock, queues, workers, jobs, outside
<1>4. stopcb' = stopcb \ {t}
  BY <1>1, <1>3 DEF StopsAt, Hooked
<1> QED BY <1>1, <1>2, <1>3, <1>4, SimpleQuiet

(* co_await sleep_for(): await_ready().                                    *)
LEMMA BeginSleepStep ==
  ASSUME IInv, NEW w \in Workers, BeginSleep(w), UNCHANGED program, gauge' \in [Gauges -> Nat]
  PROVE  IInv'
<1>1. PICK t \in Tasks : /\ t = Top(w) /\ Works(w, t) /\ pc[t] = "body" /\ ip[t] < Len(Body(t))
                         /\ Following(t).op = "sleep" /\ StopsAt(t)
  BY NextFacts DEF BeginSleep
<1>2. PICK p \in {"unwind", "body", "suspend"} : pc' = [pc EXCEPT ![t] = p]
  <2>1. pc' = pc => pc' = [pc EXCEPT ![t] = "body"]
    BY <1>1 DEF IInv, Typed, TypeOK
  <2> QED BY <1>1, <2>1 DEF BeginSleep, Goto
<1>3. /\ ip' = [ip EXCEPT ![t] = @ + 1] /\ UNCHANGED <<stop, step, target, stopcb>> /\ Quiet
  BY <1>1 DEF BeginSleep, Advanced, Quiet, awaits, clock, queues, workers, jobs, outside
<1>4. stopcb' = stopcb \ {t}
  BY <1>1, <1>3 DEF StopsAt, Hooked
<1> QED BY <1>1, <1>2, <1>3, <1>4, SimpleQuiet

(* wait() and wait_for() inside a body: the helping wait begins.           *)
LEMMA BeginWaitStep ==
  ASSUME IInv, NEW w \in Workers, BeginWait(w), UNCHANGED program, gauge' \in [Gauges -> Nat]
  PROVE  IInv'
<1>0. PICK op \in Waits : NextIs(w, op)
  BY DEF BeginWait
<1>1. PICK t \in Tasks : /\ t = Top(w) /\ Works(w, t) /\ pc[t] = "body" /\ ip[t] < Len(Body(t))
                         /\ Following(t).op \in Waits /\ StopsAt(t)
  BY <1>0, NextFacts
<1>2. PICK p \in {"unwind", "body", "error", "waiting"} : pc' = [pc EXCEPT ![t] = p]
  <2>1. Got(Following(t).of) \in {"unwind", "body", "error"}
    BY DEF Got
  <2> QED BY <1>1, <2>1 DEF BeginWait, Goto, Returns
<1>3. /\ ip' = [ip EXCEPT ![t] = @ + 1] /\ UNCHANGED <<stop, step, target, stopcb>> /\ Quiet
  BY <1>1 DEF BeginWait, Advanced, Quiet, awaits, clock, queues, workers, jobs, outside
<1>4. stopcb' = stopcb \ {t}
  BY <1>1, <1>3 DEF StopsAt, Hooked
<1> QED BY <1>1, <1>2, <1>3, <1>4, SimpleQuiet

(* A helping wait ends, since its task is done or its time is over.        *)
LEMMA WaitDoneStep ==
  ASSUME IInv, NEW w \in Workers, WaitDone(w) \/ WaitTimesOut(w), UNCHANGED program,
         gauge' \in [Gauges -> Nat]
  PROVE  IInv'
<1>1. PICK t \in Tasks : t = Top(w) /\ Works(w, t) /\ pc[t] = "waiting" /\ StopsAt(t)
  BY AtFacts DEF WaitDone, WaitTimesOut
<1>2. PICK p \in {"unwind", "body", "error"} : pc' = [pc EXCEPT ![t] = p]
  <2>1. Got(Body(t)[ip[t]].of) \in {"unwind", "body", "error"}
    BY DEF Got
  <2> QED BY <1>1, <2>1 DEF WaitDone, WaitTimesOut, Goto, Returns
<1>3. /\ UNCHANGED <<ip, stop, step, target, stopcb>> /\ Quiet
  BY <1>1 DEF WaitDone, WaitTimesOut, Quiet, awaits, clock, queues, workers, jobs, outside
<1>4. stopcb' = stopcb \ {t}
  BY <1>1, <1>3 DEF StopsAt, Hooked
<1> QED BY <1>1, <1>2, <1>3, <1>4, SimpleQuiet

(* await_resume(): the result, the error of the awaited task, or the       *)
(* cancellation.                                                           *)
LEMMA ResumedStep ==
  ASSUME IInv, NEW w \in Workers, Resumed(w), UNCHANGED program, gauge' \in [Gauges -> Nat]
  PROVE  IInv'
<1>1. PICK t \in Tasks : t = Top(w) /\ Works(w, t) /\ pc[t] = "resumed"
  BY AtFacts DEF Resumed
<1>2. PICK p \in {"unwind", "body", "error"} : pc' = [pc EXCEPT ![t] = p]
  <2>1. Got(Of(t)) \in {"unwind", "body", "error"}
    BY DEF Got
  <2> QED BY <1>1, <2>1 DEF Resumed, Goto
<1>3. UNCHANGED <<ip, stop, step, target>> /\ Quiet /\ stopcb' = stopcb \ {t}
  BY <1>1 DEF Resumed, Quiet, clock, queues, workers, jobs, outside
<1> QED BY <1>1, <1>2, <1>3, SimpleQuiet

(* A body calls request_cancel() on another task.                          *)
LEMMA CallCancelStep ==
  ASSUME IInv, NEW w \in Workers, CallCancel(w), UNCHANGED program, gauge' \in [Gauges -> Nat]
  PROVE  IInv'
<1>0. NextIs(w, "cancel") /\ "cancel" \notin {"yield", "sleep", "point"}
  BY DEF CallCancel
<1>1. PICK t \in Tasks : /\ t = Top(w) /\ Works(w, t) /\ pc[t] = "body" /\ ip[t] < Len(Body(t))
                         /\ Following(t).of \in DOMAIN program.body /\ StopsAt(t)
  BY <1>0, NextFacts
<1>2. /\ ip' = [ip EXCEPT ![t] = @ + 1] /\ UNCHANGED <<pc, stopcb>>
      /\ CancelBegin(w, Following(t).of)
      /\ UNCHANGED <<program, state, hs, cancelled, callbacks, handoff, published, timers, timerId,
                     global, local, gmutex, stack, pending, leaving, slot, immediate, cpc,
                     cancelling, destroyed, posts>>
  BY <1>1 DEF CallCancel, Advanced, awaits, clock, queues, workers, outside
<1>3. pc' = [pc EXCEPT ![t] = "body"]
  BY <1>1, <1>2 DEF IInv, Typed, TypeOK
<1>4. stopcb' = stopcb \ {t}
  BY <1>1, <1>2 DEF StopsAt, Hooked
<1>5. /\ JobType' /\ stop' \in [Tasks -> BOOLEAN] /\ firing' = firing /\ Calling'
      /\ \A v \in Tasks : stop[v] => stop'[v]
  BY <1>1, <1>2, CancelBeginStep DEF Threads
<1> QED BY <1>1, <1>2, <1>3, <1>4, <1>5, SimpleStep

(* The task goes on inside of await_suspend(), with no handshake involved. *)
LEMMA PlaceStep ==
  ASSUME IInv, NEW w \in Workers, NEW t \in Tasks, Works(w, t), pc[t] # "publish",
         NEW p \in Active \ {"publish"}, pc' = [pc EXCEPT ![t] = p],
         UNCHANGED <<program, stop, ip, hs, cancelled, callbacks, published, global, local,
                     gmutex, stack, pending, leaving, slot, step, target, firing, immediate,
                     cpc, cancelling, destroyed, posts>>,
         WhereAt(t)', NumberAt(t)', StateAt(t)', StopsAt(t)',
         \A u \in Tasks : u # t => state'[u] = state[u] /\ handoff'[u] = handoff[u],
         state' \in [Tasks -> States], handoff' \in [Tasks -> Nat],
         timers' \subseteq {a \in Past : IsSleep(a)}, \A a \in timers' : a \in timers \/ a[1] = t,
         timerId \subseteq timerId', timerId' \subseteq Awaits,
         stopcb' \subseteq Tasks, \A u \in stopcb' : u \in stopcb \/ ~stop[u],
         \A u \in Tasks : u # t => (u \in stopcb' <=> u \in stopcb),
         gauge' \in [Gauges -> Nat]
  PROVE  IInv'
<1>1. /\ AwaitType /\ TaskType /\ WorkerType /\ JobType /\ OutsideType
      /\ \A v \in Tasks : callbacks[v] \subseteq Past
      /\ \A y \in Threads : firing[y] \subseteq Past
      /\ timers \cup cancelling \subseteq {b \in Past : IsSleep(b)} /\ Past \subseteq Awaits
  BY TypedParts, PastLists DEF IInv
<1>2. /\ pc'[t] = p /\ \A u \in Tasks : u # t => pc'[u] = pc[u]
      /\ ip[t] \in Nat
  BY <1>1 DEF TaskType
<1>3. Moves(t) /\ Kept(t)
  BY <1>2 DEF Moves, Others, Kept
<1>4. Single' /\ QueueType' /\ (\A i : Due(i)' => Due(i)) /\ \A b \in Awaits : HsMove(b)
  BY NoFlow, NoHsMove
<1>5. timers' \cup cancelling' \subseteq {a \in Past : IsSleep(a)}
  BY <1>1
<1>6. Where' /\ Numbers' /\ Segmented' /\ Ready' /\ Shakes' /\ Called' /\ Ended' /\ Unspoilt'
  BY <1>1, <1>2, <1>3, <1>4, <1>5, InnerStep
<1>7. Stops'
  BY <1>3, <1>4, StopsInner
<1>8. TaskType' /\ AwaitType' /\ WorkerType' /\ JobType' /\ OutsideType'
  <2>1. pc' \in [Tasks -> Places]
    BY <1>1 DEF TaskType, Active
  <2>2. timers' \subseteq Awaits
    BY <1>1
  <2> QED BY <1>1, <2>1, <2>2 DEF TaskType, AwaitType, WorkerType, JobType, OutsideType
<1>9. Typed'
  BY <1>4, <1>8, TypedNext
<1> QED BY <1>4, <1>6, <1>7, <1>9 DEF IInv

(* The same operation, one step on.                                        *)
LEMMA SameOperation ==
  ASSUME NEW t, UNCHANGED <<program, ip>>
  PROVE  /\ Op(t)' = Op(t) /\ Begun(t)' = Begun(t) /\ Body(t)' = Body(t)
         /\ Await(t)' = <<t, ip[t]>> /\ Await(t) = <<t, ip[t]>>
  BY DEF Op, Begun, Body, Await

(* transition_to_suspended(), under the mutex of the task: its place says  *)
(* Suspended from here on.                                                 *)
LEMMA SuspendStep ==
  ASSUME IInv, NEW w \in Workers, Suspend(w), UNCHANGED program, gauge' \in [Gauges -> Nat]
  PROVE  IInv'
<1>1. PICK t \in Tasks :
        /\ t = Top(w) /\ Works(w, t) /\ pc[t] = "suspend" /\ t \in DOMAIN program.body
        /\ WhereAt(t) /\ NumberAt(t) /\ StateAt(t) /\ StopsAt(t)
  BY AtFacts DEF Suspend
<1>2. /\ TaskType /\ AwaitType /\ timers \subseteq {a \in Past : IsSleep(a)}
  BY TypedParts, PastLists DEF IInv
<1>3. /\ UNCHANGED <<stop, ip, hs, cancelled, callbacks, stopcb, handoff, published, timers,
                     timerId, global, local, gmutex, stack, pending, leaving, slot, step, target,
                     firing, immediate, cpc, cancelling, destroyed, posts>>
      /\ state' = [state EXCEPT ![t] = "Suspended"]
      /\ pc' = [pc EXCEPT ![t] = IF IsSleep(Await(t)) THEN "stopcb" ELSE "arm"]
  BY <1>1 DEF Suspend, Goto, ToSuspended, SetState, StateAt, awaits, clock, queues, workers,
              jobs, outside
<1>4. (IsSleep(Await(t)) <=> Op(t) = "sleep") /\ Await(t) = <<t, ip[t]>>
  BY <1>1, CurrentAwait DEF IInv
<1>5. PICK p \in {"stopcb", "arm"} : /\ pc' = [pc EXCEPT ![t] = p] /\ pc'[t] = p
                                     /\ p = "stopcb" <=> Op(t) = "sleep"
  BY <1>2, <1>3, <1>4 DEF TaskType
<1>6. state'[t] = "Suspended" /\ state' \in [Tasks -> States]
  BY <1>2, <1>3 DEF TaskType, States
<1>7. /\ Op(t)' = Op(t) /\ Begun(t)' = Begun(t) /\ Body(t)' = Body(t)
      /\ Await(t)' = <<t, ip[t]>>
  BY <1>3, SameOperation
<1>8. WhereAt(t)'
  BY <1>1, <1>3, <1>5, <1>7 DEF WhereAt
<1>9. NumberAt(t)'
  BY <1>1, <1>3, <1>5, <1>7 DEF NumberAt, Handed
<1>10. StateAt(t)'
  BY <1>1, <1>3, <1>4, <1>5, <1>6, <1>7 DEF StateAt, Left, InAwait, Done
<1>11. StopsAt(t)'
  <2>1. <<t, ip[t]>> \in timers => Op(t) = "sleep"
    BY <1>2, <1>4
  <2> QED BY <1>1, <1>3, <1>4, <1>5, <1>7, <2>1 DEF StopsAt, Hooked, Left
<1>12. p \in Active \ {"publish"}
  BY DEF Active, Places
<1>13. /\ \A u \in Tasks : u # t => state'[u] = state[u] /\ handoff'[u] = handoff[u]
       /\ handoff' \in [Tasks -> Nat] /\ timerId' \subseteq Awaits /\ stopcb' \subseteq Tasks
  BY <1>2, <1>3 DEF TaskType, AwaitType
<1> QED BY <1>1, <1>2, <1>3, <1>5, <1>6, <1>8, <1>9, <1>10, <1>11, <1>12, <1>13, PlaceStep

(* The sleep registers its timer with the TimerQueue.                      *)
LEMMA RegisterTimerStep ==
  ASSUME IInv, NEW w \in Workers, RegisterTimer(w), UNCHANGED program, gauge' \in [Gauges -> Nat]
  PROVE  IInv'
<1>1. PICK t \in Tasks :
        /\ t = Top(w) /\ Works(w, t) /\ pc[t] = "check" /\ t \in DOMAIN program.body
        /\ WhereAt(t) /\ NumberAt(t) /\ StateAt(t) /\ StopsAt(t)
        /\ handoff[t] \in Nat /\ published[t] \in Nat
  BY AtFacts DEF RegisterTimer
<1>2. /\ TaskType /\ AwaitType /\ timers \subseteq {a \in Past : IsSleep(a)}
  BY TypedParts, PastLists DEF IInv
<1>3. /\ UNCHANGED <<state, stop, ip, hs, cancelled, callbacks, published,
                     timerId, global, local, gmutex, stack, pending, leaving, slot, step, target,
                     firing, immediate, cpc, cancelling, destroyed, posts>>
  BY <1>1 DEF RegisterTimer, queues, workers, jobs, outside
<1>4. /\ IsSleep(Await(t)) /\ Op(t) = "sleep" /\ Await(t) = <<t, ip[t]>> /\ Await(t) \in Past
      /\ Begun(t)
  BY <1>1, CurrentAwait DEF IInv, WhereAt
<1>7. /\ Op(t)' = Op(t) /\ Begun(t)' = Begun(t) /\ Body(t)' = Body(t)
      /\ Await(t)' = <<t, ip[t]>>
  BY <1>3, SameOperation
<1>12. "unwind" \in Active \ {"publish"} /\ "id" \in Active \ {"publish"}
  BY DEF Active, Places
<1>13. CASE /\ stop[t] /\ stopcb' = stopcb \ {t} /\ pc' = [pc EXCEPT ![t] = "unwind"]
            /\ UNCHANGED <<handoff, timers>>
  <2>1. pc'[t] = "unwind"
    BY <1>2, <1>13 DEF TaskType
  <2>8. WhereAt(t)'
    BY <1>1, <1>3, <2>1, <1>7 DEF WhereAt
  <2>9. NumberAt(t)'
    BY <1>1, <1>3, <1>13, <2>1, <1>7 DEF NumberAt, Handed
  <2>10. StateAt(t)'
    BY <1>1, <1>3, <1>4, <2>1, <1>7 DEF StateAt, Left, InAwait, Done
  <2>11. StopsAt(t)'
    BY <1>13, <2>1 DEF StopsAt, Hooked, Left
  <2>12. /\ \A u \in Tasks : u # t => state'[u] = state[u] /\ handoff'[u] = handoff[u]
         /\ state' \in [Tasks -> States]
         /\ handoff' \in [Tasks -> Nat] /\ timerId' \subseteq Awaits /\ stopcb' \subseteq Tasks
    BY <1>2, <1>3, <1>13 DEF TaskType, AwaitType
  <2> QED BY <1>1, <1>2, <1>3, <1>12, <1>13, <2>8, <2>9, <2>10, <2>11, <2>12, PlaceStep
<1>14. CASE /\ ~stop[t] /\ handoff' = [handoff EXCEPT ![t] = @ + 1]
            /\ timers' = timers \cup {Await(t)} /\ pc' = [pc EXCEPT ![t] = "id"]
            /\ UNCHANGED stopcb
  <2>1. pc'[t] = "id" /\ handoff'[t] = handoff[t] + 1
    BY <1>2, <1>14 DEF TaskType
  <2>8. WhereAt(t)'
    BY <1>1, <1>3, <2>1, <1>4, <1>7 DEF WhereAt
  <2>9. NumberAt(t)'
    BY <1>1, <1>3, <2>1, <1>7 DEF NumberAt, Handed
  <2>10. StateAt(t)'
    BY <1>1, <1>3, <1>4, <2>1, <1>7 DEF StateAt, Left, InAwait, Done
  <2>11. StopsAt(t)'
    BY <1>1, <1>3, <1>4, <1>7, <1>14, <2>1 DEF StopsAt, Hooked, Left
  <2>12. /\ \A u \in Tasks : u # t => state'[u] = state[u] /\ handoff'[u] = handoff[u]
         /\ state' \in [Tasks -> States]
         /\ handoff' \in [Tasks -> Nat] /\ timerId' \subseteq Awaits /\ stopcb' \subseteq Tasks
    BY <1>2, <1>3, <1>14 DEF TaskType, AwaitType
  <2>13. timers' \subseteq {a \in Past : IsSleep(a)} /\ \A a \in timers' : a \in timers \/ a[1] = t
    BY <1>2, <1>4, <1>14
  <2> QED BY <1>1, <1>2, <1>3, <1>12, <1>14, <2>8, <2>9, <2>10, <2>11, <2>12, <2>13, PlaceStep
<1> QED BY <1>1, <1>13, <1>14 DEF RegisterTimer, Goto

(* The sleep stores the timer's id for the stop callback to find.          *)
LEMMA StoreTimerIdStep ==
  ASSUME IInv, NEW w \in Workers, StoreTimerId(w), UNCHANGED program, gauge' \in [Gauges -> Nat]
  PROVE  IInv'
<1>1. PICK t \in Tasks :
        /\ t = Top(w) /\ Works(w, t) /\ pc[t] = "id" /\ t \in DOMAIN program.body
        /\ WhereAt(t) /\ NumberAt(t) /\ StateAt(t) /\ StopsAt(t)
  BY AtFacts DEF StoreTimerId
<1>2. /\ TaskType /\ AwaitType /\ timers \subseteq {a \in Past : IsSleep(a)} /\ Past \subseteq Awaits
  BY TypedParts, PastLists DEF IInv
<1>3. /\ UNCHANGED <<state, stop, ip, hs, cancelled, callbacks, stopcb, handoff, published, timers,
                     global, local, gmutex, stack, pending, leaving, slot, step, target,
                     firing, immediate, cpc, cancelling, destroyed, posts>>
      /\ pc' = [pc EXCEPT ![t] = "recheck"] /\ timerId' = timerId \cup {Await(t)}
  BY <1>1 DEF StoreTimerId, Goto, awaits, queues, workers, jobs, outside
<1>4. Await(t) = <<t, ip[t]>> /\ Await(t) \in Awaits
  BY <1>1, CurrentAwait DEF IInv
<1>5. pc'[t] = "recheck" /\ "recheck" \in Active \ {"publish"}
  BY <1>2, <1>3 DEF TaskType, Active, Places
<1>7. /\ Op(t)' = Op(t) /\ Begun(t)' = Begun(t) /\ Body(t)' = Body(t)
      /\ Await(t)' = <<t, ip[t]>>
  BY <1>3, SameOperation
<1>8. WhereAt(t)'
  BY <1>1, <1>3, <1>5, <1>7 DEF WhereAt
<1>9. NumberAt(t)'
  BY <1>1, <1>3, <1>5, <1>7 DEF NumberAt, Handed
<1>10. StateAt(t)'
  BY <1>1, <1>3, <1>4, <1>5, <1>7 DEF StateAt, Left, InAwait, Done
<1>11. StopsAt(t)'
  BY <1>1, <1>3, <1>4, <1>5, <1>7 DEF StopsAt, Hooked, Left
<1>13. /\ \A u \in Tasks : u # t => state'[u] = state[u] /\ handoff'[u] = handoff[u]
       /\ state' \in [Tasks -> States]
       /\ handoff' \in [Tasks -> Nat] /\ timerId' \subseteq Awaits /\ stopcb' \subseteq Tasks
  BY <1>2, <1>3, <1>4 DEF TaskType, AwaitType
<1> QED BY <1>1, <1>2, <1>3, <1>5, <1>8, <1>9, <1>10, <1>11, <1>13, PlaceStep

(* The sleep asks once more whether a stop was requested, and takes its    *)
(* timer back.                                                             *)
LEMMA RecheckStep ==
  ASSUME IInv, NEW w \in Workers, Recheck(w), UNCHANGED program, gauge' \in [Gauges -> Nat]
  PROVE  IInv'
<1>1. PICK t \in Tasks :
        /\ t = Top(w) /\ Works(w, t) /\ pc[t] = "recheck" /\ t \in DOMAIN program.body
        /\ WhereAt(t) /\ NumberAt(t) /\ StateAt(t) /\ StopsAt(t)
  BY AtFacts DEF Recheck
<1>2. /\ TaskType /\ AwaitType /\ timers \subseteq {a \in Past : IsSleep(a)} /\ Past \subseteq Awaits
  BY TypedParts, PastLists DEF IInv
<1>3. /\ UNCHANGED <<state, stop, ip, hs, cancelled, callbacks, stopcb, handoff, published, timerId,
                     global, local, gmutex, stack, pending, leaving, slot, step, target,
                     firing, immediate, cpc, cancelling, destroyed, posts>>
      /\ pc' = [pc EXCEPT ![t] = "arm"]
      /\ timers' = IF stop[t] THEN timers \ {Await(t)} ELSE timers
  BY <1>1 DEF Recheck, Goto, awaits, queues, workers, jobs, outside
<1>4. Await(t) = <<t, ip[t]>> /\ Await(t) \in Awaits
  BY <1>1, CurrentAwait DEF IInv
<1>5. pc'[t] = "arm" /\ "arm" \in Active \ {"publish"}
  BY <1>2, <1>3 DEF TaskType, Active, Places
<1>7. /\ Op(t)' = Op(t) /\ Begun(t)' = Begun(t) /\ Body(t)' = Body(t)
      /\ Await(t)' = <<t, ip[t]>>
  BY <1>3, SameOperation
<1>8. WhereAt(t)'
  BY <1>1, <1>3, <1>5, <1>7 DEF WhereAt
<1>9. NumberAt(t)'
  BY <1>1, <1>3, <1>5, <1>7 DEF NumberAt, Handed
<1>10. StateAt(t)'
  BY <1>1, <1>3, <1>4, <1>5, <1>7 DEF StateAt, Left, InAwait, Done
<1>11. StopsAt(t)'
  BY <1>1, <1>3, <1>4, <1>5, <1>7 DEF StopsAt, Hooked, Left
<1>12. timers' \subseteq timers
  BY <1>3
<1>13. /\ \A u \in Tasks : u # t => state'[u] = state[u] /\ handoff'[u] = handoff[u]
       /\ state' \in [Tasks -> States]
       /\ handoff' \in [Tasks -> Nat] /\ timerId' \subseteq Awaits /\ stopcb' \subseteq Tasks
  BY <1>2, <1>3, <1>4 DEF TaskType, AwaitType
<1> QED BY <1>1, <1>2, <1>3, <1>5, <1>8, <1>9, <1>10, <1>11, <1>12, <1>13, PlaceStep

(* A step inside of await_suspend() that involves the handshake.           *)
LEMMA HandshakeStep ==
  ASSUME IInv, NEW w \in Workers, NEW t \in Tasks, Works(w, t), pc[t] # "publish",
         NEW p \in Active, pc' = [pc EXCEPT ![t] = p], Moves(t),
         UNCHANGED <<program, stop, published, timers, timerId, gmutex, stack, pending,
                     leaving, step, target, firing, immediate, cpc, cancelling, destroyed>>,
         StateAt(t)', StopsAt(t)',
         p = "publish" => hs'[<<t, ip'[t]>>] \in {"Armed", "Resolved"},
         \A b \in Awaits : HsMove(b),
         \A i \in Items : Due(i)' =>
           \/ Due(i) \/ (i \in Awaits /\ hs[i] = "Armed" /\ hs'[i] = "Resolved")
           \/ i \in Awaits /\ i = <<t, ip'[t]>> /\ hs'[i] = "Resolved" /\ p = "publish",
         Single', QueueType',
         hs' \in [Awaits -> {"Init", "Triggered", "Armed", "Resolved"}], cancelled' \subseteq Awaits,
         callbacks' \in [Tasks -> SUBSET Past],
         stopcb' \subseteq Tasks, \A u \in stopcb' : u \in stopcb \/ ~stop[u],
         \A u \in Tasks : u # t => (u \in stopcb' <=> u \in stopcb),
         ip' \in [Tasks -> Nat], state' \in [Tasks -> States], handoff' \in [Tasks -> Nat],
         gauge' \in [Gauges -> Nat]
  PROVE  IInv'
<1>1. /\ AwaitType /\ TaskType /\ WorkerType /\ JobType /\ OutsideType
      /\ \A y \in Threads : firing[y] \subseteq Past
      /\ timers \cup cancelling \subseteq {b \in Past : IsSleep(b)} /\ Past \subseteq Awaits
  BY TypedParts, PastLists DEF IInv
<1>2. pc'[t] = p /\ Kept(t) /\ ip'[t] \in Nat
  BY <1>1 DEF TaskType, Kept
<1>3. \A v \in Tasks : callbacks'[v] \subseteq Past
  OBVIOUS
<1>4. Where' /\ Numbers' /\ Segmented' /\ Ready' /\ Shakes' /\ Called' /\ Ended' /\ Unspoilt'
  BY <1>1, <1>2, <1>3, InnerStep
<1>5. Stops'
  BY <1>1, StopsInner
<1>6. TaskType' /\ AwaitType' /\ WorkerType' /\ JobType' /\ OutsideType'
  <2>1. pc' \in [Tasks -> Places]
    BY <1>1 DEF TaskType, Active
  <2>2. callbacks' \in [Tasks -> SUBSET Awaits]
    BY <1>1
  <2> QED BY <1>1, <2>1, <2>2 DEF TaskType, AwaitType, WorkerType, JobType, OutsideType
<1>7. Typed'
  BY <1>6, TypedNext
<1> QED BY <1>4, <1>5, <1>7 DEF IInv

(* Until the handshake is armed it has been triggered at most.             *)
LEMMA FreshAwait ==
  ASSUME IInv, NEW t \in Tasks, pc[t] \in InAwait
  PROVE  /\ Await(t) = <<t, ip[t]>> /\ Await(t) \in Past /\ Await(t) \in Awaits
         /\ hs[Await(t)] \in {"Init", "Triggered"} /\ ~Due(Await(t))
         /\ (IsSleep(Await(t)) <=> Op(t) = "sleep")
         /\ (Op(t) = "await" => Of(t) \in Tasks)
         /\ <<t, ip[t]>>[1] = t /\ <<t, ip[t]>>[2] = ip[t]
<1>1. /\ Await(t) = <<t, ip[t]>> /\ Await(t) \in Past /\ Await(t) \in Awaits
      /\ (IsSleep(Await(t)) <=> Op(t) = "sleep")
      /\ Op(t) = "await" => Of(t) \in DOMAIN program.body
  BY CurrentAwait DEF IInv, InAwait
<1>2. ShakeAt(Await(t)) /\ StateAt(t)
  BY <1>1 DEF IInv, Shakes, Ended
<1>3. Await(t)[1] = t /\ Await(t) \in Items
  BY <1>1, ItemKinds
<1>4. hs[Await(t)] \in {"Init", "Triggered"}
  BY <1>1, <1>2, <1>3 DEF ShakeAt, StateAt, InAwait, Left, IInv, Typed, TypeOK
<1>5. ~Due(Await(t))
  BY <1>1, <1>3, <1>4, ItemKinds DEF IInv, Ready
<1>6. Op(t) = "await" => Of(t) \in Tasks
  BY <1>1, BodyType DEF IInv, Typed, TypeOK
<1> QED BY <1>1, <1>4, <1>5, <1>6

(* add_completion_callback() of the awaited task: registered, or called at *)
(* once when it is done.                                                   *)
LEMMA RegisterStep ==
  ASSUME IInv, NEW w \in Workers, Register(w), UNCHANGED program, gauge' \in [Gauges -> Nat]
  PROVE  IInv'
<1>1. PICK t \in Tasks :
        /\ t = Top(w) /\ Works(w, t) /\ pc[t] = "register" /\ t \in DOMAIN program.body
        /\ WhereAt(t) /\ NumberAt(t) /\ StateAt(t) /\ StopsAt(t)
        /\ handoff[t] \in Nat /\ published[t] \in Nat
  BY AtFacts DEF Register
<1>2. /\ TaskType /\ AwaitType /\ QueueType /\ Typed /\ Single /\ w \in Threads
      /\ \A v \in Tasks : callbacks[v] \subseteq Past
  BY TypedParts, PastLists DEF IInv, Threads
<1>3. /\ UNCHANGED <<state, stop, ip, stopcb, published, timers, timerId, gmutex, stack, pending,
                     leaving, step, target, firing, immediate, cpc, cancelling, destroyed>>
      /\ \/ /\ stop[t] /\ pc' = [pc EXCEPT ![t] = "unwind"] /\ NoPost
            /\ UNCHANGED <<hs, cancelled, callbacks, handoff>>
         \/ ~stop[t] /\ ArmTask(w, t)
  BY <1>1 DEF Register, Goto, clock, workers, jobs, outside
<1>4. CASE stop[t] /\ pc' = [pc EXCEPT ![t] = "unwind"] /\ NoPost
           /\ UNCHANGED <<hs, cancelled, callbacks, handoff>>
  <2>1. stopcb' = stopcb \ {t} /\ Quiet
    BY <1>1, <1>3, <1>4 DEF StopsAt, Hooked, Quiet, NoPost
  <2> QED BY <1>1, <1>3, <1>4, <2>1, SimpleQuiet
<1>5. CASE ~stop[t] /\ ArmTask(w, t)
  <2>1. PICK a \in Past : /\ a = Await(t) /\ a = <<t, ip[t]>> /\ a \in Awaits /\ hs[a] \in {"Init", "Triggered"}
    BY <1>1, FreshAwait DEF InAwait
  <2>2. PICK u \in Tasks : u = Of(t)
    BY <1>1, FreshAwait DEF InAwait, WhereAt
  <2>3. /\ handoff' = [handoff EXCEPT ![t] = @ + 1] /\ pc' = [pc EXCEPT ![t] = "stopcb"]
        /\ AddCompletion(w, u, a)
    BY <1>5, <2>1, <2>2 DEF ArmTask, Goto
  <2>4. /\ pc'[t] = "stopcb" /\ handoff'[t] = handoff[t] + 1
        /\ \A v \in Tasks : v # t => pc'[v] = pc[v] /\ handoff'[v] = handoff[v]
        /\ handoff' \in [Tasks -> Nat]
    BY <1>2, <2>3 DEF TaskType
  <2>5. /\ Single' /\ QueueType'
        /\ hs' \in [Awaits -> {"Init", "Triggered", "Armed", "Resolved"}]
        /\ cancelled' \subseteq Awaits /\ callbacks' \in [Tasks -> SUBSET Past]
        /\ \A b \in Awaits : HsMove(b)
        /\ hs'[a] # "Resolved"
        /\ \A i \in Items : Due(i)' => Due(i) \/ (i \in Awaits /\ hs[i] = "Armed" /\ hs'[i] = "Resolved")
    <3>0. callbacks \in [Tasks -> SUBSET Past]
      BY <1>2 DEF AwaitType
    <3>1. CASE Trigger(w, a) /\ UNCHANGED callbacks
      BY <1>2, <1>3, <2>1, <3>0, <3>1, AdvanceStep DEF Trigger, AwaitType
    <3>2. CASE NoPost /\ UNCHANGED <<hs, cancelled>> /\ callbacks' = [callbacks EXCEPT ![u] = @ \cup {a}]
      <4>1. Single' /\ QueueType' /\ posts' = posts /\ \A i : Due(i)' => Due(i)
        BY <1>2, <1>3, <3>2, NoPostStep
      <4>2. \A b \in Awaits : HsMove(b)
        BY <3>2, <4>1, NoHsMove
      <4>3. callbacks' \in [Tasks -> SUBSET Past]
        BY <2>1, <3>0, <3>2
      <4> QED BY <1>2, <2>1, <3>2, <4>1, <4>2, <4>3 DEF AwaitType
    <3> QED BY <2>3, <3>1, <3>2 DEF AddCompletion
  <2>7. /\ Op(t)' = Op(t) /\ Begun(t)' = Begun(t) /\ Body(t)' = Body(t)
        /\ Await(t)' = <<t, ip[t]>>
    BY <1>3, SameOperation
  <2>8. WhereAt(t)'
    BY <1>1, <1>3, <2>4, <2>7 DEF WhereAt
  <2>9. NumberAt(t)'
    BY <1>1, <1>3, <2>4, <2>7 DEF NumberAt, Handed, WhereAt
  <2>10. StateAt(t)'
    BY <1>1, <1>3, <2>1, <2>4, <2>5, <2>7 DEF StateAt, Left, InAwait, Done, WhereAt
  <2>11. StopsAt(t)'
    BY <1>1, <1>3, <2>4 DEF StopsAt, Hooked, Left
  <2>12. Moves(t)
    BY <1>2, <1>3, <2>4, <2>8, <2>9 DEF Moves, Others, TaskType
  <2>13. "stopcb" \in Active /\ ip' \in [Tasks -> Nat] /\ state' \in [Tasks -> States] /\ stopcb' \subseteq Tasks
    BY <1>2, <1>3 DEF Active, Places, TaskType, AwaitType
  <2> QED BY <1>1, <1>3, <2>3, <2>4, <2>5, <2>10, <2>11, <2>12, <2>13, HandshakeStep
<1> QED BY <1>3, <1>4, <1>5

(* The stop callback is registered, or called at once when a stop was      *)
(* requested before.                                                       *)
LEMMA EmplaceStep ==
  ASSUME IInv, NEW w \in Workers, Emplace(w), UNCHANGED program, gauge' \in [Gauges -> Nat]
  PROVE  IInv'
<1>1. PICK t \in Tasks :
        /\ t = Top(w) /\ Works(w, t) /\ pc[t] = "stopcb" /\ t \in DOMAIN program.body
        /\ WhereAt(t) /\ NumberAt(t) /\ StateAt(t) /\ StopsAt(t)
        /\ handoff[t] \in Nat /\ published[t] \in Nat
  BY AtFacts DEF Emplace
<1>2. /\ TaskType /\ AwaitType /\ QueueType /\ Typed /\ Single /\ w \in Threads
      /\ \A v \in Tasks : callbacks[v] \subseteq Past
      /\ timers \subseteq {b \in Past : IsSleep(b)}
  BY TypedParts, PastLists DEF IInv, Threads
<1>3. PICK a \in Past : /\ a = Await(t) /\ a = <<t, ip[t]>> /\ a \in Awaits
                        /\ hs[a] \in {"Init", "Triggered"} /\ (IsSleep(a) <=> Op(t) = "sleep")
  BY <1>1, FreshAwait DEF InAwait
<1>4. /\ UNCHANGED <<state, stop, ip, callbacks, handoff, published, timers, timerId, gmutex, stack,
                     pending, leaving, step, target, firing, immediate, cpc, cancelling, destroyed>>
      /\ pc' = [pc EXCEPT ![t] = IF IsSleep(a) THEN "check" ELSE "suspend"]
      /\ \/ stop[t] /\ TriggerCancel(w, a) /\ UNCHANGED stopcb
         \/ ~stop[t] /\ stopcb' = stopcb \cup {t} /\ UNCHANGED <<hs, cancelled>> /\ NoPost
  BY <1>1, <1>3 DEF Emplace, Goto, clock, workers, jobs, outside
<1>5. PICK p \in {"check", "suspend"} : /\ pc' = [pc EXCEPT ![t] = p] /\ pc'[t] = p
                                        /\ p = "check" <=> Op(t) = "sleep"
                                        /\ \A v \in Tasks : v # t => pc'[v] = pc[v]
  BY <1>2, <1>3, <1>4 DEF TaskType
<1>6. /\ Single' /\ QueueType'
      /\ hs' \in [Awaits -> {"Init", "Triggered", "Armed", "Resolved"}]
      /\ cancelled' \subseteq Awaits
      /\ \A b \in Awaits : HsMove(b)
      /\ hs'[a] # "Resolved" /\ (stop[t] => hs'[a] = "Triggered")
      /\ \A i \in Items : Due(i)' => Due(i) \/ (i \in Awaits /\ hs[i] = "Armed" /\ hs'[i] = "Resolved")
  <2>1. CASE stop[t] /\ TriggerCancel(w, a)
    <3>1. Advance(w, a) /\ cancelled' \subseteq Awaits
      BY <1>2, <1>3, <2>1 DEF TriggerCancel, AwaitType
    <3>2. /\ hs'[a] # "Resolved" /\ hs'[a] \in {"Triggered", "Resolved"}
      BY <1>2, <1>3, <1>4, <3>1, AdvanceStep
    <3> QED BY <1>2, <1>4, <3>1, <3>2, AdvanceStep
  <2>2. CASE ~stop[t] /\ UNCHANGED <<hs, cancelled>> /\ NoPost
    <3>1. Single' /\ QueueType' /\ posts' = posts /\ \A i : Due(i)' => Due(i)
      BY <1>2, <1>4, <2>2, NoPostStep
    <3>2. \A b \in Awaits : HsMove(b)
      BY <2>2, <3>1, NoHsMove
    <3> QED BY <1>2, <1>3, <2>2, <3>1, <3>2 DEF AwaitType
  <2> QED BY <1>4, <2>1, <2>2
<1>7. /\ Op(t)' = Op(t) /\ Begun(t)' = Begun(t) /\ Body(t)' = Body(t)
      /\ Await(t)' = <<t, ip[t]>>
  BY <1>4, SameOperation
<1>8. WhereAt(t)'
  BY <1>1, <1>4, <1>5, <1>7 DEF WhereAt
<1>9. NumberAt(t)'
  BY <1>1, <1>4, <1>5, <1>7 DEF NumberAt, Handed
<1>10. StateAt(t)'
  BY <1>1, <1>3, <1>4, <1>5, <1>6, <1>7 DEF StateAt, Left, InAwait, Done
<1>11. StopsAt(t)'
  <2>1. t \notin stopcb /\ stop[t] \in BOOLEAN
    BY <1>1, <1>2 DEF StopsAt, Hooked, TaskType
  <2> QED BY <1>3, <1>4, <1>5, <1>6, <1>7, <2>1 DEF StopsAt, Hooked, Left
<1>12. Moves(t)
  BY <1>4, <1>2, <1>5, <1>8, <1>9 DEF Moves, Others, TaskType
<1>13. /\ p \in Active /\ p # "publish" /\ ip' \in [Tasks -> Nat] /\ state' \in [Tasks -> States]
       /\ handoff' \in [Tasks -> Nat]
       /\ stopcb' \subseteq Tasks /\ callbacks' \in [Tasks -> SUBSET Past]
       /\ (\A u \in stopcb' : u \in stopcb \/ ~stop[u])
       /\ \A u \in Tasks : u # t => (u \in stopcb' <=> u \in stopcb)
  BY <1>2, <1>4 DEF Active, Places, TaskType, AwaitType
<1> QED BY <1>1, <1>4, <1>5, <1>6, <1>10, <1>11, <1>12, <1>13, HandshakeStep

(* arm(): from Init to Armed, and from Triggered to Resolved with the post *)
(* done by the coroutine itself.                                           *)
LEMMA ArmStep ==
  ASSUME IInv, NEW w \in Workers, Arm(w), UNCHANGED program, gauge' \in [Gauges -> Nat]
  PROVE  IInv'
<1>1. PICK t \in Tasks :
        /\ t = Top(w) /\ Works(w, t) /\ pc[t] = "arm" /\ t \in DOMAIN program.body
        /\ WhereAt(t) /\ NumberAt(t) /\ StateAt(t) /\ StopsAt(t)
        /\ handoff[t] \in Nat /\ published[t] \in Nat
  BY AtFacts DEF Arm
<1>2. /\ TaskType /\ AwaitType /\ QueueType /\ Typed /\ Single /\ w \in Threads
      /\ \A v \in Tasks : callbacks[v] \subseteq Past
  BY TypedParts, PastLists DEF IInv, Threads
<1>3. PICK a \in Past : /\ a = Await(t) /\ a = <<t, ip[t]>> /\ a \in Awaits /\ a[1] = t /\ a[2] = ip[t]
                        /\ hs[a] \in {"Init", "Triggered"} /\ ~Due(a)
  BY <1>1, FreshAwait DEF InAwait
<1>4. /\ UNCHANGED <<state, stop, ip, cancelled, callbacks, stopcb, handoff, published, timers,
                     timerId, gmutex, stack, pending, leaving, step, target, firing, immediate,
                     cpc, cancelling, destroyed>>
      /\ pc' = [pc EXCEPT ![t] = "publish"]
      /\ \/ hs[a] = "Init" /\ hs' = [hs EXCEPT ![a] = "Armed"] /\ NoPost
         \/ hs[a] = "Triggered" /\ hs' = [hs EXCEPT ![a] = "Resolved"] /\ Post(w, a)
  BY <1>1, <1>3 DEF Arm, Goto, clock, workers, jobs, outside
<1>5. pc'[t] = "publish" /\ \A v \in Tasks : v # t => pc'[v] = pc[v]
  BY <1>2, <1>4 DEF TaskType
<1>6. /\ Single' /\ QueueType'
      /\ hs' \in [Awaits -> {"Init", "Triggered", "Armed", "Resolved"}]
      /\ \A b \in Awaits : HsMove(b)
      /\ hs'[a] \in {"Armed", "Resolved"} /\ (hs[a] = "Triggered" => hs'[a] = "Resolved")
      /\ \A i \in Items : Due(i)' => Due(i) \/ (i = a /\ hs'[i] = "Resolved")
  <2>1. CASE hs[a] = "Init" /\ hs' = [hs EXCEPT ![a] = "Armed"] /\ NoPost
    <3>1. Single' /\ QueueType' /\ posts' = posts /\ \A i : Due(i)' => Due(i)
      BY <1>2, <1>4, <2>1, NoPostStep
    <3>2. hs'[a] = "Armed" /\ \A b \in Awaits : b # a => hs'[b] = hs[b]
      BY <1>2, <1>3, <2>1 DEF AwaitType
    <3>3. \A b \in Awaits : HsMove(b)
      BY <1>1, <1>3, <1>4, <1>5, <2>1, <3>1, <3>2 DEF HsMove, Left
    <3>4. hs' \in [Awaits -> {"Init", "Triggered", "Armed", "Resolved"}]
      BY <1>2, <2>1 DEF AwaitType
    <3> QED BY <2>1, <3>1, <3>2, <3>3, <3>4
  <2>2. CASE hs[a] = "Triggered" /\ hs' = [hs EXCEPT ![a] = "Resolved"] /\ Post(w, a)
    <3>1. /\ Single' /\ QueueType' /\ posts'[a] = posts[a] + 1
          /\ \A b \in Awaits : b # a => posts'[b] = posts[b]
          /\ \A i \in Items : Due(i)' => Due(i) \/ i = a
      BY <1>2, <1>3, <1>4, <2>2, PostStep
    <3>2. hs'[a] = "Resolved" /\ \A b \in Awaits : b # a => hs'[b] = hs[b]
      BY <1>2, <1>3, <2>2 DEF AwaitType
    <3>3. \A b \in Awaits : HsMove(b)
      BY <1>1, <1>3, <1>4, <1>5, <2>2, <3>1, <3>2 DEF HsMove, Left
    <3>4. hs' \in [Awaits -> {"Init", "Triggered", "Armed", "Resolved"}]
      BY <1>2, <2>2 DEF AwaitType
    <3> QED BY <2>2, <3>1, <3>2, <3>3, <3>4
  <2> QED BY <1>4, <2>1, <2>2
<1>7. /\ Op(t)' = Op(t) /\ Begun(t)' = Begun(t) /\ Body(t)' = Body(t)
      /\ Await(t)' = <<t, ip[t]>>
  BY <1>4, SameOperation
<1>8. WhereAt(t)'
  BY <1>1, <1>4, <1>5, <1>7 DEF WhereAt
<1>9. NumberAt(t)'
  BY <1>1, <1>4, <1>5, <1>7 DEF NumberAt, Handed
<1>10. StateAt(t)'
  BY <1>1, <1>4, <1>5, <1>7 DEF StateAt, Left, InAwait, Done
<1>11. StopsAt(t)'
  BY <1>1, <1>3, <1>4, <1>5, <1>6, <1>7 DEF StopsAt, Hooked, Left
<1>12. Moves(t)
  BY <1>4, <1>2, <1>5, <1>8, <1>9 DEF Moves, Others, TaskType
<1>13. /\ "publish" \in Active /\ ip' \in [Tasks -> Nat] /\ state' \in [Tasks -> States]
       /\ handoff' \in [Tasks -> Nat] /\ cancelled' \subseteq Awaits
       /\ stopcb' \subseteq Tasks /\ callbacks' \in [Tasks -> SUBSET Past]
  BY <1>2, <1>4 DEF Active, Places, TaskType, AwaitType
<1>14. hs'[<<t, ip'[t]>>] \in {"Armed", "Resolved"}
  BY <1>3, <1>4, <1>6
<1>15. \A i \in Items : Due(i)' =>
           \/ Due(i) \/ (i \in Awaits /\ hs[i] = "Armed" /\ hs'[i] = "Resolved")
           \/ i \in Awaits /\ i = <<t, ip'[t]>> /\ hs'[i] = "Resolved" /\ "publish" = "publish"
  BY <1>3, <1>4, <1>6
<1> QED BY <1>1, <1>4, <1>5, <1>6, <1>10, <1>11, <1>12, <1>13, <1>14, <1>15, HandshakeStep

(* co_await yield(): suspended and posted by the coroutine itself, or      *)
(* unwound by a stop.                                                      *)
LEMMA YieldStep ==
  ASSUME IInv, NEW w \in Workers, Yield(w), UNCHANGED program, gauge' \in [Gauges -> Nat]
  PROVE  IInv'
<1>1. PICK t \in Tasks :
        /\ t = Top(w) /\ Works(w, t) /\ pc[t] = "body" /\ t \in DOMAIN program.body
        /\ ip[t] \in Nat /\ ip[t] < Len(Body(t)) /\ Len(Body(t)) \in Nat
        /\ Following(t) = Body(t)[ip[t] + 1] /\ Following(t).op = "yield"
        /\ <<t, ip[t] + 1>> \in Awaits
        /\ WhereAt(t) /\ NumberAt(t) /\ StateAt(t) /\ StopsAt(t)
        /\ handoff[t] \in Nat /\ published[t] \in Nat
  BY NextFacts DEF Yield
<1>2. /\ TaskType /\ AwaitType /\ QueueType /\ Typed /\ Single /\ w \in Threads
      /\ \A v \in Tasks : callbacks[v] \subseteq Past
      /\ timers \subseteq {b \in Past : IsSleep(b)}
  BY TypedParts, PastLists DEF IInv, Threads
<1>3. PICK a \in Awaits : a = <<t, ip[t] + 1>> /\ a[1] = t /\ a[2] = ip[t] + 1
  BY <1>1
<1>4. /\ UNCHANGED <<stop, cancelled, callbacks, stopcb, published, timers,
                     timerId, gmutex, stack, pending, leaving, step, target, firing, immediate,
                     cpc, cancelling, destroyed>>
      /\ ip' = [ip EXCEPT ![t] = @ + 1]
      /\ \/ /\ stop[t] /\ pc' = [pc EXCEPT ![t] = "unwind"] /\ NoPost
            /\ UNCHANGED <<state, hs, handoff, gauge>>
         \/ ~stop[t] /\ ArmYield(w, t, a)
  BY <1>1, <1>3 DEF Yield, Goto, Advanced, clock, workers, jobs, outside
<1>a. CASE /\ stop[t] /\ pc' = [pc EXCEPT ![t] = "unwind"] /\ NoPost
           /\ UNCHANGED <<state, hs, handoff, gauge>>
  <2>1. stopcb' = stopcb \ {t} /\ Quiet
    BY <1>1, <1>4, <1>a DEF StopsAt, Hooked, Quiet, NoPost
  <2> QED BY <1>1, <1>4, <1>a, <2>1, SimpleQuiet
<1>b. CASE ~stop[t] /\ ArmYield(w, t, a)
  <2>1. /\ state' = [state EXCEPT ![t] = "Suspended"] /\ handoff' = [handoff EXCEPT ![t] = @ + 1]
        /\ hs' = [hs EXCEPT ![a] = "Resolved"] /\ Post(w, a) /\ pc' = [pc EXCEPT ![t] = "publish"]
    BY <1>1, <1>b DEF ArmYield, ToSuspended, SetState, Goto, StateAt
  <2>2. /\ pc'[t] = "publish" /\ ip'[t] = ip[t] + 1 /\ state'[t] = "Suspended"
        /\ handoff'[t] = handoff[t] + 1 /\ hs'[a] = "Resolved"
        /\ \A v \in Tasks : v # t => /\ pc'[v] = pc[v] /\ ip'[v] = ip[v] /\ state'[v] = state[v]
                                     /\ handoff'[v] = handoff[v]
        /\ \A b \in Awaits : b # a => hs'[b] = hs[b]
        /\ ip' \in [Tasks -> Nat] /\ state' \in [Tasks -> States] /\ handoff' \in [Tasks -> Nat]
        /\ hs' \in [Awaits -> {"Init", "Triggered", "Armed", "Resolved"}]
    BY <1>2, <1>4, <2>1 DEF TaskType, AwaitType, States
  <2>3. hs[a] = "Init" /\ ~Due(a) /\ a \notin timers
    <3>1. ShakeAt(a) /\ a \in Items /\ a \notin Starts
      BY ItemKinds DEF IInv, Shakes
    <3>2. hs[a] = "Init"
      BY <1>1, <1>3, <3>1 DEF ShakeAt
    <3>3. a \notin timers
      BY <1>1, <1>2, <1>3 DEF Past
    <3> QED BY <3>1, <3>2, <3>3 DEF IInv, Ready
  <2>4. /\ Single' /\ QueueType' /\ posts'[a] = posts[a] + 1
        /\ \A b \in Awaits : b # a => posts'[b] = posts[b]
        /\ \A i \in Items : Due(i)' => Due(i) \/ i = a
    BY <1>2, <1>4, <2>1, <2>3, PostStep
  <2>5. ASSUME NEW b \in Awaits PROVE HsMove(b)
    <3>1. CASE b = a
      <4>1. b[2] = ip'[b[1]] /\ pc[b[1]] \notin Left /\ pc'[b[1]] = "publish"
        BY <1>1, <1>3, <2>2, <3>1 DEF Left
      <4>2. hs[b] = "Init" /\ hs'[b] = "Resolved" /\ posts'[b] = posts[b] + 1
        BY <2>2, <2>3, <2>4, <3>1
      <4> QED BY <4>1, <4>2 DEF HsMove
    <3>2. CASE b # a
      BY <2>2, <2>4, <3>2 DEF HsMove
    <3> QED BY <3>1, <3>2
  <2>6. /\ Op(t)' = "yield" /\ Body(t)' = Body(t) /\ Begun(t)'
        /\ Await(t)' = a
    BY <1>1, <1>3, <2>2 DEF Op, Body, Begun, Await
  <2>8. WhereAt(t)'
    BY <1>1, <2>2, <2>6 DEF WhereAt
  <2>9. NumberAt(t)'
    BY <1>1, <1>4, <2>2, <2>6 DEF NumberAt, Handed
  <2>10. StateAt(t)'
    BY <1>1, <1>4, <2>2, <2>6 DEF StateAt, Left, InAwait, Done
  <2>11. StopsAt(t)'
    BY <1>1, <1>4, <2>2, <2>3, <2>6 DEF StopsAt, Hooked, Left
  <2>12. Moves(t)
    BY <1>1, <1>4, <1>2, <2>2, <2>8, <2>9 DEF Moves, Others, TaskType
  <2>13. /\ "publish" \in Active /\ cancelled' \subseteq Awaits
         /\ stopcb' \subseteq Tasks /\ callbacks' \in [Tasks -> SUBSET Past]
    BY <1>2, <1>4 DEF Active, Places, AwaitType
  <2>14. hs'[<<t, ip'[t]>>] \in {"Armed", "Resolved"}
    BY <1>3, <2>2
  <2>15. \A i \in Items : Due(i)' =>
             \/ Due(i) \/ (i \in Awaits /\ hs[i] = "Armed" /\ hs'[i] = "Resolved")
             \/ i \in Awaits /\ i = <<t, ip'[t]>> /\ hs'[i] = "Resolved" /\ "publish" = "publish"
    BY <1>3, <2>2, <2>4
  <2>16. /\ \A u \in stopcb' : u \in stopcb \/ ~stop[u]
         /\ \A u \in Tasks : u # t => (u \in stopcb' <=> u \in stopcb)
         /\ pc[t] # "publish"
    BY <1>1, <1>4
  <2>17. UNCHANGED <<program, stop, published, timers, timerId, gmutex, stack, pending,
                     leaving, step, target, firing, immediate, cpc, cancelling, destroyed>>
    BY <1>4
  <2>18. /\ Works(w, t) /\ pc' = [pc EXCEPT ![t] = "publish"] /\ Single' /\ QueueType'
         /\ ip' \in [Tasks -> Nat] /\ state' \in [Tasks -> States] /\ handoff' \in [Tasks -> Nat]
         /\ hs' \in [Awaits -> {"Init", "Triggered", "Armed", "Resolved"}]
    BY <1>1, <2>1, <2>2, <2>4
  <2> QED BY <2>5, <2>10, <2>11, <2>12, <2>13, <2>14, <2>15, <2>16, <2>17, <2>18, HandshakeStep
<1> QED BY <1>4, <1>a, <1>b

(* A segment ends: it has published the suspension, or the body is over.    *)
LEMMA ExitStep ==
  ASSUME IInv, NEW w \in Workers, NEW t \in Tasks, Works(w, t), Moves(t), Segmented', Unspoilt',
         \/ pc[t] = "publish" /\ pc'[t] = "suspended"
         \/ pc[t] \notin Left /\ pc'[t] = "done" /\ t \notin stopcb,
         leaving' = leaving \cup {w},
         UNCHANGED <<program, stop, ip, hs, cancelled, stopcb, timers, timerId, global, local,
                     gmutex, stack, pending, slot, step, target, immediate, cpc, cancelling,
                     destroyed, posts>>,
         StateAt(t)', TaskType', gauge' \in [Gauges -> Nat],
         callbacks' \in [Tasks -> SUBSET Past], firing' \in [Threads -> SUBSET Past]
  PROVE  IInv'
<1>1. /\ AwaitType /\ TaskType /\ WorkerType /\ JobType /\ OutsideType
      /\ timers \cup cancelling \subseteq {b \in Past : IsSleep(b)} /\ Past \subseteq Awaits
  BY TypedParts, PastLists DEF IInv
<1>2. Single' /\ QueueType' /\ (\A i : Due(i)' => Due(i)) /\ \A b \in Awaits : HsMove(b)
  BY NoFlow, NoHsMove
<1>3. Where' /\ Numbers'
  BY MovesWhere DEF IInv
<1>4. ASSUME NEW u \in Tasks PROVE PcMove(u) /\ ip'[u] \in Nat /\ ip'[u] >= ip[u]
  <2>1. ip[u] \in Nat /\ ip'[u] = ip[u]
    BY <1>1 DEF TaskType
  <2>2. u # t => pc'[u] = pc[u]
    BY DEF Moves, Others
  <2> QED BY <2>1, <2>2 DEF PcMove, Left
<1>5. Shakes'
  BY <1>2, <1>4, ShakesStep
<1>6. Called'
  <2>1. /\ \A u \in Tasks : callbacks'[u] \subseteq Past
        /\ \A x \in Threads : firing'[x] \subseteq Past
    OBVIOUS
  <2> QED BY <1>1, <1>4, <2>1, CalledStep
<1>7. Ready'
  <2>1. ASSUME NEW i \in Items, Due(i)'
        PROVE  /\ Due(i) /\ ip'[i[1]] = ip[i[1]] /\ destroyed'[i[1]] = destroyed[i[1]]
               /\ pc'[i[1]] = pc[i[1]] \/ (pc[i[1]] = "publish" /\ pc'[i[1]] = "suspended")
    <3>1. Due(i) /\ i[1] \in Tasks
      BY <1>2, <2>1, ItemKinds DEF Items
    <3>2. CASE i[1] = t
      <4>1. pc[t] \in {"cold"} \cup Left
        BY <3>1, <3>2 DEF IInv, Ready
      <4>2. pc[t] # "cold"
        BY WorksFacts DEF Active
      <4> QED BY <3>1, <3>2, <4>1, <4>2 DEF Left
    <3>3. CASE i[1] # t
      BY <3>1, <3>3 DEF Moves, Others
    <3> QED BY <3>2, <3>3
  <2> QED BY <1>2, <2>1, ReadyStep
<1>8. Ended'
  BY <1>2, EndedStep DEF Moves
<1>9. Stops'
  <2>1. StopsAt(t) /\ Op(t)' = Op(t) /\ Await(t)' = Await(t)
    BY DEF IInv, Stops, Op, Body, Await
  <2>2. StopsAt(t)'
    BY <2>1 DEF StopsAt, Hooked, Left
  <2> QED BY <1>2, <2>2, StopsInner
<1>10. AwaitType' /\ JobType' /\ OutsideType'
  <2>1. callbacks' \in [Tasks -> SUBSET Awaits] /\ firing' \in [Threads -> SUBSET Awaits]
    BY <1>1
  <2> QED BY <1>1, <2>1 DEF AwaitType, JobType, OutsideType
<1>11. WorkerType'
  BY <1>1 DEF WorkerType, Works
<1>12. Typed'
  BY <1>2, <1>10, <1>11, TypedNext
<1> QED BY <1>2, <1>3, <1>5, <1>6, <1>7, <1>8, <1>9, <1>12 DEF IInv

(* publish_await_suspend(): the counter that begin_resume() waits for.     *)
LEMMA PublishSuspendStep ==
  ASSUME IInv, NEW w \in Workers, PublishSuspend(w), UNCHANGED program,
         gauge' \in [Gauges -> Nat]
  PROVE  IInv'
<1>1. PICK t \in Tasks :
        /\ t = Top(w) /\ Works(w, t) /\ pc[t] = "publish" /\ t \in DOMAIN program.body
        /\ WhereAt(t) /\ NumberAt(t) /\ StateAt(t) /\ ip[t] \in Nat
        /\ handoff[t] \in Nat /\ published[t] \in Nat
  BY AtFacts DEF PublishSuspend
<1>2. /\ TaskType /\ AwaitType /\ JobType
      /\ \A v \in Tasks : callbacks[v] \subseteq Past
      /\ \A y \in Threads : firing[y] \subseteq Past
  BY TypedParts, PastLists DEF IInv
<1>3. /\ UNCHANGED <<program, state, stop, ip, hs, cancelled, callbacks, stopcb, handoff, timers,
                     timerId, global, local, gmutex, stack, pending, slot, step, target, firing,
                     immediate, cpc, cancelling, destroyed, posts>>
      /\ pc' = [pc EXCEPT ![t] = "suspended"] /\ published' = [published EXCEPT ![t] = handoff[t]]
      /\ leaving' = leaving \cup {w}
  BY <1>1 DEF PublishSuspend, Goto, clock, queues, jobs, outside
<1>4. /\ pc'[t] = "suspended" /\ published'[t] = published[t] + 1 /\ handoff'[t] = published'[t]
      /\ \A u \in Tasks : u # t => pc'[u] = pc[u] /\ published'[u] = published[u]
      /\ TaskType'
  BY <1>1, <1>2, <1>3 DEF TaskType, NumberAt, Handed, Places
<1>5. Op(t)' = Op(t) /\ Begun(t)' = Begun(t) /\ Body(t)' = Body(t) /\ Await(t)' = Await(t)
  BY <1>3 DEF Op, Begun, Body, Await
<1>6. WhereAt(t)'
  BY <1>1, <1>3, <1>4, <1>5 DEF WhereAt
<1>7. NumberAt(t)'
  BY <1>1, <1>4, <1>5 DEF NumberAt, Handed
<1>8. StateAt(t)'
  BY <1>1, <1>3, <1>4, <1>5 DEF StateAt, Left, InAwait, Done
<1>9. Moves(t)
  BY <1>1, <1>3, <1>4, <1>6, <1>7 DEF Moves, Others
<1>10. Segmented'
  BY <1>1, <1>3, <1>4, <1>9, PublishSegmented
<1>11. Unspoilt'
  <2> SUFFICES ASSUME NEW v \in Workers, NEW k \in DOMAIN stack[v], Owner(v, k)'
               PROVE  destroyed[stack[v][k].task] = 0
    BY <1>3 DEF Unspoilt
  <2>1. stack[v][k].task \in Tasks /\ stack[v][k].before \in Nat
    BY FrameType DEF IInv
  <2>2. stack[v][k].before = published'[stack[v][k].task]
    BY <1>3 DEF Owner
  <2>3. SegmentAt(v, k, stack[v][k].task)'
    BY <1>3, <1>10 DEF Segmented
  <2>4. stack[v][k].task # t
    <3> SUFFICES ASSUME stack[v][k].task = t PROVE FALSE
      OBVIOUS
    <3>1. pc'[t] \notin Active /\ pc'[t] # "done"
      BY <1>4 DEF Active
    <3>2. stack[v][k].before < published'[t]
      BY <1>3, <2>3, <3>1 DEF SegmentAt
    <3> QED BY <2>1, <2>2, <3>2
  <2>5. Owner(v, k)
    BY <1>4, <2>1, <2>2, <2>4 DEF Owner
  <2> QED BY <2>5 DEF IInv, Unspoilt
<1>12. callbacks' \in [Tasks -> SUBSET Past] /\ firing' \in [Threads -> SUBSET Past]
  BY <1>2, <1>3 DEF AwaitType, JobType
<1> QED BY <1>1, <1>3, <1>4, <1>8, <1>9, <1>10, <1>11, <1>12, ExitStep

(* The end of a body: the terminal state, and the callbacks moved to the   *)
(* thread that calls them.                                                 *)
LEMMA FinishStep ==
  ASSUME IInv, NEW w \in Workers, Finish(w), UNCHANGED program, gauge' \in [Gauges -> Nat]
  PROVE  IInv'
<1>1. PICK t \in Tasks :
        /\ t = Top(w) /\ Works(w, t) /\ pc[t] \in {"body", "unwind", "error"}
        /\ t \in DOMAIN program.body /\ ip[t] \in Nat
        /\ WhereAt(t) /\ NumberAt(t) /\ StateAt(t) /\ StopsAt(t)
        /\ handoff[t] \in Nat /\ published[t] \in Nat
  BY AtFacts DEF Finish
<1>2. /\ TaskType /\ AwaitType /\ JobType /\ w \in Threads
      /\ \A v \in Tasks : callbacks[v] \subseteq Past
      /\ \A y \in Threads : firing[y] \subseteq Past
  BY TypedParts, PastLists DEF IInv, Threads
<1>3. /\ UNCHANGED <<program, stop, ip, hs, cancelled, stopcb, handoff, published, timers,
                     timerId, global, local, gmutex, stack, pending, slot, step, target,
                     immediate, cpc, cancelling, destroyed, posts>>
      /\ pc' = [pc EXCEPT ![t] = "done"] /\ state' = [state EXCEPT ![t] = Outcome(t)]
      /\ firing' = [firing EXCEPT ![w] = callbacks[t]]
      /\ callbacks' = [callbacks EXCEPT ![t] = {}]
      /\ leaving' = leaving \cup {w}
  BY <1>1 DEF Finish, Goto, SetState, clock, queues, outside
<1>4. Outcome(t) \in Terminal
  BY DEF Outcome, Terminal
<1>5. /\ pc'[t] = "done" /\ state'[t] \in Terminal
      /\ \A u \in Tasks : u # t => pc'[u] = pc[u] /\ state'[u] = state[u]
      /\ TaskType'
  BY <1>2, <1>3, <1>4 DEF TaskType, Places, States
<1>6. Op(t)' = Op(t) /\ Begun(t)' = Begun(t) /\ Body(t)' = Body(t) /\ Await(t)' = Await(t)
  BY <1>3 DEF Op, Begun, Body, Await
<1>7. WhereAt(t)'
  BY <1>1, <1>3, <1>5, <1>6 DEF WhereAt
<1>8. NumberAt(t)'
  BY <1>1, <1>3, <1>5, <1>6 DEF NumberAt, Handed
<1>9. StateAt(t)'
  BY <1>1, <1>3, <1>5, <1>6 DEF StateAt, Left, InAwait, Done
<1>10. Moves(t)
  BY <1>1, <1>3, <1>5, <1>7, <1>8 DEF Moves, Others
<1>11. Segmented'
  BY <1>1, <1>3, <1>5, <1>10, FinishSegmented
<1>12. Unspoilt'
  BY <1>3 DEF IInv, Unspoilt, Owner
<1>13. callbacks' \in [Tasks -> SUBSET Past] /\ firing' \in [Threads -> SUBSET Past]
  BY <1>2, <1>3 DEF AwaitType, JobType
<1>14. t \notin stopcb /\ pc[t] \notin Left
  BY <1>1 DEF StopsAt, Hooked, Left
<1> QED BY <1>1, <1>3, <1>5, <1>9, <1>10, <1>11, <1>12, <1>13, <1>14, ExitStep

(* The item that a worker begins with is ready no more.                    *)
LEMMA TakenStep ==
  ASSUME IInv, NEW w \in Workers, NEW d \in Items, pending[w] = d,
         pending' = [pending EXCEPT ![w] = None],
         UNCHANGED <<global, local, slot>>
  PROVE  /\ Single' /\ pending' \in [Workers -> Items \cup {None}] /\ pending'[w] = None
         /\ \A v \in Workers : v # w => pending'[v] = pending[v]
         /\ \A i : Due(i)' => Due(i) \/ i = None
         /\ ~Due(d)'
<1>1. WorkerType /\ Single /\ QueueType
  BY TypedParts DEF IInv
<1>2. /\ pending' \in [Workers -> Items \cup {None}] /\ pending'[w] = None
      /\ \A v \in Workers : v # w => pending'[v] = pending[v]
  BY <1>1 DEF WorkerType
<1>3. Single'
  <2>1. ASSUME NEW v \in Workers, pending'[v] # None
        PROVE  /\ pending'[v] \notin global \cup local
               /\ \A x \in Workers : pending'[x] = pending'[v] => x = v
    BY <1>1, <1>2, <2>1 DEF Single
  <2>2. ASSUME NEW v \in Workers, slot[v] # None
        PROVE  /\ slot[v].item \notin global \cup local
               /\ \A x \in Workers : /\ pending'[x] # slot[v].item
                                     /\ slot[x] # None /\ slot[x].item = slot[v].item => x = v
    <3>1. slot[v].item # None
      BY <1>1, <2>2, ItemKinds DEF QueueType, SlotType
    <3> QED BY <1>1, <1>2, <2>2, <3>1 DEF Single
  <2>3. global \cap local = {}
    BY <1>1 DEF Single
  <2> QED BY <2>1, <2>2, <2>3 DEF Single
<1>4. \A i : Due(i)' => Due(i) \/ i = None
  BY <1>2 DEF Due
<1>5. ~Due(d)'
  BY <1>1, <1>2, ItemKinds DEF Due, Single
<1> QED BY <1>2, <1>3, <1>4, <1>5

(* What a worker has claimed.                                              *)
LEMMA ClaimedFacts ==
  ASSUME IInv, NEW w \in Workers, pending[w] \in Items
  PROVE  /\ pending[w] # None /\ w \notin leaving /\ Due(pending[w])
         /\ pending[w][1] \in Tasks
         /\ pending[w] \in Starts => /\ pending[w] = <<pending[w][1], 0>>
                                     /\ pending[w][1] \in DOMAIN program.body
                                     /\ pc[pending[w][1]] = "cold" /\ destroyed[pending[w][1]] = 0
         /\ pending[w] \in Awaits => /\ pending[w] = <<pending[w][1], ip[pending[w][1]]>>
                                     /\ hs[pending[w]] = "Resolved"
                                     /\ pc[pending[w][1]] \in Left
<1>1. pending[w] # None /\ Due(pending[w])
  BY ItemKinds DEF Due
<1>2. w \notin leaving
  BY <1>1 DEF IInv, Typed
<1>3. \/ /\ pending[w] \in Starts /\ pending[w][1] \in DOMAIN program.body
         /\ pc[pending[w][1]] = "cold" /\ destroyed[pending[w][1]] = 0
      \/ /\ pending[w] \in Awaits /\ pending[w][2] = ip[pending[w][1]]
         /\ hs[pending[w]] = "Resolved" /\ pc[pending[w][1]] \in Left
  BY <1>1 DEF IInv, Ready
<1> QED BY <1>1, <1>2, <1>3, ItemKinds

(* A segment begins: the frame of the task is pushed.                      *)
LEMMA PushStep ==
  ASSUME IInv, NEW w \in Workers, pending[w] \in Items, NEW t \in Tasks, t = pending[w][1],
         \/ pc[t] = "cold" /\ pc' = [pc EXCEPT ![t] = "body"]
         \/ pc[t] = "suspended" /\ pc' = [pc EXCEPT ![t] = "resumed"],
         t \in DOMAIN program.body,
         state'= [state EXCEPT ![t] = "Running"], pending' = [pending EXCEPT ![w] = None],
         stack' = [stack EXCEPT ![w] = Append(@, [task |-> t, before |-> handoff[t]])],
         UNCHANGED <<program, stop, ip, hs, cancelled, callbacks, stopcb, handoff, published,
                     timers, timerId, global, local, gmutex, leaving, slot, step, target, firing,
                     immediate, cpc, cancelling, destroyed, posts>>,
         gauge' \in [Gauges -> Nat]
  PROVE  IInv'
<1>1. /\ AwaitType /\ TaskType /\ WorkerType /\ JobType /\ OutsideType /\ QueueType
      /\ \A v \in Tasks : callbacks[v] \subseteq Past
      /\ \A y \in Threads : firing[y] \subseteq Past
      /\ timers \cup cancelling \subseteq {b \in Past : IsSleep(b)}
  BY TypedParts, PastLists DEF IInv
<1>2. /\ WhereAt(t) /\ NumberAt(t) /\ StateAt(t) /\ StopsAt(t) /\ ip[t] \in Nat
      /\ Len(Body(t)) \in Nat /\ handoff[t] \in Nat /\ published[t] \in Nat
  BY <1>1, BodyType DEF IInv, Where, Numbers, Ended, Stops, TaskType, OutsideType
<1>3. /\ w \notin leaving /\ pending[w] # None
      /\ pc[t] = "cold" => pending[w] = <<t, 0>> /\ pending[w] \in Starts
      /\ pc[t] = "suspended" => pending[w] = <<t, ip[t]>> /\ hs[<<t, ip[t]>>] = "Resolved"
                                /\ pending[w] \in Awaits
  BY ClaimedFacts, ItemKinds DEF Items, Left
<1>4. /\ pc'[t] = IF pc[t] = "cold" THEN "body" ELSE "resumed"
      /\ state'[t] = "Running"
      /\ \A u \in Tasks : u # t => pc'[u] = pc[u] /\ state'[u] = state[u]
      /\ TaskType'
  BY <1>1 DEF TaskType, Places, States
<1>5. Op(t)' = Op(t) /\ Begun(t)' = Begun(t) /\ Body(t)' = Body(t) /\ Await(t)' = Await(t)
  BY DEF Op, Begun, Body, Await
<1>6. destroyed[t] = 0
  BY <1>2, <1>3, ClaimedFacts, ItemKinds DEF StateAt
<1>7. WhereAt(t)'
  BY <1>2, <1>4, <1>5 DEF WhereAt
<1>8. NumberAt(t)'
  BY <1>2, <1>4, <1>5 DEF NumberAt, Handed
<1>9. StateAt(t)'
  BY <1>2, <1>4, <1>5, <1>6 DEF StateAt, Left, InAwait, Done
<1>10. StopsAt(t)'
  BY <1>2, <1>4, <1>5 DEF StopsAt, Hooked, Left
<1>11. Moves(t)
  BY <1>2, <1>4, <1>7, <1>8 DEF Moves, Others
<1>12. Segmented' /\ Unspoilt'
  <2>1. pc[t] \in {"cold", "suspended"} /\ pc'[t] \in Active /\ destroyed'[t] = 0
    BY <1>4, <1>6 DEF Active, Places
  <2> QED BY <1>3, <1>6, <1>11, <2>1, BeginSegmented
<1>13. /\ Single' /\ pending' \in [Workers -> Items \cup {None}] /\ pending'[w] = None
       /\ \A v \in Workers : v # w => pending'[v] = pending[v]
       /\ \A i : Due(i)' => Due(i) \/ i = None
       /\ \A d \in Items : d = pending[w] => ~Due(d)'
  BY TakenStep
<1>14. Where' /\ Numbers' /\ \A b \in Awaits : HsMove(b)
  BY <1>11, MovesWhere, NoHsMove DEF IInv
<1>15. ASSUME NEW u \in Tasks PROVE PcMove(u) /\ ip'[u] \in Nat /\ ip'[u] >= ip[u]
  <2>1. ip[u] \in Nat /\ ip'[u] = ip[u]
    BY <1>1 DEF TaskType
  <2>2. CASE u = t
    BY <1>3, <1>4, <2>1, <2>2 DEF PcMove, Left
  <2>3. CASE u # t
    BY <1>4, <2>1, <2>3 DEF PcMove
  <2> QED BY <2>1, <2>2, <2>3
<1>16. Shakes'
  BY <1>14, <1>15, ShakesStep
<1>17. Called'
  BY <1>1, <1>15, CalledStep
<1>18. Ready'
  <2>1. ASSUME NEW i \in Items, Due(i)'
        PROVE  /\ Due(i) /\ ip'[i[1]] = ip[i[1]] /\ destroyed'[i[1]] = destroyed[i[1]]
               /\ pc'[i[1]] = pc[i[1]]
    <3>1. Due(i) /\ i[1] \in Tasks /\ i # pending[w]
      BY <1>13, <2>1, ItemKinds DEF Items
    <3>2. i[1] # t
      <4> SUFFICES ASSUME i[1] = t PROVE FALSE
        OBVIOUS
      <4>1. \/ i \in Starts /\ pc[t] = "cold"
            \/ i \in Awaits /\ i[2] = ip[t] /\ pc[t] \in Left
        BY <3>1 DEF IInv, Ready
      <4>2. CASE i \in Starts /\ pc[t] = "cold"
        BY <1>3, <3>1, <4>2, ItemKinds
      <4>3. CASE i \in Awaits /\ i[2] = ip[t] /\ pc[t] \in Left
        <5>1. i = <<t, ip[t]>> /\ pc[t] = "suspended"
          BY <4>3, ItemKinds DEF Left
        <5> QED BY <1>3, <3>1, <5>1
      <4> QED BY <4>1, <4>2, <4>3
    <3> QED BY <1>4, <3>1, <3>2
  <2> QED BY <1>14, <2>1, ReadyStep
<1>19. Ended'
  BY <1>9, <1>11, <1>14, EndedStep DEF Moves
<1>20. Stops'
  BY <1>10, <1>11, <1>14, StopsInner
<1>21. WorkerType' /\ QueueType'
  <2>1. /\ [task |-> t, before |-> handoff[t]] \in Frames
        /\ stack \in [Workers -> Seq(Frames)]
    BY <1>1, <1>2 DEF WorkerType, Frames
  <2>2. /\ stack' \in [Workers -> Seq(Frames)]
        /\ DOMAIN stack[w] = 1 .. Len(stack[w]) /\ DOMAIN stack'[w] = 1 .. Len(stack[w]) + 1
        /\ Len(stack[w]) \in Nat
        /\ \A k \in DOMAIN stack[w] : stack'[w][k] = stack[w][k]
        /\ stack'[w] # <<>>
        /\ \A v \in Workers : v # w => stack'[v] = stack[v]
    BY <2>1, PushFacts
  <2>3. ASSUME NEW v \in Workers, NEW k \in DOMAIN stack[v]
        PROVE  k \in DOMAIN stack'[v] /\ stack'[v][k] = stack[v][k]
    BY <2>2
  <2>4. ASSUME NEW v \in Workers, slot[v] # None
        PROVE  \E k \in DOMAIN stack'[v] : stack'[v][k].task = slot[v].owner
    <3>1. PICK k \in DOMAIN stack[v] : stack[v][k].task = slot[v].owner
      BY <1>1, <2>4 DEF QueueType, SlotType
    <3> QED BY <2>3, <3>1
  <2>5. QueueType'
    BY <1>1, <2>4 DEF QueueType, SlotType
  <2>6. WorkerType'
    BY <1>1, <1>3, <1>13, <2>2 DEF WorkerType
  <2> QED BY <2>5, <2>6
<1>22. AwaitType' /\ JobType' /\ OutsideType'
  BY <1>1 DEF AwaitType, JobType, OutsideType
<1>23. Typed'
  BY <1>4, <1>21, <1>22, TypedNext
<1> QED BY <1>12, <1>13, <1>14, <1>16, <1>17, <1>18, <1>19, <1>20, <1>23 DEF IInv

(* A worker begins with a resume: begin_resume() waits for the             *)
(* publication, then the frame is pushed.                                  *)
LEMMA BeginResumeStep ==
  ASSUME IInv, NEW w \in Workers, BeginResume(w), UNCHANGED program, gauge' \in [Gauges -> Nat]
  PROVE  IInv'
<1>1. /\ pending[w] \in Awaits /\ pending[w] \in Items
      /\ pending' = [pending EXCEPT ![w] = None]
  BY ItemKinds DEF BeginResume
<1>2. PICK t \in Tasks : t = pending[w][1]
  BY <1>1, ItemKinds
<1>3. /\ NumberAt(t) /\ StateAt(t) /\ WhereAt(t) /\ handoff[t] \in Nat /\ published[t] \in Nat
      /\ state \in [Tasks -> States]
  BY DEF IInv, Numbers, Ended, Where, Typed, TypeOK
<1>4. pc[t] \in Left
  BY <1>1, <1>2, ClaimedFacts
<1>5. /\ published[t] >= handoff[t] /\ pc' = [pc EXCEPT ![t] = "resumed"]
      /\ state' = IF state[t] = "Suspended" THEN [state EXCEPT ![t] = "Running"] ELSE state
      /\ stack' = [stack EXCEPT ![w] = Append(@, [task |-> t, before |-> handoff[t]])]
      /\ UNCHANGED <<stop, ip, hs, cancelled, callbacks, stopcb, handoff, published,
                     timers, timerId, global, local, gmutex, leaving, slot, step, target, firing,
                     immediate, cpc, cancelling, destroyed, posts>>
  BY <1>2 DEF BeginResume, Goto, Pushed, awaits, clock, queues, jobs, outside
<1>6. pc[t] = "suspended"
  <2>1. pc[t] # "publish"
    BY <1>3, <1>5 DEF NumberAt, Handed
  <2> QED BY <1>4, <2>1 DEF Left
<1>7. state[t] = "Suspended" /\ t \in DOMAIN program.body
  BY <1>3, <1>6 DEF StateAt, WhereAt, Left
<1> QED BY <1>1, <1>2, <1>5, <1>6, <1>7, PushStep

(* A worker begins with a start: it runs it, cancels it under Immediate,   *)
(* or drops a task that was cancelled before.                              *)
LEMMA BeginStartStep ==
  ASSUME IInv, NEW w \in Workers, BeginStart(w), UNCHANGED program, gauge' \in [Gauges -> Nat]
  PROVE  IInv'
<1>1. /\ pending[w] \in Starts /\ pending[w] \in Items
      /\ pending' = [pending EXCEPT ![w] = None]
  BY ItemKinds DEF BeginStart
<1>2. PICK t \in Tasks : t = pending[w][1]
  BY <1>1, ItemKinds
<1>3. /\ pending[w] # None /\ w \notin leaving /\ Due(pending[w]) /\ pending[w] = <<t, 0>>
      /\ t \in DOMAIN program.body /\ pc[t] = "cold" /\ destroyed[t] = 0
  BY <1>1, <1>2, ClaimedFacts
<1>4. /\ AwaitType /\ TaskType /\ WorkerType /\ JobType /\ OutsideType /\ QueueType /\ w \in Threads
      /\ StateAt(t) /\ ip[t] \in Nat
      /\ \A v \in Tasks : callbacks[v] \subseteq Past
      /\ \A y \in Threads : firing[y] \subseteq Past
      /\ timers \cup cancelling \subseteq {b \in Past : IsSleep(b)}
  BY TypedParts, PastLists DEF IInv, Ended, TaskType, Threads
<1>5. UNCHANGED <<ip, hs, cancelled, callbacks, stopcb, handoff, published, timers, timerId,
                  global, local, gmutex, leaving, slot, immediate, cpc, cancelling, posts>>
  BY DEF BeginStart, awaits, clock, queues, outside
<1>6. /\ Single' /\ pending' \in [Workers -> Items \cup {None}] /\ pending'[w] = None
      /\ \A v \in Workers : v # w => pending'[v] = pending[v]
      /\ \A i : Due(i)' => Due(i) \/ i = None
      /\ \A d \in Items : d = pending[w] => ~Due(d)'
  BY <1>1, <1>5, TakenStep
<1>7. /\ \A b \in Awaits : HsMove(b)
      /\ AwaitType' /\ OutsideType'
  BY <1>4, <1>5, NoHsMove DEF AwaitType, OutsideType
<1>8. ASSUME UNCHANGED stack PROVE QueueType' /\ WorkerType'
  BY <1>4, <1>5, <1>6, <1>8 DEF QueueType, SlotType, WorkerType
<1>9. CASE CancelBegin(w, t) /\ UNCHANGED <<state, pc, stack, destroyed>>
  <2>1. /\ JobType' /\ stop' \in [Tasks -> BOOLEAN] /\ firing' = firing /\ Calling'
        /\ \A v \in Tasks : stop[v] => stop'[v]
    BY <1>3, <1>4, <1>5, <1>9, CancelBeginStep
  <2>2. Where' /\ Numbers' /\ Segmented' /\ Ready' /\ Shakes' /\ Called' /\ Ended' /\ Unspoilt'
    <3>1. \A i \in Items : Due(i)' => Due(i)
      BY <1>6, ItemKinds
    <3> QED BY <1>4, <1>5, <1>7, <1>9, <2>1, <3>1, StillStep
  <2>3. Stops'
    <3>1. \A v \in Tasks : StopsAt(v)'
      BY <1>5, <1>7, <1>9, <2>1, StopsKept
    <3> QED BY <2>1, <3>1 DEF Stops
  <2>4. TaskType'
    BY <1>4, <1>5, <1>9, <2>1 DEF TaskType
  <2>5. Typed'
    BY <1>7, <1>8, <1>9, <2>1, <2>4, TypedNext
  <2> QED BY <1>6, <2>2, <2>3, <2>5 DEF IInv
<1>10. CASE /\ TryStart(t) /\ Goto(t, "body") /\ Pushed(w, t)
            /\ UNCHANGED <<stop, step, target, firing, destroyed>>
  BY <1>1, <1>2, <1>3, <1>5, <1>10, PushStep DEF TryStart, Goto, Pushed, SetState
<1>11. CASE /\ state[t] # "Ready" /\ destroyed' = [destroyed EXCEPT ![t] = @ + 1]
            /\ UNCHANGED <<state, pc, stop, stack, step, target, firing>>
  <2>1. /\ destroyed'[t] = 1 /\ \A u \in Tasks : u # t => destroyed'[u] = destroyed[u]
        /\ TaskType'
    BY <1>3, <1>4, <1>5, <1>11 DEF TaskType
  <2>2. Where' /\ Numbers' /\ Segmented'
    BY <1>5, <1>11, StillSegmented
       DEF IInv, Where, WhereAt, Begun, Op, Body, Numbers, NumberAt, Handed
  <2>3. Shakes' /\ Called'
    <3>1. \A u \in Tasks : ip[u] \in Nat
      BY <1>4 DEF TaskType
    <3> QED BY <1>4, <1>5, <1>7, <1>11, <3>1, ShakesStep, CalledStep DEF PcMove
  <2>4. StateAt(t)'
    <3>1. Done(t)'
      BY <1>3, <1>4, <1>11 DEF StateAt, Done, Terminal
    <3> QED BY <1>3, <1>4, <1>5, <1>11, <2>1, <3>1 DEF StateAt, Left, InAwait
  <2>5. Ended'
    BY <1>5, <1>7, <1>11, <2>1, <2>4, EndedStep DEF Others
  <2>6. Ready'
    <3>1. ASSUME NEW i \in Items, Due(i)' PROVE Due(i) /\ destroyed'[i[1]] = destroyed[i[1]]
      <4>1. Due(i) /\ i[1] \in Tasks /\ i # pending[w]
        BY <1>6, <3>1, ItemKinds DEF Items
      <4>2. i[1] # t
        <5> SUFFICES ASSUME i[1] = t PROVE FALSE
          OBVIOUS
        <5>1. i \in Starts
          BY <1>3, <4>1 DEF IInv, Ready, Left
        <5> QED BY <1>3, <4>1, <5>1, ItemKinds
      <4> QED BY <2>1, <4>1, <4>2
    <3> QED BY <1>5, <1>7, <1>11, <3>1, ReadyStep
  <2>7. Unspoilt'
    <3> SUFFICES ASSUME NEW v \in Workers, NEW k \in DOMAIN stack[v], Owner(v, k)'
                 PROVE  destroyed'[stack[v][k].task] = 0
      BY <1>11 DEF Unspoilt
    <3>1. PICK u \in Tasks : u = stack[v][k].task
      BY FrameType DEF IInv
    <3>2. Owner(v, k) /\ SegmentAt(v, k, u)
      BY <1>5, <1>11, <3>1 DEF Owner, IInv, Segmented
    <3>3. u # t
      BY <1>3, <3>2 DEF SegmentAt
    <3> QED BY <1>11, <2>1, <3>1, <3>2, <3>3 DEF IInv, Unspoilt
  <2>8. Stops'
    BY <1>5, <1>7, <1>11, StopsStill
  <2>9. JobType'
    BY <1>4, <1>11 DEF JobType
  <2>10. Typed'
    BY <1>7, <1>8, <1>11, <2>1, <2>9, TypedNext
  <2> QED BY <1>6, <2>2, <2>3, <2>5, <2>6, <2>7, <2>8, <2>10 DEF IInv
<1> QED BY <1>2, <1>9, <1>10, <1>11 DEF BeginStart, jobs

(* The slot of the worker is flushed when its innermost segment is over.   *)
LEMMA FlushStep ==
  ASSUME IInv, NEW w \in Workers, stack[w] # <<>>, Popped(w), Flush(w),
         UNCHANGED <<global, pending, posts>>
  PROVE  Single' /\ QueueType' /\ \A i : Due(i)' => Due(i)
<1>1. QueueType /\ SlotType /\ Single /\ Typed
  BY TypedParts DEF IInv, QueueType
<1>2. /\ stack' \in [Workers -> Seq(Frames)]
      /\ Len(stack[w]) \in Nat \ {0} /\ stack'[w] = Front(stack[w])
      /\ Len(stack'[w]) = Len(stack[w]) - 1 /\ DOMAIN stack'[w] = 1 .. Len(stack[w]) - 1
      /\ \A v \in Workers : v # w => stack'[v] = stack[v]
  BY <1>1, PopFacts DEF Popped
<1>3. slot \in [Workers -> [item : Awaits, owner : Tasks] \cup {None}] /\ stack'[w] \in Seq(Frames)
  BY <1>1, <1>2 DEF SlotType
<1>4. CASE slot[w] = None /\ UNCHANGED <<slot, local>>
  <2>1. Single' /\ \A i : Due(i)' => Due(i)
    BY <1>1, <1>4 DEF Single, Due
  <2>2. SlotType'
    BY <1>1, <1>2, <1>4 DEF SlotType
  <2> QED BY <1>1, <1>4, <2>1, <2>2 DEF QueueType
<1>5. CASE slot[w] # None /\ local' = local \cup {slot[w].item} /\ slot' = [slot EXCEPT ![w] = None]
  <2>1. slot'[w] = None /\ \A v \in Workers : v # w => slot'[v] = slot[v]
    BY <1>3, <1>5
  <2>2. slot[w].item \in Awaits /\ slot' \in [Workers -> [item : Awaits, owner : Tasks] \cup {None}]
    BY <1>3, <1>5
  <2>3. SlotType'
    BY <1>1, <1>2, <2>1, <2>2 DEF SlotType
  <2>4. \A i : Due(i)' => Due(i)
    BY <1>5, <2>1 DEF Due
  <2>5. Single'
    <3>1. global' \cap local' = {}
      BY <1>1, <1>5 DEF Single
    <3>2. ASSUME NEW v \in Workers, pending'[v] # None
          PROVE  /\ pending'[v] \notin global' \cup local'
                 /\ \A x \in Workers : pending'[x] = pending'[v] => x = v
      BY <1>1, <1>5, <3>2 DEF Single
    <3>3. ASSUME NEW v \in Workers, slot'[v] # None
          PROVE  /\ slot'[v].item \notin global' \cup local'
                 /\ \A x \in Workers : /\ pending'[x] # slot'[v].item
                                       /\ slot'[x] # None /\ slot'[x].item = slot'[v].item => x = v
      <4>1. v # w /\ slot'[v] = slot[v]
        BY <2>1, <3>3
      <4>2. slot[v].item # slot[w].item
        BY <1>1, <1>5, <3>3, <4>1 DEF Single
      <4> QED BY <1>1, <1>5, <2>1, <3>3, <4>1, <4>2 DEF Single
    <3> QED BY <3>1, <3>2, <3>3 DEF Single
  <2> QED BY <1>1, <2>2, <2>3, <2>4, <2>5, <1>5 DEF QueueType
<1>6. CASE /\ slot[w] # None /\ Front(stack[w]) # <<>> /\ UNCHANGED local
           /\ slot' = [slot EXCEPT ![w].owner = Last(Front(stack[w])).task]
  <2>1. stack'[w] # <<>> /\ Len(stack'[w]) \in DOMAIN stack'[w]
    BY <1>2, <1>3, <1>6
  <2>2. PICK t \in Tasks : /\ t = Last(stack'[w]).task
                           /\ \E k \in DOMAIN stack'[w] : stack'[w][k].task = t
    <3>1. stack'[w][Len(stack'[w])] \in Frames
      BY <1>3, <2>1
    <3> QED BY <2>1, <3>1 DEF Last, Frames
  <2>3. slot' = [slot EXCEPT ![w].owner = t]
    BY <1>2, <1>6, <2>2
  <2>4. PICK r \in [item : Awaits, owner : Tasks] : slot[w] = r
    BY <1>3, <1>6
  <2>5. /\ slot' = [slot EXCEPT ![w] = [r EXCEPT !.owner = t]]
        /\ [r EXCEPT !.owner = t] \in [item : Awaits, owner : Tasks]
        /\ [r EXCEPT !.owner = t].item = r.item
        /\ [r EXCEPT !.owner = t].owner = t
    BY <2>3, <2>4
  <2>6. /\ slot'[w].item = slot[w].item /\ slot'[w].owner = t
        /\ \A v \in Workers : v # w => slot'[v] = slot[v]
        /\ slot' \in [Workers -> [item : Awaits, owner : Tasks] \cup {None}]
    BY <1>3, <2>4, <2>5
  <2>7. SlotType'
    BY <1>1, <1>2, <2>2, <2>6 DEF SlotType
  <2>8. \A v \in Workers : slot'[v] # None => slot[v] # None /\ slot'[v].item = slot[v].item
    BY <1>6, <2>6
  <2>9. Single' /\ \A i : Due(i)' => Due(i)
    BY <1>1, <1>6, <2>8 DEF Single, Due
  <2> QED BY <1>1, <1>6, <2>7, <2>9 DEF QueueType
<1> QED BY <1>4, <1>5, <1>6 DEF Flush

(* A segment returns to execute_one(): the deferred slot is flushed, and   *)
(* the frame is destroyed when the body is over.                           *)
LEMMA LeaveStep ==
  ASSUME IInv, NEW w \in Workers, Leave(w), UNCHANGED program, gauge' \in [Gauges -> Nat]
  PROVE  IInv'
<1>1. /\ AwaitType /\ TaskType /\ WorkerType /\ JobType /\ OutsideType /\ Typed
      /\ \A v \in Tasks : callbacks[v] \subseteq Past
      /\ \A y \in Threads : firing[y] \subseteq Past
      /\ timers \cup cancelling \subseteq {b \in Past : IsSleep(b)}
  BY TypedParts, PastLists DEF IInv
<1>2. w \in leaving /\ stack[w] # <<>>
  BY <1>1 DEF Leave, WorkerType
<1>3. PICK t \in Tasks : /\ t = Top(w) /\ stack[w][Len(stack[w])].task = t
                         /\ Last(stack[w]) = stack[w][Len(stack[w])]
                         /\ Len(stack[w]) \in DOMAIN stack[w]
  BY <1>1, <1>2, TopType
<1>4. /\ UNCHANGED <<state, stop, pc, ip, hs, cancelled, callbacks, stopcb, handoff, published,
                     timers, timerId, global, gmutex, pending, step, target, firing, immediate,
                     cpc, cancelling, posts>>
      /\ leaving' = leaving \ {w} /\ Popped(w) /\ Flush(w)
      /\ \/ UNCHANGED destroyed
         \/ /\ handoff[t] = stack[w][Len(stack[w])].before /\ pc[t] = "done"
            /\ destroyed' = [destroyed EXCEPT ![t] = @ + 1]
  BY <1>3 DEF Leave, tasks, awaits, clock, jobs, outside
<1>5. Single' /\ QueueType' /\ \A i : Due(i)' => Due(i)
  BY <1>2, <1>4, FlushStep
<1>6. \A b \in Awaits : HsMove(b)
  BY <1>4, NoHsMove
<1>7. /\ stack' \in [Workers -> Seq(Frames)]
      /\ DOMAIN stack[w] = 1 .. Len(stack[w]) /\ Len(stack[w]) \in Nat \ {0}
      /\ DOMAIN stack'[w] = 1 .. Len(stack[w]) - 1
      /\ \A k \in DOMAIN stack'[w] : stack'[w][k] = stack[w][k]
      /\ \A v \in Workers : v # w => stack'[v] = stack[v]
  BY <1>1, <1>2, <1>4, PopFacts DEF Popped
<1>8. Segmented'
  BY <1>2, <1>4, LeaveSegmented DEF Popped
<1>9. \/ UNCHANGED destroyed
      \/ /\ pc[t] = "done" /\ Owner(w, Len(stack[w])) /\ destroyed'[t] = 1
         /\ \A u \in Tasks : u # t => destroyed'[u] = destroyed[u]
  <2>1. CASE /\ handoff[t] = stack[w][Len(stack[w])].before /\ pc[t] = "done"
             /\ destroyed' = [destroyed EXCEPT ![t] = @ + 1]
    <3>1. handoff[t] = published[t]
      <4>1. NumberAt(t) /\ published[t] \in Nat
        BY <1>1 DEF IInv, Numbers, TaskType
      <4> QED BY <2>1, <4>1 DEF NumberAt, Handed
    <3>2. Owner(w, Len(stack[w])) /\ destroyed[t] = 0
      BY <1>3, <2>1, <3>1 DEF Owner, IInv, Unspoilt
    <3> QED BY <1>1, <2>1, <3>2 DEF TaskType
  <2> QED BY <1>4, <2>1
<1>10. Others(t) /\ TaskType'
  BY <1>1, <1>4, <1>9 DEF Others, TaskType
<1>11. Where' /\ Numbers'
  BY <1>4 DEF IInv, Where, WhereAt, Begun, Op, Body, Numbers, NumberAt, Handed
<1>12. Shakes' /\ Called'
  <2>1. \A u \in Tasks : ip[u] \in Nat
    BY <1>1 DEF TaskType
  <2> QED BY <1>1, <1>4, <1>6, <2>1, ShakesStep, CalledStep DEF PcMove
<1>13. StateAt(t)'
  <2>1. StateAt(t) /\ Op(t)' = Op(t) /\ Begun(t)' = Begun(t) /\ Await(t)' = Await(t)
    BY <1>4 DEF IInv, Ended, Op, Begun, Body, Await
  <2>2. destroyed'[t] = destroyed[t] \/ (destroyed'[t] = 1 /\ pc[t] = "done")
    BY <1>9
  <2> QED BY <1>4, <2>1, <2>2 DEF StateAt, Left, InAwait, Done
<1>14. Ended'
  BY <1>6, <1>10, <1>13, EndedStep
<1>15. Ready'
  <2>1. ASSUME NEW i \in Items, Due(i)' PROVE Due(i) /\ destroyed'[i[1]] = destroyed[i[1]]
    <3>1. Due(i) /\ i[1] \in Tasks
      BY <1>5, <2>1, ItemKinds DEF Items
    <3>2. pc[i[1]] # "done"
      BY <3>1 DEF IInv, Ready, Left
    <3> QED BY <1>9, <3>1, <3>2
  <2> QED BY <1>4, <1>6, <2>1, ReadyStep
<1>16. Unspoilt'
  <2> SUFFICES ASSUME NEW v \in Workers, NEW k \in DOMAIN stack'[v], Owner(v, k)'
               PROVE  destroyed'[stack'[v][k].task] = 0
    BY DEF Unspoilt
  <2>1. k \in DOMAIN stack[v] /\ stack'[v][k] = stack[v][k] /\ ~(v = w /\ k = Len(stack[w]))
    <3>1. CASE v = w
      BY <1>7, <3>1
    <3>2. CASE v # w
      BY <1>7, <3>2
    <3> QED BY <3>1, <3>2
  <2>2. PICK u \in Tasks : u = stack[v][k].task
    BY <2>1, FrameType DEF IInv
  <2>3. Owner(v, k) /\ destroyed[u] = 0
    BY <1>4, <2>1, <2>2 DEF Owner, IInv, Unspoilt
  <2>4. u = t => ~Owner(w, Len(stack[w]))
    BY <1>3, <2>1, <2>2, <2>3 DEF IInv, Segmented
  <2> QED BY <1>9, <2>1, <2>2, <2>3, <2>4
<1>17. Stops'
  BY <1>4, <1>6, StopsStill
<1>18. WorkerType'
  BY <1>1, <1>4, <1>7 DEF WorkerType
<1>19. AwaitType' /\ JobType' /\ OutsideType'
  BY <1>1, <1>4 DEF AwaitType, JobType, OutsideType
<1>20. Typed'
  BY <1>5, <1>10, <1>18, <1>19, TypedNext
<1> QED BY <1>5, <1>8, <1>11, <1>12, <1>14, <1>15, <1>16, <1>17, <1>20 DEF IInv
-----------------------------------------------------------------------------
(* A gauge is never negative.                                              *)
LEMMA MoveTyped ==
  ASSUME gauge \in [Gauges -> Nat], NEW g \in Gauges, NEW h \in Gauges, Move(g, h)
  PROVE  gauge' \in [Gauges -> Nat]
<1>1. SaturatingDec(gauge[g]) \in Nat
  BY DEF SaturatingDec
<1> QED BY <1>1 DEF Move

(* The gauges stay naturals (metrics.cpp: a decrement saturates).          *)
LEMMA GaugeTyped ==
  ASSUME IInv, Next
  PROVE  gauge' \in [Gauges -> Nat]
<1>1. gauge \in [Gauges -> Nat] /\ Gauges = {"ready", "running", "suspended", "ended"}
  BY DEF IInv, Typed, TypeOK, Gauges
<1>2. \/ UNCHANGED gauge
      \/ Move("ready", "running") \/ Move("running", "suspended") \/ Move("suspended", "running")
      \/ Move("running", "ended") \/ Move("ready", "ended")
  BY DEF Next, Worker, Callbacks, Outside, Request, CancelIfReady, Suspend, Yield, ArmYield,
         ToSuspended, Finish, BeginStart, TryStart, BeginResume, RecordFirstStart,
         RecordSuspended, RecordResumed, RecordEnded, RecordCancelledBeforeStart
<1> QED BY <1>1, <1>2, MoveTyped

(* The initial states satisfy the inductive invariant.                     *)
LEMMA InitStep ==
  ASSUME Init
  PROVE  IInv
<1>1. \A p \in Programs : DOMAIN p.body \subseteq Tasks
  BY AwaitAssumption
<1>2. None \notin Items /\ Starts \subseteq Items /\ Starts \cap Awaits = {}
  BY ItemKinds
<1>3. TaskType /\ WorkerType /\ QueueType
  <2>1. \A w \in Workers : stack[w] = <<>> /\ <<>> \in Seq(Frames)
    BY DEF Init
  <2>2. stack \in [Workers -> Seq(Frames)]
    BY <2>1 DEF Init
  <2>3. \A w \in Workers : slot[w] = None
    BY DEF Init
  <2>4. SlotType
    BY <2>3 DEF Init, SlotType
  <2> QED BY <1>2, <2>2, <2>4 DEF Init, TaskType, WorkerType, QueueType, States, Places
<1>4. AwaitType /\ JobType
  BY DEF Init, AwaitType, JobType
<1>5. OutsideType
  <2>1. Cardinality(DOMAIN program.body) \in Nat
    <3>1. IsFiniteSet(DOMAIN program.body)
      BY <1>1, AwaitAssumption, FS_Subset DEF Init
    <3> QED BY <3>1, FS_CardinalityType
  <2>2. gauge \in [Gauges -> Nat]
    BY <2>1 DEF Init
  <2> QED BY <2>2 DEF Init, OutsideType
<1>6. Typed
  BY <1>3, <1>4, <1>5, TypedParts
<1>7. Where /\ Numbers
  BY DEF Init, Where, WhereAt, Numbers, NumberAt, Handed
<1>8. \A w \in Workers : stack[w] = <<>> /\ DOMAIN stack[w] = {}
  BY DEF Init
<1>9. Segmented /\ Unspoilt
  BY <1>8 DEF Segmented, Unspoilt
<1>10. Single /\ Ready
  <2>1. \A w \in Workers : slot[w] = None /\ pending[w] = None
    BY DEF Init
  <2>2. ASSUME NEW i \in Items, Due(i)
        PROVE  /\ i \in Starts /\ i[1] \in DOMAIN program.body
               /\ pc[i[1]] = "cold" /\ destroyed[i[1]] = 0
    <3>1. i \in Starts /\ i[1] \in DOMAIN program.body
      BY <1>2, <2>1, <2>2 DEF Init, Due
    <3>2. i[1] \in Tasks
      BY <3>1, ItemKinds
    <3> QED BY <3>1, <3>2 DEF Init
  <2> QED BY <2>1, <2>2 DEF Single, Ready, Init
<1>11. Shakes /\ Called
  BY ItemKinds DEF Init, Shakes, ShakeAt, Called, Left
<1>12. Ended
  BY DEF Init, Ended, StateAt, Left, InAwait
<1>13. Stops
  BY DEF Init, Stops, StopsAt, Hooked, Left, Calling
<1> QED BY <1>6, <1>7, <1>9, <1>10, <1>11, <1>12, <1>13 DEF IInv

(* Every action preserves the inductive invariant.                         *)
LEMMA NextStep ==
  ASSUME IInv, Next
  PROVE  IInv'
<1>1. UNCHANGED program /\ gauge' \in [Gauges -> Nat]
  BY GaugeTyped DEF Next
<1>2. ASSUME NEW x \in Threads, Callbacks(x) PROVE IInv'
  BY <1>1, <1>2, CancelIfReadyStep, StopCallbackStep, DeliverStep DEF Callbacks
<1>3. ASSUME NEW w \in Workers, Quietly(w) PROVE IInv'
  BY <1>1, <1>3, BeginAwaitStep, RegisterStep, EmplaceStep, ArmStep, PublishSuspendStep,
     BeginSleepStep, PointStep, RegisterTimerStep, StoreTimerIdStep, RecheckStep, ResumedStep,
     CallCancelStep, BeginWaitStep, WaitDoneStep, ClaimStep, LeaveStep, FireTimerStep
     DEF Quietly
<1>4. ASSUME NEW w \in Workers, Worker(w) PROVE IInv'
  <2>1. w \in Threads
    BY DEF Threads
  <2> QED BY <1>1, <1>2, <1>3, <1>4, <2>1, SuspendStep, YieldStep, FinishStep, BeginStartStep,
             BeginResumeStep DEF Worker
<1>5. ASSUME NEW c \in Cancellers \cup Closers, Outside(c) \/ Request(c) PROVE IInv'
  <2>1. c \in Threads
    BY DEF Threads
  <2>2. CASE Outside(c)
    BY <1>1, <1>2, <2>1, <2>2, CancelUnstartedStep, CancelTimerStep DEF Outside
  <2>3. CASE Request(c)
    <3>1. (Cancel(c) /\ c \in Cancellers) \/ (ShutdownNow(c) /\ c \in Closers)
      BY <2>3 DEF Request, Cancel, ShutdownNow
    <3> QED BY <1>1, <3>1, CancelStep, ShutdownNowStep
  <2> QED BY <1>5, <2>2, <2>3
<1> QED BY <1>4, <1>5 DEF Next

(* So does a step that changes nothing.                                    *)
LEMMA StutterStep ==
  ASSUME IInv, UNCHANGED vars
  PROVE  IInv'
<1>1. UNCHANGED <<program, state, stop, pc, ip, hs, cancelled, callbacks, stopcb, handoff,
                  published, timers, timerId, global, local, gmutex, stack, pending, leaving,
                  slot, step, target, firing, immediate, cpc, cancelling, destroyed, posts, gauge>>
  BY DEF vars, tasks, awaits, clock, queues, workers, jobs, outside
<1>2. /\ AwaitType /\ TaskType /\ WorkerType /\ JobType /\ OutsideType
      /\ \A u \in Tasks : callbacks[u] \subseteq Past
      /\ \A x \in Threads : firing[x] \subseteq Past
      /\ timers \cup cancelling \subseteq {b \in Past : IsSleep(b)}
  BY TypedParts, PastLists DEF IInv
<1>3. Single' /\ QueueType' /\ (\A i : Due(i)' => Due(i)) /\ \A b \in Awaits : HsMove(b)
  BY <1>1, NoFlow, NoHsMove
<1>4. Where' /\ Numbers' /\ Segmented' /\ Ready' /\ Shakes' /\ Called' /\ Ended' /\ Unspoilt'
  BY <1>1, <1>2, <1>3, StillStep
<1>5. Stops'
  BY <1>1, <1>3, StopsStill
<1>6. TaskType' /\ AwaitType' /\ WorkerType' /\ JobType' /\ OutsideType'
  BY <1>1, <1>2 DEF TaskType, AwaitType, WorkerType, JobType, OutsideType
<1>7. Typed'
  BY <1>3, <1>6, TypedNext
<1> QED BY <1>3, <1>4, <1>5, <1>7 DEF IInv

(* Every reachable state satisfies the inductive invariant.                *)
THEOREM Inductive == Spec => []IInv
<1>1. Init => IInv
  BY InitStep
<1>2. IInv /\ [Next]_vars => IInv'
  BY NextStep, StutterStep
<1> QED BY <1>1, <1>2, PTL DEF Spec
-----------------------------------------------------------------------------
(* At any moment a coroutine frame is executed by at most one worker: the  *)
(* claim of CoroutineResumeInvoker::execute() on published and handoff.    *)
LEMMA OneSegment ==
  ASSUME IInv
  PROVE  OneResumeOwner
<1> SUFFICES ASSUME NEW t \in Tasks PROVE Cardinality(Segments(t)) <= 1
  BY DEF OneResumeOwner
<1>1. ASSUME NEW s1 \in Segments(t), NEW s2 \in Segments(t) PROVE s1 = s2
  <2>1. PICK w \in Workers, k \in 1 .. MaxDepth + 1 : s1 = <<w, k>>
    BY DEF Segments
  <2>2. PICK v \in Workers, j \in 1 .. MaxDepth + 1 : s2 = <<v, j>>
    BY DEF Segments
  <2>3. /\ k \in DOMAIN stack[w] /\ stack[w][k].task = t /\ ~Going(w, k)
        /\ j \in DOMAIN stack[v] /\ stack[v][j].task = t /\ ~Going(v, j)
    BY <2>1, <2>2 DEF Segments, Going
  <2>4. Owner(w, k) /\ Owner(v, j)
    BY <2>3 DEF IInv, Segmented, SegmentAt, Owner
  <2>5. w = v /\ k = j
    BY <2>3, <2>4 DEF IInv, Segmented
  <2> QED BY <2>1, <2>2, <2>5
<1>2. CASE Segments(t) = {}
  BY <1>2, FS_EmptySet
<1>3. CASE Segments(t) # {}
  <2>1. PICK s : s \in Segments(t)
    BY <1>3
  <2>2. Segments(t) = {s}
    BY <1>1, <2>1
  <2>3. Cardinality({s}) = 1
    BY FS_Singleton
  <2> QED BY <2>2, <2>3
<1> QED BY <1>2, <1>3

(* At any moment at most one worker runs a segment of a task: a worker     *)
(* that begins a resume has the only item of its await, and waits in       *)
(* begin_resume() until the segment before has published its suspension.   *)
THEOREM OneOwner == Spec => []OneResumeOwner
<1>1. IInv => OneResumeOwner
  BY OneSegment
<1> QED BY <1>1, Inductive, PTL

(* A frame is destroyed at most once, and then nothing refers to it.       *)
LEMMA DestroyedOnce ==
  ASSUME IInv
  PROVE  FrameDestroyedOnce
<1> SUFFICES ASSUME NEW t \in Coroutines
             PROVE  /\ destroyed[t] <= 1
                    /\ destroyed[t] = 1 => /\ Done(t) /\ Segments(t) = {}
                                           /\ \A i \in InFlight : i = None \/ i[1] # t
  BY DEF FrameDestroyedOnce
<1>1. t \in Tasks /\ StateAt(t)
  BY AwaitAssumption DEF IInv, Ended
<1>2. ASSUME destroyed[t] = 1 PROVE pc[t] \in {"cold", "done"} /\ Done(t)
  BY <1>1, <1>2 DEF StateAt
<1>3. ASSUME destroyed[t] = 1 PROVE Segments(t) = {}
  <2> SUFFICES ASSUME NEW s \in Segments(t) PROVE FALSE
    OBVIOUS
  <2>1. PICK w \in Workers, k \in 1 .. MaxDepth + 1 : s = <<w, k>>
    BY DEF Segments
  <2>2. k \in DOMAIN stack[w] /\ stack[w][k].task = t /\ ~Going(w, k)
    BY <2>1 DEF Segments, Going
  <2>3. pc[t] \in Active
    BY <2>2 DEF IInv, Segmented, SegmentAt
  <2> QED BY <1>2, <1>3, <2>3 DEF Active
<1>4. ASSUME destroyed[t] = 1, NEW i \in InFlight, i # None PROVE i[1] # t
  <2>1. Due(i) /\ i \in Items
    <3>1. Due(i)
      BY <1>4 DEF InFlight, Due
    <3>2. QueueType /\ WorkerType
      BY TypedParts DEF IInv
    <3>3. local \subseteq Items
      BY <3>2 DEF QueueType, Items
    <3>4. \A w \in Workers : slot[w] # None => slot[w].item \in Items
      BY <3>2 DEF QueueType, SlotType, Items
    <3> QED BY <1>4, <3>1, <3>2, <3>3, <3>4 DEF Due, QueueType, WorkerType
  <2>2. (pc[i[1]] = "cold" /\ destroyed[i[1]] = 0) \/ pc[i[1]] \in Left
    BY <2>1 DEF IInv, Ready
  <2> QED BY <1>2, <1>4, <2>2 DEF Left
<1> QED BY <1>1, <1>2, <1>3, <1>4 DEF StateAt

(* A stopped coroutine that has suspended: its callback has been called,   *)
(* for the stop is over, so its handshake is resolved and no timer is left. *)
LEMMA StopFound ==
  ASSUME IInv
  PROVE  StopReaches
<1> SUFFICES ASSUME NEW t \in Tasks, Suspended(t), stop[t], t \notin Locked
             PROVE  hs[Await(t)] = "Resolved" /\ Await(t) \notin timers
  BY DEF StopReaches
<1>1. /\ StopsAt(t) /\ pc[t] = "suspended" /\ Hooked(t)
      /\ hs[Await(t)] \in {"Armed", "Resolved"}
  BY DEF IInv, Stops, Suspended, Hooked, Shakes, Left
<1>2. t \notin stopcb
  <2> SUFFICES ASSUME t \in stopcb PROVE FALSE
    OBVIOUS
  <2>1. PICK x \in Threads : step[x] = "stop" /\ target[x] = t
    BY DEF IInv, Stops, Calling
  <2> QED BY <2>1 DEF Locked
<1> QED BY <1>1, <1>2 DEF StopsAt, Left

(* A cancelled coroutine is not left asleep: once a stop was requested of  *)
(* a suspended task and request_stop() has returned, the handshake of its  *)
(* await is resolved, whichever of the stop callback, the timer, the       *)
(* completion and arm() came first.                                        *)
THEOREM StopArrives == Spec => []StopReaches
<1>1. IInv => StopReaches
  BY StopFound
<1> QED BY <1>1, Inductive, PTL
-----------------------------------------------------------------------------
(* The gauges.  A task that is done stays where it is, and so does the     *)
(* handshake it did not arm.                                               *)
Stays(u) ==
  /\ pc'[u] = pc[u] /\ ip'[u] = ip[u]
  /\ \A a \in Awaits : a[1] = u /\ hs'[a] = "Resolved" => hs[a] = "Resolved"

(* A late trigger of a task that is done arms nothing: it was never armed, *)
(* or it is resolved already.                                              *)
LEMMA AdvanceStays ==
  ASSUME IInv, NEW u \in Tasks, pc[u] = "done", NEW x, NEW b, Advance(x, b),
         pc'[u] = pc[u], ip'[u] = ip[u]
  PROVE  Stays(u)
<1> SUFFICES ASSUME NEW a \in Awaits, a[1] = u, hs'[a] = "Resolved" PROVE hs[a] = "Resolved"
  BY DEF Stays
<1>1. hs \in [Awaits -> {"Init", "Triggered", "Armed", "Resolved"}] /\ hs[a] # "Armed"
  BY DEF IInv, Typed, TypeOK, Shakes, ShakeAt, Left
<1> QED BY <1>1 DEF Advance

(* A task that is done stays so, whatever step is taken.                   *)
LEMMA DoneStays ==
  ASSUME IInv, Next, NEW u \in Tasks, pc[u] = "done"
  PROVE  Stays(u)
<1>0. /\ pc \in [Tasks -> Places] /\ ip \in [Tasks -> Nat]
      /\ hs \in [Awaits -> {"Init", "Triggered", "Armed", "Resolved"}]
  BY DEF IInv, Typed, TypeOK
<1>1. CASE UNCHANGED <<pc, ip>> /\ (UNCHANGED hs \/ \E x, b : Advance(x, b))
  <2>1. CASE UNCHANGED hs
    BY <1>1, <2>1 DEF Stays
  <2>2. CASE \E x, b : Advance(x, b)
    BY <1>1, <2>2, AdvanceStays
  <2> QED BY <1>1, <2>1, <2>2
<1>2. ASSUME NEW x \in Threads, Callbacks(x)
      PROVE  UNCHANGED <<pc, ip>> /\ (UNCHANGED hs \/ \E y, b : Advance(y, b))
  BY <1>2 DEF Callbacks, CancelIfReady, StopCallback, Deliver, TriggerCancel, Trigger, tasks
<1>3. ASSUME NEW c \in Cancellers \cup Closers, Outside(c) \/ Request(c) PROVE Stays(u)
  <2>1. c \in Threads
    BY DEF Threads
  <2>2. UNCHANGED <<pc, ip>> /\ (UNCHANGED hs \/ \E y, b : Advance(y, b))
    BY <1>2, <1>3, <2>1
       DEF Outside, Request, CancelUnstarted, CancelTimer, Cancel, ShutdownNow,
       TriggerCancel, tasks, awaits
  <2> QED BY <1>1, <2>2
<1>4. ASSUME NEW w \in Workers, NEW t, t = Top(w), t # u,
             \/ BeginAwait(w) \/ Register(w) \/ Emplace(w) \/ Arm(w) \/ PublishSuspend(w)
             \/ Point(w) \/ RegisterTimer(w) \/ StoreTimerId(w) \/ Recheck(w)
             \/ Resumed(w) \/ BeginWait(w) \/ WaitDone(w) \/ WaitTimesOut(w) \/ Suspend(w)
             \/ Yield(w) \/ Finish(w)
      PROVE  Stays(u)
  <2>1. \E p : pc' = [pc EXCEPT ![t] = p]
    BY <1>4
       DEF BeginAwait, Register, ArmTask, Emplace, Arm, PublishSuspend, Point,
           RegisterTimer,
       StoreTimerId, Recheck, Resumed, BeginWait, WaitDone, WaitTimesOut, Suspend, Yield, ArmYield,
       Finish, Returns, Goto
  <2>2. UNCHANGED ip \/ \E m : ip' = [ip EXCEPT ![t] = m]
    BY <1>4 DEF BeginAwait, Register, Emplace, Arm, PublishSuspend, Point, RegisterTimer,
       StoreTimerId, Recheck, Resumed, BeginWait, WaitDone, WaitTimesOut, Suspend, Yield,
       Finish, Advanced
  <2>3. \/ UNCHANGED hs
        \/ \E x, b : Advance(x, b)
        \/ \E n, v : hs' = [hs EXCEPT ![<<t, n>>] = v]
    BY <1>4 DEF BeginAwait, Register, ArmTask, AddCompletion, Trigger, TriggerCancel, Await,
       Emplace, Arm, PublishSuspend, Point, RegisterTimer, StoreTimerId, Recheck, Resumed,
       BeginWait, WaitDone, WaitTimesOut, Suspend, Yield, ArmYield, Finish, awaits
  <2>4. PICK p : pc' = [pc EXCEPT ![t] = p]
    BY <2>1
  <2>5. pc'[u] = pc[u]
    BY <1>0, <1>4, <2>4
  <2>6. ip'[u] = ip[u]
    BY <1>0, <1>4, <2>2
  <2>7. CASE UNCHANGED hs
    BY <2>5, <2>6, <2>7 DEF Stays
  <2>8. CASE \E x, b : Advance(x, b)
    BY <2>5, <2>6, <2>8, AdvanceStays
  <2>9. CASE \E n, v : hs' = [hs EXCEPT ![<<t, n>>] = v]
    BY <1>0, <1>4, <2>5, <2>6, <2>9 DEF Stays
  <2> QED BY <2>3, <2>7, <2>8, <2>9
<1>5. ASSUME NEW w \in Workers, NEW place \in Places \ {"done"}, At(w, place) PROVE Top(w) # u
  BY <1>5 DEF At
<1>6. ASSUME NEW w \in Workers, BeginSleep(w) \/ CallCancel(w) PROVE Stays(u)
  <2>1. Top(w) # u
    BY <1>6 DEF BeginSleep, CallCancel, NextIs, At
  <2>2. PICK t : t = Top(w) /\ t # u
    BY <2>1
  <2>3. pc'[u] = pc[u] /\ ip'[u] = ip[u] /\ UNCHANGED hs
    BY <1>0, <1>6, <2>2 DEF BeginSleep, CallCancel, Advanced, Goto, awaits
  <2> QED BY <2>3 DEF Stays
<1>7. ASSUME NEW w \in Workers, Claim(w) \/ Leave(w) \/ FireTimer(w) PROVE Stays(u)
  <2>1. UNCHANGED <<pc, ip>> /\ (UNCHANGED hs \/ \E y, b : Advance(y, b))
    BY <1>7 DEF Claim, Leave, FireTimer, Trigger, tasks, awaits
  <2> QED BY <1>1, <2>1
<1>8. ASSUME NEW w \in Workers, BeginStart(w) \/ BeginResume(w) PROVE Stays(u)
  <2>1. pending[w] \in Items
    BY <1>8, ItemKinds DEF BeginStart, BeginResume
  <2>2. PICK t \in Tasks : t = pending[w][1]
    BY <2>1, ClaimedFacts
  <2>3. t # u
    BY <1>8, <2>1, <2>2, ClaimedFacts DEF BeginStart, BeginResume, Left
  <2>4. UNCHANGED <<ip, hs>> /\ (UNCHANGED pc \/ \E p : pc' = [pc EXCEPT ![t] = p])
    BY <1>8, <2>2 DEF BeginStart, BeginResume, Goto, awaits
  <2> QED BY <1>0, <2>3, <2>4 DEF Stays
<1>9. ASSUME NEW w \in Workers, Worker(w) PROVE Stays(u)
  <2>1. w \in Threads
    BY DEF Threads
  <2>2. CASE Callbacks(w)
    BY <1>1, <1>2, <2>1, <2>2
  <2>3. CASE \/ BeginAwait(w) \/ Register(w) \/ Emplace(w) \/ Arm(w) \/ PublishSuspend(w)
             \/ Point(w) \/ RegisterTimer(w) \/ StoreTimerId(w) \/ Recheck(w)
             \/ Resumed(w) \/ BeginWait(w) \/ WaitDone(w) \/ WaitTimesOut(w) \/ Suspend(w)
             \/ Yield(w) \/ Finish(w)
    <3>1. \E place \in Places \ {"done"} : At(w, place)
      BY <2>3 DEF BeginAwait, Register, Emplace, Arm, PublishSuspend, Point, RegisterTimer,
         StoreTimerId, Recheck, Resumed, BeginWait, WaitDone, WaitTimesOut, Suspend, Yield,
         Finish, NextIs, Places
    <3>2. PICK t : t = Top(w)
      OBVIOUS
    <3> QED BY <1>4, <1>5, <2>3, <3>1, <3>2
  <2>4. CASE BeginSleep(w) \/ CallCancel(w) \/ Claim(w) \/ Leave(w) \/ FireTimer(w)
             \/ BeginStart(w) \/ BeginResume(w)
    BY <1>6, <1>7, <1>8, <2>4
  <2> QED BY <1>9, <2>2, <2>3, <2>4 DEF Worker, Quietly
<1> QED BY <1>3, <1>9 DEF Next

(* How a transition of one task changes the number of tasks in some states. *)
LEMMA Counts ==
  ASSUME IInv, NEW t \in DOMAIN program.body, NEW s \in States,
         state' = [state EXCEPT ![t] = s], UNCHANGED program, NEW S
  PROVE  /\ In(S) \in Nat /\ In(S)' \in Nat
         /\ (state[t] \in S <=> s \in S) => In(S)' = In(S)
         /\ state[t] \notin S /\ s \in S => In(S)' = In(S) + 1
         /\ state[t] \in S /\ s \notin S => In(S)' = In(S) - 1 /\ In(S) >= 1
<1> DEFINE P == {u \in DOMAIN program.body : state[u] \in S}
           Q == {u \in DOMAIN program.body : state'[u] \in S}
<1>1. In(S) = Cardinality(P) /\ In(S)' = Cardinality(Q)
  BY DEF In
<1>2. /\ DOMAIN program.body \subseteq Tasks /\ IsFiniteSet(DOMAIN program.body)
      /\ state \in [Tasks -> States]
  BY AwaitAssumption, FS_Subset DEF IInv, Typed, TypeOK
<1>3. IsFiniteSet(P) /\ IsFiniteSet(Q)
  BY <1>2, FS_Subset
<1>4. Cardinality(P) \in Nat /\ Cardinality(Q) \in Nat
  BY <1>3, FS_CardinalityType
<1>5. state'[t] = s /\ \A u \in DOMAIN program.body : u # t => state'[u] = state[u]
  BY <1>2
<1>6. ASSUME state[t] \in S <=> s \in S PROVE P = Q
  BY <1>5, <1>6
<1>7. ASSUME state[t] \notin S, s \in S PROVE Cardinality(Q) = Cardinality(P) + 1
  <2>1. Q = P \cup {t} /\ t \notin P
    BY <1>5, <1>7
  <2> QED BY <1>3, <2>1, FS_AddElement
<1>8. ASSUME state[t] \in S, s \notin S PROVE Cardinality(P) = Cardinality(Q) + 1
  <2>1. P = Q \cup {t} /\ t \notin Q
    BY <1>5, <1>8
  <2> QED BY <1>3, <2>1, FS_AddElement
<1> HIDE DEF P, Q
<1> QED BY <1>1, <1>4, <1>6, <1>7, <1>8

(* The tasks that ended in an await they did not arm only grow in number,  *)
(* so the surplus they leave in the gauges is never taken back.            *)
LEMMA UnarmedKept ==
  ASSUME IInv, Next, \A u \in Tasks : state[u] = "Cancelled" => state'[u] = "Cancelled"
  PROVE  /\ Unarmed \subseteq Unarmed' /\ IsFiniteSet(Unarmed) /\ IsFiniteSet(Unarmed')
         /\ Cardinality(Unarmed) \in Nat /\ Cardinality(Unarmed') \in Nat
         /\ Cardinality(Unarmed) <= Cardinality(Unarmed')
<1>1. /\ UNCHANGED program /\ program \in Programs
      /\ DOMAIN program.body \subseteq Tasks /\ IsFiniteSet(DOMAIN program.body)
  BY AwaitAssumption, FS_Subset DEF Next, IInv, Typed, TypeOK
<1>2. ASSUME NEW u \in Unarmed PROVE u \in Unarmed'
  <2>1. /\ u \in DOMAIN program.body /\ u \in Tasks /\ state[u] = "Cancelled" /\ ip[u] > 0
        /\ IsSleep(<<u, ip[u]>>) /\ hs[<<u, ip[u]>>] # "Resolved"
    BY <1>1 DEF Unarmed, Await
  <2>2. StateAt(u) /\ WhereAt(u) /\ pc[u] \in Places /\ ip[u] \in Nat
    BY <2>1 DEF IInv, Ended, Where, Typed, TypeOK
  <2>3. pc[u] = "done"
    BY <2>1, <2>2 DEF StateAt, WhereAt, Places, Left
  <2>4. <<u, ip[u]>> \in Awaits
    BY <1>1, <2>1, <2>2, <2>3, BodyType DEF WhereAt
  <2>5. Stays(u)
    BY <2>1, <2>3, DoneStays
  <2>6. ip'[u] = ip[u] /\ hs'[<<u, ip[u]>>] # "Resolved"
    BY <2>1, <2>4, <2>5 DEF Stays
  <2> QED BY <1>1, <2>1, <2>6 DEF Unarmed, Await, IsSleep, Body
<1>3. IsFiniteSet(Unarmed) /\ IsFiniteSet(Unarmed')
  <2>1. Unarmed \subseteq DOMAIN program.body /\ Unarmed' \subseteq DOMAIN program.body
    BY <1>1 DEF Unarmed
  <2> QED BY <1>1, <2>1, FS_Subset
<1> QED BY <1>2, <1>3, FS_Subset, FS_CardinalityType

(* A task that moves takes its place in the gauges along.                  *)
LEMMA GaugeMoved ==
  ASSUME IInv, Next, GaugesAgree, NEW t \in DOMAIN program.body, NEW s \in States,
         state' = [state EXCEPT ![t] = s],
         \/ state[t] = "Ready" /\ s = "Running" /\ Move("ready", "running")
         \/ state[t] = "Ready" /\ s = "Cancelled" /\ Move("ready", "ended")
         \/ state[t] = "Running" /\ s = "Suspended" /\ Move("running", "suspended")
         \/ state[t] = "Suspended" /\ s = "Running" /\ Move("suspended", "running")
         \/ state[t] = "Running" /\ s \in Terminal /\ Move("running", "ended")
         \/ /\ state[t] = "Suspended" /\ s \in Terminal /\ Move("running", "ended")
            /\ t \in Unarmed'
  PROVE  GaugesAgree'
<1>1. UNCHANGED program /\ t \in Tasks /\ state \in [Tasks -> States] /\ gauge \in [Gauges -> Nat]
  BY AwaitAssumption DEF Next, IInv, Typed, TypeOK
<1>2. /\ Unarmed \subseteq Unarmed' /\ IsFiniteSet(Unarmed) /\ IsFiniteSet(Unarmed')
      /\ Cardinality(Unarmed) \in Nat /\ Cardinality(Unarmed') \in Nat
      /\ Cardinality(Unarmed) <= Cardinality(Unarmed')
  BY <1>1, UnarmedKept DEF Terminal
<1>3. state[t] = "Suspended" /\ t \in Unarmed' => Cardinality(Unarmed) + 1 <= Cardinality(Unarmed')
  <2> SUFFICES ASSUME state[t] = "Suspended", t \in Unarmed'
               PROVE  Cardinality(Unarmed) + 1 <= Cardinality(Unarmed')
    OBVIOUS
  <2>1. t \notin Unarmed /\ Unarmed \cup {t} \subseteq Unarmed'
    BY <1>2 DEF Unarmed
  <2>2. Cardinality(Unarmed \cup {t}) = Cardinality(Unarmed) + 1
    BY <1>2, <2>1, FS_AddElement
  <2> QED BY <1>2, <2>1, <2>2, FS_Subset
<1>4. Unarmed' = {} => Unarmed = {}
  BY <1>2
<1>5. /\ gauge["ready"] \in Nat /\ gauge["running"] \in Nat /\ gauge["suspended"] \in Nat
      /\ gauge["ended"] \in Nat
  BY <1>1 DEF Gauges
<1>6. /\ gauge["ready"] = In({"Ready"}) /\ gauge["ended"] = In(Terminal)
      /\ gauge["suspended"] - In({"Suspended"}) \in 0 .. Cardinality(Unarmed)
      /\ gauge["running"] <= In({"Running"})
      /\ Unarmed = {} => gauge["running"] = In({"Running"})
  BY DEF GaugesAgree
<1> DEFINE Moved(S) ==
      /\ In(S) \in Nat /\ In(S)' \in Nat
      /\ (state[t] \in S <=> s \in S) => In(S)' = In(S)
      /\ state[t] \notin S /\ s \in S => In(S)' = In(S) + 1
      /\ state[t] \in S /\ s \notin S => In(S)' = In(S) - 1 /\ In(S) >= 1
<1>7. Moved({"Ready"}) /\ Moved({"Running"}) /\ Moved({"Suspended"}) /\ Moved(Terminal)
  BY <1>1, Counts
<1> SUFFICES /\ gauge'["ready"] = In({"Ready"})' /\ gauge'["ended"] = In(Terminal)'
             /\ gauge'["suspended"] - In({"Suspended"})' \in 0 .. Cardinality(Unarmed')
             /\ gauge'["running"] <= In({"Running"})'
             /\ Unarmed' = {} => gauge'["running"] = In({"Running"})'
  BY DEF GaugesAgree
<1>8. CASE state[t] = "Ready" /\ s = "Running" /\ Move("ready", "running")
  <2>1. /\ gauge'["ready"] = SaturatingDec(gauge["ready"]) /\ gauge'["running"] = gauge["running"] + 1
        /\ gauge'["suspended"] = gauge["suspended"] /\ gauge'["ended"] = gauge["ended"]
    BY <1>1, <1>8 DEF Move, Gauges
  <2> QED BY <1>2, <1>4, <1>5, <1>6, <1>7, <1>8, <2>1 DEF Terminal, SaturatingDec
<1>9. CASE state[t] = "Ready" /\ s = "Cancelled" /\ Move("ready", "ended")
  <2>1. /\ gauge'["ready"] = SaturatingDec(gauge["ready"]) /\ gauge'["ended"] = gauge["ended"] + 1
        /\ gauge'["suspended"] = gauge["suspended"] /\ gauge'["running"] = gauge["running"]
    BY <1>1, <1>9 DEF Move, Gauges
  <2> QED BY <1>2, <1>4, <1>5, <1>6, <1>7, <1>9, <2>1 DEF Terminal, SaturatingDec
<1>10. CASE state[t] = "Running" /\ s = "Suspended" /\ Move("running", "suspended")
  <2>1. /\ gauge'["running"] = SaturatingDec(gauge["running"])
        /\ gauge'["suspended"] = gauge["suspended"] + 1
        /\ gauge'["ready"] = gauge["ready"] /\ gauge'["ended"] = gauge["ended"]
    BY <1>1, <1>10 DEF Move, Gauges
  <2> QED BY <1>2, <1>4, <1>5, <1>6, <1>7, <1>10, <2>1 DEF Terminal, SaturatingDec
<1>11. CASE state[t] = "Suspended" /\ s = "Running" /\ Move("suspended", "running")
  <2>1. /\ gauge'["suspended"] = SaturatingDec(gauge["suspended"])
        /\ gauge'["running"] = gauge["running"] + 1
        /\ gauge'["ready"] = gauge["ready"] /\ gauge'["ended"] = gauge["ended"]
    BY <1>1, <1>11 DEF Move, Gauges
  <2> QED BY <1>2, <1>4, <1>5, <1>6, <1>7, <1>11, <2>1 DEF Terminal, SaturatingDec
<1>12. CASE state[t] \in {"Running", "Suspended"} /\ s \in Terminal /\ Move("running", "ended")
            /\ (state[t] = "Suspended" => t \in Unarmed')
  <2>1. /\ gauge'["running"] = SaturatingDec(gauge["running"]) /\ gauge'["ended"] = gauge["ended"] + 1
        /\ gauge'["ready"] = gauge["ready"] /\ gauge'["suspended"] = gauge["suspended"]
    BY <1>1, <1>12 DEF Move, Gauges
  <2>2. CASE state[t] = "Running"
    BY <1>2, <1>4, <1>5, <1>6, <1>7, <1>12, <2>1, <2>2 DEF Terminal, SaturatingDec
  <2>3. CASE state[t] = "Suspended"
    BY <1>2, <1>3, <1>4, <1>5, <1>6, <1>7, <1>12, <2>1, <2>3 DEF Terminal, SaturatingDec
  <2> QED BY <1>12, <2>2, <2>3
<1> QED BY <1>8, <1>9, <1>10, <1>11, <1>12

(* A step that moves no task and no gauge keeps them in agreement, the     *)
(* saturated decrements included.                                          *)
LEMMA GaugeStill ==
  ASSUME IInv, Next, GaugesAgree, UNCHANGED <<state, gauge>>
  PROVE  GaugesAgree'
<1>1. UNCHANGED program /\ gauge \in [Gauges -> Nat]
  BY DEF Next, IInv, Typed, TypeOK
<1>2. /\ Unarmed \subseteq Unarmed'
      /\ Cardinality(Unarmed) \in Nat /\ Cardinality(Unarmed') \in Nat
      /\ Cardinality(Unarmed) <= Cardinality(Unarmed')
  BY UnarmedKept
<1>4. /\ gauge["ready"] = In({"Ready"}) /\ gauge["ended"] = In(Terminal)
      /\ gauge["suspended"] - In({"Suspended"}) \in 0 .. Cardinality(Unarmed)
      /\ gauge["running"] <= In({"Running"})
      /\ Unarmed = {} => gauge["running"] = In({"Running"})
  BY DEF GaugesAgree
<1>5. /\ In({"Ready"})' = In({"Ready"}) /\ In(Terminal)' = In(Terminal)
      /\ In({"Suspended"})' = In({"Suspended"}) /\ In({"Running"})' = In({"Running"})
  BY <1>1 DEF In
<1>6. Unarmed' = {} => Unarmed = {}
  BY <1>2
<1>7. gauge["suspended"] - In({"Suspended"}) \in 0 .. Cardinality(Unarmed')
  BY <1>2, <1>4
<1> QED BY <1>4, <1>5, <1>6, <1>7 DEF GaugesAgree

(* Every task is in the ready gauge when it is admitted.                   *)
LEMMA GaugeInit ==
  ASSUME Init
  PROVE  GaugesAgree
<1>1. IsFiniteSet(DOMAIN program.body) /\ DOMAIN program.body \subseteq Tasks
  BY AwaitAssumption, FS_Subset DEF Init
<1>2. Cardinality(DOMAIN program.body) \in Nat /\ Cardinality({}) = 0
  BY <1>1, FS_CardinalityType, FS_EmptySet
<1>3. \A t \in DOMAIN program.body : state[t] = "Ready"
  BY <1>1 DEF Init
<1>4. {t \in DOMAIN program.body : state[t] \in {"Ready"}} = DOMAIN program.body
  BY <1>3
<1>5. /\ {t \in DOMAIN program.body : state[t] \in {"Running"}} = {}
      /\ {t \in DOMAIN program.body : state[t] \in {"Suspended"}} = {}
      /\ {t \in DOMAIN program.body : state[t] \in Terminal} = {}
  BY <1>3 DEF Terminal
<1>6. Unarmed = {}
  BY <1>3 DEF Unarmed
<1>7. /\ In({"Ready"}) = Cardinality(DOMAIN program.body) /\ In({"Running"}) = 0
      /\ In({"Suspended"}) = 0 /\ In(Terminal) = 0
  BY <1>2, <1>4, <1>5 DEF In
<1>8. /\ gauge["ready"] = Cardinality(DOMAIN program.body) /\ gauge["running"] = 0
      /\ gauge["suspended"] = 0 /\ gauge["ended"] = 0
  BY DEF Init, Gauges
<1> QED BY <1>2, <1>6, <1>7, <1>8 DEF GaugesAgree

(* Every action preserves the agreement of the gauges with the tasks.      *)
LEMMA GaugeStep ==
  ASSUME IInv, Next, GaugesAgree
  PROVE  GaugesAgree'
<1>1. /\ TaskType /\ JobType /\ program \in Programs /\ UNCHANGED program
      /\ \A t \in DOMAIN program.body : t \in Tasks
  BY TypedParts, BodyType DEF IInv, OutsideType, Next
<1>2. ASSUME NEW x \in Threads, Callbacks(x) PROVE GaugesAgree'
  <2>1. CASE CancelIfReady(x)
    <3>1. PICK u \in DOMAIN program.body : u = target[x]
      BY <1>1, <2>1 DEF CancelIfReady, JobType
    <3>2. CASE UNCHANGED <<state, gauge>>
      BY <3>2, GaugeStill
    <3>3. CASE state[u] = "Ready" /\ state' = [state EXCEPT ![u] = "Cancelled"] /\ Move("ready", "ended")
      BY <3>3, GaugeMoved DEF States, Terminal
    <3> QED BY <2>1, <3>1, <3>2, <3>3 DEF CancelIfReady, SetState, RecordCancelledBeforeStart
  <2>2. CASE (StopCallback(x) \/ Deliver(x)) /\ UNCHANGED gauge
    BY <2>2, GaugeStill DEF StopCallback, Deliver, tasks
  <2> QED BY <1>2, <2>1, <2>2 DEF Callbacks
<1>3. ASSUME NEW w \in Workers, Quietly(w), UNCHANGED gauge PROVE GaugesAgree'
  <2>1. UNCHANGED state
    BY <1>3
       DEF Quietly, BeginAwait, Register, Emplace, Arm, PublishSuspend, BeginSleep,
           Point,
       RegisterTimer, StoreTimerId, Recheck, Resumed, CallCancel, BeginWait, WaitDone,
       WaitTimesOut, Claim, Leave, FireTimer, tasks
  <2> QED BY <1>3, <2>1, GaugeStill
<1>4. ASSUME NEW t \in DOMAIN program.body, ToSuspended(t) PROVE GaugesAgree'
  <2>1. CASE UNCHANGED <<state, gauge>>
    BY <2>1, GaugeStill
  <2>2. CASE /\ state[t] = "Running" /\ state' = [state EXCEPT ![t] = "Suspended"]
             /\ Move("running", "suspended")
    BY <2>2, GaugeMoved DEF States
  <2> QED BY <1>4, <2>1, <2>2 DEF ToSuspended, SetState, RecordSuspended
<1>5. ASSUME NEW w \in Workers, Suspend(w) PROVE GaugesAgree'
  <2>1. PICK t \in DOMAIN program.body : t = Top(w)
    BY <1>5, AtFacts DEF Suspend
  <2> QED BY <1>4, <1>5, <2>1 DEF Suspend
<1>6. ASSUME NEW w \in Workers, Yield(w) PROVE GaugesAgree'
  <2>1. PICK t \in DOMAIN program.body : t = Top(w)
    BY <1>6, NextFacts DEF Yield
  <2> QED BY <1>4, <1>6, <2>1, GaugeStill DEF Yield, ArmYield
<1>7. ASSUME NEW w \in Workers, Finish(w) PROVE GaugesAgree'
  <2>1. PICK t \in Tasks : /\ t = Top(w) /\ pc[t] \in {"body", "unwind", "error"}
                           /\ t \in DOMAIN program.body /\ StateAt(t) /\ ip[t] \in Nat
    BY <1>7, AtFacts DEF Finish
  <2>2. /\ state' = [state EXCEPT ![t] = Outcome(t)] /\ Move("running", "ended")
        /\ UNCHANGED <<ip, hs>>
    BY <1>7, <2>1 DEF Finish, SetState, RecordEnded
  <2>3. PICK s \in Terminal : s = Outcome(t)
    BY DEF Outcome, Terminal
  <2>4. CASE state[t] = "Running"
    BY <2>1, <2>2, <2>3, <2>4, GaugeMoved DEF States
  <2>5. CASE state[t] # "Running"
    <3>1. /\ pc[t] = "unwind" /\ state[t] = "Suspended" /\ Begun(t) /\ Op(t) = "sleep"
          /\ hs[Await(t)] # "Resolved"
      BY <2>1, <2>5 DEF StateAt
    <3>2. s = "Cancelled" /\ ip[t] > 0 /\ IsSleep(Await(t))
      BY <2>1, <2>3, <3>1 DEF Outcome, Begun, IsSleep, Op, Await
    <3>3. state'[t] = "Cancelled"
      BY <1>1, <2>1, <2>2, <2>3, <3>2 DEF TaskType
    <3>4. t \in Unarmed'
      BY <1>1, <2>1, <2>2, <3>1, <3>2, <3>3 DEF Unarmed, Await, IsSleep, Body
    <3> QED BY <2>1, <2>2, <2>3, <3>1, <3>4, GaugeMoved DEF States
  <2> QED BY <2>4, <2>5
<1>8. ASSUME NEW w \in Workers, BeginStart(w) PROVE GaugesAgree'
  <2>1. PICK t \in DOMAIN program.body : t = pending[w][1]
    BY <1>8, ClaimedFacts, ItemKinds DEF BeginStart
  <2>2. CASE UNCHANGED <<state, gauge>>
    BY <2>2, GaugeStill
  <2>3. CASE TryStart(t)
    BY <2>3, GaugeMoved DEF TryStart, SetState, RecordFirstStart, States
  <2> QED BY <1>8, <2>1, <2>2, <2>3 DEF BeginStart
<1>9. ASSUME NEW w \in Workers, BeginResume(w) PROVE GaugesAgree'
  <2>1. pending[w] \in Awaits /\ pending[w] \in Items
    BY <1>9, ItemKinds DEF BeginResume
  <2>2. PICK t \in Tasks : t = pending[w][1] /\ pc[t] \in Left
    BY <2>1, ClaimedFacts
  <2>3. state[t] = "Suspended" /\ t \in DOMAIN program.body
    BY <2>2 DEF IInv, Ended, StateAt, Where, WhereAt, Left
  <2>4. state' = [state EXCEPT ![t] = "Running"] /\ Move("suspended", "running")
    BY <1>9, <2>2, <2>3 DEF BeginResume, RecordResumed
  <2> QED BY <2>3, <2>4, GaugeMoved DEF States
<1>10. ASSUME NEW w \in Workers, Worker(w) PROVE GaugesAgree'
  <2>1. w \in Threads
    BY DEF Threads
  <2> QED BY <1>2, <1>3, <1>5, <1>6, <1>7, <1>8, <1>9, <1>10, <2>1 DEF Worker
<1>11. ASSUME NEW c \in Cancellers \cup Closers, Outside(c) \/ Request(c) PROVE GaugesAgree'
  <2>1. c \in Threads
    BY DEF Threads
  <2>2. CASE Callbacks(c)
    BY <1>2, <2>1, <2>2
  <2>3. CASE ((CancelUnstarted(c) \/ CancelTimer(c)) /\ UNCHANGED gauge) \/ Request(c)
    BY <2>3, GaugeStill
       DEF CancelUnstarted, CancelTimer, Request, Cancel, ShutdownNow, tasks
  <2> QED BY <1>11, <2>2, <2>3 DEF Outside
<1> QED BY <1>10, <1>11 DEF Next

(* What the runs check as one invariant: types, one post per await, one    *)
(* destruction per frame, and gauges that agree with the tasks.            *)
THEOREM TasksCounted == Spec => []Inv
<1>1. Init => GaugesAgree
  BY GaugeInit
<1>2. IInv /\ GaugesAgree /\ [Next]_vars => GaugesAgree'
  <2>1. ASSUME IInv, GaugesAgree, UNCHANGED vars PROVE GaugesAgree'
    BY <2>1 DEF vars, tasks, awaits, GaugesAgree, In, Unarmed, Await, IsSleep, Body
  <2> QED BY <2>1, GaugeStep
<1>3. IInv /\ GaugesAgree => Inv
  BY DestroyedOnce DEF Inv, IInv, Typed, Shakes, ShakeAt, PostedOnce
<1> QED BY <1>1, <1>2, <1>3, Inductive, PTL DEF Spec
=============================================================================
