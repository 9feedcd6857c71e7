----------------------------- MODULE TimerQueue -----------------------------
(***************************************************************************)
(* The timer queue of a runtime (src/src/runtime/timer_queue.cpp): a       *)
(* binary heap of timer entries ordered by wake time and sequence, each    *)
(* entry knowing its heap_index, and a map from timer ids to entries, by   *)
(* which cancel() removes an entry from the middle of the heap.            *)
(*                                                                         *)
(* Every operation runs under mutex_, except that add() draws the id and   *)
(* the sequence number from two counters before it takes the mutex, so     *)
(* that concurrent calls get them, and enter the heap, in any order.  A    *)
(* timer is named by its id.  heap[i] stands for heap_[i - 1].             *)
(***************************************************************************)
EXTENDS Naturals, Sequences, FiniteSets, SequencesExt

CONSTANTS
  Callers,     \* threads that register timers
  Timers,      \* the ids handed out, 1 .. some bound
  Times,       \* the values of the steady clock
  Setups       \* the instances: [callers, timers]

NoTimer == 0
Nothing == [now |-> 0, timers |-> <<>>]

ASSUME TimerAssumption ==
  /\ Timers \subseteq Nat \ {NoTimer}
  /\ Setups \subseteq [callers : SUBSET Callers, timers : Timers]
  /\ Times \subseteq Nat \ {0} /\ Times # {}

VARIABLES
  setup,                  \* the instance of this behaviour
  nextId, nextSequence,   \* next_timer_id_, next_timer_sequence_
  adding,                 \* the timer each caller is about to enter
  sequence, wake,         \* the fields of an entry
  queue,                  \* [heap, at, map]: heap_, heap_index per timer, map_
  becameEarliest,         \* what the last add() reported
  handed                  \* what the last collect_due(now) returned, and its now

vars == <<setup, nextId, nextSequence, adding, sequence, wake, queue, becameEarliest, handed>>

Init ==
  /\ setup \in Setups
  /\ nextId = 1 /\ nextSequence = 1
  /\ adding = [c \in Callers |-> NoTimer]
  /\ sequence = [t \in Timers |-> 0] /\ wake = [t \in Timers |-> 0]
  /\ queue = [heap |-> <<>>, at |-> [t \in Timers |-> 0], map |-> {}]
  /\ becameEarliest = FALSE /\ handed = Nothing
-----------------------------------------------------------------------------
(* The heap.                                                               *)

Earlier(clock, t, u) == \/ clock[t] < clock[u]
                        \/ clock[t] = clock[u] /\ sequence[t] < sequence[u]

Swapped(q, i, j) ==
  [q EXCEPT !.heap[i] = q.heap[j], !.heap[j] = q.heap[i],
            !.at[q.heap[j]] = i, !.at[q.heap[i]] = j]

RECURSIVE BubbleUp(_, _, _)
BubbleUp(clock, q, i) ==
  LET parent == i \div 2
  IN  IF i > 1 /\ Earlier(clock, q.heap[i], q.heap[parent])
      THEN BubbleUp(clock, Swapped(q, i, parent), parent) ELSE q

RECURSIVE BubbleDown(_, _, _)
BubbleDown(clock, q, i) ==
  LET children == {2 * i, 2 * i + 1} \cap DOMAIN q.heap
      sooner == {c \in children : Earlier(clock, q.heap[c], q.heap[i])}
  IN  IF sooner = {} THEN q
      ELSE LET least == CHOOSE c \in sooner :
                          \A d \in sooner \ {c} : Earlier(clock, q.heap[c], q.heap[d])
           IN  BubbleDown(clock, Swapped(q, i, least), least)

(* The last entry takes the place of the one that leaves. *)
Moved(q, i) == LET last == Last(q.heap)
               IN  [q EXCEPT !.heap = Front([q.heap EXCEPT ![i] = last]), !.at[last] = i]

MutantRemoved(q, i) ==
  LET rest == [q EXCEPT !.map = @ \ {q.heap[i]}, !.at[q.heap[i]] = 0]
  IN  IF i = Len(q.heap) THEN [rest EXCEPT !.heap = Front(@)]
      ELSE BubbleDown(wake, Moved(rest, i), i)
Removed(q, i) ==
  LET rest == [q EXCEPT !.map = @ \ {q.heap[i]}, !.at[q.heap[i]] = 0]
  IN  IF i = Len(q.heap) THEN [rest EXCEPT !.heap = Front(@)]
      ELSE BubbleUp(wake, BubbleDown(wake, Moved(rest, i), i), i)

Popped(q) ==
  LET rest == [q EXCEPT !.map = @ \ {Head(q.heap)}, !.at[Head(q.heap)] = 0]
  IN  IF Len(q.heap) = 1 THEN [rest EXCEPT !.heap = <<>>]
      ELSE BubbleDown(wake, Moved(rest, 1), 1)

(* The loop of collect_due() and cancel_all(): take the front while it is  *)
(* due before `until`.                                                     *)
RECURSIVE Drained(_, _, _)
Drained(q, until, out) ==
  IF q.heap = <<>> \/ wake[Head(q.heap)] > until THEN [queue |-> q, out |-> out]
  ELSE Drained(Popped(q), until, Append(out, Head(q.heap)))
RECURSIVE Emptied(_, _)
Emptied(q, out) ==
  IF q.heap = <<>> THEN [queue |-> q, out |-> out]
  ELSE Emptied(Popped(q), Append(out, Head(q.heap)))
-----------------------------------------------------------------------------
Quiet == handed' = Nothing /\ becameEarliest' = FALSE

(* add(): two counters, then the heap under the mutex.                     *)
DrawId(c) ==
  /\ adding[c] = NoTimer /\ nextId <= setup.timers
  /\ adding' = [adding EXCEPT ![c] = nextId] /\ nextId' = nextId + 1
  /\ UNCHANGED <<setup, nextSequence, sequence, wake, queue>> /\ Quiet

DrawSequence(c) ==
  /\ adding[c] # NoTimer /\ sequence[adding[c]] = 0
  /\ sequence' = [sequence EXCEPT ![adding[c]] = nextSequence]
  /\ nextSequence' = nextSequence + 1
  /\ UNCHANGED <<setup, nextId, adding, wake, queue>> /\ Quiet

Entered(q, clock, t) ==
  LET end == Len(q.heap) + 1
  IN  BubbleUp(clock, [q EXCEPT !.heap = Append(@, t), !.at[t] = end, !.map = @ \cup {t}], end)

Enter(c) ==
  LET t == adding[c]
  IN  /\ t # NoTimer /\ sequence[t] # 0
      /\ \E time \in Times : /\ wake' = [wake EXCEPT ![t] = time]
                             /\ queue' = Entered(queue, wake', t)
      /\ becameEarliest' = (Head(queue'.heap) = t)
      /\ adding' = [adding EXCEPT ![c] = NoTimer] /\ handed' = Nothing
      /\ UNCHANGED <<setup, nextId, nextSequence, sequence>>

(* The entries in `gone` are destroyed. *)
Destroy(gone) ==
  /\ sequence' = [t \in Timers |-> IF t \in gone THEN 0 ELSE sequence[t]]
  /\ wake' = [t \in Timers |-> IF t \in gone THEN 0 ELSE wake[t]]
  /\ UNCHANGED <<setup, nextId, nextSequence, adding>>

(* cancel() by id, also of a timer that has been handed out already.       *)
Cancel(t) ==
  /\ t < nextId /\ \A c \in Callers : adding[c] # t
  /\ IF t \in queue.map THEN queue' = Removed(queue, queue.at[t]) /\ Destroy({t})
                        ELSE UNCHANGED queue /\ Destroy({})
  /\ Quiet

(* The entries that a loop has popped, at time now. *)
HandOut(now, result) ==
  /\ queue' = result.queue /\ handed' = [now |-> now, timers |-> result.out]
  /\ becameEarliest' = FALSE
  /\ Destroy(Range(result.out))

(* collect_due(now). *)
MutantTake(now) == HandOut(now, Drained(queue, now - 1, <<>>))
Take(now) == HandOut(now, Drained(queue, now, <<>>))

(* cancel_all(): until the heap is empty, as if it were the end of time. *)
LastTime == CHOOSE last \in Times : \A time \in Times : time <= last
CancelAll == HandOut(LastTime, Emptied(queue, <<>>))

(* What a worker that parks is told. *)
earliestWakeTime == IF queue.heap = <<>> THEN NoTimer ELSE wake[Head(queue.heap)]

Next ==
  \/ \E c \in setup.callers : DrawId(c) \/ DrawSequence(c) \/ Enter(c)
  \/ \E t \in Timers : Cancel(t)
  \/ \E now \in Times : Take(now)
  \/ CancelAll

Spec == Init /\ [][Next]_vars
-----------------------------------------------------------------------------
(* Properties.                                                             *)

(* The heap is a heap, every entry of it knows its place, and the map      *)
(* holds exactly its entries: what cancel() relies on to remove from the   *)
(* middle, after any sequence of calls.                                    *)
Inv ==
  /\ nextId \in 1 .. setup.timers + 1 /\ nextSequence \in 1 .. nextId
  /\ \A i \in DOMAIN queue.heap :
       /\ queue.at[queue.heap[i]] = i
       /\ i > 1 => Earlier(wake, queue.heap[i \div 2], queue.heap[i])
  /\ queue.map = Range(queue.heap)
  /\ \A t \in queue.map : earliestWakeTime <= wake[t]

Service == INSTANCE TimerService WITH
  waiting <- Range(queue.heap), order <- sequence,
  earliest <- becameEarliest

(* The heap, the indices and the map together do what TimerService says:   *)
(* due timers come out all together and in order, a cancelled one never,   *)
(* and the caller of add() learns whether a parked worker must be woken.   *)
ServiceSpec == Service!Spec
=============================================================================
