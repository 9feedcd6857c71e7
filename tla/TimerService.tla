---------------------------- MODULE TimerService ----------------------------
(***************************************************************************)
(* What the timer queue of a runtime promises: a registered timer waits    *)
(* until it is cancelled or handed out; the timers that are due are handed *)
(* out together, all of them, the earliest first; and who parks next may   *)
(* rely on the earliest wake time it is told.                              *)
(***************************************************************************)
EXTENDS Naturals, Sequences, FiniteSets, SequencesExt

CONSTANTS Timers, Times

VARIABLES
  waiting,   \* the timers registered and not yet taken
  wake,      \* wake[t]: when t is due
  order,     \* order[t]: breaks ties
  earliest,  \* whether the timer just registered is due before all others
  handed     \* the time of the last call that handed out timers, and those timers

Before(t, u) == wake[t] < wake[u] \/ (wake[t] = wake[u] /\ order[t] < order[u])
InOrder(s) == \A i, j \in DOMAIN s : i < j => Before(s[i], s[j])

Nothing == [now |-> 0, timers |-> <<>>]

Init == /\ waiting = {} /\ handed = Nothing /\ earliest = FALSE
        /\ wake = [t \in Timers |-> 0] /\ order = [t \in Timers |-> 0]

Forgotten(clock, taken) == [t \in Timers |-> IF t \in taken THEN 0 ELSE clock[t]]

Quiet == handed' = Nothing /\ earliest' = FALSE

Rank(t) ==
  /\ t \notin waiting /\ \E n \in 1 .. Cardinality(Timers) : order' = [order EXCEPT ![t] = n]
  /\ Quiet /\ UNCHANGED <<waiting, wake>>

Register(t) ==
  /\ t \notin waiting /\ waiting' = waiting \cup {t}
  /\ \E time \in Times : wake' = [wake EXCEPT ![t] = time]
  /\ earliest' = \A u \in waiting : \/ wake'[t] < wake[u]
                                    \/ wake'[t] = wake[u] /\ order[t] < order[u]
  /\ handed' = Nothing /\ UNCHANGED order

Withdraw(t) == /\ waiting' = waiting \ {t}
               /\ wake' = Forgotten(wake, {t}) /\ order' = Forgotten(order, {t})
               /\ Quiet

HandOut(now) ==
  LET due == {t \in waiting : wake[t] <= now}
  IN  /\ handed'.now = now /\ Range(handed'.timers) = due
      /\ Len(handed'.timers) = Cardinality(due) /\ InOrder(handed'.timers)
      /\ waiting' = waiting \ due /\ earliest' = FALSE
      /\ wake' = Forgotten(wake, due) /\ order' = Forgotten(order, due)

Next ==
  \/ \E t \in Timers : Rank(t) \/ Register(t) \/ Withdraw(t)
  \/ \E now \in Times : HandOut(now)

Spec == Init /\ [][Next]_<<waiting, wake, order, earliest, handed>>
=============================================================================
