----------------------------- MODULE CaptureLog -----------------------------
(***************************************************************************)
(* What a trace collector promises: one capture at a time, each with a log *)
(* per producer of bounded length and a count of what did not fit.  When a *)
(* capture is cut its logs are its result, unless it is discarded, and they*)
(* do not change any more.                                                 *)
(***************************************************************************)
EXTENDS Naturals

CONSTANTS Gens, Slots, Capacity

VARIABLES
  open,    \* the capture that records, or 0
  log,     \* log[g][s]: how many events are in, how many were dropped
  result   \* result[g][s], once g was cut

None == [events |-> 0, dropped |-> 0]
Blank == [g \in Gens |-> [s \in Slots |-> None]]

Init == open = 0 /\ log = Blank /\ result = Blank

Open == /\ open = 0 /\ open' \in Gens
        /\ log[open'] = Blank[open'] /\ result[open'] = Blank[open']
        /\ UNCHANGED <<log, result>>

Add(s) ==
  /\ open # 0
  /\ \/ /\ log[open][s].events < Capacity
        /\ log' = [log EXCEPT ![open][s].events = @ + 1]
     \/ log' = [log EXCEPT ![open][s].dropped = @ + 1]
  /\ UNCHANGED <<open, result>>

(* An event is dropped only when the log is full.                          *)
Cut ==
  /\ open # 0 /\ open' = 0
  /\ \A s \in Slots : log[open][s].dropped > 0 => log[open][s].events = Capacity
  /\ \/ result' = [result EXCEPT ![open] = log[open]]
     \/ UNCHANGED result
  /\ UNCHANGED log

Next == Open \/ (\E s \in Slots : Add(s)) \/ Cut

Spec == Init /\ [][Next]_<<open, log, result>>
=============================================================================
