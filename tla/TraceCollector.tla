--------------------------- MODULE TraceCollector ---------------------------
(***************************************************************************)
(* Capture of trace events (src/src/observability/trace_collector.cpp).    *)
(* Producers emit without a lock into the buffer of their slot; starting,  *)
(* stopping and aborting a capture, and attaching a producer, take the     *)
(* collector's mutex.  A capture is a generation: a producer announces     *)
(* itself in inflight, looks at active once more, and writes only to the   *)
(* buffer of the generation it has seen; stop clears active and waits for  *)
(* inflight to come down to 0 before it reads the buffers.                 *)
(*                                                                         *)
(* An event is known by the generation its producer loaded: its fields are *)
(* left out.  The store that clears active is a release and the load of    *)
(* inflight an acquire: a processor may perform the load first.  Spec has   *)
(* them in the order of the program, ReorderedSpec in either order.        *)
(***************************************************************************)
EXTENDS Naturals, FiniteSets

CONSTANTS
  Emitters,     \* threads that emit
  Slots,        \* producers
  SlotOf,       \* SlotOf[e]: the slot emitter e writes through
  Attached,     \* the slots opened before the first capture
  Runtimes,     \* runtimes that may be attached, each as the set of its slots
  Controllers,  \* threads that start, stop and abort captures
  Capacity,     \* of a buffer
  MaxGen,       \* bound on captures
  MaxEmits,     \* bound on the events of an emitter
  NoThread

Gens == 1 .. MaxGen

ASSUME TraceAssumption ==
  /\ IsFiniteSet(Emitters)
  /\ SlotOf \in [Emitters -> Slots] /\ Attached \subseteq Slots
  /\ Runtimes \subseteq SUBSET Slots
  /\ Capacity \in Nat \ {0} /\ MaxGen \in Nat /\ MaxEmits \in Nat
  /\ NoThread \notin Controllers

VARIABLES
  started,     \* how many generations there have been
  current,     \* the current generation, or 0
  active,      \* the generations whose active flag is set
  inflight,    \* inflight[g]: producers that have announced themselves
  mutex,       \* the holder of the collector's mutex
  opened,      \* slots that are registered
  entry,       \* entry[s]: the generation of the buffer of slot s, or 0
  next,        \* next[g][s]: next_ticket of a buffer
  dropped,     \* dropped[g][s]
  cells,       \* cells[g][s]: what has been written, by ticket
  epc, seen,   \* an emitter's place, and the generation it has loaded
  into, ticket, emits,  \* the buffer it writes to, its ticket in it, its count
  cpc, gen,    \* a controller's place, and the capture it works on
  stopping,    \* stopping[g]: the holder of stop_mutex of capture g
  closed,      \* the captures that are closed
  buffered,    \* active flags cleared in a store buffer only
  read,        \* the slots a stop has read
  snapshot     \* snapshot[g][s]: what the stop of g has read of slot s

buffers == <<entry, next, dropped, cells>>
emitter == <<epc, seen, into, ticket, emits>>
capture == <<started, closed, stopping, snapshot>>
control == <<cpc, gen, read>>
vars == <<current, active, inflight, mutex, opened, buffers, emitter, capture, control,
          buffered>>

None == [events |-> 0, dropped |-> 0]

TypeOK ==
  /\ started \in 0 .. MaxGen /\ current \in 0 .. MaxGen
  /\ active \subseteq Gens /\ inflight \in [Gens -> Nat]
  /\ mutex \in Controllers \cup {NoThread} /\ opened \subseteq Slots
  /\ entry \in [Slots -> 0 .. MaxGen]
  /\ next \in [Gens -> [Slots -> Nat]] /\ dropped \in [Gens -> [Slots -> Nat]]
  /\ cells \in [Gens -> [Slots -> [0 .. Capacity - 1 -> 0 .. MaxGen]]]
  /\ epc \in [Emitters -> {"idle", "loaded", "entered", "chosen", "write", "full", "leave"}]
  /\ seen \in [Emitters -> 0 .. MaxGen] /\ into \in [Emitters -> 0 .. MaxGen]
  /\ ticket \in [Emitters -> Nat] /\ emits \in [Emitters -> 0 .. MaxEmits]
  /\ cpc \in [Controllers -> {"idle", "publish", "stop", "disable", "quiesce", "drain",
                              "discard"}]
  /\ gen \in [Controllers -> 0 .. MaxGen] /\ read \subseteq Slots
  /\ stopping \in [Gens -> Controllers \cup {NoThread}]
  /\ closed \subseteq Gens /\ buffered \subseteq Gens
  /\ snapshot \in [Gens -> [Slots -> [events : Nat, dropped : Nat]]]

Init ==
  /\ started = 0 /\ current = 0 /\ active = {} /\ inflight = [g \in Gens |-> 0]
  /\ mutex = NoThread /\ opened = Attached /\ entry = [s \in Slots |-> 0]
  /\ next = [g \in Gens |-> [s \in Slots |-> 0]]
  /\ dropped = [g \in Gens |-> [s \in Slots |-> 0]]
  /\ cells = [g \in Gens |-> [s \in Slots |-> [t \in 0 .. Capacity - 1 |-> 0]]]
  /\ epc = [e \in Emitters |-> "idle"] /\ seen = [e \in Emitters |-> 0]
  /\ into = [e \in Emitters |-> 0]
  /\ ticket = [e \in Emitters |-> 0] /\ emits = [e \in Emitters |-> 0]
  /\ cpc = [c \in Controllers |-> "idle"] /\ gen = [c \in Controllers |-> 0]
  /\ stopping = [g \in Gens |-> NoThread] /\ closed = {} /\ buffered = {} /\ read = {}
  /\ snapshot = [g \in Gens |-> [s \in Slots |-> None]]

EGoto(e, step) == epc' = [epc EXCEPT ![e] = step]
CGoto(c, step) == cpc' = [cpc EXCEPT ![c] = step]
Recording == current # 0 /\ current \in active
-----------------------------------------------------------------------------
(* emit_event().                                                           *)

(* No capture, or a stopped one: nothing to do, and nothing counts as lost.*)
Load(e) ==
  /\ epc[e] = "idle" /\ emits[e] < MaxEmits /\ SlotOf[e] \in opened
  /\ emits' = [emits EXCEPT ![e] = @ + 1]
  /\ Recording
  /\ seen' = [seen EXCEPT ![e] = current]
  /\ EGoto(e, "loaded")
  /\ UNCHANGED <<current, active, inflight, mutex, opened, buffers, into, ticket, capture, control,
                 buffered>>

Enter(e) ==
  /\ epc[e] = "loaded"
  /\ inflight' = [inflight EXCEPT ![seen[e]] = @ + 1]
  /\ EGoto(e, "entered")
  /\ UNCHANGED <<current, active, mutex, opened, buffers, seen, into, ticket, emits, capture,
                 control, buffered>>

(* Mutant: active is not looked at again.                                  *)
MutantWritable(e) == entry[SlotOf[e]] = seen[e]

(* Only the buffer of the generation that was loaded, while it is active.  *)
Writable(e) == entry[SlotOf[e]] = seen[e] /\ seen[e] \in active

(* An event of a category that is off is not written, and not lost.        *)
Choose(e) ==
  /\ epc[e] = "entered"
  /\ \/ /\ Writable(e)
        /\ into' = [into EXCEPT ![e] = entry[SlotOf[e]]]
        /\ EGoto(e, "chosen")
     \/ EGoto(e, "leave") /\ UNCHANGED into
  /\ UNCHANGED <<current, active, inflight, mutex, opened, buffers, seen, ticket, emits,
                 capture, control, buffered>>

Ticket(e) ==
  LET n == next[into[e]][SlotOf[e]] IN
  /\ epc[e] = "chosen"
  /\ ticket' = [ticket EXCEPT ![e] = n]
  /\ next' = [next EXCEPT ![into[e]][SlotOf[e]] = n + 1]
  /\ EGoto(e, IF n < Capacity THEN "write" ELSE "full")
  /\ UNCHANGED <<current, active, inflight, mutex, opened, entry, dropped, cells, seen,
                 into, emits, capture, control, buffered>>

Write(e) ==
  /\ epc[e] = "write"
  /\ cells' = [cells EXCEPT ![into[e]][SlotOf[e]][ticket[e]] = seen[e]]
  /\ EGoto(e, "leave")
  /\ UNCHANGED <<current, active, inflight, mutex, opened, entry, next, dropped, seen,
                 into, ticket, emits, capture, control, buffered>>

(* Mutant: the way out of a full buffer forgets inflight.                  *)
MutantDrop(e) ==
  /\ epc[e] = "full"
  /\ dropped' = [dropped EXCEPT ![into[e]][SlotOf[e]] = @ + 1]
  /\ EGoto(e, "idle")
  /\ UNCHANGED <<current, active, inflight, mutex, opened, entry, next, cells, seen, into,
                 ticket, emits, capture, control, buffered>>

(* A full buffer drops the newest event, and counts it.                    *)
Drop(e) ==
  /\ epc[e] = "full"
  /\ dropped' = [dropped EXCEPT ![into[e]][SlotOf[e]] = @ + 1]
  /\ EGoto(e, "leave")
  /\ UNCHANGED <<current, active, inflight, mutex, opened, entry, next, cells, seen, into,
                 ticket, emits, capture, control, buffered>>

Leave(e) ==
  /\ epc[e] = "leave"
  /\ inflight' = [inflight EXCEPT ![seen[e]] = @ - 1]
  /\ EGoto(e, "idle")
  /\ UNCHANGED <<current, active, mutex, opened, buffers, seen, into, ticket, emits, capture,
                 control, buffered>>
-----------------------------------------------------------------------------
(* open_slot_locked(): while a capture records, a slot gets its buffer.    *)
Open(S) ==
  /\ opened' = opened \cup S
  /\ entry' = [s \in Slots |-> IF s \in S /\ Recording THEN current ELSE entry[s]]

(* trace_attach_runtime(): the slots of a runtime, under the lock; the     *)
(* external one and the Reaper's are opened once for all runtimes.         *)
Attach(S) ==
  /\ ~(S \subseteq opened) /\ mutex = NoThread
  /\ Open(S \ opened)
  /\ UNCHANGED <<current, active, inflight, mutex, next, dropped, cells, emitter, capture,
                 control, buffered>>

(* start_capture() fails while one is recording.  Otherwise every slot gets*)
(* a buffer of the new generation, then the generation is published.       *)
Start(c) ==
  /\ cpc[c] = "idle" /\ mutex = NoThread /\ ~Recording /\ started < MaxGen
  /\ mutex' = c
  /\ started' = started + 1
  /\ entry' = [s \in Slots |-> IF s \in opened THEN started + 1 ELSE entry[s]]
  /\ active' = active \cup {started + 1}
  /\ gen' = [gen EXCEPT ![c] = started + 1]
  /\ CGoto(c, "publish")
  /\ UNCHANGED <<current, inflight, opened, next, dropped, cells, emitter, closed, stopping,
                 snapshot, read, buffered>>

Publish(c) ==
  /\ cpc[c] = "publish"
  /\ current' = gen[c] /\ mutex' = NoThread
  /\ CGoto(c, "idle")
  /\ UNCHANGED <<active, inflight, opened, buffers, emitter, capture, gen, read, buffered>>

(* TraceCapture::stop(): one thread stops the capture; those that come     *)
(* later find it closed and share its snapshot.                            *)
Stop(c, g) ==
  /\ cpc[c] = "idle" /\ g <= started /\ stopping[g] = NoThread /\ g \notin closed
  /\ \A d \in Controllers : ~(cpc[d] = "publish" /\ gen[d] = g)
  /\ stopping' = [stopping EXCEPT ![g] = c]
  /\ gen' = [gen EXCEPT ![c] = g]
  /\ CGoto(c, "stop")
  /\ UNCHANGED <<current, active, inflight, mutex, opened, buffers, emitter, started, closed,
                 snapshot, read, buffered>>

Lock(c) ==
  /\ cpc[c] = "stop" /\ mutex = NoThread
  /\ mutex' = c
  /\ CGoto(c, "disable")
  /\ UNCHANGED <<current, active, inflight, opened, buffers, emitter, capture, gen, read,
                 buffered>>

(* active.store(false).                                                    *)
Disable(c) ==
  /\ cpc[c] = "disable"
  /\ active' = active \ {gen[c]}
  /\ CGoto(c, "quiesce")
  /\ UNCHANGED <<current, inflight, mutex, opened, buffers, emitter, capture, gen, read,
                 buffered>>

(* The store waits in a buffer of the processor while inflight is loaded.  *)
DisableLate(c) ==
  /\ cpc[c] = "disable"
  /\ buffered' = buffered \cup {gen[c]}
  /\ CGoto(c, "quiesce")
  /\ UNCHANGED <<current, active, inflight, mutex, opened, buffers, emitter, capture, gen,
                 read>>

Flush(g) ==
  /\ g \in buffered
  /\ buffered' = buffered \ {g} /\ active' = active \ {g}
  /\ UNCHANGED <<current, inflight, mutex, opened, buffers, emitter, capture, control>>

(* The spin on inflight ends: a stop reads the buffers, an abort does not. *)
Quiesce(c) ==
  /\ cpc[c] = "quiesce" /\ inflight[gen[c]] = 0
  /\ read' = {}
  /\ \E step \in {"drain", "discard"} :
       /\ step = "discard" => stopping[gen[c]] = NoThread
       /\ step = "drain" => stopping[gen[c]] = c
       /\ CGoto(c, step)
  /\ UNCHANGED <<current, active, inflight, mutex, opened, buffers, emitter, capture, gen,
                 buffered>>

(* Mutant: the tickets that found no room are read as well.                *)
MutantCommitted(g, s) == next[g][s]

Committed(g, s) == IF next[g][s] < Capacity THEN next[g][s] ELSE Capacity

Drain(c, s) ==
  /\ cpc[c] = "drain" /\ s \in opened \ read
  /\ read' = read \cup {s}
  /\ snapshot' = IF entry[s] # gen[c] THEN snapshot
                 ELSE [snapshot EXCEPT ![gen[c]][s] =
                         [events |-> Committed(gen[c], s), dropped |-> dropped[gen[c]][s]]]
  /\ UNCHANGED <<current, active, inflight, mutex, opened, buffers, emitter, started, closed,
                 stopping, cpc, gen, buffered>>

(* ~TraceCapture() of an open capture aborts it: no snapshot.              *)
Abort(c, g) ==
  /\ cpc[c] = "idle" /\ mutex = NoThread
  /\ current = g /\ g \notin closed /\ stopping[g] = NoThread
  /\ mutex' = c
  /\ gen' = [gen EXCEPT ![c] = g]
  /\ closed' = closed \cup {g}
  /\ CGoto(c, "disable")
  /\ UNCHANGED <<current, active, inflight, opened, buffers, emitter, started, stopping,
                 snapshot, read, buffered>>

(* The collector has no capture any more; the unlock orders the stores.    *)
Finish(c) ==
  /\ \/ cpc[c] = "drain" /\ read = opened
     \/ cpc[c] = "discard"
  /\ gen[c] \notin buffered
  /\ current' = 0 /\ mutex' = NoThread
  /\ closed' = closed \cup {gen[c]}
  /\ stopping' = [stopping EXCEPT ![gen[c]] = NoThread]
  /\ CGoto(c, "idle")
  /\ UNCHANGED <<active, inflight, opened, buffers, emitter, started, snapshot, gen, read,
                 buffered>>
-----------------------------------------------------------------------------
EmitStep(e) == \/ Enter(e) \/ Choose(e) \/ Ticket(e) \/ Write(e) \/ Drop(e) \/ Leave(e)
StopStep(c) == \/ Publish(c) \/ Lock(c) \/ Disable(c) \/ Quiesce(c) \/ Finish(c)
               \/ \E s \in Slots : Drain(c, s)

Next ==
  \/ \E e \in Emitters : Load(e) \/ EmitStep(e)
  \/ \E S \in Runtimes : Attach(S)
  \/ \E c \in Controllers : Start(c) \/ StopStep(c)
  \/ \E c \in Controllers, g \in Gens : Stop(c, g) \/ Abort(c, g)

Spec == Init /\ [][Next]_vars

ReorderedSpec ==
  Init /\ [][Next \/ (\E c \in Controllers : DisableLate(c)) \/ (\E g \in Gens : Flush(g))]_vars

(* Threads go on.  Nobody has to emit or to stop.   *)
FairSpec ==
  /\ Spec
  /\ \A e \in Emitters : WF_vars(EmitStep(e))
  /\ \A c \in Controllers : WF_vars(StopStep(c))
-----------------------------------------------------------------------------
Inside(g) == {e \in Emitters : seen[e] = g /\ epc[e] \notin {"idle", "loaded"}}

(* The buffers are read only when nobody will write to them any more.      *)
DrainQuiet ==
  \A c \in Controllers : cpc[c] = "drain" =>
    \A e \in Inside(gen[c]) : epc[e] \in {"entered", "leave"}

(* A cell holds an event of the generation it belongs to: an emitter that  *)
(* is late for its capture does not write into the next one.  inflight     *)
(* counts those inside.                                                    *)
Inv ==
  /\ TypeOK
  /\ \A g \in Gens, s \in Slots, t \in 0 .. Capacity - 1 : cells[g][s][t] \in {0, g}
  /\ \A g \in Gens : inflight[g] = Cardinality(Inside(g))
  /\ DrainQuiet

(* A capture is a log that is cut once: what stop() returns is every event *)
(* that was written and the number of those lost, with no hole in it, and  *)
(* nothing is added to it later (R-086).                                   *)
Written(g, s) == Cardinality({t \in 0 .. Capacity - 1 : cells[g][s][t] # 0})
Log == INSTANCE CaptureLog WITH
  open <- current,
  log <- [g \in Gens |-> [s \in Slots |->
            [events |-> Written(g, s), dropped |-> dropped[g][s]]]],
  result <- [g \in Gens |-> [s \in Slots |-> IF g \in closed THEN snapshot[g][s] ELSE None]]
CaptureSpec == Log!Spec

(* stop() and ~TraceCapture() end: they wait for emitters, never for tasks.*)
StopEnds ==
  \A c \in Controllers :
    /\ cpc[c] = "stop" ~> cpc[c] = "idle"
    /\ cpc[c] = "disable" ~> cpc[c] = "idle"
=============================================================================
