------------------------ MODULE TraceCollector_proof ------------------------
(***************************************************************************)
(* The recording protocol for any number of emitters, slots, captures and  *)
(* threads that control them: an event lands only in the capture it was    *)
(* emitted for, and the buffers of a capture are read only when nobody     *)
(* writes to them any more.  Neither rests on the collector's mutex, which *)
(* emitters do not take, but on the count of those inside and on the       *)
(* second look at active.                                                  *)
(***************************************************************************)
EXTENDS TraceCollector, FiniteSetTheorems, TLAPS

Steps == {"idle", "loaded", "entered", "chosen", "write", "full", "leave"}
Writing == {"chosen", "write", "full"}

(* An emitter underway knows its capture and writes into its buffer only.  *)
Named ==
  \A e \in Emitters : /\ epc[e] # "idle" => seen[e] \in Gens
                      /\ epc[e] \in Writing => into[e] = seen[e]

(* A capture that is being ended has begun, and is not active any more     *)
(* once its end waits for the emitters.                                    *)
Ended ==
  /\ current <= started
  /\ \A c \in Controllers : /\ gen[c] <= started
                            /\ cpc[c] # "idle" => gen[c] \in Gens
                            /\ cpc[c] \in {"quiesce", "drain"} => gen[c] \notin active

Clean == \A g \in Gens, s \in Slots, t \in 0 .. Capacity - 1 : cells[g][s][t] \in {0, g}
Counted == \A g \in Gens : inflight[g] = Cardinality(Inside(g))

IInv == Inv /\ Named /\ Ended

LEMMA InitTrace == Init => IInv
<1> SUFFICES ASSUME Init PROVE IInv
  OBVIOUS
<1> USE TraceAssumption DEF TraceAssumption, Init
<1>1. TypeOK
  BY DEF TypeOK, Gens, None
<1>2. Clean /\ DrainQuiet
  BY DEF Clean, DrainQuiet, Gens
<1>3. Counted
  <2>1. \A g \in Gens : Inside(g) = {}
    BY DEF Inside
  <2> QED
    BY <2>1, FS_EmptySet DEF Counted
<1>4. Named /\ Ended
  BY DEF Named, Ended, Gens
<1> QED
  BY <1>1, <1>2, <1>3, <1>4 DEF IInv, Inv, Clean, Counted

(* A thread that publishes or ends a capture touches no emitter and no     *)
(* buffer.                                                                 *)
LEMMA ControlLeaves ==
  ASSUME NEW c \in Controllers, StopStep(c) \/ \E g \in Gens : Stop(c, g) \/ Abort(c, g)
  PROVE  UNCHANGED <<inflight, opened, buffers, emitter, started>>
<1>1. CASE Publish(c)
  BY <1>1 DEF Publish, capture
<1>2. CASE Lock(c)
  BY <1>2 DEF Lock, capture
<1>3. CASE Disable(c)
  BY <1>3 DEF Disable, capture
<1>4. CASE Quiesce(c)
  BY <1>4 DEF Quiesce, capture
<1>5. CASE Finish(c)
  BY <1>5 DEF Finish
<1>6. CASE \E s \in Slots : Drain(c, s)
  BY <1>6 DEF Drain
<1>7. CASE \E g \in Gens : Stop(c, g) \/ Abort(c, g)
  BY <1>7 DEF Stop, Abort
<1> QED
  BY <1>1, <1>2, <1>3, <1>4, <1>5, <1>6, <1>7 DEF StopStep

(* An emitter touches nothing that controls a capture, and attaches none.  *)
LEMMA EmitLeaves ==
  ASSUME NEW e \in Emitters, Load(e) \/ EmitStep(e)
  PROVE  UNCHANGED <<current, active, mutex, opened, entry, capture, control>>
<1> USE DEF buffers
<1>1. CASE Load(e)
  BY <1>1 DEF Load
<1>2. CASE Enter(e) \/ Choose(e) \/ Leave(e)
  BY <1>2 DEF Enter, Choose, Leave
<1>3. CASE Ticket(e) \/ Write(e) \/ Drop(e)
  BY <1>3 DEF Ticket, Write, Drop
<1> QED
  BY <1>1, <1>2, <1>3 DEF EmitStep

(* Who steps: an emitter, a runtime that attaches, a thread that starts a  *)
(* capture, or one that publishes or ends it.                              *)
LEMMA Ways ==
  ASSUME [Next]_vars
  PROVE  \/ \E e \in Emitters : Load(e) \/ EmitStep(e)
         \/ \E S \in Runtimes : Attach(S)
         \/ \E c \in Controllers : Start(c)
         \/ UNCHANGED <<inflight, opened, buffers, emitter, started>>
<1>1. CASE Next
  BY <1>1, ControlLeaves DEF Next
<1>2. CASE UNCHANGED vars
  BY <1>2 DEF vars, capture
<1> QED
  BY <1>1, <1>2

(* Every variable keeps its type; inflight does not go below zero, because *)
(* who leaves has been counted.                                            *)
LEMMA TypeStep == IInv /\ [Next]_vars => TypeOK'
<1> SUFFICES ASSUME TypeOK, Named, Ended, Counted, [Next]_vars PROVE TypeOK'
  BY DEF IInv, Inv, Counted
<1> USE TraceAssumption DEF TraceAssumption, TypeOK, EGoto, CGoto, buffers, emitter, capture, control
<1>1. ASSUME NEW e \in Emitters, Load(e) \/ EmitStep(e) PROVE TypeOK'
  <2> SlotOf[e] \in Slots
    OBVIOUS
  <2>1. CASE Load(e)
    <3>1. seen' \in [Emitters -> 0 .. MaxGen] /\ epc' \in [Emitters -> Steps]
      BY <2>1 DEF Load, Steps
    <3>2. emits' \in [Emitters -> 0 .. MaxEmits]
      <4>1. emits[e] + 1 \in 0 .. MaxEmits
        BY <2>1 DEF Load
      <4> QED
        BY <2>1, <4>1 DEF Load
    <3> QED
      BY <2>1, <3>1, <3>2 DEF Load, Steps
  <2>2. CASE Enter(e)
    <3>1. seen[e] \in Gens
      BY <2>2 DEF Enter, Named
    <3>2. inflight' \in [Gens -> Nat]
      BY <2>2, <3>1 DEF Enter
    <3> QED
      BY <2>2, <3>2 DEF Enter
  <2>3. CASE Choose(e)
    <3>1. into' \in [Emitters -> 0 .. MaxGen] /\ epc' \in [Emitters -> Steps]
      <4>1. \E step \in Steps : epc' = [epc EXCEPT ![e] = step]
        BY <2>3 DEF Choose, Steps
      <4>2. into' = into \/ into' = [into EXCEPT ![e] = entry[SlotOf[e]]]
        BY <2>3 DEF Choose
      <4>3. entry[SlotOf[e]] \in 0 .. MaxGen
        OBVIOUS
      <4>4. epc' \in [Emitters -> Steps]
        BY <4>1 DEF Steps
      <4> QED
        BY <4>2, <4>3, <4>4
    <3> QED
      BY <2>3, <3>1 DEF Choose, Steps
  <2>4. CASE Ticket(e)
    <3>1. into[e] \in Gens
      BY <2>4 DEF Ticket, Named, Writing
    <3> DEFINE n == next[into[e]][SlotOf[e]]
    <3>2. n \in Nat
      BY <3>1
    <3>3. /\ next' = [next EXCEPT ![into[e]][SlotOf[e]] = n + 1]
          /\ ticket' = [ticket EXCEPT ![e] = n]
      BY <2>4 DEF Ticket
    <3>4. epc' \in [Emitters -> Steps]
      BY <2>4 DEF Ticket, Steps
    <3> HIDE DEF n
    <3>5. next' \in [Gens -> [Slots -> Nat]] /\ ticket' \in [Emitters -> Nat]
      BY <3>1, <3>2, <3>3
    <3> QED
      BY <2>4, <3>4, <3>5 DEF Ticket, Steps
  <2>5. CASE Write(e)
    <3>1. into[e] \in Gens /\ seen[e] \in 0 .. MaxGen
      BY <2>5 DEF Write, Named, Writing
    <3> DEFINE s == SlotOf[e]
               cell == [cells[into[e]][s] EXCEPT ![ticket[e]] = seen[e]]
    <3>3. cell \in [0 .. Capacity - 1 -> 0 .. MaxGen]
      <4>1. cells[into[e]][s] \in [0 .. Capacity - 1 -> 0 .. MaxGen]
        BY <3>1
      <4> QED
        BY <3>1, <4>1
    <3>4. cells' = [cells EXCEPT ![into[e]][s] = cell]
      BY <2>5 DEF Write
    <3> HIDE DEF cell
    <3>2. cells' \in [Gens -> [Slots -> [0 .. Capacity - 1 -> 0 .. MaxGen]]]
      <4>1. cells[into[e]] \in [Slots -> [0 .. Capacity - 1 -> 0 .. MaxGen]]
        BY <3>1
      <4>2. cells' = [cells EXCEPT ![into[e]] = [cells[into[e]] EXCEPT ![s] = cell]]
        BY <3>4
      <4> QED
        BY <3>1, <3>3, <4>1, <4>2
    <3>5. /\ epc' = [epc EXCEPT ![e] = "leave"]
          /\ UNCHANGED <<current, active, inflight, mutex, opened, entry, next, dropped, seen,
                         into, ticket, emits, capture, control, buffered>>
      BY <2>5 DEF Write
    <3> QED
      BY <3>2, <3>5
  <2>6. CASE Drop(e)
    <3>1. into[e] \in Gens
      BY <2>6 DEF Drop, Named, Writing
    <3>2. dropped' \in [Gens -> [Slots -> Nat]]
      BY <2>6, <3>1 DEF Drop
    <3>3. epc' \in [Emitters -> Steps]
      BY <2>6 DEF Drop, Steps
    <3>4. UNCHANGED <<current, active, inflight, mutex, opened, entry, next, cells, seen, into,
                      ticket, emits, capture, control, buffered>>
      BY <2>6 DEF Drop
    <3> QED
      BY <3>2, <3>3, <3>4 DEF Steps
  <2>7. CASE Leave(e)
    <3> DEFINE g == seen[e]
    <3>1. g \in Gens /\ e \in Inside(g)
      BY <2>7 DEF Leave, Named, Inside
    <3>2. IsFiniteSet(Inside(g))
      BY FS_Subset DEF Inside
    <3>3. Cardinality(Inside(g)) # 0
      BY <3>1, <3>2, FS_EmptySet
    <3>4. inflight[g] - 1 \in Nat
      <4>1. inflight[g] \in Nat
        BY <3>1
      <4>2. inflight[g] # 0
        BY <3>1, <3>3 DEF Counted
      <4> QED
        BY <4>1, <4>2
    <3>5. inflight' \in [Gens -> Nat]
      BY <2>7, <3>1, <3>4 DEF Leave
    <3>6. epc' \in [Emitters -> Steps]
      BY <2>7 DEF Leave, Steps
    <3>7. UNCHANGED <<current, active, mutex, opened, buffers, seen, into, ticket, emits,
                      capture, control, buffered>>
      BY <2>7 DEF Leave
    <3> QED
      BY <3>5, <3>6, <3>7 DEF Steps
  <2> QED
    BY <1>1, <2>1, <2>2, <2>3, <2>4, <2>5, <2>6, <2>7 DEF EmitStep
<1>2. ASSUME NEW S \in Runtimes, Attach(S) PROVE TypeOK'
  <2>1. entry' \in [Slots -> 0 .. MaxGen] /\ opened' \subseteq Slots
    BY <1>2 DEF Attach, Open
  <2> QED
    BY <1>2, <2>1 DEF Attach
<1>3. ASSUME NEW c \in Controllers, Start(c) \/ StopStep(c) PROVE TypeOK'
  <2>1. CASE Start(c)
    <3>1. started + 1 \in Gens
      BY <2>1 DEF Start, Gens
    <3>2. started' \in 0 .. MaxGen
      BY <2>1, <3>1 DEF Start, Gens
    <3>3. entry' \in [Slots -> 0 .. MaxGen]
      BY <2>1, <3>1 DEF Start, Gens
    <3>4. gen' \in [Controllers -> 0 .. MaxGen]
      BY <2>1, <3>1 DEF Start, Gens
    <3>5. active' \subseteq Gens /\ mutex' \in Controllers
      BY <2>1, <3>1 DEF Start
    <3>6. cpc' = [cpc EXCEPT ![c] = "publish"]
      BY <2>1 DEF Start
    <3>7. UNCHANGED <<current, inflight, opened, next, dropped, cells, emitter, closed,
                     stopping, snapshot, read, buffered>>
      BY <2>1 DEF Start
    <3> QED
      BY <3>2, <3>3, <3>4, <3>5, <3>6, <3>7
  <2>2. CASE Publish(c)
    <3>1. current' \in 0 .. MaxGen
      BY <2>2 DEF Publish
    <3> QED
      BY <2>2, <3>1 DEF Publish
  <2>6. CASE Lock(c)
    BY <2>6 DEF Lock
  <2>7. CASE Disable(c)
    <3>1. active' \subseteq Gens
      BY <2>7 DEF Disable
    <3> QED
      BY <2>7, <3>1 DEF Disable
  <2>5. CASE Quiesce(c)
    <3>1. PICK step \in {"drain", "discard"} : cpc' = [cpc EXCEPT ![c] = step]
      BY <2>5 DEF Quiesce
    <3> QED
      BY <2>5, <3>1 DEF Quiesce
  <2>3. CASE Finish(c)
    <3>1. gen[c] \in Gens
      BY <2>3 DEF Finish, Ended
    <3>2. stopping' \in [Gens -> Controllers \cup {NoThread}]
      BY <2>3, <3>1 DEF Finish
    <3>3. /\ current' = 0 /\ mutex' = NoThread /\ closed' = closed \cup {gen[c]}
          /\ cpc' = [cpc EXCEPT ![c] = "idle"]
          /\ UNCHANGED <<active, inflight, opened, buffers, emitter, started, snapshot, gen,
                         read, buffered>>
      BY <2>3 DEF Finish
    <3>4. /\ current' \in 0 .. MaxGen /\ mutex' \in Controllers \cup {NoThread}
          /\ closed' \subseteq Gens
      BY <3>1, <3>3
    <3>5. cpc' \in [Controllers -> {"idle", "publish", "stop", "disable", "quiesce", "drain",
                                    "discard"}]
      BY <3>3
    <3> QED
      BY <3>2, <3>3, <3>4, <3>5
  <2>4. ASSUME NEW s \in Slots, Drain(c, s) PROVE TypeOK'
    <3> DEFINE g == gen[c]
               r == [events |-> Committed(g, s), dropped |-> dropped[g][s]]
    <3>1. g \in Gens
      BY <2>4 DEF Drain, Ended
    <3>2. Committed(g, s) \in Nat /\ dropped[g][s] \in Nat
      BY <3>1 DEF Committed
    <3>3. r \in [events : Nat, dropped : Nat]
      BY <3>2
    <3>4. CASE entry[s] # g
      BY <2>4, <3>4 DEF Drain
    <3>5. CASE entry[s] = g
      <4>1. snapshot' = [snapshot EXCEPT ![g][s] = r]
        BY <2>4, <3>5 DEF Drain
      <4>2. read' \subseteq Slots
        BY <2>4 DEF Drain
      <4> HIDE DEF g, r
      <4>3. snapshot' \in [Gens -> [Slots -> [events : Nat, dropped : Nat]]]
        BY <3>1, <3>3, <4>1
      <4> QED
        BY <2>4, <4>2, <4>3 DEF Drain
    <3> QED
      BY <3>4, <3>5
  <2> QED
    BY <1>3, <2>1, <2>2, <2>3, <2>4, <2>5, <2>6, <2>7 DEF StopStep
<1>4. ASSUME NEW c \in Controllers, NEW g \in Gens, Stop(c, g) \/ Abort(c, g) PROVE TypeOK'
  <2> g \in 0 .. MaxGen
    BY DEF Gens
  <2>1. gen' \in [Controllers -> 0 .. MaxGen]
    BY <1>4 DEF Stop, Abort
  <2>2. CASE Stop(c, g)
    BY <2>1, <2>2 DEF Stop
  <2>3. CASE Abort(c, g)
    BY <2>1, <2>3 DEF Abort
  <2> QED
    BY <1>4, <2>2, <2>3
<1>5. CASE UNCHANGED vars
  BY <1>5 DEF vars
<1> QED
  BY <1>1, <1>2, <1>3, <1>4, <1>5 DEF Next

(* Who counts as inside a capture changes with Enter and Leave only.       *)
LEMMA CountStep == IInv /\ [Next]_vars => Counted'
<1> SUFFICES ASSUME TypeOK, Named, Counted, [Next]_vars PROVE Counted'
  BY DEF IInv, Inv, Counted
<1> USE TraceAssumption DEF TraceAssumption, EGoto, CGoto, buffers, emitter, capture, control
<1>0. /\ inflight \in [Gens -> Nat] /\ epc \in [Emitters -> Steps]
      /\ seen \in [Emitters -> 0 .. MaxGen]
  BY DEF TypeOK, Steps
<1>1. \A g \in Gens : IsFiniteSet(Inside(g))
  BY FS_Subset DEF Inside
<1>2. ASSUME NEW e \in Emitters, Enter(e) PROVE Counted'
  <2>1. seen[e] \in Gens /\ UNCHANGED seen
    BY <1>2 DEF Enter, Named
  <2>2. inflight' = [inflight EXCEPT ![seen[e]] = @ + 1] /\ e \notin Inside(seen[e])
    BY <1>2 DEF Enter, Inside
  <2>3. ASSUME NEW g \in Gens PROVE inflight'[g] = Cardinality(Inside(g)')
    <3>1. CASE g = seen[e]
      <4>1. Inside(g)' = Inside(g) \cup {e}
        BY <1>0, <1>2, <3>1 DEF Enter, Inside
      <4>2. Cardinality(Inside(g)') = Cardinality(Inside(g)) + 1
        BY <1>1, <2>2, <3>1, <4>1, FS_AddElement
      <4> QED
        BY <1>0, <2>1, <2>2, <3>1, <4>2 DEF Counted
    <3>2. CASE g # seen[e]
      <4>1. Inside(g)' = Inside(g)
        BY <1>0, <1>2, <3>2 DEF Enter, Inside
      <4> QED
        BY <1>0, <2>1, <2>2, <3>2, <4>1 DEF Counted
    <3> QED
      BY <3>1, <3>2
  <2> QED
    BY <2>3 DEF Counted
<1>3. ASSUME NEW e \in Emitters, Leave(e) PROVE Counted'
  <2>1. seen[e] \in Gens /\ UNCHANGED seen
    BY <1>3 DEF Leave, Named
  <2>2. inflight' = [inflight EXCEPT ![seen[e]] = @ - 1] /\ e \in Inside(seen[e])
    BY <1>3 DEF Leave, Inside
  <2>3. ASSUME NEW g \in Gens PROVE inflight'[g] = Cardinality(Inside(g)')
    <3>1. CASE g = seen[e]
      <4>1. Inside(g)' = Inside(g) \ {e}
        BY <1>0, <1>3, <3>1 DEF Leave, Inside
      <4>2. Cardinality(Inside(g)') = Cardinality(Inside(g)) - 1
        BY <1>1, <2>2, <3>1, <4>1, FS_RemoveElement
      <4> QED
        BY <1>0, <2>1, <2>2, <3>1, <4>2 DEF Counted
    <3>2. CASE g # seen[e]
      <4>1. Inside(g)' = Inside(g)
        BY <1>0, <1>3, <3>2 DEF Leave, Inside
      <4> QED
        BY <1>0, <2>1, <2>2, <3>2, <4>1 DEF Counted
    <3> QED
      BY <3>1, <3>2
  <2> QED
    BY <2>3 DEF Counted
<1>4. ASSUME NEW e \in Emitters,
             Load(e) \/ Choose(e) \/ Ticket(e) \/ Write(e) \/ Drop(e)
      PROVE  Counted'
  <2>1. UNCHANGED inflight
    BY <1>4 DEF Load, Choose, Ticket, Write, Drop
  <2>2. ASSUME NEW g \in Gens PROVE Inside(g)' = Inside(g)
    <3>1. CASE Load(e)
      BY <1>0, <3>1 DEF Load, Inside
    <3>2. CASE Choose(e)
      <4>1. UNCHANGED seen /\ epc[e] = "entered" /\ \E step \in {"chosen", "leave"} :
               epc' = [epc EXCEPT ![e] = step]
        BY <3>2 DEF Choose
      <4> QED
        BY <1>0, <4>1 DEF Inside
    <3>3. CASE Ticket(e) \/ Write(e) \/ Drop(e)
      <4>1. UNCHANGED seen /\ epc[e] \in Writing /\ \E step \in {"write", "full", "leave"} :
               epc' = [epc EXCEPT ![e] = step]
        BY <3>3 DEF Ticket, Write, Drop, Writing
      <4> QED
        BY <1>0, <4>1 DEF Inside, Writing
    <3> QED
      BY <1>4, <3>1, <3>2, <3>3
  <2> QED
    BY <2>1, <2>2 DEF Counted
<1>5. CASE UNCHANGED <<inflight, epc, seen>>
  <2>1. \A g \in Gens : Inside(g)' = Inside(g)
    BY <1>5 DEF Inside
  <2> QED
    BY <1>5, <2>1 DEF Counted
<1>6. \/ \E e \in Emitters : Load(e) \/ EmitStep(e)
      \/ UNCHANGED <<inflight, epc, seen>>
  <2>1. ASSUME NEW S \in Runtimes, Attach(S) PROVE UNCHANGED <<inflight, epc, seen>>
    BY <2>1 DEF Attach
  <2>2. ASSUME NEW c \in Controllers, Start(c) PROVE UNCHANGED <<inflight, epc, seen>>
    BY <2>2 DEF Start
  <2> QED
    BY <2>1, <2>2, Ways
<1> QED
  BY <1>2, <1>3, <1>4, <1>5, <1>6 DEF EmitStep

(* Emitters write where they have been let in; controllers give a capture  *)
(* a number that was never used.                                           *)
LEMMA PlaceStep == IInv /\ [Next]_vars => Named' /\ Ended'
<1> SUFFICES ASSUME TypeOK, Named, Ended, [Next]_vars PROVE Named' /\ Ended'
  BY DEF IInv, Inv
<1> USE TraceAssumption DEF TraceAssumption, TypeOK, EGoto, CGoto, buffers, emitter, capture, control
<1>1. ASSUME NEW e \in Emitters, Load(e) \/ EmitStep(e) PROVE Named' /\ Ended'
  <2>0. UNCHANGED <<current, started, active, gen, cpc>>
    BY <1>1 DEF Load, EmitStep, Enter, Choose, Ticket, Write, Drop, Leave
  <2>1. Ended'
    BY <2>0 DEF Ended
  <2>2. CASE Load(e)
    <3>1. current \in Gens
      BY <2>2 DEF Load, Recording, Gens
    <3> QED
      BY <2>1, <2>2, <3>1 DEF Load, Named, Writing
  <2>3. CASE Choose(e)
    <3>1. CASE Writable(e) /\ into' = [into EXCEPT ![e] = entry[SlotOf[e]]] /\ EGoto(e, "chosen")
      BY <2>1, <2>3, <3>1 DEF Choose, Writable, Named, Writing
    <3>2. CASE EGoto(e, "leave") /\ UNCHANGED into
      BY <2>1, <2>3, <3>2 DEF Choose, Named, Writing
    <3> QED
      BY <2>3, <3>1, <3>2 DEF Choose
  <2>4. CASE Enter(e) \/ Ticket(e) \/ Write(e) \/ Drop(e) \/ Leave(e)
    <3>1. /\ UNCHANGED <<seen, into>> /\ epc[e] # "idle"
          /\ \E step \in Steps : /\ epc' = [epc EXCEPT ![e] = step]
                                 /\ step \in Writing => epc[e] \in Writing
      BY <2>4 DEF Enter, Ticket, Write, Drop, Leave, Steps, Writing
    <3> QED
      BY <2>1, <3>1 DEF Named
  <2> QED
    BY <1>1, <2>2, <2>3, <2>4 DEF EmitStep
<1>2. ASSUME NEW c \in Controllers, Start(c) PROVE Named' /\ Ended'
  <2>1. Named'
    BY <1>2 DEF Start, Named
  <2>2. /\ started' = started + 1 /\ started + 1 \in Gens /\ UNCHANGED current
        /\ gen' = [gen EXCEPT ![c] = started + 1] /\ cpc' = [cpc EXCEPT ![c] = "publish"]
        /\ active' = active \cup {started + 1}
    BY <1>2 DEF Start, Gens
  <2>3. ASSUME NEW d \in Controllers
        PROVE  /\ gen'[d] <= started'
               /\ cpc'[d] # "idle" => gen'[d] \in Gens
               /\ cpc'[d] \in {"quiesce", "drain"} => gen'[d] \notin active'
    BY <2>2 DEF Ended
  <2> QED
    BY <2>1, <2>2, <2>3 DEF Ended
<1>3. ASSUME NEW c \in Controllers, StopStep(c) PROVE Named' /\ Ended'
  <2>1. Named'
    BY <1>3 DEF StopStep, Publish, Lock, Disable, Quiesce, Drain, Finish, Named
  <2>2. CASE Publish(c)
    BY <2>1, <2>2 DEF Publish, Ended
  <2>3. CASE Lock(c)
    BY <2>1, <2>3 DEF Lock, Ended
  <2>4. CASE Disable(c)
    BY <2>1, <2>4 DEF Disable, Ended
  <2>5. CASE Quiesce(c)
    <3>1. /\ UNCHANGED <<current, started, active, gen>> /\ cpc[c] = "quiesce"
          /\ \E step \in {"drain", "discard"} : cpc' = [cpc EXCEPT ![c] = step]
      BY <2>5 DEF Quiesce
    <3> QED
      BY <2>1, <3>1 DEF Ended
  <2>6. CASE Finish(c)
    BY <2>1, <2>6 DEF Finish, Ended
  <2>7. CASE \E s \in Slots : Drain(c, s)
    BY <2>1, <2>7 DEF Drain, Ended
  <2> QED
    BY <1>3, <2>2, <2>3, <2>4, <2>5, <2>6, <2>7 DEF StopStep
<1>4. ASSUME NEW c \in Controllers, NEW g \in Gens, Stop(c, g) \/ Abort(c, g)
      PROVE  Named' /\ Ended'
  <2>1. /\ UNCHANGED <<epc, seen, into, current, started, active>> /\ g <= started
        /\ gen' = [gen EXCEPT ![c] = g]
        /\ \E step \in {"stop", "disable"} : cpc' = [cpc EXCEPT ![c] = step]
    BY <1>4 DEF Stop, Abort, Ended
  <2> QED
    BY <2>1 DEF Named, Ended
<1>5. CASE (\E S \in Runtimes : Attach(S)) \/ UNCHANGED vars
  BY <1>5 DEF Attach, vars, Named, Ended
<1> QED
  BY <1>1, <1>2, <1>3, <1>4, <1>5 DEF Next

(* A cell is written by an emitter inside the capture of that buffer.      *)
LEMMA CleanStep == IInv /\ [Next]_vars => Clean'
<1> SUFFICES ASSUME TypeOK, Named, Clean, [Next]_vars PROVE Clean'
  BY DEF IInv, Inv, Clean
<1> USE TraceAssumption DEF TraceAssumption, EGoto, CGoto, buffers, emitter, capture, control
<1>1. ASSUME NEW e \in Emitters, Write(e) PROVE Clean'
  <2>1. into[e] = seen[e] /\ into[e] \in Gens /\ SlotOf[e] \in Slots
    BY <1>1 DEF Write, Named, Writing
  <2>2. cells' = [cells EXCEPT ![into[e]][SlotOf[e]][ticket[e]] = seen[e]]
    BY <1>1 DEF Write
  <2>3. cells \in [Gens -> [Slots -> [0 .. Capacity - 1 -> 0 .. MaxGen]]]
    BY DEF TypeOK
  <2>4. ASSUME NEW g \in Gens, NEW s \in Slots, NEW t \in 0 .. Capacity - 1
        PROVE  cells'[g][s][t] \in {0, g}
    <3>1. cells[g][s][t] \in {0, g}
      BY DEF Clean
    <3>2. cells'[g][s][t] = cells[g][s][t] \/ (g = into[e] /\ cells'[g][s][t] = seen[e])
      BY <2>1, <2>2, <2>3
    <3> QED
      BY <2>1, <3>1, <3>2
  <2> QED
    BY <2>4 DEF Clean
<1>2. (\E e \in Emitters : Write(e)) \/ UNCHANGED cells
  BY DEF Next, EmitStep, Load, Enter, Choose, Ticket, Drop, Leave, Attach, Open, Start, StopStep,
         Publish, Lock, Disable, Quiesce, Drain, Finish, Stop, Abort, vars
<1>3. CASE UNCHANGED cells
  BY <1>3 DEF Clean
<1> QED
  BY <1>1, <1>2, <1>3

(* When the count has come down to zero nobody is inside, and who comes in *)
(* later finds the capture not active.                                     *)
LEMMA QuietStep == IInv /\ [Next]_vars => DrainQuiet'
<1> SUFFICES ASSUME TypeOK, Named, Counted, Ended, DrainQuiet, [Next]_vars PROVE DrainQuiet'
  BY DEF IInv, Inv, Counted
<1> USE TraceAssumption DEF TraceAssumption, EGoto, CGoto, buffers, emitter, capture, control
<1>0. /\ epc \in [Emitters -> Steps] /\ seen \in [Emitters -> 0 .. MaxGen]
      /\ cpc \in [Controllers -> {"idle", "publish", "stop", "disable", "quiesce", "drain",
                                  "discard"}]
      /\ gen \in [Controllers -> 0 .. MaxGen]
  BY DEF TypeOK, Steps
<1>1. ASSUME NEW e \in Emitters, Load(e) \/ EmitStep(e),
             NEW c \in Controllers, cpc'[c] = "drain", NEW f \in Inside(gen[c])'
      PROVE  epc'[f] \in {"entered", "leave"}
  <2>1. UNCHANGED <<cpc, gen>>
    BY <1>1 DEF Load, EmitStep, Enter, Choose, Ticket, Write, Drop, Leave
  <2>2. cpc[c] = "drain" /\ gen[c] \notin active
    BY <1>1, <2>1 DEF Ended
  <2>3. CASE f # e
    <3>1. epc'[f] = epc[f] /\ seen'[f] = seen[f]
      <4>1. seen' = seen \/ seen' = [seen EXCEPT ![e] = current]
        BY <1>1 DEF Load, EmitStep, Enter, Choose, Ticket, Write, Drop, Leave
      <4>2. \E step : epc' = [epc EXCEPT ![e] = step]
        <5>1. CASE Choose(e)
          BY <5>1 DEF Choose
        <5>2. CASE Load(e) \/ Enter(e) \/ Leave(e)
          BY <5>2 DEF Load, Enter, Leave
        <5>3. CASE Ticket(e)
          BY <5>3 DEF Ticket
        <5>4. CASE Write(e) \/ Drop(e)
          BY <5>4 DEF Write, Drop
        <5> QED
          BY <1>1, <5>1, <5>2, <5>3, <5>4 DEF EmitStep
      <4>3. f \in Emitters
        BY DEF Inside
      <4> QED
        BY <1>0, <2>3, <4>1, <4>2, <4>3
    <3>2. f \in Inside(gen[c])
      BY <1>1, <2>1, <3>1 DEF Inside
    <3> QED
      BY <2>2, <3>1, <3>2 DEF DrainQuiet
  <2>4. CASE f = e /\ epc[e] \in Writing
    <3>1. UNCHANGED seen
      BY <1>1, <2>4 DEF Load, EmitStep, Enter, Choose, Ticket, Write, Drop, Leave, Writing
    <3>2. e \in Inside(gen[c])
      BY <1>1, <2>1, <2>4, <3>1 DEF Inside, Writing
    <3> QED
      BY <2>2, <2>4, <3>2 DEF DrainQuiet, Writing
  <2>5. CASE f = e /\ Choose(e)
    <3>1. seen[e] = gen[c] /\ epc[e] = "entered"
      BY <1>1, <2>1, <2>5 DEF Choose, Inside
    <3>2. ~Writable(e)
      BY <2>2, <3>1 DEF Writable
    <3> QED
      BY <1>0, <2>5, <3>2 DEF Choose
  <2>6. CASE f = e /\ (Load(e) \/ Enter(e) \/ Leave(e))
    <3>1. epc'[e] \in {"loaded", "entered", "idle"}
      BY <1>0, <2>6 DEF Load, Enter, Leave
    <3> QED
      BY <1>1, <2>6, <3>1 DEF Inside
  <2>7. CASE f = e /\ (Ticket(e) \/ Write(e) \/ Drop(e))
    <3>1. epc[e] \in Writing
      BY <2>7 DEF Ticket, Write, Drop, Writing
    <3> QED
      BY <2>4, <2>7, <3>1
  <2> QED
    BY <1>1, <2>3, <2>5, <2>6, <2>7 DEF EmitStep
<1>2. ASSUME NEW c \in Controllers, Quiesce(c) PROVE DrainQuiet'
  <2>1. gen[c] \in Gens /\ inflight[gen[c]] = 0
    BY <1>2 DEF Quiesce, Ended
  <2>2. Inside(gen[c]) = {}
    <3>1. IsFiniteSet(Inside(gen[c])) /\ Cardinality(Inside(gen[c])) = 0
      BY <2>1, FS_Subset DEF Counted, Inside
    <3> QED
      BY <3>1, FS_EmptySet
  <2>3. \A g : Inside(g)' = Inside(g)
    BY <1>2 DEF Quiesce, Inside
  <2>4. \A d \in Controllers : d # c => cpc'[d] = cpc[d]
    BY <1>0, <1>2 DEF Quiesce
  <2>5. UNCHANGED <<gen, epc>>
    BY <1>2 DEF Quiesce
  <2> QED
    BY <2>2, <2>3, <2>4, <2>5 DEF DrainQuiet
<1>3. ASSUME NEW c \in Controllers,
             \/ Start(c) \/ Publish(c) \/ Lock(c) \/ Disable(c) \/ Finish(c)
             \/ \E s \in Slots : Drain(c, s)
             \/ \E g \in Gens : Stop(c, g) \/ Abort(c, g)
      PROVE  DrainQuiet'
  <2>1. UNCHANGED <<epc, seen>>
    BY <1>3 DEF Start, Publish, Lock, Disable, Finish, Drain, Stop, Abort
  <2>2. \A d \in Controllers : cpc'[d] = "drain" => cpc[d] = "drain" /\ gen'[d] = gen[d]
    BY <1>0, <1>3 DEF Start, Publish, Lock, Disable, Finish, Drain, Stop, Abort
  <2>3. \A g : Inside(g)' = Inside(g)
    BY <2>1 DEF Inside
  <2> QED
    BY <2>1, <2>2, <2>3 DEF DrainQuiet
<1>4. CASE (\E S \in Runtimes : Attach(S)) \/ UNCHANGED vars
  <2>1. UNCHANGED <<epc, seen, cpc, gen>>
    BY <1>4 DEF Attach, vars
  <2> QED
    BY <2>1 DEF DrainQuiet, Inside
<1>5. CASE \E e \in Emitters : Load(e) \/ EmitStep(e)
  <2>1. UNCHANGED gen
    BY <1>5 DEF Load, EmitStep, Enter, Choose, Ticket, Write, Drop, Leave
  <2> QED
    BY <1>1, <1>5, <2>1 DEF DrainQuiet
<1> QED
  BY <1>2, <1>3, <1>4, <1>5 DEF Next, StopStep

(* R-086: the inductive invariant, with what the runs check: every event   *)
(* is in the buffer of the capture it was emitted for, inflight is exactly *)
(* the number of emitters inside, and stop() reads only buffers that       *)
(* nobody will write to any more.                                          *)
THEOREM TraceInvariant == Spec => []Inv
<1>1. IInv /\ [Next]_vars => IInv'
  BY TypeStep, CountStep, PlaceStep, CleanStep, QuietStep DEF IInv, Inv, Clean, Counted
<1>2. IInv => Inv
  BY DEF IInv
<1> QED
  BY <1>1, <1>2, InitTrace, PTL DEF Spec
-----------------------------------------------------------------------------
(* The collector's mutex: captures follow one another.  The newest one is  *)
(* being published, or is the current one, or is over; those before it are *)
(* over.                                                                   *)
Publishing == \E c \in Controllers : cpc[c] = "publish"
Ending == {"disable", "quiesce", "drain", "discard"}

Turns ==
  /\ current \in {0, started} /\ active \subseteq {started}
  /\ \A g \in closed : g <= started
  /\ \A g \in 1 .. started : g \notin closed => g = started
  /\ current = 0 /\ ~Publishing => active = {} /\ (started = 0 \/ started \in closed)
  /\ mutex = NoThread /\ current # 0 => current \in active

(* Who holds it, and for which capture. *)
Holds(c) ==
  /\ cpc[c] \in Ending \cup {"publish"} => mutex = c
  /\ cpc[c] = "publish" =>
       /\ current = 0 /\ gen[c] = started /\ started \in active /\ started \notin closed
       /\ \A s \in Slots : next[started][s] = 0
  /\ cpc[c] \in Ending \cup {"stop"} => gen[c] = current
  /\ cpc[c] \in {"stop", "drain"} => stopping[current] = c /\ current \notin closed
  /\ cpc[c] = "discard" => stopping[current] = NoThread /\ current \in closed
  /\ cpc[c] \in {"disable", "quiesce"} =>
       \/ stopping[current] = c /\ current \notin closed
       \/ stopping[current] = NoThread /\ current \in closed
  /\ cpc[c] \in {"quiesce", "drain", "discard"} => current \notin active
  /\ cpc[c] \in {"drain", "discard"} => \A e \in Emitters : epc[e] \notin Writing

(* Who writes does so into the current capture.                            *)
Current(e) ==
  /\ epc[e] # "idle" => seen[e] <= started /\ (Publishing => seen[e] # started)
  /\ epc[e] \in Writing => seen[e] = current /\ entry[SlotOf[e]] = current

(* Tickets: each is held by one emitter until its cell is written.         *)
Holding(e, g, s, t) == epc[e] = "write" /\ into[e] = g /\ SlotOf[e] = s /\ ticket[e] = t

Ticketed(e) ==
  /\ epc[e] \in {"write", "full"} => ticket[e] < next[into[e]][SlotOf[e]]
  /\ epc[e] = "full" => ticket[e] >= Capacity
  /\ epc[e] = "write" => ticket[e] < Capacity /\ cells[into[e]][SlotOf[e]][ticket[e]] = 0
  /\ \A f \in Emitters \ {e} :
       epc[e] = "write" => ~Holding(f, into[e], SlotOf[e], ticket[e])

Filled(g, s) ==
  /\ \A t \in 0 .. Capacity - 1 :
       /\ cells[g][s][t] # 0 => t < next[g][s]
       /\ t < next[g][s] /\ cells[g][s][t] = 0 => \E e \in Emitters : Holding(e, g, s, t)
  /\ dropped[g][s] > 0 => next[g][s] >= Capacity
  /\ next[g][s] > 0 => entry[s] >= g

Entries == \A s \in Slots : entry[s] <= started /\ (entry[s] # 0 => s \in opened)

(* What a stop has read so far.                                            *)
ReadOff(g, s) == [events |-> Committed(g, s), dropped |-> dropped[g][s]]
Draining(g) == \E c \in Controllers : cpc[c] = "drain" /\ gen[c] = g
Results(g, s) ==
  g \notin closed => snapshot[g][s] = IF Draining(g) /\ s \in read /\ entry[s] = g
                                      THEN ReadOff(g, s) ELSE None

LogInv ==
  /\ IInv /\ Turns /\ Entries
  /\ \A c \in Controllers : Holds(c)
  /\ \A e \in Emitters : Current(e) /\ Ticketed(e)
  /\ \A g \in Gens, s \in Slots : Filled(g, s) /\ Results(g, s)

LEMMA LogInvParts ==
  ASSUME LogInv
  PROVE  /\ TypeOK /\ Named /\ Ended /\ Counted /\ Turns /\ Entries
         /\ \A c \in Controllers : Holds(c)
         /\ \A e \in Emitters : Current(e) /\ Ticketed(e)
         /\ \A g \in Gens, s \in Slots : Filled(g, s) /\ Results(g, s)
BY DEF LogInv, IInv, Inv, Counted

LEMMA InitLog == Init => LogInv
<1> SUFFICES ASSUME Init PROVE LogInv
  OBVIOUS
<1>1. IInv
  BY InitTrace
<1> USE TraceAssumption DEF TraceAssumption, Init, Gens
<1>2. Turns /\ Entries
  BY DEF Turns, Entries
<1>3. \A c \in Controllers : Holds(c)
  BY DEF Holds, Ending
<1>4. \A e \in Emitters : Current(e) /\ Ticketed(e)
  BY DEF Current, Ticketed, Writing
<1>5. \A g \in Gens, s \in Slots : Filled(g, s) /\ Results(g, s)
  BY DEF Filled, Results, Draining
<1> QED
  BY <1>1, <1>2, <1>3, <1>4, <1>5 DEF LogInv

(* While one thread works on a capture under the mutex the others wait for *)
(* it or do nothing, and without a current capture nobody writes.          *)
LEMMA OneAtATime ==
  ASSUME LogInv
  PROVE  /\ mutex = NoThread => \A d \in Controllers : cpc[d] \in {"idle", "stop"}
         /\ \A c \in Controllers : cpc[c] \in Ending \cup {"publish"} =>
              mutex = c /\ \A d \in Controllers \ {c} : cpc[d] \in {"idle", "stop"}
         /\ current = 0 => /\ \A d \in Controllers : cpc[d] \in {"idle", "publish"}
                           /\ \A e \in Emitters : epc[e] \notin Writing
<1>0. /\ TypeOK /\ Named /\ Ended /\ \A c \in Controllers : Holds(c)
      /\ \A e \in Emitters : Current(e)
  BY LogInvParts
<1>1. \A d \in Controllers :
        cpc[d] \in {"idle", "publish", "stop", "disable", "quiesce", "drain", "discard"}
  BY <1>0 DEF TypeOK
<1>2. \A c \in Controllers : cpc[c] \in Ending \cup {"publish"} => mutex = c
  BY <1>0 DEF Holds
<1>3. \A c \in Controllers : cpc[c] \in Ending \cup {"stop"} => current \in Gens
  BY <1>0 DEF Holds, Ended, Ending
<1>4. \A e \in Emitters : epc[e] \in Writing => current \in Gens
  BY <1>0 DEF Current, Named, Writing
<1> QED
  BY <1>1, <1>2, <1>3, <1>4, TraceAssumption DEF Ending, TraceAssumption, Gens

(* A capture starts when there is none: it has not been used yet.          *)
LEMMA StartIsFresh ==
  ASSUME LogInv, NEW c \in Controllers, Start(c)
  PROVE  /\ current = 0 /\ active = {} /\ (started = 0 \/ started \in closed)
         /\ \A d \in Controllers : cpc[d] = "idle"
         /\ \A e \in Emitters : epc[e] \notin Writing
         /\ started + 1 \in Gens /\ started + 1 \notin closed
<1>0. TypeOK /\ Turns
  BY LogInvParts
<1>1. \A d \in Controllers : cpc[d] \in {"idle", "stop"}
  BY OneAtATime DEF Start
<1>2. current = 0
  BY <1>0 DEF Start, Turns, Recording
<1>3. \A d \in Controllers : cpc[d] = "idle"
  BY <1>1, <1>2, OneAtATime
<1> QED
  BY <1>0, <1>2, <1>3, OneAtATime, TraceAssumption
     DEF Turns, Publishing, Start, TypeOK, Gens, TraceAssumption

(* Who may stop or abort a capture has the current one before it.          *)
LEMMA EndsTheCurrent ==
  ASSUME LogInv, NEW c \in Controllers, NEW g \in Gens, Stop(c, g) \/ Abort(c, g)
  PROVE  /\ g = current /\ g = started /\ g \notin closed
         /\ \A d \in Controllers : cpc[d] = "idle"
<1>0. TypeOK /\ Turns /\ \A d \in Controllers : Holds(d)
  BY LogInvParts
<1>1. g = current /\ g = started /\ g \notin closed /\ stopping[g] = NoThread
  BY <1>0 DEF Stop, Abort, Turns, Publishing, Holds, Gens, TypeOK
<1>2. ASSUME NEW d \in Controllers PROVE cpc[d] = "idle"
  <2>1. stopping[current] # d /\ current \notin closed /\ current # 0
    BY <1>1, TraceAssumption DEF TraceAssumption, Gens
  <2>2. cpc[d] \notin Ending \cup {"publish", "stop"}
    BY <1>0, <2>1 DEF Holds, Ending
  <2> QED
    BY <1>0, <2>2 DEF TypeOK, Ending
<1> QED
  BY <1>1, <1>2

LEMMA TurnsStep == LogInv /\ [Next]_vars => Turns'
<1> SUFFICES ASSUME LogInv, [Next]_vars PROVE Turns'
  OBVIOUS
<1> USE TraceAssumption DEF TraceAssumption, EGoto, CGoto, buffers, emitter, capture, control
<1>0. TypeOK /\ Ended /\ Turns /\ \A d \in Controllers : Holds(d)
  BY LogInvParts
<1>1. ASSUME NEW c \in Controllers, Start(c) PROVE Turns'
  <2>1. /\ current = 0 /\ active = {} /\ (started = 0 \/ started \in closed)
        /\ started + 1 \in Gens
    BY <1>1, StartIsFresh
  <2>2. /\ UNCHANGED <<current, closed>> /\ started' = started + 1 /\ mutex' = c
        /\ active' = {started + 1} /\ cpc' = [cpc EXCEPT ![c] = "publish"]
    BY <1>1, <2>1 DEF Start
  <2>3. Publishing'
    BY <1>0, <2>2 DEF Publishing, TypeOK
  <2> QED
    BY <1>0, <2>1, <2>2, <2>3 DEF Turns, TypeOK, Gens
<1>2. ASSUME NEW c \in Controllers, Publish(c) PROVE Turns'
  <2>1. gen[c] = started /\ started \in active /\ started \in Gens
    BY <1>0, <1>2 DEF Publish, Holds, Ended, Ending
  <2>2. current' = started /\ mutex' = NoThread /\ UNCHANGED <<started, active, closed>>
    BY <1>2, <2>1 DEF Publish
  <2> QED
    BY <1>0, <2>1, <2>2 DEF Turns, Gens
<1>3. ASSUME NEW c \in Controllers, Finish(c) PROVE Turns'
  <2>1. gen[c] = current /\ current \in Gens /\ current \notin active
    BY <1>0, <1>3 DEF Finish, Holds, Ended, Ending
  <2>2. current = started /\ active = {}
    BY <1>0, <2>1 DEF Turns, Gens
  <2>3. /\ current' = 0 /\ closed' = closed \cup {started} /\ mutex' = NoThread
        /\ UNCHANGED <<started, active>>
    BY <1>3, <2>1, <2>2 DEF Finish
  <2> QED
    BY <1>0, <2>1, <2>2, <2>3 DEF Turns, Gens, TypeOK
<1>4. ASSUME NEW c \in Controllers, Disable(c) PROVE Turns'
  <2>1. mutex = c /\ gen[c] = current /\ current \in Gens
    BY <1>0, <1>4 DEF Disable, Holds, Ended, Ending
  <2>2. /\ active' = active \ {gen[c]} /\ UNCHANGED <<current, started, closed, mutex>>
    BY <1>4 DEF Disable
  <2> QED
    BY <1>0, <2>1, <2>2 DEF Turns, Gens
<1>5. ASSUME NEW c \in Controllers, NEW g \in Gens, Stop(c, g) \/ Abort(c, g) PROVE Turns'
  <2>1. g = current /\ g = started
    BY <1>5, EndsTheCurrent
  <2>2. /\ UNCHANGED <<current, started, active>> /\ mutex' \in {mutex, c}
        /\ closed' = closed \/ closed' = closed \cup {g}
    BY <1>5 DEF Stop, Abort
  <2>3. current # 0 /\ c # NoThread /\ started \in Nat
    BY <1>0, <2>1 DEF Gens, TypeOK
  <2>4. mutex' = NoThread => mutex = NoThread
    BY <2>2, <2>3
  <2>5. \A h \in 1 .. started : h \notin closed' => h = started
    BY <1>0, <2>2 DEF Turns
  <2>6. \A h \in closed' : h <= started
    BY <1>0, <2>1, <2>2, <2>3 DEF Turns
  <2> QED
    BY <1>0, <2>2, <2>3, <2>4, <2>5, <2>6 DEF Turns
<1>6. ASSUME NEW c \in Controllers,
             Lock(c) \/ Quiesce(c) \/ \E s \in Slots : Drain(c, s)
      PROVE  Turns'
  <2>1. /\ UNCHANGED <<current, started, active, closed>> /\ mutex' \in {mutex, c}
        /\ \A d \in Controllers : cpc[d] = "publish" => cpc'[d] = "publish"
    BY <1>0, <1>6 DEF Lock, Quiesce, Drain, TypeOK
  <2>2. Publishing => Publishing'
    BY <2>1 DEF Publishing
  <2> QED
    BY <1>0, <2>1, <2>2 DEF Turns
<1>7. CASE UNCHANGED <<current, started, active, closed, mutex, cpc>>
  BY <1>0, <1>7 DEF Turns, Publishing
<1>8. \/ \E c \in Controllers : Start(c) \/ StopStep(c)
      \/ \E c \in Controllers, g \in Gens : Stop(c, g) \/ Abort(c, g)
      \/ UNCHANGED <<current, started, active, closed, mutex, cpc>>
  <2>1. ASSUME NEW e \in Emitters, Load(e) \/ EmitStep(e)
        PROVE  UNCHANGED <<current, started, active, closed, mutex, cpc>>
    BY <2>1, EmitLeaves
  <2>2. ASSUME NEW S \in Runtimes, Attach(S)
        PROVE  UNCHANGED <<current, started, active, closed, mutex, cpc>>
    BY <2>2 DEF Attach
  <2>3. CASE UNCHANGED vars
    BY <2>3 DEF vars
  <2> QED
    BY <2>1, <2>2, <2>3 DEF Next
<1> QED
  BY <1>1, <1>2, <1>3, <1>4, <1>5, <1>6, <1>7, <1>8 DEF StopStep

LEMMA HoldsStep == LogInv /\ [Next]_vars => \A d \in Controllers : Holds(d)'
<1> SUFFICES ASSUME LogInv, [Next]_vars, NEW d \in Controllers PROVE Holds(d)'
  OBVIOUS
<1> USE TraceAssumption DEF TraceAssumption, EGoto, CGoto, buffers, emitter, capture, control
<1>0. /\ TypeOK /\ Named /\ Ended /\ Counted /\ Turns /\ Entries
      /\ \A c \in Controllers : Holds(c)
      /\ \A e \in Emitters : Current(e)
      /\ \A g \in Gens, s \in Slots : Filled(g, s)
  BY LogInvParts
<1>T. /\ cpc \in [Controllers -> {"idle", "publish", "stop", "disable", "quiesce", "drain",
                                  "discard"}]
      /\ gen \in [Controllers -> 0 .. MaxGen] /\ active \subseteq Gens
      /\ stopping \in [Gens -> Controllers \cup {NoThread}] /\ closed \subseteq Gens
      /\ started \in Nat
  BY <1>0 DEF TypeOK
<1>1. ASSUME NEW c \in Controllers, Start(c) PROVE Holds(d)'
  <2>1. /\ current = 0 /\ active = {} /\ started + 1 \in Gens /\ started + 1 \notin closed
        /\ \A b \in Controllers : cpc[b] = "idle"
        /\ \A e \in Emitters : epc[e] \notin Writing
    BY <1>1, StartIsFresh
  <2>2. /\ UNCHANGED <<current, closed, next>> /\ mutex' = c /\ started' = started + 1
        /\ active' = {started + 1} /\ cpc' = [cpc EXCEPT ![c] = "publish"]
        /\ gen' = [gen EXCEPT ![c] = started + 1]
    BY <1>1, <2>1 DEF Start
  <2>3. \A s \in Slots : next[started + 1][s] = 0
    <3> SUFFICES ASSUME NEW s \in Slots PROVE next[started + 1][s] = 0
      OBVIOUS
    <3>1. next[started + 1][s] \in Nat /\ entry[s] \in Nat
      BY <1>0, <2>1 DEF TypeOK
    <3> QED
      BY <1>0, <1>T, <2>1, <3>1 DEF Filled, Entries
  <2> QED
    BY <1>T, <2>1, <2>2, <2>3 DEF Holds, Ending
<1>2. ASSUME NEW c \in Controllers, Publish(c) PROVE Holds(d)'
  <2>1. \A b \in Controllers : b # c => cpc[b] = "idle"
    <3>1. current = 0
      BY <1>0, <1>2 DEF Publish, Holds
    <3> QED
      BY <1>2, <3>1, OneAtATime DEF Publish
  <2> QED
    BY <1>T, <1>2, <2>1 DEF Publish, Holds, Ending
<1>3. ASSUME NEW c \in Controllers, Finish(c) PROVE Holds(d)'
  <2>1. \A b \in Controllers : b # c => cpc[b] = "idle"
    <3>1. \A b \in Controllers : b # c => cpc[b] \in {"idle", "stop"}
      BY <1>3, OneAtATime DEF Finish, Ending
    <3>2. ASSUME NEW b \in Controllers, b # c, cpc[b] = "stop" PROVE FALSE
      BY <1>0, <1>3, <3>2 DEF Finish, Holds, Ending
    <3> QED
      BY <3>1, <3>2
  <2> QED
    BY <1>T, <1>3, <2>1 DEF Finish, Holds, Ending
<1>4. ASSUME NEW c \in Controllers, Disable(c) PROVE Holds(d)'
  <2>1. \A b \in Controllers : b # c => cpc[b] \in {"idle", "stop"}
    BY <1>4, OneAtATime DEF Disable, Ending
  <2>2. Holds(c) /\ Holds(d)
    BY <1>0
  <2> QED
    BY <1>T, <1>4, <2>1, <2>2 DEF Disable, Holds, Ending
<1>5. ASSUME NEW c \in Controllers, Quiesce(c) PROVE Holds(d)'
  <2>1. \A b \in Controllers : b # c => cpc[b] \in {"idle", "stop"}
    BY <1>5, OneAtATime DEF Quiesce, Ending
  <2>2. Holds(c) /\ Holds(d)
    BY <1>0
  <2>3. gen[c] = current /\ current \in Gens
    BY <1>0, <1>5, <2>2 DEF Quiesce, Ended, Holds, Ending
  <2>4. \A e \in Emitters : epc[e] \notin Writing
    <3>1. Inside(current) = {}
      <4>1. IsFiniteSet(Inside(current)) /\ Cardinality(Inside(current)) = 0
        BY <1>0, <1>5, <2>3, FS_Subset DEF Counted, Inside, Quiesce
      <4> QED
        BY <4>1, FS_EmptySet
    <3> QED
      BY <1>0, <3>1 DEF Inside, Current, Writing
  <2>5. PICK step \in {"drain", "discard"} :
          /\ cpc' = [cpc EXCEPT ![c] = step]
          /\ step = "discard" => stopping[gen[c]] = NoThread
          /\ step = "drain" => stopping[gen[c]] = c
    BY <1>5 DEF Quiesce
  <2>6. cpc[c] = "quiesce" /\ UNCHANGED <<current, active, mutex, started, stopping, closed,
                                          epc, gen, next>>
    BY <1>5 DEF Quiesce
  <2>7. CASE d = c
    BY <1>T, <2>2, <2>3, <2>4, <2>5, <2>6, <2>7 DEF Holds, Ending
  <2>8. CASE d # c
    BY <1>T, <2>1, <2>2, <2>5, <2>6, <2>8 DEF Holds, Ending
  <2> QED
    BY <2>7, <2>8
<1>6. ASSUME NEW c \in Controllers, Lock(c) PROVE Holds(d)'
  <2>1. \A b \in Controllers : cpc[b] \in {"idle", "stop"}
    BY <1>6, OneAtATime DEF Lock
  <2>2. Holds(c) /\ Holds(d)
    BY <1>0
  <2> QED
    BY <1>T, <1>6, <2>1, <2>2 DEF Lock, Holds, Ending
<1>7. ASSUME NEW c \in Controllers, NEW g \in Gens, Stop(c, g) \/ Abort(c, g) PROVE Holds(d)'
  <2>1. g = current /\ g \notin closed /\ \A b \in Controllers : cpc[b] = "idle"
    BY <1>7, EndsTheCurrent
  <2>2. CASE Stop(c, g)
    BY <1>T, <2>1, <2>2 DEF Stop, Holds, Ending
  <2>3. CASE Abort(c, g)
    BY <1>T, <2>1, <2>3 DEF Abort, Holds, Ending
  <2> QED
    BY <1>7, <2>2, <2>3
<1>8. ASSUME NEW e \in Emitters, Load(e) \/ EmitStep(e) PROVE Holds(d)'
  <2>0. /\ UNCHANGED <<cpc, gen, current, active, mutex, started, stopping, closed>> /\ Holds(d)
    BY <1>0, <1>8 DEF EmitStep, Load, Enter, Choose, Ticket, Write, Drop, Leave
  <2>1. cpc[d] = "publish" => UNCHANGED next
    <3>1. cpc[d] = "publish" => epc[e] \notin Writing
      BY <2>0, OneAtATime DEF Holds
    <3> QED
      BY <1>8, <3>1 DEF EmitStep, Load, Enter, Choose, Ticket, Write, Drop, Leave, Writing
  <2>2. ASSUME cpc[d] \in {"drain", "discard"}, NEW f \in Emitters, epc'[f] \in Writing
        PROVE  FALSE
    <3>1. epc[e] \notin Writing /\ epc[f] \notin Writing /\ current = gen[d]
          /\ current \notin active
      BY <2>0, <2>2 DEF Holds, Ending
    <3>2. active = {}
      BY <1>0, <1>T, <2>2, <3>1 DEF Turns, Ended, Gens
    <3>3. Choose(e) => ~Writable(e)
      BY <3>2 DEF Writable
    <3>4. epc \in [Emitters -> Steps]
      BY <1>0 DEF TypeOK, Steps
    <3> QED
      BY <1>8, <2>2, <3>1, <3>3, <3>4
         DEF EmitStep, Load, Enter, Choose, Ticket, Write, Drop, Leave, Writing
  <2> QED
    BY <2>0, <2>1, <2>2 DEF Holds
<1>9. CASE UNCHANGED <<cpc, gen, current, active, mutex, started, stopping, closed, epc, next>>
  <2>1. Holds(d)
    BY <1>0
  <2> QED
    BY <1>9, <2>1 DEF Holds
<1>10. \/ \E e \in Emitters : Load(e) \/ EmitStep(e)
       \/ \E c \in Controllers : \/ Start(c) \/ Publish(c) \/ Finish(c) \/ Disable(c)
                                 \/ Quiesce(c) \/ Lock(c)
       \/ \E c \in Controllers, g \in Gens : Stop(c, g) \/ Abort(c, g)
       \/ UNCHANGED <<cpc, gen, current, active, mutex, started, stopping, closed, epc, next>>
  BY DEF Next, StopStep, Drain, Attach, vars
<1> QED
  BY <1>1, <1>2, <1>3, <1>4, <1>5, <1>6, <1>7, <1>8, <1>9, <1>10

(* Who has been let in writes into the current capture, and the current    *)
(* one ends only when nobody writes.                                       *)
LEMMA CurrentStep == LogInv /\ [Next]_vars => \A e \in Emitters : Current(e)'
<1> SUFFICES ASSUME LogInv, [Next]_vars, NEW f \in Emitters PROVE Current(f)'
  OBVIOUS
<1> USE TraceAssumption DEF TraceAssumption, EGoto, CGoto, buffers, emitter, capture, control
<1>0. /\ TypeOK /\ Named /\ Ended /\ Turns /\ Entries /\ Current(f)
      /\ \A c \in Controllers : Holds(c)
  BY LogInvParts
<1>T. /\ epc \in [Emitters -> Steps] /\ seen \in [Emitters -> 0 .. MaxGen]
      /\ entry \in [Slots -> 0 .. MaxGen] /\ started \in Nat /\ SlotOf[f] \in Slots
      /\ cpc \in [Controllers -> {"idle", "publish", "stop", "disable", "quiesce", "drain",
                                  "discard"}]
  BY <1>0 DEF TypeOK, Steps
<1>1. ASSUME NEW e \in Emitters, Load(e) PROVE Current(f)'
  <2>1. current = started /\ current # 0 /\ ~Publishing
    BY <1>0, <1>1 DEF Load, Recording, Turns, Publishing, Holds
  <2>2. /\ epc' = [epc EXCEPT ![e] = "loaded"] /\ seen' = [seen EXCEPT ![e] = current]
        /\ UNCHANGED <<cpc, current, started, entry>>
    BY <1>1 DEF Load
  <2>3. ~Publishing'
    BY <2>1, <2>2 DEF Publishing
  <2> QED
    BY <1>0, <1>T, <2>1, <2>2, <2>3 DEF Current, Writing
<1>2. ASSUME NEW e \in Emitters, Choose(e) PROVE Current(f)'
  <2>1. Writable(e) => seen[e] = current /\ entry[SlotOf[e]] = current
    <3>1. Current(e) /\ seen[e] # 0
      BY <1>2, LogInvParts DEF Choose, Named, Gens
    <3> QED
      BY <1>0, <1>2, <3>1 DEF Choose, Writable, Current, Turns
  <2>2. /\ UNCHANGED <<seen, cpc, current, started, entry>> /\ epc[e] = "entered"
        /\ \/ Writable(e) /\ epc' = [epc EXCEPT ![e] = "chosen"]
           \/ epc' = [epc EXCEPT ![e] = "leave"]
    BY <1>2 DEF Choose
  <2>3. Publishing' = Publishing
    BY <2>2 DEF Publishing
  <2> QED
    BY <1>0, <1>T, <2>1, <2>2, <2>3 DEF Current, Writing
<1>3. ASSUME NEW e \in Emitters, Enter(e) \/ Ticket(e) \/ Write(e) \/ Drop(e) \/ Leave(e)
      PROVE  Current(f)'
  <2>1. /\ UNCHANGED <<seen, cpc, current, started, entry>> /\ epc[e] # "idle"
        /\ \E step \in Steps : /\ epc' = [epc EXCEPT ![e] = step]
                               /\ step \in Writing => epc[e] \in Writing
    BY <1>3 DEF Enter, Ticket, Write, Drop, Leave, Steps, Writing
  <2>2. Publishing' = Publishing
    BY <2>1 DEF Publishing
  <2> QED
    BY <1>0, <1>T, <2>1, <2>2 DEF Current
<1>4. ASSUME NEW c \in Controllers, Start(c) PROVE Current(f)'
  <2>1. epc[f] \notin Writing
    BY <1>4, StartIsFresh
  <2>2. started' = started + 1 /\ UNCHANGED <<epc, seen>>
    BY <1>4 DEF Start
  <2> QED
    BY <1>0, <1>T, <2>1, <2>2 DEF Current
<1>5. ASSUME NEW c \in Controllers, Publish(c) \/ Finish(c) PROVE Current(f)'
  <2>1. epc[f] \notin Writing
    <3>1. CASE Publish(c)
      <4>1. current = 0
        BY <1>0, <3>1 DEF Publish, Holds
      <4> QED
        BY <4>1, OneAtATime
    <3>2. CASE Finish(c)
      BY <1>0, <3>2 DEF Finish, Holds
    <3> QED
      BY <1>5, <3>1, <3>2
  <2>2. UNCHANGED <<started, epc, seen>> /\ cpc' = [cpc EXCEPT ![c] = "idle"]
    BY <1>5 DEF Publish, Finish
  <2>3. Publishing' => Publishing
    BY <1>T, <2>2 DEF Publishing
  <2> QED
    BY <1>0, <1>T, <2>1, <2>2, <2>3 DEF Current
<1>6. ASSUME NEW S \in Runtimes, Attach(S) PROVE Current(f)'
  <2>1. /\ UNCHANGED <<epc, seen, started, current, cpc>>
        /\ \A s \in Slots : entry'[s] \in {entry[s], current}
    BY <1>6 DEF Attach, Open
  <2>2. Publishing' = Publishing
    BY <2>1 DEF Publishing
  <2> QED
    BY <1>0, <1>T, <2>1, <2>2 DEF Current
<1>7. ASSUME UNCHANGED <<epc, seen, started, current, entry>>,
             \A d \in Controllers : cpc'[d] = "publish" => cpc[d] = "publish"
      PROVE  Current(f)'
  <2>1. Publishing' => Publishing
    BY <1>7 DEF Publishing
  <2> QED
    BY <1>0, <1>7, <2>1 DEF Current
<1>8. ASSUME NEW c \in Controllers,
             \/ Lock(c) \/ Disable(c) \/ Quiesce(c) \/ \E s \in Slots : Drain(c, s)
             \/ \E g \in Gens : Stop(c, g) \/ Abort(c, g)
      PROVE  Current(f)'
  <2>1. /\ UNCHANGED <<epc, seen, started, current, entry>>
        /\ \A d \in Controllers : cpc'[d] = "publish" => cpc[d] = "publish"
    BY <1>T, <1>8 DEF Lock, Disable, Quiesce, Drain, Stop, Abort
  <2> QED
    BY <1>7, <2>1
<1>9. CASE UNCHANGED vars
  BY <1>7, <1>9 DEF vars
<1> QED
  BY <1>1, <1>2, <1>3, <1>4, <1>5, <1>6, <1>8, <1>9 DEF Next, EmitStep, StopStep

LEMMA EntriesStep == LogInv /\ [Next]_vars => Entries'
<1> SUFFICES ASSUME LogInv, [Next]_vars PROVE Entries'
  OBVIOUS
<1> USE TraceAssumption DEF TraceAssumption, EGoto, CGoto, buffers, emitter, capture, control
<1>0. /\ entry \in [Slots -> 0 .. MaxGen] /\ started \in Nat /\ current <= started
      /\ Entries
  BY LogInvParts DEF TypeOK, Ended
<1>1. ASSUME NEW S \in Runtimes, Attach(S) PROVE Entries'
  BY <1>0, <1>1 DEF Attach, Open, Entries
<1>2. ASSUME NEW c \in Controllers, Start(c) PROVE Entries'
  BY <1>0, <1>2 DEF Start, Entries
<1>3. CASE UNCHANGED <<entry, opened, started>>
  BY <1>0, <1>3 DEF Entries
<1>4. \/ \E S \in Runtimes : Attach(S)
      \/ \E c \in Controllers : Start(c)
      \/ UNCHANGED <<entry, opened, started>>
  <2>1. ASSUME NEW e \in Emitters, Load(e) \/ EmitStep(e)
        PROVE  UNCHANGED <<entry, opened, started>>
    BY <2>1, EmitLeaves
  <2> QED
    BY <2>1, Ways
<1> QED
  BY <1>1, <1>2, <1>3, <1>4

(* A ticket is given to one emitter, and its cell is blank until then.     *)
LEMMA TicketedStep == LogInv /\ [Next]_vars => \A e \in Emitters : Ticketed(e)'
<1> SUFFICES ASSUME LogInv, [Next]_vars, NEW f \in Emitters PROVE Ticketed(f)'
  OBVIOUS
<1> USE TraceAssumption DEF TraceAssumption, EGoto, CGoto, buffers, emitter, capture, control
<1>0. TypeOK /\ Named /\ \A e \in Emitters : Ticketed(e)
  BY LogInvParts
<1>T. /\ epc \in [Emitters -> Steps] /\ into \in [Emitters -> 0 .. MaxGen]
      /\ ticket \in [Emitters -> Nat] /\ next \in [Gens -> [Slots -> Nat]]
      /\ cells \in [Gens -> [Slots -> [0 .. Capacity - 1 -> 0 .. MaxGen]]]
      /\ \A e \in Emitters : SlotOf[e] \in Slots
      /\ \A e \in Emitters : epc[e] \in Writing => into[e] \in Gens
  BY <1>0 DEF TypeOK, Steps, Named, Writing
<1>1. ASSUME NEW e \in Emitters, Ticket(e) PROVE Ticketed(f)'
  <2>0. epc[e] = "chosen" /\ next[into[e]][SlotOf[e]] \in Nat
    BY <1>1, <1>T DEF Ticket, Writing
  <2> PICK n \in Nat : n = next[into[e]][SlotOf[e]]
    BY <2>0
  <2>1. /\ epc[e] = "chosen" /\ UNCHANGED <<into, cells>>
        /\ ticket' = [ticket EXCEPT ![e] = n]
        /\ next' = [next EXCEPT ![into[e]][SlotOf[e]] = n + 1]
        /\ epc' = [epc EXCEPT ![e] = IF n < Capacity THEN "write" ELSE "full"]
    BY <1>1 DEF Ticket
  <2>2. into[e] \in Gens
    BY <1>T, <2>1 DEF Writing
  <2>3. next'[into[e]][SlotOf[e]] = n + 1
    BY <1>T, <2>1, <2>2
  <2>4. \A g \in Gens, s \in Slots : next[g][s] <= next'[g][s]
    <3> SUFFICES ASSUME NEW g \in Gens, NEW s \in Slots PROVE next[g][s] <= next'[g][s]
      OBVIOUS
    <3>1. next[g][s] \in Nat
      BY <1>T
    <3>2. next'[g][s] = next[g][s] \/ (g = into[e] /\ s = SlotOf[e] /\ next'[g][s] = n + 1)
      BY <1>T, <2>1, <2>2
    <3> QED
      BY <2>2, <3>1, <3>2
  <2>5. \A h \in Emitters \ {e} : Holding(h, into[e], SlotOf[e], n) => FALSE
    BY <1>0, <2>2 DEF Ticketed, Holding
  <2>6. CASE f = e
    <3>1. n \in 0 .. Capacity - 1 => cells[into[e]][SlotOf[e]][n] = 0
      <4>1. Filled(into[e], SlotOf[e])
        BY <1>T, <2>2, LogInvParts
      <4> QED
        BY <2>2, <4>1 DEF Filled
    <3>2. epc'[e] = (IF n < Capacity THEN "write" ELSE "full") /\ ticket'[e] = n
      BY <1>T, <2>1
    <3>3. \A h \in Emitters \ {e} : ~Holding(h, into[e], SlotOf[e], n)'
      BY <1>T, <2>1, <2>5 DEF Holding
    <3>4. into' = into /\ cells' = cells
      BY <2>1
    <3>5. n < next'[into[e]][SlotOf[e]]
      BY <2>3
    <3>6. epc'[e] = "write" => n < Capacity /\ cells[into[e]][SlotOf[e]][n] = 0
      <4>1. n < Capacity => n \in 0 .. Capacity - 1
        OBVIOUS
      <4> QED
        BY <3>1, <3>2, <4>1
    <3>7. epc'[e] = "full" => n >= Capacity
      BY <3>2
    <3> HIDE DEF Holding
    <3>8. /\ epc'[f] \in {"write", "full"} => ticket'[f] < next'[into'[f]][SlotOf[f]]
          /\ epc'[f] = "full" => ticket'[f] >= Capacity
          /\ epc'[f] = "write" => ticket'[f] < Capacity
                                  /\ cells'[into'[f]][SlotOf[f]][ticket'[f]] = 0
      BY <2>6, <3>2, <3>4, <3>5, <3>6, <3>7
    <3>9. \A h \in Emitters \ {f} : ~Holding(h, into[f], SlotOf[f], ticket[f])'
      BY <2>6, <3>2, <3>3, <3>4 DEF Holding
    <3> QED
      BY <3>8, <3>9 DEF Ticketed
  <2>7. CASE f # e
    <3>1. epc'[f] = epc[f] /\ ticket'[f] = ticket[f]
      BY <1>T, <2>1, <2>7
    <3>2. epc[f] \in {"write", "full"} =>
            /\ into[f] \in Gens /\ SlotOf[f] \in Slots
            /\ ticket'[f] < next'[into[f]][SlotOf[f]]
      <4>1. epc[f] \in {"write", "full"} =>
              /\ into[f] \in Gens /\ SlotOf[f] \in Slots
              /\ ticket[f] < next[into[f]][SlotOf[f]]
        BY <1>0, <1>T DEF Ticketed, Writing
      <4>2. epc[f] \in {"write", "full"} =>
              next[into[f]][SlotOf[f]] \in Nat /\ next'[into[f]][SlotOf[f]] \in Nat
        BY <1>T, <2>1, <2>2, <4>1
      <4> QED
        BY <1>T, <2>4, <3>1, <4>1, <4>2
    <3>3. \A h \in Emitters \ {f} :
            epc[f] = "write" => ~Holding(h, into[f], SlotOf[f], ticket[f])'
      <4>1. epc[f] = "write" => ~(/\ into[e] = into[f] /\ SlotOf[e] = SlotOf[f]
                                  /\ ticket[f] = n)
        BY <2>5, <2>7 DEF Holding
      <4> QED
        BY <1>0, <1>T, <2>1, <3>1, <4>1 DEF Ticketed, Holding
    <3> QED
      BY <1>0, <2>1, <3>1, <3>2, <3>3 DEF Ticketed, Holding
  <2> QED
    BY <2>6, <2>7
<1>2. ASSUME NEW e \in Emitters, Write(e) PROVE Ticketed(f)'
  <2>1. /\ epc[e] = "write" /\ UNCHANGED <<into, next, ticket>>
        /\ epc' = [epc EXCEPT ![e] = "leave"]
        /\ cells' = [cells EXCEPT ![into[e]][SlotOf[e]][ticket[e]] = seen[e]]
    BY <1>2 DEF Write
  <2>2. CASE f = e
    BY <1>T, <2>1, <2>2 DEF Ticketed
  <2>3. CASE f # e
    <3>1. epc'[f] = epc[f]
      BY <1>T, <2>1, <2>3
    <3>2. ASSUME epc[f] = "write" PROVE cells'[into[f]][SlotOf[f]][ticket[f]] = 0
      <4>1. ~(into[f] = into[e] /\ SlotOf[f] = SlotOf[e] /\ ticket[f] = ticket[e])
        BY <1>0, <2>1, <2>3, <3>2 DEF Ticketed, Holding
      <4>2. cells[into[f]][SlotOf[f]][ticket[f]] = 0 /\ ticket[f] \in 0 .. Capacity - 1
        BY <1>0, <1>T, <3>2 DEF Ticketed
      <4>3. into[e] \in Gens /\ into[f] \in Gens /\ SlotOf[e] \in Slots /\ SlotOf[f] \in Slots
        BY <1>T, <2>1, <3>2 DEF Writing
      <4> QED
        BY <1>T, <2>1, <4>1, <4>2, <4>3
    <3>3. \A h \in Emitters \ {f} :
            epc[f] = "write" => ~Holding(h, into[f], SlotOf[f], ticket[f])'
      BY <1>0, <1>T, <2>1 DEF Ticketed, Holding
    <3> QED
      BY <1>0, <2>1, <3>1, <3>2, <3>3 DEF Ticketed, Holding
  <2> QED
    BY <2>2, <2>3
<1>3. ASSUME NEW e \in Emitters, Load(e) \/ Enter(e) \/ Choose(e) \/ Drop(e) \/ Leave(e)
      PROVE  Ticketed(f)'
  <2>1. /\ UNCHANGED <<next, ticket, cells>>
        /\ \E step \in Steps \ {"write", "full"} : epc' = [epc EXCEPT ![e] = step]
        /\ into' = into \/ (epc[e] = "entered" /\ into' = [into EXCEPT ![e] = entry[SlotOf[e]]])
    BY <1>3 DEF Load, Enter, Choose, Drop, Leave, Steps
  <2>2. epc'[e] \notin {"write", "full"}
    BY <1>T, <2>1
  <2>3. \A h \in Emitters \ {e} : epc'[h] = epc[h] /\ into'[h] = into[h]
    BY <1>T, <2>1
  <2> QED
    BY <1>0, <2>1, <2>2, <2>3 DEF Ticketed, Holding
<1>4. CASE UNCHANGED <<epc, into, ticket, next, cells>>
  BY <1>0, <1>4 DEF Ticketed, Holding
<1>5. \/ \E e \in Emitters : Load(e) \/ EmitStep(e)
      \/ UNCHANGED <<epc, into, ticket, next, cells>>
  <2>1. ASSUME NEW S \in Runtimes, Attach(S) PROVE UNCHANGED <<epc, into, ticket, next, cells>>
    BY <2>1 DEF Attach
  <2>2. ASSUME NEW c \in Controllers, Start(c)
        PROVE  UNCHANGED <<epc, into, ticket, next, cells>>
    BY <2>2 DEF Start
  <2> QED
    BY <2>1, <2>2, Ways
<1> QED
  BY <1>1, <1>2, <1>3, <1>4, <1>5 DEF EmitStep

(* No hole: a cell whose ticket is taken is written, or is about to be.    *)
LEMMA FilledStep == LogInv /\ [Next]_vars => \A g \in Gens, s \in Slots : Filled(g, s)'
<1> SUFFICES ASSUME LogInv, [Next]_vars, NEW g \in Gens, NEW s \in Slots PROVE Filled(g, s)'
  OBVIOUS
<1> USE TraceAssumption DEF TraceAssumption, EGoto, CGoto, buffers, emitter, capture, control
<1>0. /\ TypeOK /\ Named /\ Ended /\ Entries /\ Filled(g, s)
      /\ \A e \in Emitters : Ticketed(e) /\ Current(e)
  BY LogInvParts
<1>T. /\ epc \in [Emitters -> Steps] /\ into \in [Emitters -> 0 .. MaxGen]
      /\ ticket \in [Emitters -> Nat] /\ next \in [Gens -> [Slots -> Nat]]
      /\ dropped \in [Gens -> [Slots -> Nat]] /\ entry \in [Slots -> 0 .. MaxGen]
      /\ cells \in [Gens -> [Slots -> [0 .. Capacity - 1 -> 0 .. MaxGen]]]
      /\ \A e \in Emitters : SlotOf[e] \in Slots
      /\ \A e \in Emitters : epc[e] \in Writing =>
           into[e] \in Gens /\ seen[e] = into[e] /\ entry[SlotOf[e]] = into[e]
  BY <1>0 DEF TypeOK, Steps, Named, Current, Writing
<1>N. next[g][s] \in Nat /\ dropped[g][s] \in Nat /\ entry[s] \in Nat /\ g \in Nat \ {0}
  BY <1>T DEF Gens
<1>1. ASSUME NEW e \in Emitters, Ticket(e) PROVE Filled(g, s)'
  <2>0. epc[e] = "chosen" /\ next[into[e]][SlotOf[e]] \in Nat
    BY <1>1, <1>T DEF Ticket, Writing
  <2> PICK n \in Nat : n = next[into[e]][SlotOf[e]]
    BY <2>0
  <2>1. /\ epc[e] = "chosen" /\ UNCHANGED <<into, cells, dropped, entry>>
        /\ ticket' = [ticket EXCEPT ![e] = n]
        /\ next' = [next EXCEPT ![into[e]][SlotOf[e]] = n + 1]
        /\ epc' = [epc EXCEPT ![e] = IF n < Capacity THEN "write" ELSE "full"]
    BY <1>1 DEF Ticket
  <2>2. into[e] \in Gens /\ entry[SlotOf[e]] = into[e]
    BY <1>T, <2>1 DEF Writing
  <2>3. \A h \in Emitters, t \in 0 .. Capacity - 1 : Holding(h, g, s, t) => Holding(h, g, s, t)'
    BY <1>T, <2>1 DEF Holding
  <2>4. CASE g = into[e] /\ s = SlotOf[e]
    <3>1. next'[g][s] = next[g][s] + 1 /\ n = next[g][s]
      BY <1>T, <2>1, <2>2, <2>4
    <3>2. n \in 0 .. Capacity - 1 => Holding(e, g, s, n)'
      BY <1>T, <2>1, <2>2, <2>4 DEF Holding
    <3>3. ASSUME NEW t \in 0 .. Capacity - 1
          PROVE  /\ cells'[g][s][t] # 0 => t < next'[g][s]
                 /\ t < next'[g][s] /\ cells'[g][s][t] = 0 =>
                      \E h \in Emitters : Holding(h, g, s, t)'
      <4>1. cells' = cells /\ (cells[g][s][t] # 0 => t < next[g][s])
        BY <1>0, <2>1 DEF Filled
      <4>2. cells[g][s][t] # 0 => t < next[g][s] + 1
        BY <1>N, <4>1
      <4>3. ASSUME t < next[g][s] + 1, cells[g][s][t] = 0
            PROVE  \E h \in Emitters : Holding(h, g, s, t)'
        <5>1. CASE t = n
          BY <3>2, <5>1
        <5>2. CASE t # n
          <6>1. t < next[g][s]
            BY <1>N, <3>1, <4>3, <5>2
          <6> QED
            BY <1>0, <2>3, <4>3, <6>1 DEF Filled
        <5> QED
          BY <5>1, <5>2
      <4> QED
        BY <3>1, <4>1, <4>2, <4>3
    <3>4. dropped'[g][s] > 0 => next'[g][s] >= Capacity
      BY <1>0, <1>N, <2>1, <3>1 DEF Filled
    <3>5. entry'[s] >= g
      BY <1>N, <2>1, <2>2, <2>4
    <3> QED
      BY <3>3, <3>4, <3>5 DEF Filled
  <2>5. CASE ~(g = into[e] /\ s = SlotOf[e])
    <3>1. next'[g][s] = next[g][s]
      BY <1>T, <2>1, <2>2, <2>5
    <3> QED
      BY <1>0, <2>1, <2>3, <3>1 DEF Filled
  <2> QED
    BY <2>4, <2>5
<1>2. ASSUME NEW e \in Emitters, Write(e) PROVE Filled(g, s)'
  <2>1. /\ epc[e] = "write" /\ UNCHANGED <<into, next, ticket, dropped, entry>>
        /\ epc' = [epc EXCEPT ![e] = "leave"]
        /\ cells' = [cells EXCEPT ![into[e]][SlotOf[e]][ticket[e]] = seen[e]]
    BY <1>2 DEF Write
  <2>2. into[e] \in Gens /\ seen[e] # 0 /\ ticket[e] \in 0 .. Capacity - 1
    <3>1. into[e] \in Gens /\ seen[e] = into[e] /\ ticket[e] \in Nat
      BY <1>T, <2>1 DEF Writing
    <3>2. ticket[e] < Capacity
      BY <1>0, <2>1 DEF Ticketed
    <3> QED
      BY <3>1, <3>2 DEF Gens
  <2>3. \A t \in 0 .. Capacity - 1 :
          cells'[g][s][t] = IF Holding(e, g, s, t) THEN seen[e] ELSE cells[g][s][t]
    <3> SUFFICES ASSUME NEW t \in 0 .. Capacity - 1
                 PROVE  cells'[g][s][t] = IF Holding(e, g, s, t) THEN seen[e]
                                          ELSE cells[g][s][t]
      OBVIOUS
    <3>1. CASE g = into[e] /\ s = SlotOf[e]
      <4>1. cells'[g][s] = [cells[g][s] EXCEPT ![ticket[e]] = seen[e]]
        BY <1>T, <2>1, <2>2, <3>1
      <4>2. cells[g][s] \in [0 .. Capacity - 1 -> 0 .. MaxGen]
        BY <1>T
      <4> QED
        BY <2>1, <2>2, <3>1, <4>1, <4>2 DEF Holding
    <3>2. CASE ~(g = into[e] /\ s = SlotOf[e])
      <4>1. cells'[g][s] = cells[g][s]
        BY <1>T, <2>1, <2>2, <3>2
      <4> QED
        BY <3>2, <4>1 DEF Holding
    <3> QED
      BY <3>1, <3>2
  <2>4. \A h \in Emitters \ {e}, t \in 0 .. Capacity - 1 :
          Holding(h, g, s, t) => Holding(h, g, s, t)'
    BY <1>T, <2>1 DEF Holding
  <2>5. \A t : Holding(e, g, s, t) => t < next[g][s]
    BY <1>0 DEF Holding, Ticketed
  <2> QED
    BY <1>0, <2>1, <2>2, <2>3, <2>4, <2>5 DEF Filled
<1>3. ASSUME NEW e \in Emitters, Drop(e) PROVE Filled(g, s)'
  <2>1. /\ epc[e] = "full" /\ UNCHANGED <<into, next, ticket, cells, entry>>
        /\ epc' = [epc EXCEPT ![e] = "leave"]
        /\ dropped' = [dropped EXCEPT ![into[e]][SlotOf[e]] = @ + 1]
    BY <1>3 DEF Drop
  <2>2. \A h \in Emitters, t \in 0 .. Capacity - 1 : Holding(h, g, s, t) => Holding(h, g, s, t)'
    BY <1>T, <2>1 DEF Holding
  <2>3. into[e] \in Gens /\ next[into[e]][SlotOf[e]] >= Capacity
    <3>1. /\ into[e] \in Gens /\ next[into[e]][SlotOf[e]] \in Nat /\ ticket[e] \in Nat
      BY <1>T, <2>1 DEF Writing
    <3> QED
      BY <1>0, <2>1, <3>1 DEF Ticketed
  <2>4. dropped'[g][s] = dropped[g][s] \/ (g = into[e] /\ s = SlotOf[e])
    BY <1>T, <2>1, <2>3
  <2> QED
    BY <1>0, <2>1, <2>2, <2>3, <2>4 DEF Filled
<1>4. ASSUME NEW e \in Emitters, Load(e) \/ Enter(e) \/ Choose(e) \/ Leave(e)
      PROVE  Filled(g, s)'
  <2>1. /\ UNCHANGED <<next, ticket, cells, dropped, entry>> /\ epc[e] # "write"
        /\ \E step \in Steps : epc' = [epc EXCEPT ![e] = step]
        /\ into' = into \/ into' = [into EXCEPT ![e] = entry[SlotOf[e]]]
    BY <1>4 DEF Load, Enter, Choose, Leave, Steps
  <2>2. \A h \in Emitters, t \in 0 .. Capacity - 1 : Holding(h, g, s, t) => Holding(h, g, s, t)'
    BY <1>T, <2>1 DEF Holding
  <2> QED
    BY <1>0, <2>1, <2>2 DEF Filled
<1>5. ASSUME UNCHANGED <<epc, into, ticket, next, cells, dropped>>,
             next[g][s] > 0 => entry'[s] >= g
      PROVE  Filled(g, s)'
  BY <1>0, <1>5 DEF Filled, Holding
<1>6. ASSUME NEW S \in Runtimes, Attach(S) PROVE Filled(g, s)'
  <2>1. s \in S \ opened => entry[s] = 0
    BY <1>0, <1>6 DEF Entries
  <2>2. next[g][s] > 0 => entry'[s] >= g
    BY <1>0, <1>6, <1>N, <2>1 DEF Attach, Open, Filled
  <2> QED
    BY <1>5, <1>6, <2>2 DEF Attach
<1>7. ASSUME NEW c \in Controllers, Start(c) PROVE Filled(g, s)'
  <2>1. entry'[s] \in {entry[s], started + 1} /\ entry[s] <= started /\ started \in Nat
    BY <1>0, <1>7 DEF Start, Entries, TypeOK
  <2>2. next[g][s] > 0 => entry'[s] >= g
    BY <1>0, <1>N, <2>1 DEF Filled
  <2> QED
    BY <1>5, <1>7, <2>2 DEF Start
<1>8. CASE UNCHANGED <<epc, into, ticket, next, cells, dropped, entry>>
  BY <1>0, <1>5, <1>8 DEF Filled
<1>9. \/ \E e \in Emitters : Load(e) \/ EmitStep(e)
      \/ \E S \in Runtimes : Attach(S)
      \/ \E c \in Controllers : Start(c)
      \/ UNCHANGED <<epc, into, ticket, next, cells, dropped, entry>>
  BY Ways
<1> QED
  BY <1>1, <1>2, <1>3, <1>4, <1>6, <1>7, <1>8, <1>9 DEF EmitStep

(* What a stop has read does not change any more; nothing is read twice,   *)
(* and nothing for a capture that is aborted.                              *)
LEMMA ResultsStep == LogInv /\ [Next]_vars => \A g \in Gens, s \in Slots : Results(g, s)'
<1> SUFFICES ASSUME LogInv, [Next]_vars, NEW g \in Gens, NEW s \in Slots PROVE Results(g, s)'
  OBVIOUS
<1> USE TraceAssumption DEF TraceAssumption, EGoto, CGoto, buffers, emitter, capture, control
<1>0. /\ TypeOK /\ Ended /\ Entries /\ Results(g, s)
      /\ \A c \in Controllers : Holds(c)
  BY LogInvParts
<1>T. /\ cpc \in [Controllers -> {"idle", "publish", "stop", "disable", "quiesce", "drain",
                                  "discard"}]
      /\ gen \in [Controllers -> 0 .. MaxGen]
      /\ snapshot \in [Gens -> [Slots -> [events : Nat, dropped : Nat]]]
  BY <1>0 DEF TypeOK
<1>K. ASSUME UNCHANGED <<closed, snapshot, next, dropped>>,
             ~Draining(g)' \/ s \notin read' \/ entry'[s] # g,
             ~Draining(g) \/ s \notin read \/ entry[s] # g
      PROVE  Results(g, s)'
  BY <1>0, <1>K DEF Results
<1>L. ASSUME UNCHANGED <<snapshot, next, dropped, entry, read>>, closed \subseteq closed',
             Draining(g)' = Draining(g)
      PROVE  Results(g, s)'
  BY <1>0, <1>L DEF Results, ReadOff, Committed
<1>1. ASSUME NEW e \in Emitters, Load(e) \/ EmitStep(e) PROVE Results(g, s)'
  <2>1. UNCHANGED <<snapshot, closed, cpc, gen, entry, read>>
    BY <1>1 DEF EmitStep, Load, Enter, Choose, Ticket, Write, Drop, Leave
  <2>2. Draining(g)' = Draining(g)
    BY <2>1 DEF Draining
  <2>3. CASE epc[e] \in Writing
    <3>1. ~Draining(g)
      BY <1>0, <2>3 DEF Draining, Holds
    <3> QED
      BY <1>0, <2>1, <2>2, <3>1 DEF Results
  <2>4. CASE epc[e] \notin Writing
    <3>1. UNCHANGED <<next, dropped>>
      BY <1>1, <2>4 DEF EmitStep, Load, Enter, Choose, Ticket, Write, Drop, Leave, Writing
    <3> QED
      BY <1>L, <2>1, <2>2, <3>1
  <2> QED
    BY <2>3, <2>4
<1>2. ASSUME NEW S \in Runtimes, Attach(S) PROVE Results(g, s)'
  <2>1. ~Draining(g)
    BY <1>2, OneAtATime DEF Attach, Draining
  <2>2. UNCHANGED <<snapshot, closed, cpc, gen, next, dropped>>
    BY <1>2 DEF Attach
  <2>3. ~Draining(g)'
    BY <2>1, <2>2 DEF Draining
  <2> QED
    BY <1>K, <2>1, <2>2, <2>3
<1>3. ASSUME NEW c \in Controllers, Start(c) PROVE Results(g, s)'
  <2>1. \A d \in Controllers : cpc[d] = "idle"
    BY <1>3, StartIsFresh
  <2>2. UNCHANGED <<snapshot, closed, next, dropped>> /\ cpc' = [cpc EXCEPT ![c] = "publish"]
    BY <1>3 DEF Start
  <2>3. ~Draining(g) /\ ~Draining(g)'
    BY <1>T, <2>1, <2>2 DEF Draining
  <2> QED
    BY <1>K, <2>2, <2>3
<1>4. ASSUME NEW c \in Controllers,
             \/ Publish(c) \/ Lock(c) \/ Disable(c)
             \/ \E h \in Gens : Stop(c, h) \/ Abort(c, h)
      PROVE  Results(g, s)'
  <2>1. /\ UNCHANGED <<snapshot, next, dropped, entry, read>> /\ closed \subseteq closed'
    BY <1>4 DEF Publish, Lock, Disable, Stop, Abort
  <2>2. /\ cpc[c] # "drain" /\ cpc'[c] # "drain"
        /\ \A d \in Controllers \ {c} : cpc'[d] = cpc[d] /\ gen'[d] = gen[d]
    BY <1>T, <1>4 DEF Publish, Lock, Disable, Stop, Abort
  <2>3. Draining(g)' = Draining(g)
    BY <2>2 DEF Draining
  <2> QED
    BY <1>L, <2>1, <2>3
<1>5. ASSUME NEW c \in Controllers, Quiesce(c) PROVE Results(g, s)'
  <2>1. ~Draining(g)
    BY <1>5, OneAtATime DEF Quiesce, Draining, Ending
  <2>2. UNCHANGED <<snapshot, closed, next, dropped>> /\ read' = {}
    BY <1>5 DEF Quiesce
  <2> QED
    BY <1>K, <2>1, <2>2
<1>6. ASSUME NEW c \in Controllers, NEW x \in Slots, Drain(c, x) PROVE Results(g, s)'
  <2>1. \A d \in Controllers : cpc[d] = "drain" => d = c
    BY <1>6, OneAtATime DEF Drain, Ending
  <2>2. /\ cpc[c] = "drain" /\ read' = read \cup {x}
        /\ UNCHANGED <<closed, cpc, gen, next, dropped, entry>>
    BY <1>6 DEF Drain
  <2>3. Draining(g)' = Draining(g) /\ (Draining(g) <=> gen[c] = g)
    BY <2>1, <2>2 DEF Draining
  <2>4. gen[c] \in Gens
    BY <1>0, <2>2 DEF Ended
  <2>5. ReadOff(g, s)' = ReadOff(g, s)
    BY <2>2 DEF ReadOff, Committed
  <2>6. CASE gen[c] = g /\ s = x /\ entry[s] = g
    <3>1. snapshot'[g][s] = ReadOff(g, s)
      <4> DEFINE r == ReadOff(g, s)
      <4>1. snapshot' = [snapshot EXCEPT ![g][s] = r]
        BY <1>6, <2>6 DEF Drain, ReadOff
      <4> HIDE DEF r
      <4>2. snapshot'[g][s] = r
        BY <1>T, <4>1
      <4> QED
        BY <4>2 DEF r
    <3> QED
      BY <2>2, <2>3, <2>5, <2>6, <3>1 DEF Results
  <2>7. CASE ~(gen[c] = g /\ s = x /\ entry[s] = g)
    <3>1. snapshot'[g][s] = snapshot[g][s]
      <4> DEFINE r == [events |-> Committed(gen[c], x), dropped |-> dropped[gen[c]][x]]
      <4>1. snapshot' = IF entry[x] # gen[c] THEN snapshot
                        ELSE [snapshot EXCEPT ![gen[c]][x] = r]
        BY <1>6 DEF Drain
      <4> HIDE DEF r
      <4> QED
        BY <1>T, <2>4, <2>7, <4>1
    <3> QED
      BY <1>0, <2>2, <2>3, <2>5, <2>7, <3>1 DEF Results
  <2> QED
    BY <2>6, <2>7
<1>7. ASSUME NEW c \in Controllers, Finish(c) PROVE Results(g, s)'
  <2>1. \A d \in Controllers : cpc[d] = "drain" => d = c
    BY <1>7, OneAtATime DEF Finish, Ending
  <2>2. /\ UNCHANGED <<snapshot, gen>> /\ closed' = closed \cup {gen[c]}
        /\ cpc' = [cpc EXCEPT ![c] = "idle"]
    BY <1>7 DEF Finish
  <2>3. ~Draining(g)'
    BY <1>T, <2>1, <2>2 DEF Draining
  <2>4. g \notin closed' => g \notin closed /\ ~Draining(g)
    BY <2>1, <2>2 DEF Draining
  <2> QED
    BY <1>0, <2>2, <2>3, <2>4 DEF Results
<1>8. CASE UNCHANGED vars
  <2>1. UNCHANGED <<snapshot, closed, next, dropped, entry, read, cpc, gen>>
    BY <1>8 DEF vars
  <2>2. Draining(g)' = Draining(g)
    BY <2>1 DEF Draining
  <2> QED
    BY <1>L, <2>1, <2>2
<1> QED
  BY <1>1, <1>2, <1>3, <1>4, <1>5, <1>6, <1>7, <1>8 DEF Next, StopStep

LEMMA LogInvStep == LogInv /\ [Next]_vars => LogInv'
<1>1. IInv /\ [Next]_vars => IInv'
  BY TypeStep, CountStep, PlaceStep, CleanStep, QuietStep DEF IInv, Inv, Clean, Counted
<1>2. LogInv => IInv
  BY DEF LogInv
<1> QED
  BY <1>1, <1>2, TurnsStep, HoldsStep, CurrentStep, EntriesStep, TicketedStep, FilledStep,
     ResultsStep DEF LogInv
-----------------------------------------------------------------------------
(* How many events are in a buffer.                                        *)
Cells(g, s) == {t \in 0 .. Capacity - 1 : cells[g][s][t] # 0}

LEMMA WrittenBounds ==
  ASSUME NEW g \in Gens, NEW s \in Slots
  PROVE  /\ IsFiniteSet(Cells(g, s)) /\ Written(g, s) = Cardinality(Cells(g, s))
         /\ Written(g, s) \in 0 .. Capacity
<1>1. /\ IsFiniteSet(0 .. Capacity - 1) /\ Cardinality(0 .. Capacity - 1) = Capacity
  <2>1. Capacity \in Nat \ {0}
    BY TraceAssumption DEF TraceAssumption
  <2>2. Cardinality(0 .. Capacity - 1) = (Capacity - 1) - 0 + 1
    BY <2>1, FS_Interval
  <2> QED
    BY <2>1, <2>2, FS_Interval
<1>2. Cells(g, s) \subseteq 0 .. Capacity - 1
  BY DEF Cells
<1>3. IsFiniteSet(Cells(g, s)) /\ Cardinality(Cells(g, s)) \in Nat
      /\ Cardinality(Cells(g, s)) <= Capacity
  BY <1>1, <1>2, FS_Subset, FS_CardinalityType
<1> QED
  BY <1>3, TraceAssumption DEF Written, Cells, TraceAssumption

(* A capture that nobody wrote to is blank.                                *)
LEMMA UnusedIsBlank ==
  ASSUME LogInv, NEW g \in Gens, NEW s \in Slots, next[g][s] = 0
  PROVE  Written(g, s) = 0 /\ dropped[g][s] = 0
<1>1. TypeOK /\ Filled(g, s)
  BY LogInvParts
<1>2. Cells(g, s) = {} /\ dropped[g][s] = 0
  BY <1>1, TraceAssumption DEF Cells, Filled, TypeOK, TraceAssumption
<1> QED
  BY <1>2, FS_EmptySet, WrittenBounds

(* When nobody writes, the tickets that were given are the events.         *)
LEMMA QuietIsFilled ==
  ASSUME LogInv, NEW g \in Gens, NEW s \in Slots, \A e \in Emitters : epc[e] \notin Writing
  PROVE  Written(g, s) = Committed(g, s)
<1>1. TypeOK /\ Filled(g, s) /\ Capacity \in Nat \ {0}
  BY LogInvParts, TraceAssumption DEF TraceAssumption
<1>2. next[g][s] \in Nat
  BY <1>1 DEF TypeOK
<1>3. Committed(g, s) \in 0 .. Capacity
  BY <1>1, <1>2 DEF Committed
<1>4. \A t \in 0 .. Capacity - 1 : cells[g][s][t] # 0 <=> t < next[g][s]
  BY <1>1 DEF Filled, Holding, Writing
<1>5. Cells(g, s) = 0 .. Committed(g, s) - 1
  BY <1>1, <1>2, <1>4 DEF Cells, Committed
<1>6. Cardinality(0 .. Committed(g, s) - 1) = Committed(g, s)
  <2>1. CASE Committed(g, s) = 0
    <3>1. 0 .. Committed(g, s) - 1 = {}
      BY <2>1
    <3> QED
      BY <2>1, <3>1, FS_EmptySet
  <2>2. CASE Committed(g, s) # 0
    <3> DEFINE k == Committed(g, s)
    <3>1. k \in Nat \ {0}
      BY <1>3, <2>2
    <3> HIDE DEF k
    <3>2. Cardinality(0 .. k - 1) = (k - 1) - 0 + 1
      BY <3>1, FS_Interval
    <3>3. Cardinality(0 .. k - 1) = k
      BY <3>1, <3>2
    <3> QED
      BY <3>3 DEF k
  <2> QED
    BY <2>1, <2>2
<1> QED
  BY <1>5, <1>6, WrittenBounds

(* The logs and the results, as the collector has them.                    *)
LogNow == [g \in Gens |-> [s \in Slots |->
             [events |-> Written(g, s), dropped |-> dropped[g][s]]]]
ResultNow == [g \in Gens |-> [s \in Slots |-> IF g \in closed THEN snapshot[g][s] ELSE None]]

(* A capture opens blank, without a result.                                *)
LEMMA PublishOpens == ASSUME LogInv, NEW c \in Controllers, Publish(c) PROVE Log!Open
<1> USE DEF buffers, emitter, capture, control
<1>1. /\ current = 0 /\ gen[c] = started /\ started \notin closed /\ started \in Gens
      /\ \A s \in Slots : next[started][s] = 0
  BY LogInvParts DEF Publish, Holds, Ended
<1>2. current' = started /\ UNCHANGED <<cells, dropped, closed, snapshot>>
  BY <1>1 DEF Publish
<1>3. \A s \in Slots : Written(started, s) = 0 /\ dropped[started][s] = 0
  BY <1>1, UnusedIsBlank
<1>4. \A s \in Slots : snapshot[started][s] = None
  <2>1. ~Draining(started)
    BY <1>1, OneAtATime DEF Publish, Draining
  <2> QED
    BY <1>1, <2>1, LogInvParts DEF Results
<1>5. \A g \in Gens, s \in Slots : Written(g, s)' = Written(g, s)
  BY <1>2 DEF Written
<1> QED
  BY <1>1, <1>2, <1>3, <1>4, <1>5 DEF Log!Open, Log!Blank, Log!None, None

(* The writer of a ticket adds one event; the log had room for it.         *)
LEMMA WriteAdds ==
  ASSUME LogInv, NEW e \in Emitters, Write(e)
  PROVE  Log!Add(SlotOf[e])
<1> USE DEF buffers, emitter, capture, control
<1>0. TypeOK /\ Named /\ Current(e) /\ Ticketed(e)
  BY LogInvParts
<1> DEFINE s == SlotOf[e]
           t == ticket[e]
<1>1. /\ s \in Slots /\ into[e] = current /\ seen[e] = current /\ current \in Gens
      /\ t \in 0 .. Capacity - 1 /\ cells[current][s][t] = 0
  <2>1. SlotOf[e] \in Slots /\ ticket[e] \in Nat
    BY <1>0, TraceAssumption DEF TraceAssumption, TypeOK
  <2>2. into[e] = current /\ seen[e] = current /\ current \in Gens
    BY <1>0 DEF Write, Named, Current, Writing
  <2>3. ticket[e] < Capacity /\ cells[current][SlotOf[e]][ticket[e]] = 0
    BY <1>0, <2>2 DEF Write, Ticketed
  <2> QED
    BY <2>1, <2>2, <2>3, TraceAssumption DEF TraceAssumption
<1>2. /\ cells' = [cells EXCEPT ![current][s][t] = current]
      /\ UNCHANGED <<current, dropped, closed, snapshot>>
  BY <1>1 DEF Write
<1> HIDE DEF s, t
<1>3. ASSUME NEW g \in Gens, NEW x \in Slots
      PROVE  Written(g, x)' = IF g = current /\ x = s THEN Written(g, x) + 1 ELSE Written(g, x)
  <2>0. cells \in [Gens -> [Slots -> [0 .. Capacity - 1 -> 0 .. MaxGen]]]
    BY <1>0 DEF TypeOK
  <2>1. CASE g = current /\ x = s
    <3>0. /\ cells[g][x] \in [0 .. Capacity - 1 -> 0 .. MaxGen]
          /\ cells'[g][x] = [cells[g][x] EXCEPT ![t] = current]
      BY <1>1, <1>2, <2>0, <2>1
    <3>1. \A u \in 0 .. Capacity - 1 :
            cells'[g][x][u] # 0 <=> u = t \/ cells[g][x][u] # 0
      <4>1. current # 0 /\ t \in 0 .. Capacity - 1
        BY <1>1 DEF Gens
      <4> QED
        BY <3>0, <4>1
    <3>3. Cells(g, x)' = Cells(g, x) \cup {t} /\ t \notin Cells(g, x)
      BY <1>1, <2>1, <3>1 DEF Cells
    <3>2. Cardinality(Cells(g, x)') = Cardinality(Cells(g, x)) + 1
      BY <3>3, FS_AddElement, WrittenBounds
    <3> QED
      BY <2>1, <3>2, WrittenBounds DEF Written, Cells
  <2>2. CASE ~(g = current /\ x = s)
    <3>1. cells'[g][x] = cells[g][x]
      BY <1>1, <1>2, <2>0, <2>2
    <3> QED
      BY <2>2, <3>1 DEF Written
  <2> QED
    BY <2>1, <2>2
<1>4. Written(current, s) < Capacity
  <2> DEFINE D == Cells(current, s)
  <2>1. t \notin D /\ D \subseteq (0 .. Capacity - 1) \ {t}
    BY <1>1 DEF Cells
  <2>2. Capacity \in Nat \ {0}
    BY TraceAssumption DEF TraceAssumption
  <2>3. IsFiniteSet(0 .. Capacity - 1) /\ Cardinality(0 .. Capacity - 1) = (Capacity - 1) - 0 + 1
    BY <2>2, FS_Interval
  <2>4. /\ IsFiniteSet((0 .. Capacity - 1) \ {t})
        /\ Cardinality((0 .. Capacity - 1) \ {t}) = Cardinality(0 .. Capacity - 1) - 1
    BY <1>1, <2>3, FS_RemoveElement
  <2>5. Cardinality(D) <= Cardinality((0 .. Capacity - 1) \ {t})
    BY <2>1, <2>4, FS_Subset
  <2>6. Written(current, s) = Cardinality(D) /\ Written(current, s) \in 0 .. Capacity
    BY <1>1, WrittenBounds
  <2> QED
    BY <2>2, <2>3, <2>4, <2>5, <2>6
<1>5. current # 0
  BY <1>1 DEF Gens
<1>6. LogNow' = [LogNow EXCEPT ![current][s].events = @ + 1]
  <2> DEFINE M == [g \in Gens |-> [x \in Slots |->
                     [events |-> IF g = current /\ x = s THEN Written(g, x) + 1
                                 ELSE Written(g, x),
                      dropped |-> dropped[g][x]]]]
  <2>1. LogNow' = M
    BY <1>2, <1>3 DEF LogNow
  <2>2. M = [LogNow EXCEPT ![current][s].events = @ + 1]
    BY <1>1 DEF LogNow
  <2> HIDE DEF M
  <2> QED
    BY <2>1, <2>2
<1>7. ResultNow' = ResultNow
  BY <1>2 DEF ResultNow, None
<1>8. LogNow[current][s].events < Capacity
  BY <1>1, <1>4 DEF LogNow
<1>9. Log!Add(s)
  BY <1>2, <1>5, <1>6, <1>7, <1>8 DEF Log!Add, LogNow, ResultNow
<1> QED
  BY <1>9 DEF s

(* Who finds no room is counted.                                           *)
LEMMA DropCounts ==
  ASSUME LogInv, NEW e \in Emitters, Drop(e)
  PROVE  Log!Add(SlotOf[e])
<1> USE DEF buffers, emitter, capture, control
<1>0. TypeOK /\ Named /\ Current(e)
  BY LogInvParts
<1>1. into[e] = current /\ current \in Gens /\ SlotOf[e] \in Slots
  BY <1>0, TraceAssumption DEF Drop, Named, Current, Writing, TraceAssumption
<1>2. /\ dropped' = [dropped EXCEPT ![current][SlotOf[e]] = @ + 1]
      /\ UNCHANGED <<current, cells, closed, snapshot>>
  BY <1>1 DEF Drop
<1>3. \A g \in Gens, s \in Slots : Written(g, s)' = Written(g, s)
  BY <1>2 DEF Written
<1>4. dropped \in [Gens -> [Slots -> Nat]] /\ current # 0
  BY <1>0, <1>1 DEF TypeOK, Gens
<1>5. \A g \in Gens, s \in Slots :
        dropped'[g][s] = IF g = current /\ s = SlotOf[e] THEN dropped[g][s] + 1
                         ELSE dropped[g][s]
  BY <1>1, <1>2, <1>4
<1>6. LogNow' = [LogNow EXCEPT ![current][SlotOf[e]].dropped = @ + 1]
  <2> DEFINE s == SlotOf[e]
  <2>1. s \in Slots /\ s = SlotOf[e]
    BY <1>1
  <2> HIDE DEF s
  <2> DEFINE M == [g \in Gens |-> [x \in Slots |->
                     [events |-> Written(g, x),
                      dropped |-> IF g = current /\ x = s THEN dropped[g][x] + 1
                                  ELSE dropped[g][x]]]]
  <2>2. LogNow' = M
    BY <1>3, <1>5, <2>1 DEF LogNow
  <2>3. M = [LogNow EXCEPT ![current][s].dropped = @ + 1]
    BY <1>1, <2>1 DEF LogNow
  <2> HIDE DEF M
  <2> QED
    BY <2>1, <2>2, <2>3
<1>7. ResultNow' = ResultNow
  BY <1>2 DEF ResultNow, None
<1> QED
  BY <1>2, <1>4, <1>6, <1>7 DEF Log!Add, LogNow, ResultNow

(* The end of a capture: a stop has read every log as it is, an abort has  *)
(* left no result.                                                         *)
LEMMA FinishCuts == ASSUME LogInv, NEW c \in Controllers, Finish(c) PROVE Log!Cut
<1> USE DEF buffers, emitter, capture, control
<1>0. /\ TypeOK /\ Entries /\ Turns /\ Holds(c)
      /\ \A g \in Gens, s \in Slots : Filled(g, s) /\ Results(g, s)
  BY LogInvParts
<1>1. /\ gen[c] = current /\ current \in Gens /\ current # 0 /\ current = started
      /\ \A e \in Emitters : epc[e] \notin Writing
  BY <1>0, LogInvParts DEF Finish, Holds, Ending, Ended, Turns, Gens
<1>2. /\ current' = 0 /\ closed' = closed \cup {current}
      /\ UNCHANGED <<cells, dropped, snapshot>>
  BY <1>1 DEF Finish
<1>3. \A g \in Gens, s \in Slots : Written(g, s)' = Written(g, s)
  BY <1>2 DEF Written
<1>4. \A s \in Slots : dropped[current][s] > 0 => Written(current, s) = Capacity
  <2> SUFFICES ASSUME NEW s \in Slots, dropped[current][s] > 0
               PROVE  Written(current, s) = Capacity
    OBVIOUS
  <2>1. next[current][s] >= Capacity /\ next[current][s] \in Nat /\ Capacity \in Nat
    BY <1>0, <1>1, TraceAssumption DEF Filled, TypeOK, TraceAssumption
  <2>2. Committed(current, s) = Capacity
    BY <2>1 DEF Committed
  <2> QED
    BY <1>1, <2>2, QuietIsFilled
<1>5. ASSUME cpc[c] = "drain"
      PROVE  ResultNow' = [ResultNow EXCEPT ![current] = LogNow[current]]
  <2>1. read = opened /\ current \notin closed /\ Draining(current)
    BY <1>0, <1>1, <1>5 DEF Finish, Holds, Draining
  <2>2. ASSUME NEW s \in Slots
        PROVE  snapshot[current][s] = [events |-> Written(current, s),
                                       dropped |-> dropped[current][s]]
    <3>1. CASE entry[s] = current
      <4>1. s \in read
        BY <1>0, <1>1, <2>1, <3>1 DEF Entries
      <4>2. snapshot[current][s] = ReadOff(current, s)
        BY <1>0, <1>1, <2>1, <3>1, <4>1 DEF Results
      <4> QED
        BY <1>1, <4>2, QuietIsFilled DEF ReadOff
    <3>2. CASE entry[s] # current
      <4>1. next[current][s] \in Nat /\ entry[s] \in Nat /\ started \in Nat
        BY <1>0, <1>1 DEF TypeOK
      <4>2. next[current][s] = 0
        BY <1>0, <1>1, <3>2, <4>1 DEF Filled, Entries
      <4>3. Written(current, s) = 0 /\ dropped[current][s] = 0
        BY <1>1, <4>2, UnusedIsBlank
      <4>4. snapshot[current][s] = None
        BY <1>0, <1>1, <2>1, <3>2 DEF Results
      <4> QED
        BY <4>3, <4>4 DEF None
    <3> QED
      BY <3>1, <3>2
  <2>3. \A g \in Gens, s \in Slots :
          (IF g \in closed THEN snapshot[g][s] ELSE None)'
             = IF g = current THEN snapshot[g][s]
               ELSE IF g \in closed THEN snapshot[g][s] ELSE None
    BY <1>2 DEF None
  <2> DEFINE M == [g \in Gens |-> [s \in Slots |->
                     IF g = current THEN snapshot[g][s]
                     ELSE IF g \in closed THEN snapshot[g][s] ELSE None]]
  <2>4. ResultNow' = M
    BY <2>3 DEF ResultNow
  <2>5. LogNow[current] = [s \in Slots |-> snapshot[current][s]]
    BY <1>1, <2>2 DEF LogNow
  <2>6. M = [ResultNow EXCEPT ![current] = [s \in Slots |-> snapshot[current][s]]]
    BY <1>1 DEF ResultNow
  <2> HIDE DEF M
  <2> QED
    BY <2>4, <2>5, <2>6
<1>6. ASSUME cpc[c] = "discard" PROVE ResultNow' = ResultNow
  <2>1. closed' = closed
    BY <1>0, <1>1, <1>2, <1>6 DEF Holds
  <2> QED
    BY <1>2, <2>1 DEF ResultNow, None
<1>7. \/ ResultNow' = [ResultNow EXCEPT ![current] = LogNow[current]]
      \/ ResultNow' = ResultNow
  BY <1>5, <1>6 DEF Finish
<1>8. LogNow' = LogNow
  BY <1>2, <1>3 DEF LogNow
<1>9. \A s \in Slots : LogNow[current][s].dropped > 0 => LogNow[current][s].events = Capacity
  BY <1>1, <1>4 DEF LogNow
<1> HIDE DEF buffers, emitter, capture, control
<1>10. Log!Cut <=> /\ current # 0 /\ current' = 0
                   /\ \A s \in Slots : LogNow[current][s].dropped > 0
                                          => LogNow[current][s].events = Capacity
                   /\ \/ ResultNow' = [ResultNow EXCEPT ![current] = LogNow[current]]
                      \/ UNCHANGED ResultNow
                   /\ UNCHANGED LogNow
  BY DEF Log!Cut, LogNow, ResultNow
<1> QED
  BY <1>1, <1>2, <1>7, <1>8, <1>9, <1>10

(* Anything else leaves them alone, and the current capture: what a stop   *)
(* has read counts when it is done, and an abort has read nothing.         *)
LEMMA OthersStutter ==
  ASSUME LogInv,
         \/ \E e \in Emitters : Load(e) \/ Enter(e) \/ Choose(e) \/ Ticket(e) \/ Leave(e)
         \/ \E S \in Runtimes : Attach(S)
         \/ \E c \in Controllers : \/ Start(c) \/ Lock(c) \/ Disable(c) \/ Quiesce(c)
                                   \/ \E s \in Slots : Drain(c, s)
                                   \/ \E g \in Gens : Stop(c, g) \/ Abort(c, g)
         \/ UNCHANGED vars
  PROVE  UNCHANGED <<current, LogNow, ResultNow>>
<1> USE DEF buffers, emitter, capture, control
<1>1. UNCHANGED <<current, cells, dropped>>
  BY DEF Load, Enter, Choose, Ticket, Leave, Attach, Start, Lock, Disable, Quiesce, Drain,
         Stop, Abort, vars
<1>2. UNCHANGED LogNow
  BY <1>1 DEF LogNow, Written
<1>3. ASSUME NEW c \in Controllers, NEW x \in Slots, Drain(c, x)
      PROVE  UNCHANGED ResultNow
  <2>1. gen[c] \in Gens /\ gen[c] \notin closed
    BY <1>3, LogInvParts DEF Drain, Holds, Ended, Ending
  <2>2. snapshot \in [Gens -> [Slots -> [events : Nat, dropped : Nat]]]
    BY LogInvParts DEF TypeOK
  <2> DEFINE r == [events |-> Committed(gen[c], x), dropped |-> dropped[gen[c]][x]]
  <2>3. /\ closed' = closed
        /\ snapshot' = IF entry[x] # gen[c] THEN snapshot
                       ELSE [snapshot EXCEPT ![gen[c]][x] = r]
    BY <1>3 DEF Drain
  <2> HIDE DEF r
  <2>4. \A g \in Gens : g \in closed => snapshot'[g] = snapshot[g]
    BY <2>1, <2>2, <2>3
  <2> QED
    BY <2>3, <2>4 DEF ResultNow
<1>4. ASSUME NEW c \in Controllers, NEW g \in Gens, Abort(c, g) PROVE UNCHANGED ResultNow
  <2>1. g \notin closed
    BY <1>4, EndsTheCurrent
  <2>2. ~Draining(g)
    BY <1>4, OneAtATime DEF Abort, Draining
  <2>3. \A s \in Slots : snapshot[g][s] = None
    BY <2>1, <2>2, LogInvParts DEF Results
  <2>4. closed' = closed \cup {g} /\ UNCHANGED snapshot
    BY <1>4 DEF Abort
  <2> QED
    BY <2>3, <2>4 DEF ResultNow
<1>5. ASSUME UNCHANGED <<closed, snapshot>> PROVE UNCHANGED ResultNow
  BY <1>5 DEF ResultNow, None
<1>6. \/ UNCHANGED <<closed, snapshot>>
      \/ \E c \in Controllers, x \in Slots : Drain(c, x)
      \/ \E c \in Controllers, g \in Gens : Abort(c, g)
  BY DEF Load, Enter, Choose, Ticket, Leave, Attach, Start, Lock, Disable, Quiesce, Stop, vars
<1> QED
  BY <1>1, <1>2, <1>3, <1>4, <1>5, <1>6

(* R-086: every step of the collector is a step of a log that is opened    *)
(* blank, grows by one event or one loss at a time, and is cut once, or    *)
(* leaves it alone.  So stop() returns every event that was written and    *)
(* the number of those lost, and no emitter adds to it later.              *)
THEOREM CollectorIsLog == Spec => CaptureSpec
<1>1. Init => Log!Init
  <2> SUFFICES ASSUME Init PROVE Log!Init
    OBVIOUS
  <2>1. LogInv
    BY InitLog
  <2>2. \A g \in Gens, s \in Slots : Written(g, s) = 0 /\ dropped[g][s] = 0
    BY <2>1, UnusedIsBlank DEF Init
  <2> QED
    BY <2>2 DEF Init, Log!Init, Log!Blank, Log!None, None
<1>2. LogInv /\ [Next]_vars => [Log!Next]_<<current, LogNow, ResultNow>>
  <2> SUFFICES ASSUME LogInv, [Next]_vars, ~UNCHANGED <<current, LogNow, ResultNow>>
               PROVE  Log!Next
    OBVIOUS
  <2>1. \/ \E e \in Emitters : Write(e) \/ Drop(e)
        \/ \E c \in Controllers : Publish(c) \/ Finish(c)
    BY OthersStutter DEF Next, EmitStep, StopStep
  <2>2. \A e \in Emitters : SlotOf[e] \in Slots
    BY TraceAssumption DEF TraceAssumption
  <2> QED
    BY <2>1, <2>2, PublishOpens, WriteAdds, DropCounts, FinishCuts DEF Log!Next
<1> QED
  BY <1>1, <1>2, InitLog, LogInvStep, PTL
     DEF Spec, CaptureSpec, Log!Spec, LogNow, ResultNow
=============================================================================
