------------------------ MODULE AwaitHandshake_proof ------------------------
(***************************************************************************)
(* The safety of the arm/trigger handshake for any number of completion    *)
(* and stop sources.                                                       *)
(***************************************************************************)
EXTENDS AwaitHandshake, TLAPS

(* Establishes that the shared byte, the program counters and the locals   *)
(* of trigger(), trigger_cancel() and arm() keep their shape.              *)
LEMMA TypeCorrect == Spec => []TypeOK
<1>1. Init => TypeOK
  BY DEF Init, TypeOK, InitByte, Byte, States, Steps
<1>2. TypeOK /\ [Next]_vars => TypeOK'
  <2> SUFFICES ASSUME TypeOK, [Next]_vars PROVE TypeOK'
    OBVIOUS
  <2> USE DEF TypeOK, Byte, InitByte, States, Steps, Goto
  <2>1. CASE UNCHANGED vars
    BY <2>1 DEF vars
  <2>2. ASSUME NEW t \in Threads, Step(t) PROVE TypeOK'
    <3>0. ASSUME NEW own \in States, NEW other, FirstCas(t, own, other)
          PROVE  TypeOK'
      <4> DEFINE next == IF raw.st = other THEN "second" ELSE "done"
      <4>1. next \in Steps
        OBVIOUS
      <4> HIDE DEF next
      <4>2. CASE raw = InitByte
        <5>1. /\ raw' = [st |-> own, cancelled |-> FALSE]
              /\ pc' = [pc EXCEPT ![t] = "done"]
              /\ UNCHANGED <<seen, resumes>>
          BY <3>0, <4>2 DEF FirstCas
        <5>2. raw' \in Byte
          BY <5>1, <3>0
        <5> QED
          BY <5>1, <5>2
      <4>3. CASE raw # InitByte
        <5>1. /\ pc' = [pc EXCEPT ![t] = next]
              /\ seen' = [seen EXCEPT ![t] = raw]
              /\ UNCHANGED <<raw, resumes>>
          BY <3>0, <4>3 DEF FirstCas, next
        <5> QED
          BY <5>1, <4>1
      <4> QED
        BY <4>2, <4>3
    <3>1. CASE TriggerFirst(t)
      BY <3>0, <3>1 DEF TriggerFirst
    <3>2. CASE TriggerSecond(t)
      BY <3>2 DEF TriggerSecond, SecondCas
    <3>3. CASE ArmFirst(t)
      BY <3>0, <3>3 DEF ArmFirst
    <3>4. CASE ArmSecond(t)
      BY <3>4 DEF ArmSecond, SecondCas
    <3>5. CASE CancelLoad(t)
      BY <3>5 DEF CancelLoad
    <3>6. CASE CancelGiveUp(t)
      BY <3>6 DEF CancelGiveUp
    <3>7. CASE CancelCas(t)
      BY <3>7 DEF CancelCas
    <3>8. CASE CancelRetry(t)
      BY <3>8 DEF CancelRetry
    <3>9. CASE Post(t)
      BY <3>9 DEF Post
    <3> QED
      BY <2>2, <3>1, <3>2, <3>3, <3>4, <3>5, <3>6, <3>7, <3>8, <3>9 DEF Step
  <2>3. CASE Finished
    BY <2>3 DEF Finished, vars
  <2> QED
    BY <2>1, <2>2, <2>3 DEF Next
<1> QED
  BY <1>1, <1>2, PTL DEF Spec

(* One step of the handshake keeps the inductive invariant.  The heart of  *)
(* it is that each transition into Resolved puts exactly the thread that   *)
(* made it at its post_action, and that nobody is there before.            *)
LEMMA InductiveStep == ASSUME IInv, [Next]_vars, TypeOK' PROVE IInv'
<1> USE ThreadsAssumption DEF Threads, Goto, Posting
<1>1. CASE UNCHANGED vars
  BY <1>1 DEF vars, IInv, TypeOK, ResumeTicket, SecondSaw, ArmerPhase, SourcesFired, Fired
<1>2. ASSUME NEW t \in Threads, Step(t) PROVE IInv'
  <2> USE DEF IInv, TypeOK, ResumeTicket, SecondSaw, ArmerPhase, SourcesFired, Fired, Byte, States, InitByte, Steps
  <2>1. CASE TriggerFirst(t)
    BY <1>2, <2>1 DEF TriggerFirst, FirstCas
  <2>2. CASE TriggerSecond(t)
    BY <1>2, <2>2 DEF TriggerSecond, SecondCas
  <2>3. CASE ArmFirst(t)
    BY <1>2, <2>3 DEF ArmFirst, FirstCas
  <2>4. CASE ArmSecond(t)
    BY <1>2, <2>4 DEF ArmSecond, SecondCas
  <2>5. CASE CancelLoad(t)
    BY <1>2, <2>5 DEF CancelLoad
  <2>6. CASE CancelGiveUp(t)
    BY <1>2, <2>6 DEF CancelGiveUp
  <2>7. CASE CancelCas(t)
    BY <1>2, <2>7 DEF CancelCas
  <2>8. CASE CancelRetry(t)
    BY <1>2, <2>8 DEF CancelRetry
  <2>9. CASE Post(t)
    BY <1>2, <2>9 DEF Post
  <2> QED
    BY <1>2, <2>1, <2>2, <2>3, <2>4, <2>5, <2>6, <2>7, <2>8, <2>9 DEF Step
<1>3. CASE Finished
  BY <1>1, <1>3 DEF Finished
<1> QED
  BY <1>1, <1>2, <1>3 DEF Next

(* R-074 for any number of sources: the inductive invariant holds, so the  *)
(* frame is posted exactly when the byte is Resolved and by one thread.    *)
THEOREM TicketInvariant == Spec => []IInv
<1>1. Init => IInv
  BY ThreadsAssumption
  DEF Init, IInv, TypeOK, ResumeTicket, SecondSaw, ArmerPhase, SourcesFired, Fired, Posting,
      Threads, InitByte, Byte, States, Steps
<1>2. IInv /\ [Next]_vars /\ TypeOK' => IInv'
  BY InductiveStep
<1> QED
  BY <1>1, <1>2, TypeCorrect, PTL DEF Spec

(* No frame is posted twice for one suspension. *)
THEOREM AtMostOneResume == Spec => []ResumeAtMostOnce
<1>1. IInv => ResumeAtMostOnce
  BY DEF IInv, TypeOK, ResumeTicket, ResumeAtMostOnce
<1> QED
  BY <1>1, TicketInvariant, PTL

(* When every call has returned and there was a source, the frame has been *)
(* posted: neither order of arm and trigger loses the resumption.          *)
THEOREM NoResumeLost == Spec => []NoLostResume
<1>1. ASSUME IInv, \A t \in Threads : pc[t] = "done", Triggers \cup Cancels # {}
      PROVE  resumes = 1
  <2>1. Fired(raw) /\ raw \in Byte
    BY <1>1 DEF IInv, TypeOK, SourcesFired, Threads
  <2>2. raw.st = "Resolved"
    BY <1>1, <2>1 DEF IInv, ArmerPhase, Fired, Threads
  <2> QED
    BY <1>1, <2>2 DEF IInv, ResumeTicket, Posting
<1>2. IInv => NoLostResume
  BY <1>1 DEF NoLostResume
<1> QED
  BY <1>2, TicketInvariant, PTL

(* The verdict await_resume() reads cannot change once a source has fired. *)
THEOREM VerdictIsFrozen == Spec => VerdictFrozen
<1> DEFINE A == /\ Rank(raw'.st) >= Rank(raw.st)
                /\ raw.cancelled => raw'.cancelled
                /\ raw.st \in {"Triggered", "Resolved"} => raw'.cancelled = raw.cancelled
<1>1. ASSUME IInv, [Next]_vars, IInv' PROVE [A]_vars
  <2> USE DEF Rank, IInv, TypeOK, SecondSaw, ArmerPhase, SourcesFired, Fired,
              Byte, States, InitByte, Threads, Goto
  <2>1. CASE UNCHANGED vars
    BY <2>1
  <2>2. ASSUME NEW t \in Threads, Step(t), raw' # raw PROVE A
    <3>1. CASE TriggerFirst(t) \/ ArmFirst(t)
      <4>1. raw = InitByte /\ raw'.st \in {"Triggered", "Armed"}
        BY <2>2, <3>1 DEF TriggerFirst, ArmFirst, FirstCas
      <4> QED
        BY <4>1
    <3>2. CASE TriggerSecond(t) \/ ArmSecond(t)
      <4>1. raw = seen[t] /\ raw' = [st |-> "Resolved", cancelled |-> seen[t].cancelled]
        BY <2>2, <3>2 DEF TriggerSecond, ArmSecond, SecondCas
      <4>2. raw.cancelled = raw'.cancelled
        BY <4>1
      <4> QED
        BY <1>1, <4>1, <4>2
    <3>3. CASE CancelCas(t)
      <4>1. /\ raw.st \in {"Init", "Armed"}
            /\ raw'.st = IF raw.st = "Init" THEN "Triggered" ELSE "Resolved"
            /\ raw'.cancelled = TRUE
        BY <3>3 DEF CancelCas
      <4> QED
        BY <4>1
    <3> QED
      BY <2>2, <3>1, <3>2, <3>3 DEF Step, CancelLoad, CancelGiveUp, CancelRetry, Post
  <2>3. ASSUME raw' = raw PROVE A
    BY <1>1, <2>3
  <2> QED
    BY <1>1, <2>1, <2>2, <2>3 DEF Next, Finished
<1> QED
  BY <1>1, TicketInvariant, PTL DEF Spec, VerdictFrozen

(* The handshake implements "resumed exactly once after both sides": every *)
(* step of it is a step of ResumeOnce or leaves its variables unchanged.   *)
THEOREM ImplementsResumeOnce == Spec => PromiseSpec
<1>1. Init => Promise!Init
  BY DEF Init, Promise!Init, InitByte
<1>2. ASSUME IInv, [Next]_vars, IInv' PROVE [Promise!Next]_Promise!vars
  <2> USE DEF Promise!Next, Promise!Arm, Promise!Fire, Promise!Resume, Promise!Kinds, Promise!vars
  <2> USE DEF IInv, TypeOK, ResumeTicket, Posting, SecondSaw, ArmerPhase, SourcesFired, Fired,
              Byte, States, InitByte, Threads, Goto
  <2>1. CASE UNCHANGED vars
    BY <2>1 DEF vars
  <2>2. ASSUME NEW t \in Threads, Step(t) PROVE [Promise!Next]_Promise!vars
    <3>1. CASE TriggerFirst(t)
      BY <1>2, <2>2, <3>1 DEF TriggerFirst, FirstCas
    <3>2. CASE TriggerSecond(t)
      BY <1>2, <2>2, <3>2 DEF TriggerSecond, SecondCas
    <3>3. CASE ArmFirst(t)
      BY <1>2, <2>2, <3>3 DEF ArmFirst, FirstCas
    <3>4. CASE ArmSecond(t)
      BY <1>2, <2>2, <3>4 DEF ArmSecond, SecondCas
    <3>5. CASE CancelCas(t)
      BY <1>2, <2>2, <3>5 DEF CancelCas
    <3>6. CASE Post(t)
      BY <1>2, <2>2, <3>6 DEF Post
    <3>7. CASE CancelLoad(t) \/ CancelGiveUp(t) \/ CancelRetry(t)
      BY <3>7 DEF CancelLoad, CancelGiveUp, CancelRetry
    <3> QED
      BY <2>2, <3>1, <3>2, <3>3, <3>4, <3>5, <3>6, <3>7 DEF Step
  <2> QED
    BY <1>2, <2>1, <2>2 DEF Next, Finished
<1> QED
  BY <1>1, <1>2, TicketInvariant, PTL DEF Spec, PromiseSpec, Promise!Spec
=============================================================================
