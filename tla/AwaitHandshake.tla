--------------------------- MODULE AwaitHandshake ---------------------------
(***************************************************************************)
(* The arm/trigger handshake of one await (src/src/task/                   *)
(* await_handshake.hpp).  One byte is shared by                            *)
(*   - the segment that suspends and calls arm() once,                     *)
(*   - the completion sources, each calling trigger() once,                *)
(*   - the stop sources, each calling trigger_cancel() once.               *)
(* Whichever call moves the byte to Resolved runs its post_action, which   *)
(* puts the frame back on a ready queue.  Every atomic access is a step;   *)
(* a weak compare-exchange that fails spuriously changes nothing and is a  *)
(* stuttering step.                                                        *)
(***************************************************************************)
EXTENDS Naturals

CONSTANTS
  Triggers,   \* threads that call trigger()
  Cancels,    \* threads that call trigger_cancel()
  Armer       \* the thread that calls arm()

ASSUME ThreadsAssumption == /\ Triggers \cap Cancels = {}
                            /\ Armer \notin Triggers \cup Cancels

Threads == Triggers \cup Cancels \cup {Armer}

VARIABLES
  raw,       \* raw_state_: the state nibble and the kCancelled bit
  pc,        \* where each thread is in its call
  seen,      \* the local `expected` / `current` of each thread
  resumes    \* how many times a post_action has run

vars == <<raw, pc, seen, resumes>>

States == {"Init", "Triggered", "Armed", "Resolved"}
Byte == [st : States, cancelled : BOOLEAN]
InitByte == [st |-> "Init", cancelled |-> FALSE]
Steps == {"call", "second", "loop", "post", "done"}

TypeOK == /\ raw \in Byte
          /\ pc \in [Threads -> Steps]
          /\ seen \in [Threads -> Byte]
          /\ resumes \in Nat

Init == /\ raw = InitByte
        /\ pc = [t \in Threads |-> "call"]
        /\ seen = [t \in Threads |-> InitByte]
        /\ resumes = 0

Goto(t, step) == pc' = [pc EXCEPT ![t] = step]
-----------------------------------------------------------------------------
(* Both trigger() and arm() first try to move the byte from Init to their  *)
(* own state; on failure they go on only when the other side was there.    *)

FirstCas(t, own, other) ==
  /\ pc[t] = "call"
  /\ \/ /\ raw = InitByte
        /\ raw' = [st |-> own, cancelled |-> FALSE]
        /\ Goto(t, "done")
        /\ UNCHANGED seen
     \/ /\ raw # InitByte
        /\ seen' = [seen EXCEPT ![t] = raw]
        /\ Goto(t, IF raw.st = other THEN "second" ELSE "done")
        /\ UNCHANGED raw
  /\ UNCHANGED resumes

MutantSecondStore(t) ==
  /\ pc[t] = "second"
  /\ raw' = [st |-> "Resolved", cancelled |-> seen[t].cancelled]
  /\ Goto(t, "post")
  /\ UNCHANGED <<seen, resumes>>

(* The second compare-exchange: `expected` (the byte seen) to Resolved,    *)
(* keeping the cancelled bit that was seen.                                *)
SecondCas(t) ==
  /\ pc[t] = "second"
  /\ \/ /\ raw = seen[t]
        /\ raw' = [st |-> "Resolved", cancelled |-> seen[t].cancelled]
        /\ Goto(t, "post")
     \/ /\ raw # seen[t]
        /\ Goto(t, "done")
        /\ UNCHANGED raw
  /\ UNCHANGED <<seen, resumes>>

TriggerFirst(t) == t \in Triggers /\ FirstCas(t, "Triggered", "Armed")
TriggerSecond(t) == t \in Triggers /\ SecondCas(t)

MutantArmFirst(t) == t = Armer /\ FirstCas(t, "Armed", "Resolved")

ArmFirst(t) == t = Armer /\ FirstCas(t, "Armed", "Triggered")
ArmSecond(t) == t = Armer /\ SecondCas(t)
-----------------------------------------------------------------------------
(* trigger_cancel(): load, then loop on a weak compare-exchange.           *)

CancelLoad(t) ==
  /\ t \in Cancels
  /\ pc[t] = "call"
  /\ seen' = [seen EXCEPT ![t] = raw]
  /\ Goto(t, "loop")
  /\ UNCHANGED <<raw, resumes>>

(* A source got there first: nothing to do. *)
CancelGiveUp(t) ==
  /\ t \in Cancels
  /\ pc[t] = "loop"
  /\ seen[t].st \in {"Triggered", "Resolved"}
  /\ Goto(t, "done")
  /\ UNCHANGED <<raw, seen, resumes>>

MutantCancelCas(t) ==
  /\ t \in Cancels
  /\ pc[t] = "loop"
  /\ seen[t].st \in {"Init", "Armed"}
  /\ raw' = [st |-> IF seen[t].st = "Init" THEN "Triggered" ELSE "Resolved",
             cancelled |-> TRUE]
  /\ Goto(t, IF seen[t].st = "Init" THEN "done" ELSE "post")
  /\ UNCHANGED <<seen, resumes>>

CancelCas(t) ==
  /\ t \in Cancels
  /\ pc[t] = "loop"
  /\ seen[t].st \in {"Init", "Armed"}
  /\ raw = seen[t]
  /\ raw' = [st |-> IF seen[t].st = "Init" THEN "Triggered" ELSE "Resolved",
             cancelled |-> TRUE]
  /\ Goto(t, IF seen[t].st = "Init" THEN "done" ELSE "post")
  /\ UNCHANGED <<seen, resumes>>

(* The exchange failed: `current` is reloaded and the loop goes round. *)
CancelRetry(t) ==
  /\ t \in Cancels
  /\ pc[t] = "loop"
  /\ seen[t].st \in {"Init", "Armed"}
  /\ raw # seen[t]
  /\ seen' = [seen EXCEPT ![t] = raw]
  /\ UNCHANGED <<raw, pc, resumes>>

(* post_action(): the frame goes to a ready queue. *)
Post(t) ==
  /\ pc[t] = "post"
  /\ resumes' = resumes + 1
  /\ Goto(t, "done")
  /\ UNCHANGED <<raw, seen>>

Step(t) == \/ TriggerFirst(t) \/ TriggerSecond(t)
           \/ ArmFirst(t) \/ ArmSecond(t)
           \/ CancelLoad(t) \/ CancelGiveUp(t) \/ CancelCas(t) \/ CancelRetry(t)
           \/ Post(t)

(* All calls have returned. *)
Finished == (\A t \in Threads : pc[t] = "done") /\ UNCHANGED vars

Next == (\E t \in Threads : Step(t)) \/ Finished

Spec == Init /\ [][Next]_vars

(* Every thread inside a call keeps running it: the calls take no lock. *)
FairSpec == Spec /\ \A t \in Threads : WF_vars(Step(t))
-----------------------------------------------------------------------------
Posting(t) == pc[t] = "post"

(* The frame is posted exactly when the byte is Resolved: before that no   *)
(* post_action has run or is about to, after it one and only one has run   *)
(* or is about to, whoever resolved it.                                    *)
ResumeTicket ==
  /\ raw.st # "Resolved" => resumes = 0 /\ \A t \in Threads : ~Posting(t)
  /\ raw.st = "Resolved" =>
       \/ resumes = 1 /\ \A t \in Threads : ~Posting(t)
       \/ /\ resumes = 0
          /\ \E t \in Threads : Posting(t) /\ \A u \in Threads \ {t} : ~Posting(u)

(* A thread on its second exchange saw the other side's state: the arming  *)
(* thread Triggered, a source Armed.  While the arming thread is there the *)
(* byte cannot move, because every source gives up on Triggered.           *)
SecondSaw ==
  /\ \A t \in Triggers : pc[t] = "second" =>
        seen[t].st = "Armed" /\ ~seen[t].cancelled
  /\ pc[Armer] = "second" => raw = seen[Armer] /\ raw.st = "Triggered"

(* What the byte says of the arming thread. *)
ArmerPhase ==
  /\ raw.st = "Init" => pc[Armer] = "call" /\ ~raw.cancelled
  /\ raw.st = "Triggered" => pc[Armer] \in {"call", "second"}
  /\ raw.st = "Armed" => pc[Armer] = "done" /\ ~raw.cancelled
  /\ raw.st = "Resolved" => pc[Armer] \in {"post", "done"}

(* A source that has returned left the byte fired, and one that is about   *)
(* to give up saw it fired.                                                *)
Fired(byte) == byte.st \in {"Triggered", "Resolved"}
SourcesFired ==
  /\ \A t \in Triggers \cup Cancels : pc[t] = "done" => Fired(raw)
  /\ \A t \in Triggers : pc[t] = "second" => raw.st \in {"Armed", "Resolved"}
  /\ \A t \in Cancels : pc[t] = "loop" /\ Fired(seen[t]) => Fired(raw)

IInv == TypeOK /\ ResumeTicket /\ SecondSaw /\ ArmerPhase /\ SourcesFired

(* R-074: concurrent completion and stop publish at most one ready ticket, *)
(* so no frame is ever resumed twice for one suspension.                   *)
ResumeAtMostOnce == resumes <= 1

(* R-074, "no lost wake": once arm() and every source have returned, and   *)
(* there was a source, the frame has been posted.                          *)
NoLostResume ==
  (\A t \in Threads : pc[t] = "done") /\ Triggers \cup Cancels # {} => resumes = 1

(* The byte only moves forward, a cancelled await stays cancelled, and     *)
(* nothing rewrites the verdict await_resume() reads after resolution.     *)
Rank(st) == CASE st = "Init" -> 0 [] st \in {"Triggered", "Armed"} -> 1
              [] st = "Resolved" -> 2
VerdictFrozen ==
  [][/\ Rank(raw'.st) >= Rank(raw.st)
     /\ raw.cancelled => raw'.cancelled
     /\ raw.st \in {"Triggered", "Resolved"} => raw'.cancelled = raw.cancelled]_vars

(* With every thread running, each await that has a source is resumed. *)
EventuallyResumed == <>(resumes = 1)

(* The handshake implements the promise of ResumeOnce. *)
Promise == INSTANCE ResumeOnce WITH
  armed <- raw.st \in {"Armed", "Resolved"},
  fired <- IF raw.st \in {"Triggered", "Resolved"}
           THEN IF raw.cancelled THEN "cancel" ELSE "normal"
           ELSE "none"
PromiseSpec == Promise!Spec
=============================================================================
