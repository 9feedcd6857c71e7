--------------------- MODULE AdmissionController_proof ----------------------
(***************************************************************************)
(* Admission for any set of callers and releasers, any capacity and any    *)
(* sizes of requests.  The status changes without the mutex, so what a     *)
(* caller saw of it may be stale; the room a caller saw may not, for who   *)
(* is between its look and its sleep holds the mutex.                      *)
(***************************************************************************)
EXTENDS AdmissionController, FiniteSetTheorems, TLAPS

(* A caller for whom admission has closed is still to decide, or was       *)
(* turned away; and it has not been overlooked: a status, once closed,     *)
(* stays closed, and a late caller can only have seen a closed one.        *)
LateStep == {"load", "decide", "predicate", "block", "asleep", "rejected"}
LateInv == \A c \in late : /\ pc[c] \in LateStep
                           /\ Closed(c, Now)
                           /\ pc[c] = "decide" => Closed(c, seen[c])

(* Who is inside acquire() and may wait holds the mutex, and about to wait *)
(* it still lacks the room.                                                *)
Locked == \A c \in Callers :
            /\ pc[c] \in {"load", "decide"} /\ Count[c] > 0 => mutex = c
            /\ pc[c] \in {"predicate", "block"} => mutex = c
            /\ pc[c] \in {"predicate", "block", "asleep"} => Count[c] > 0
            /\ pc[c] = "block" => ~Fits(c)
            /\ c \in waiting => pc[c] = "asleep"

GateInv == TypeOK /\ LateInv /\ Locked /\ NoForgottenSleeper /\ pending <= Capacity

USE DEF status

LEMMA InitGate == Init => GateInv
<1> SUFFICES ASSUME Init PROVE GateInv
  OBVIOUS
<1>1. TypeOK
  BY DEF Init, TypeOK, CallerSteps, Status
<1>2. pending <= Capacity
  BY AdmissionAssumption DEF Init, AdmissionAssumption
<1>3. LateInv /\ NoForgottenSleeper
  BY DEF Init, LateInv, NoForgottenSleeper
<1>4. Locked
  BY DEF Init, Locked
<1> QED
  BY <1>1, <1>2, <1>3, <1>4 DEF GateInv

(* Every variable keeps its type. *)
LEMMA TypeStep == TypeOK /\ [Next]_vars => TypeOK'
<1> SUFFICES ASSUME TypeOK, [Next]_vars PROVE TypeOK'
  OBVIOUS
<1> USE AdmissionAssumption DEF AdmissionAssumption, TypeOK, CallerSteps, Status
<1>1. ASSUME NEW c \in Callers, CallerStep(c) \/ SpuriousWake(c) PROVE TypeOK'
  <2>1. CASE Enter(c) \/ Load(c) \/ Reject(c) \/ MustWait(c) \/ Predicate(c) \/ Block(c)
    BY <2>1 DEF Enter, Load, Reject, MustWait, Predicate, Block, Goto, Leave, Now
  <2>2. CASE Accept(c) \/ Reacquire(c) \/ Publish(c) \/ Rollback(c) \/ SpuriousWake(c)
    BY <2>2 DEF Accept, Reacquire, Publish, Rollback, SpuriousWake, Goto, Leave
  <2> QED
    BY <1>1, <2>1, <2>2 DEF CallerStep
<1>2. ASSUME NEW r \in Releasers, Claim(r) PROVE TypeOK'
  BY <1>2 DEF Claim, Goto
<1>3. ASSUME NEW t \in Callers \cup Releasers, Notice(t) PROVE TypeOK'
  <2>1. Giving(t) \in Nat
    BY DEF Giving
  <2>2. CASE Release(t)
    <3>1. pending' \in Nat
      BY <2>1, <2>2 DEF Release
    <3> QED
      BY <2>2, <3>1 DEF Release, Goto
  <2>3. CASE NotifyAll(t)
    BY <2>3 DEF NotifyAll
  <2> QED
    BY <1>3, <2>2, <2>3 DEF Notice
<1>4. CASE Shutdown \/ WakeAll \/ PublishStopped
  BY <1>4 DEF Shutdown, BeginStop, Escalate, SetStatus, WakeAll, PublishStopped
<1>5. CASE UNCHANGED vars
  BY <1>5 DEF vars
<1> QED
  BY <1>1, <1>2, <1>3, <1>4, <1>5 DEF Next

(* A closed gate stays closed: Stopping becomes Stopped, Graceful becomes  *)
(* Immediate, and nothing goes back.                                       *)
LEMMA ClosedStays ==
  ASSUME NEW c \in Callers, Shutdown \/ PublishStopped, Closed(c, Now)
  PROVE  Closed(c, Now)'
BY DEF Shutdown, BeginStop, Escalate, PublishStopped, SetStatus, Closed, Now

(* Nobody for whom admission has closed slips in.                          *)
LEMMA LateStepKept == TypeOK /\ LateInv /\ [Next]_vars => LateInv'
<1> SUFFICES ASSUME TypeOK, LateInv, [Next]_vars PROVE LateInv'
  OBVIOUS
<1> USE AdmissionAssumption DEF AdmissionAssumption, TypeOK, LateInv, LateStep, Goto
<1>1. ASSUME NEW c \in Callers, CallerStep(c) \/ SpuriousWake(c) PROVE LateInv'
  <2>1. CASE Enter(c) \/ Load(c)
    BY <2>1 DEF Enter, Load, Now, Closed
  <2>2. CASE Reject(c) \/ MustWait(c) \/ Predicate(c) \/ Block(c) \/ Reacquire(c) \/ SpuriousWake(c)
    BY <2>2 DEF Reject, MustWait, Predicate, Block, Reacquire, SpuriousWake, Now, Closed
  <2>3. CASE Accept(c) \/ Publish(c) \/ Rollback(c)
    BY <2>3 DEF Accept, Publish, Rollback, Now, Closed
  <2> QED
    BY <1>1, <2>1, <2>2, <2>3 DEF CallerStep
<1>2. ASSUME NEW r \in Releasers, Claim(r) PROVE LateInv'
  BY <1>2 DEF Claim, Now, Closed
<1>3. ASSUME NEW t \in Callers \cup Releasers, Notice(t) PROVE LateInv'
  BY <1>3 DEF Notice, Release, NotifyAll, Now, Closed
<1>4. CASE Shutdown \/ PublishStopped
  <2>1. PICK st : SetStatus(st) /\ Now' = st
    BY <1>4 DEF Shutdown, BeginStop, Escalate, PublishStopped, SetStatus, Now
  <2>2. ASSUME NEW c \in late' PROVE Closed(c, Now)'
    <3>1. CASE c \in late
      BY <1>4, <3>1, ClosedStays
    <3>2. CASE c \notin late
      BY <2>1, <3>2 DEF SetStatus, Closed
    <3> QED
      BY <3>1, <3>2
  <2>3. ASSUME NEW c \in late'
        PROVE  pc'[c] \in LateStep /\ (pc'[c] = "decide" => Closed(c, seen'[c]))
    BY <2>1 DEF SetStatus, Closed
  <2> QED
    BY <2>2, <2>3
<1>5. CASE WakeAll
  BY <1>5 DEF WakeAll, Now, Closed
<1>6. CASE UNCHANGED vars
  BY <1>6 DEF vars, Now, Closed
<1> QED
  BY <1>1, <1>2, <1>3, <1>4, <1>5, <1>6 DEF Next

(* The mutex protects the room a caller saw until it sleeps. *)
LEMMA LockedKept == TypeOK /\ Locked /\ [Next]_vars => Locked'
<1> SUFFICES ASSUME TypeOK, Locked, [Next]_vars PROVE Locked'
  OBVIOUS
<1> USE AdmissionAssumption DEF AdmissionAssumption, TypeOK, Locked, Goto, Leave, Fits
<1>1. ASSUME NEW c \in Callers, CallerStep(c) \/ SpuriousWake(c) PROVE Locked'
  <2>1. CASE Enter(c)
    BY <2>1 DEF Enter
  <2>2. CASE Load(c) \/ Reject(c) \/ MustWait(c)
    BY <2>2 DEF Load, Reject, MustWait
  <2>3. CASE Accept(c)
    <3>1. pending' >= pending /\ pending' \in Nat
      BY <2>3 DEF Accept
    <3>2. \A d \in Callers : ~Fits(d) => ~Fits(d)'
      BY <3>1
    <3>3. \A d \in Callers : d # c => (mutex = d => mutex' = d) /\ pc'[d] = pc[d]
      BY <2>3 DEF Accept
    <3>4. pc'[c] = "accepted" /\ pc[c] = "decide" /\ waiting' = waiting
      BY <2>3 DEF Accept
    <3> QED
      BY <3>2, <3>3, <3>4
  <2>4. CASE Predicate(c)
    BY <2>4 DEF Predicate
  <2>5. CASE Block(c) \/ Reacquire(c) \/ SpuriousWake(c)
    BY <2>5 DEF Block, Reacquire, SpuriousWake
  <2>6. CASE Publish(c) \/ Rollback(c)
    BY <2>6 DEF Publish, Rollback
  <2> QED
    BY <1>1, <2>1, <2>2, <2>3, <2>4, <2>5, <2>6 DEF CallerStep
<1>2. ASSUME NEW r \in Releasers, Claim(r) PROVE Locked'
  BY <1>2 DEF Claim
<1>3. ASSUME NEW t \in Callers \cup Releasers, Notice(t) PROVE Locked'
  <2>1. CASE Release(t)
    BY <2>1 DEF Release
  <2>2. CASE NotifyAll(t)
    BY <2>2 DEF NotifyAll
  <2> QED
    BY <1>3, <2>1, <2>2 DEF Notice
<1>4. CASE Shutdown \/ WakeAll \/ PublishStopped
  BY <1>4 DEF Shutdown, BeginStop, Escalate, SetStatus, WakeAll, PublishStopped
<1>5. CASE UNCHANGED vars
  BY <1>5 DEF vars
<1> QED
  BY <1>1, <1>2, <1>3, <1>4, <1>5 DEF Next

(* Room appears for a sleeper only with a notification on its way. *)
LEMMA SleeperKept ==
  TypeOK /\ Locked /\ NoForgottenSleeper /\ pending <= Capacity /\ [Next]_vars
    => NoForgottenSleeper' /\ pending' <= Capacity
<1> SUFFICES ASSUME TypeOK, Locked, NoForgottenSleeper, pending <= Capacity, [Next]_vars
             PROVE  NoForgottenSleeper' /\ pending' <= Capacity
  OBVIOUS
<1> USE AdmissionAssumption DEF AdmissionAssumption, TypeOK, NoForgottenSleeper, Fits
<1>1. ASSUME NEW c \in Callers, CallerStep(c) \/ SpuriousWake(c)
      PROVE  NoForgottenSleeper' /\ pending' <= Capacity
  <2>1. CASE Block(c)
    BY <2>1 DEF Block, Locked
  <2>2. CASE Accept(c)
    BY <2>2 DEF Accept
  <2>3. CASE Enter(c) \/ Load(c) \/ Reject(c) \/ MustWait(c) \/ Predicate(c) \/ Reacquire(c)
             \/ Publish(c) \/ Rollback(c) \/ SpuriousWake(c)
    BY <2>3 DEF Enter, Load, Reject, MustWait, Predicate, Reacquire, Publish, Rollback, SpuriousWake
  <2> QED
    BY <1>1, <2>1, <2>2, <2>3 DEF CallerStep
<1>2. ASSUME NEW r \in Releasers, Claim(r)
      PROVE  NoForgottenSleeper' /\ pending' <= Capacity
  BY <1>2 DEF Claim
<1>3. ASSUME NEW t \in Callers \cup Releasers, Notice(t)
      PROVE  NoForgottenSleeper' /\ pending' <= Capacity
  <2>1. CASE Release(t)
    <3>1. Giving(t) \in Nat
      BY DEF Giving
    <3>2. pending' <= pending /\ notifyDue' # {}
      BY <2>1, <3>1 DEF Release
    <3> QED
      BY <2>1, <3>2 DEF Release
  <2>2. CASE NotifyAll(t)
    BY <2>2 DEF NotifyAll
  <2> QED
    BY <1>3, <2>1, <2>2 DEF Notice
<1>4. CASE Shutdown \/ WakeAll \/ PublishStopped
  BY <1>4 DEF Shutdown, BeginStop, Escalate, SetStatus, WakeAll, PublishStopped
<1>5. CASE UNCHANGED vars
  BY <1>5 DEF vars
<1> QED
  BY <1>1, <1>2, <1>3, <1>4, <1>5 DEF Next

-----------------------------------------------------------------------------
(* Counting.  The units of one thread are as many as f says. *)
LEMMA UnitsOfOne ==
  ASSUME NEW t, NEW n \in Nat
  PROVE  IsFiniteSet({t} \X (1 .. n)) /\ Cardinality({t} \X (1 .. n)) = n
<1> DEFINE tag == [i \in 1 .. n |-> <<t, i>>]
<1>1. IsFiniteSet(1 .. n) /\ Cardinality(1 .. n) = n
  BY FS_Interval
<1>2. tag \in Bijection(1 .. n, {t} \X (1 .. n))
  <2>1. tag \in [1 .. n -> {t} \X (1 .. n)]
    OBVIOUS
  <2>2. \A i, j \in 1 .. n : tag[i] = tag[j] => i = j
    OBVIOUS
  <2>3. \A u \in {t} \X (1 .. n) : \E i \in 1 .. n : tag[i] = u
    OBVIOUS
  <2> QED
    BY <2>1, <2>2, <2>3 DEF Bijection, Injection, Surjection, IsInjective
<1>3. ExistsBijection(1 .. n, {t} \X (1 .. n))
  BY <1>2 DEF ExistsBijection
<1> QED
  BY <1>1, <1>3, FS_Bijection

(* The units of finitely many threads are finitely many. *)
LEMMA UnitsFinite ==
  ASSUME NEW S, IsFiniteSet(S), NEW f \in [S -> Nat]
  PROVE  IsFiniteSet(Units(f))
<1> DEFINE Of(t) == {t} \X (1 .. f[t])
           All == {Of(t) : t \in S}
           each == [t \in S |-> Of(t)]
<1>1. each \in Surjection(S, All)
  BY DEF Surjection
<1>2. IsFiniteSet(All)
  BY <1>1, FS_Surjection
<1>3. ASSUME NEW T \in All PROVE IsFiniteSet(T)
  <2>1. PICK t \in S : T = Of(t)
    OBVIOUS
  <2>2. f[t] \in Nat
    OBVIOUS
  <2> QED
    BY <2>1, <2>2, UnitsOfOne
<1>4. IsFiniteSet(UNION All)
  <2> HIDE DEF All
  <2> QED
    BY <1>2, <1>3, FS_UNION
<1>5. Units(f) = UNION All
  BY DEF Units
<1> QED
  BY <1>4, <1>5

(* When one thread's count changes, the total changes by as much. *)
LEMMA UnitsChange ==
  ASSUME NEW S, IsFiniteSet(S), NEW f \in [S -> Nat], NEW g \in [S -> Nat], NEW t \in S,
         \A u \in S : u # t => f[u] = g[u]
  PROVE  /\ Cardinality(Units(f)) \in Nat /\ Cardinality(Units(g)) \in Nat
         /\ Cardinality(Units(g)) + f[t] = Cardinality(Units(f)) + g[t]
         /\ Cardinality(Units(f)) >= f[t]
<1> DEFINE Rest == {u \in Units(f) : u[1] # t}
           F == {t} \X (1 .. f[t])
           G == {t} \X (1 .. g[t])
<1>1. Units(f) = Rest \cup F /\ Rest \cap F = {}
  BY DEF Units
<1>2. Units(g) = Rest \cup G /\ Rest \cap G = {}
  BY DEF Units
<1>3. IsFiniteSet(Units(f)) /\ IsFiniteSet(Units(g))
  BY UnitsFinite
<1>4. IsFiniteSet(Rest)
  BY <1>3, FS_Subset
<1>5. f[t] \in Nat /\ g[t] \in Nat
  OBVIOUS
<1>6. /\ IsFiniteSet(F) /\ Cardinality(F) = f[t]
      /\ IsFiniteSet(G) /\ Cardinality(G) = g[t]
  BY <1>5, UnitsOfOne
<1> HIDE DEF Rest, F, G
<1>7. /\ Cardinality(Rest) \in Nat
      /\ Cardinality({}) = 0
  BY <1>4, FS_CardinalityType, FS_EmptySet
<1>8. Cardinality(Units(f)) = Cardinality(Rest) + Cardinality(F) - Cardinality(Rest \cap F)
  BY <1>1, <1>4, <1>6, FS_Union
<1>9. Cardinality(Units(g)) = Cardinality(Rest) + Cardinality(G) - Cardinality(Rest \cap G)
  BY <1>2, <1>4, <1>6, FS_Union
<1>10. Cardinality(Rest \cap F) = 0 /\ Cardinality(Rest \cap G) = 0
  BY <1>1, <1>2, <1>7
<1>11. Cardinality(Units(f)) = Cardinality(Rest) + f[t]
  BY <1>5, <1>6, <1>7, <1>8, <1>10
<1>12. Cardinality(Units(g)) = Cardinality(Rest) + g[t]
  BY <1>5, <1>6, <1>7, <1>9, <1>10
<1> QED
  BY <1>5, <1>7, <1>11, <1>12

(* What each thread can be about to give back. *)
Roles == /\ \A r \in Releasers : pc[r] \in {"idle", "release"}
         /\ \A c \in Callers : pc[c] # "release" /\ (pc[c] = "rollback" => c \notin Internal)

Conserved == TypeOK /\ Roles /\ pending = queued + Cardinality(Units(InHand))

LEMMA HandType == InHand \in [Callers \cup Releasers -> Nat]
BY AdmissionAssumption DEF InHand, AdmissionAssumption

LEMMA HandTypeNext == InHand' \in [Callers \cup Releasers -> Nat]
BY AdmissionAssumption DEF InHand, AdmissionAssumption

LEMMA RolesKept == TypeOK /\ Roles /\ [Next]_vars => Roles'
<1> SUFFICES ASSUME TypeOK, Roles, [Next]_vars PROVE Roles'
  OBVIOUS
<1> USE AdmissionAssumption DEF AdmissionAssumption, TypeOK, Roles, Goto
<1>1. ASSUME NEW c \in Callers, CallerStep(c) \/ SpuriousWake(c) PROVE Roles'
  <2>1. CASE Enter(c) \/ Load(c) \/ Reject(c) \/ MustWait(c) \/ Predicate(c) \/ Block(c)
    BY <2>1 DEF Enter, Load, Reject, MustWait, Predicate, Block
  <2>2. CASE Accept(c) \/ Reacquire(c) \/ Publish(c) \/ Rollback(c) \/ SpuriousWake(c)
    BY <2>2 DEF Accept, Reacquire, Publish, Rollback, SpuriousWake
  <2> QED
    BY <1>1, <2>1, <2>2 DEF CallerStep
<1>2. ASSUME NEW r \in Releasers, Claim(r) PROVE Roles'
  BY <1>2 DEF Claim
<1>3. ASSUME NEW t \in Callers \cup Releasers, Notice(t) PROVE Roles'
  BY <1>3 DEF Notice, Release, NotifyAll
<1>4. CASE Shutdown \/ WakeAll \/ PublishStopped
  BY <1>4 DEF Shutdown, BeginStop, Escalate, SetStatus, WakeAll, PublishStopped
<1>5. CASE UNCHANGED vars
  BY <1>5 DEF vars
<1> QED
  BY <1>1, <1>2, <1>3, <1>4, <1>5 DEF Next

(* A step of one thread that moves as many slots between pending_, the     *)
(* queue and its own hands as it should conserves them.                    *)
LEMMA OneMoves ==
  ASSUME TypeOK, NEW t \in Callers \cup Releasers,
         \A u \in Callers \cup Releasers : u # t => InHand'[u] = InHand[u],
         pending = queued + Cardinality(Units(InHand)),
         pending' \in Nat, queued' \in Nat,
         pending' - queued' - InHand'[t] = pending - queued - InHand[t]
  PROVE  pending' = queued' + Cardinality(Units(InHand'))
<1>1. IsFiniteSet(Callers \cup Releasers)
  BY FiniteAssumption, FS_Union DEF FiniteAssumption
<1>2. InHand[t] \in Nat /\ InHand'[t] \in Nat
  BY HandType, HandTypeNext
<1>3. /\ Cardinality(Units(InHand)) \in Nat /\ Cardinality(Units(InHand')) \in Nat
      /\ Cardinality(Units(InHand')) + InHand[t] = Cardinality(Units(InHand)) + InHand'[t]
  BY <1>1, HandType, HandTypeNext, UnitsChange
<1> QED
  BY <1>2, <1>3 DEF TypeOK

(* release() never has to clamp: what a thread gives back is pending.      *)
LEMMA EnoughPending ==
  ASSUME Conserved, NEW t \in Callers \cup Releasers, pc[t] \in {"release", "rollback"}
  PROVE  pending >= Giving(t) /\ InHand[t] = Giving(t) /\ Giving(t) \in Nat
<1>1. InHand[t] = Giving(t) /\ Giving(t) \in Nat
  BY AdmissionAssumption DEF AdmissionAssumption, Conserved, Roles, InHand, Giving
<1>2. IsFiniteSet(Callers \cup Releasers)
  BY FiniteAssumption, FS_Union DEF FiniteAssumption
<1>3. Cardinality(Units(InHand)) \in Nat /\ Cardinality(Units(InHand)) >= InHand[t]
  BY <1>2, HandType, UnitsChange
<1> QED
  BY <1>1, <1>3 DEF Conserved, TypeOK

LEMMA SlotsKept == Conserved /\ [Next]_vars => Conserved'
<1> SUFFICES ASSUME Conserved, [Next]_vars PROVE Conserved'
  OBVIOUS
<1>1. TypeOK /\ TypeOK' /\ Roles /\ Roles'
  BY TypeStep, RolesKept DEF Conserved
<1>2. pending = queued + Cardinality(Units(InHand))
  BY DEF Conserved
<1> SUFFICES pending' = queued' + Cardinality(Units(InHand'))
  BY <1>1 DEF Conserved
<1> USE AdmissionAssumption DEF AdmissionAssumption
<1>3. pending \in Nat /\ queued \in Nat /\ pending' \in Nat /\ queued' \in Nat
  BY <1>1 DEF TypeOK
<1>4. ASSUME NEW c \in Callers, Accept(c) \/ Publish(c) \/ Rollback(c)
      PROVE  pending' = queued' + Cardinality(Units(InHand'))
  <2>1. \A u \in Callers \cup Releasers : u # c => InHand'[u] = InHand[u]
    BY <1>1, <1>4 DEF Accept, Publish, Rollback, Goto, TypeOK, InHand
  <2>2. pending' - queued' - InHand'[c] = pending - queued - InHand[c]
    <3>1. CASE Accept(c)
      BY <1>1, <1>3, <3>1 DEF Accept, Goto, TypeOK, InHand
    <3>2. CASE Publish(c)
      BY <1>1, <1>3, <3>2 DEF Publish, Goto, TypeOK, InHand
    <3>3. CASE Rollback(c)
      BY <1>1, <1>3, <3>3 DEF Rollback, Goto, TypeOK, InHand
    <3> QED
      BY <1>4, <3>1, <3>2, <3>3
  <2> QED
    BY <1>1, <1>2, <1>3, <2>1, <2>2, OneMoves
<1>5. ASSUME NEW r \in Releasers, Claim(r)
      PROVE  pending' = queued' + Cardinality(Units(InHand'))
  <2>1. \A u \in Callers \cup Releasers : u # r => InHand'[u] = InHand[u]
    BY <1>1, <1>5 DEF Claim, Goto, TypeOK, InHand
  <2>2. pending' - queued' - InHand'[r] = pending - queued - InHand[r]
    BY <1>1, <1>3, <1>5 DEF Claim, Goto, TypeOK, InHand
  <2> QED
    BY <1>1, <1>2, <1>3, <2>1, <2>2, OneMoves
<1>6. ASSUME NEW t \in Callers \cup Releasers, Release(t)
      PROVE  pending' = queued' + Cardinality(Units(InHand'))
  <2>1. \A u \in Callers \cup Releasers : u # t => InHand'[u] = InHand[u]
    BY <1>1, <1>6 DEF Release, Goto, TypeOK, InHand
  <2>2. pending >= Giving(t) /\ InHand[t] = Giving(t) /\ Giving(t) \in Nat
    BY <1>6, EnoughPending DEF Release
  <2>3. InHand'[t] = 0
    BY <1>1, <1>6 DEF Release, Goto, TypeOK, InHand
  <2>4. pending' = pending - Giving(t) /\ queued' = queued
    BY <1>6, <2>2 DEF Release
  <2> QED
    BY <1>1, <1>2, <1>3, <2>1, <2>2, <2>3, <2>4, OneMoves
<1>7. CASE UNCHANGED <<pending, queued, InHand>>
  <2>1. Units(InHand') = Units(InHand)
    BY <1>7
  <2> QED
    BY <1>2, <1>7, <2>1
<1>8. ASSUME NEW c \in Callers, CallerStep(c) \/ SpuriousWake(c)
      PROVE  pending' = queued' + Cardinality(Units(InHand'))
  <2>1. CASE Enter(c) \/ Load(c) \/ Reject(c) \/ MustWait(c)
    BY <1>1, <1>7, <2>1 DEF Enter, Load, Reject, MustWait, Goto, TypeOK, InHand
  <2>2. CASE Predicate(c) \/ Block(c) \/ Reacquire(c) \/ SpuriousWake(c)
    BY <1>1, <1>7, <2>2 DEF Predicate, Block, Reacquire, SpuriousWake, Goto, TypeOK, InHand
  <2> QED
    BY <1>4, <1>8, <2>1, <2>2 DEF CallerStep
<1>9. ASSUME NEW t \in Callers \cup Releasers, NotifyAll(t)
      PROVE  pending' = queued' + Cardinality(Units(InHand'))
  BY <1>7, <1>9 DEF NotifyAll, InHand
<1>10. CASE Shutdown \/ WakeAll \/ PublishStopped
  BY <1>7, <1>10 DEF Shutdown, BeginStop, Escalate, SetStatus, WakeAll, PublishStopped, InHand
<1>11. CASE UNCHANGED vars
  BY <1>7, <1>11 DEF vars, InHand
<1> QED
  BY <1>5, <1>6, <1>8, <1>9, <1>10, <1>11 DEF Next, Notice

LEMMA InitConserved == Init => Conserved
<1> SUFFICES ASSUME Init PROVE Conserved
  OBVIOUS
<1>1. TypeOK /\ Roles
  BY InitGate DEF Init, Roles, GateInv
<1>2. \A t \in DOMAIN InHand : InHand[t] = 0
  BY DEF Init, InHand
<1>3. Units(InHand) = {}
  BY <1>2 DEF Units
<1> QED
  BY <1>1, <1>3, FS_EmptySet DEF Init, Conserved
-----------------------------------------------------------------------------
(* The inductive invariant of the controller. *)
THEOREM GateInvariant == Spec => []GateInv
<1>1. GateInv /\ [Next]_vars => GateInv'
  BY TypeStep, LateStepKept, LockedKept, SleeperKept DEF GateInv
<1> QED
  BY <1>1, InitGate, PTL DEF Spec

(* R-007, R-015: a request that is undecided when the status closes        *)
(* admission for it is never accepted, whatever it saw before and however  *)
(* long it slept: acquire() loads the status again after every wait.       *)
THEOREM NothingIsLate == Spec => []NoLateAdmission
<1>1. GateInv => NoLateAdmission
  BY DEF GateInv, LateInv, LateStep, NoLateAdmission
<1> QED
  BY <1>1, GateInvariant, PTL

(* R-061: no caller sleeps while there is room for it and nobody is about  *)
(* to notify: release() notifies after every return of slots, and all.     *)
THEOREM NobodyIsForgotten == Spec => []NoForgottenSleeper
<1>1. GateInv => NoForgottenSleeper
  BY DEF GateInv
<1> QED
  BY <1>1, GateInvariant, PTL

(* R-061: through every race of acquire, rollback, claim and release,      *)
(* pending_ is exactly the accepted external work that no worker has given *)
(* back, so the clamp in release() never hides a lost slot; and it never   *)
(* exceeds the capacity.                                                   *)
THEOREM SlotsAreConserved == Spec => []Inv
<1>1. Conserved /\ [Next]_vars => Conserved'
  BY SlotsKept
<1>2. Spec => []Conserved
  BY <1>1, InitConserved, PTL DEF Spec
<1>3. GateInv /\ Conserved => Inv
  BY DEF GateInv, Conserved, Inv, SlotConservation
<1> QED
  BY <1>2, <1>3, GateInvariant, PTL
=============================================================================
