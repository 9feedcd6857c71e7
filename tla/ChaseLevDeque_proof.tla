------------------------ MODULE ChaseLevDeque_proof -------------------------
(***************************************************************************)
(* The deque is linearizable for any number of thieves, of items and of    *)
(* rings, and any watermark.  First the gate between rebase and thieves: it*)
(* rests on the count of the thieves inside being exact and on each looking*)
(* at maintenance once more after it has been counted.  Then the invariant *)
(* DequeInv: where the owner's locals stand to the indices, that the live  *)
(* range fits the ring with a cell to spare, and that a thief whose top is *)
(* not old finds the oldest item in any ring it may look at.  From it, that*)
(* each step is one of WorkDeque or is not seen.                           *)
(***************************************************************************)
EXTENDS ChaseLevDeque, FiniteSetTheorems, SequenceTheorems, TLAPS

Inside == {p \in Thieves : pc[p] \notin {"idle", "enter"}}
Places == {"idle", "enter", "again", "top", "bottom", "cell", "cas", "leave"}
Closed == {"quiesce", "move", "top", "bottom", "reopen", "abandon"}

Counted == activeThieves = Cardinality(Inside)
Shut == opc \in Closed <=> maintenance

GateInv == pc \in [Thieves -> Places] /\ maintenance \in BOOLEAN /\ Counted /\ Shut /\ Excluded

LEMMA InitGate == Init => GateInv
<1> SUFFICES ASSUME Init PROVE GateInv
  OBVIOUS
<1>1. Inside = {}
  BY DEF Init, Inside
<1>2. Counted
  BY <1>1, FS_EmptySet DEF Counted, Init
<1> QED
  BY <1>2 DEF Init, GateInv, Places, Shut, Closed, Excluded

(* The owner moves no thief.  It may only start to move items when the     *)
(* count is zero, and that is when nobody is inside.                       *)
LEMMA OwnerStep ==
  ASSUME GateInv, Push \/ Pushing \/ Pop \/ Popping \/ Rebasing
  PROVE  GateInv'
<1> USE DEF GateInv, Places, Shut, Closed, Excluded, Return, Refuse, gate, thief, owner
<1>1. UNCHANGED <<pc, activeThieves>>
  BY DEF Push, Pushing, Pop, Popping, Rebasing, Reload, Fit, Store, Publish, PopTop, PopCas,
         Restore, Check, Quiesce, Move, ResetTop, ResetBottom, Reopen, Abandon
<1>2. Counted'
  BY <1>1 DEF Counted, Inside
<1>3. CASE Push \/ Pushing \/ Pop \/ Popping
  BY <1>1, <1>2, <1>3 DEF Push, Pushing, Pop, Popping, Reload, Fit, Store, Publish, PopTop,
         PopCas, Restore
<1>4. CASE Quiesce
  <2>1. Cardinality(Inside) = 0
    BY <1>4 DEF Quiesce, Counted
  <2>2. Inside = {}
    BY <2>1, FS_Subset, FS_EmptySet, DequeAssumption DEF DequeAssumption, Inside
  <2> QED
    BY <1>1, <1>2, <1>4, <2>2 DEF Quiesce, Inside
<1>5. CASE Check \/ Reopen \/ Abandon
  <2>1. \/ opc' = "quiesce" /\ maintenance' = TRUE
        \/ opc' \in {"idle", "reload"} /\ maintenance' = FALSE
    <3>1. CASE Check /\ ~maintenance
      BY <3>1 DEF Check
    <3>2. CASE Reopen
      BY <3>2 DEF Reopen
    <3>3. CASE Abandon
      BY <3>3 DEF Abandon
    <3> QED
      BY <1>5, <3>1, <3>2, <3>3 DEF Check
  <2> QED
    BY <1>1, <1>2, <2>1
<1>6. CASE Move \/ ResetTop \/ ResetBottom
  BY <1>1, <1>2, <1>6 DEF Move, ResetTop, ResetBottom
<1> QED
  BY <1>3, <1>4, <1>5, <1>6 DEF Rebasing

(* A thief that comes in is counted before it looks again, and one that is *)
(* in stays counted until it leaves.                                       *)
LEMMA ThiefStep ==
  ASSUME GateInv, NEW p \in Thieves, Steal(p) \/ Stealing(p)
  PROVE  GateInv'
<1> USE DEF GateInv, Places, Shut, Closed, Excluded, Go, Quit, gate, owner
<1>0. IsFiniteSet(Inside)
  BY FS_Subset, DequeAssumption DEF DequeAssumption, Inside
<1>1. CASE Steal(p)
  <2>1. Inside' = Inside
    BY <1>1 DEF Steal, Inside
  <2> QED
    BY <1>1, <2>1 DEF Steal, Counted
<1>2. CASE Enter(p)
  <2>1. Inside' = Inside \cup {p} /\ p \notin Inside
    BY <1>2 DEF Enter, Inside
  <2>2. Counted'
    BY <1>0, <1>2, <2>1, FS_AddElement DEF Enter, Counted
  <2> QED
    BY <1>2, <2>2 DEF Enter
<1>3. CASE Leave(p)
  <2>1. Inside' = Inside \ {p} /\ p \in Inside
    BY <1>3 DEF Leave, Inside
  <2>2. Counted'
    BY <1>0, <1>3, <2>1, FS_RemoveElement DEF Leave, Counted
  <2> QED
    BY <1>3, <2>2 DEF Leave
<1>4. CASE Again(p) \/ LoadTop(p) \/ LoadBottom(p) \/ LoadCell(p) \/ StealCas(p)
  <2>1. Inside' = Inside
    BY <1>4 DEF Again, LoadTop, LoadBottom, LoadCell, StealCas, Inside
  <2>2. Counted'
    BY <1>4, <2>1 DEF Again, LoadTop, LoadBottom, LoadCell, StealCas, Counted
  <2> QED
    BY <1>4, <2>2 DEF Again, LoadTop, LoadBottom, LoadCell, StealCas
<1> QED
  BY <1>1, <1>2, <1>3, <1>4 DEF Stealing

LEMMA NextGate == GateInv /\ [Next]_vars => GateInv'
<1> SUFFICES ASSUME GateInv, [Next]_vars PROVE GateInv'
  OBVIOUS
<1>1. CASE UNCHANGED vars
  BY <1>1 DEF vars, indices, gate, owner, thief, GateInv, Counted, Inside, Shut, Excluded
<1>2. CASE Push \/ Pushing \/ Pop \/ Popping \/ Rebasing
  BY <1>2, OwnerStep
<1>3. CASE \E p \in Thieves : Steal(p) \/ Stealing(p)
  BY <1>3, ThiefStep
<1> QED
  BY <1>1, <1>2, <1>3 DEF Next

(* R-068, D-101: no thief is past the gate while maybe_quiescent_rebase()  *)
(* moves the items and resets the indices, whatever the number of thieves. *)
THEOREM RebaseExcludesThieves == Spec => []Excluded
<1>1. GateInv => Excluded
  BY DEF GateInv
<1> QED
  BY InitGate, NextGate, <1>1, PTL DEF Spec
-----------------------------------------------------------------------------
(* The owner: where its locals stand to the indices it has read.           *)
Owner ==
  /\ opc \in {"fit", "store", "publish", "reload"} => pushing
  /\ opc \in {"idle", "poptop", "popcas", "won", "lost"} => ~pushing
  /\ pushing => offered < Items
  /\ opc \in {"fit", "store", "publish"} => bottom = ob /\ ot <= top /\ ob < HighWatermark
  /\ opc = "fit" => ob - ot <= Capacity(Active) - 1
  /\ opc \in {"store", "publish"} => ob - ot < Capacity(Active) - 1
  /\ opc = "publish" => Cell(Active, ob) = offered + 1
  /\ opc \in {"poptop", "popcas", "won", "lost"} => bottom = ob
  /\ opc = "popcas" => ob <= top
  /\ opc \in {"won", "lost"} => top = ob + 1
  /\ opc = "bottom" => top = 0
  /\ opc \in {"reopen", "reload"} => bottom <= Capacity(Active) - 1

(* The live range: it fits the ring with one cell to spare, and each of its*)
(* cells holds an item.                                                    *)
Live ==
  /\ Low <= Past /\ Past <= HighWatermark /\ Past - Low <= Capacity(Active) - 1
  /\ \A k \in Low .. Past - 1 : Cell(Active, k) # 0

(* A thief whose top is old cannot win any more; one whose top is not old  *)
(* finds the oldest item in any ring it may look at.                       *)
Aims(p) ==
  /\ ring[p] <= Active
  /\ pc[p] \in {"bottom", "cell", "cas"} => tt[p] <= top
  /\ pc[p] \in {"cell", "cas"} /\ tt[p] = top => top < Past
  /\ pc[p] = "cell" /\ tt[p] = top =>
       \A r \in ring[p] .. Active : Cell(r, top) = Cell(Active, top)
  /\ pc[p] = "cas" /\ tt[p] = top => item[p] = Cell(Active, top)

(* Rings, whatever their capacity.                                         *)
AnyRing == UNION {[0 .. Capacity(r) - 1 -> 0 .. Items] : r \in 1 .. Rings}

DequeInv == /\ rings \in Seq(AnyRing) /\ TypeOK /\ Shut /\ Excluded /\ Owner /\ Live
            /\ \A p \in Thieves : Aims(p)

LEMMA InvParts ==
  ASSUME DequeInv
  PROVE  /\ rings \in Seq(AnyRing) /\ TypeOK /\ Shut /\ Excluded /\ Owner /\ Live /\ GateInv
         /\ \A p \in Thieves : Aims(p)
BY DEF DequeInv, TypeOK, GateInv, Places, Counted, Inside

(* The numbers, with the range of the live items at each of the owner's    *)
(* places.                                                                 *)
LEMMA Numbers ==
  ASSUME DequeInv
  PROVE  /\ top \in Nat /\ bottom \in Nat /\ ob \in Nat /\ ot \in Nat
         /\ Active \in 1 .. Rings /\ Rings \in Nat
         /\ HighWatermark \in Nat \ {0} /\ Items \in Nat /\ offered \in 0 .. Items
         /\ Capacity(Active) \in 1 .. HighWatermark
         /\ bottom <= HighWatermark
         /\ pushing \in BOOLEAN
BY InvParts, DequeAssumption, CapacityAssumption DEF TypeOK, DequeAssumption, CapacityAssumption

Extent(op, low, past) ==
  /\ op \in {"top", "bottom"} => low = 0 /\ past = ob
  /\ op \in {"poptop", "popcas", "won", "lost"} => low = top /\ past = ob + 1
  /\ op \notin {"top", "bottom", "poptop", "popcas", "won", "lost"} => low = top /\ past = bottom

LEMMA Ranges == Extent(opc, Low, Past) /\ Extent(opc, Low, Past)'
<1>1. Extent(opc, Low, Past)
  BY DEF Extent, Low, Past
<1>2. Extent(opc, Low, Past)'
  BY DEF Extent, Low, Past
<1> QED
  BY <1>1, <1>2

(* Two indices less than a capacity apart have different cells.            *)
LEMMA Division ==
  ASSUME NEW c \in Nat \ {0}, NEW i \in Nat
  PROVE  i = (c * (i \div c)) + (i % c) /\ i \div c \in Nat /\ i % c \in 0 .. c - 1
OBVIOUS

LEMMA Apart ==
  ASSUME NEW c \in Nat \ {0}, NEW i \in Nat, NEW j \in Nat, i < j, j < i + c
  PROVE  i % c # j % c
<1> SUFFICES ASSUME i % c = j % c PROVE FALSE
  OBVIOUS
<1>1. PICK a \in Nat, b \in Nat, x \in 0 .. c - 1 : i = (c * a) + x /\ j = (c * b) + x
  <2>1. i = (c * (i \div c)) + (i % c) /\ i \div c \in Nat /\ i % c \in 0 .. c - 1
    BY Division
  <2>2. j = (c * (j \div c)) + (j % c) /\ j \div c \in Nat
    BY Division
  <2>3. PICK a \in Nat, x \in 0 .. c - 1 : i = (c * a) + x /\ x = i % c
    BY <2>1, Zenon
  <2>4. PICK b \in Nat : j = (c * b) + x
    BY <2>2, <2>3, Zenon
  <2> QED
    BY <2>3, <2>4, Zenon
<1>2. b >= a + 1
  BY <1>1
<1>3. c * b >= c * (a + 1) /\ c * (a + 1) = c * a + c
  BY <1>2
<1> QED
  BY <1>1, <1>3

LEMMA Within == ASSUME NEW c \in Nat \ {0}, NEW i \in 0 .. c - 1 PROVE i % c = i
OBVIOUS

LEMMA InitDeque == Init => DequeInv
<1> SUFFICES ASSUME Init PROVE DequeInv
  OBVIOUS
<1>1. GateInv
  BY InitGate
<1> USE DequeAssumption, CapacityAssumption DEF DequeAssumption, CapacityAssumption, Init
<1>2. Len(rings) = 1 /\ Capacity(1) = InitialCapacity /\ 1 \in 1 .. Rings
  <2>1. 2^(1 - 1) = 1
    OBVIOUS
  <2> QED
    BY <2>1 DEF Capacity
<1>3. rings[1] \in [0 .. Capacity(1) - 1 -> 0 .. Items]
  BY <1>2
<1>4. rings \in Seq(AnyRing)
  <2>1. rings[1] \in AnyRing
    BY <1>2, <1>3 DEF AnyRing
  <2> QED
    BY <2>1
<1>5. TypeOK
  <2>1. activeThieves = Cardinality({p \in Thieves : pc[p] \notin {"idle", "enter"}})
    BY <1>1 DEF GateInv, Counted, Inside
  <2>2. Active = 1 /\ \A r \in 1 .. Active : rings[r] \in [0 .. Capacity(r) - 1 -> 0 .. Items]
    BY <1>2, <1>3 DEF Active
  <2>3. 0 \in 0 .. HighWatermark /\ 0 \in 0 .. Items /\ 1 \in 1 .. Rings
    OBVIOUS
  <2>4. /\ tt \in [Thieves -> 0 .. HighWatermark] /\ ring \in [Thieves -> 1 .. Rings]
        /\ item \in [Thieves -> 0 .. Items]
    BY <2>3
  <2> HIDE DEF Active
  <2> QED
    BY <2>1, <2>2, <2>3, <2>4 DEF TypeOK
<1>6. Owner
  BY DEF Owner
<1>7. Live
  BY <1>2 DEF Live, Low, Past, Active
<1>8. \A p \in Thieves : Aims(p)
  BY <1>2 DEF Aims, Active
<1> QED
  BY <1>1, <1>4, <1>5, <1>6, <1>7, <1>8 DEF DequeInv, GateInv
-----------------------------------------------------------------------------
(* The steps that write to a ring.                                         *)
RingsOK(rs) == /\ rs \in Seq(AnyRing) /\ Len(rs) \in 1 .. Rings
               /\ \A r \in 1 .. Len(rs) : rs[r] \in [0 .. Capacity(r) - 1 -> 0 .. Items]

LEMMA RingsType == ASSUME DequeInv PROVE RingsOK(rings)
BY InvParts DEF RingsOK, TypeOK, Active

(* Another ring in place of the active one. *)
LEMMA Replaced ==
  ASSUME RingsOK(rings), NEW new \in [0 .. Capacity(Active) - 1 -> 0 .. Items],
         rings' = [rings EXCEPT ![Active] = new]
  PROVE  /\ RingsOK(rings') /\ Active' = Active /\ rings'[Active] = new
         /\ \A r \in 1 .. Active : r # Active => rings'[r] = rings[r]
<1>1. new \in AnyRing /\ Active \in 1 .. Rings /\ Active = Len(rings)
  BY DEF RingsOK, AnyRing, Active
<1> DEFINE a == Active
<1>2. /\ rings' \in Seq(AnyRing) /\ Len(rings') = a /\ rings'[a] = new
      /\ \A r \in 1 .. a : r # a => rings'[r] = rings[r]
  BY <1>1 DEF RingsOK
<1>3. Active' = a
  BY <1>2 DEF Active
<1> QED
  BY <1>1, <1>2, <1>3 DEF RingsOK

LEMMA Stored ==
  ASSUME DequeInv, Store
  PROVE  /\ RingsOK(rings') /\ Active' = Active
         /\ \A r \in 1 .. Active : r # Active => rings'[r] = rings[r]
         /\ \A k \in Nat : k % Capacity(Active) # ob % Capacity(Active) =>
              rings'[Active][k % Capacity(Active)] = Cell(Active, k)
         /\ rings'[Active][ob % Capacity(Active)] = offered + 1
<1> DEFINE a == Active
           c == Capacity(a)
           new == [rings[a] EXCEPT ![ob % c] = offered + 1]
<1>0. a = Len(rings) /\ a \in 1 .. Rings /\ c \in Nat \ {0} /\ ob \in Nat
  BY Numbers DEF Active
<1>1. a = Len(rings) /\ a \in 1 .. Rings /\ c \in Nat \ {0} /\ ob % c \in 0 .. c - 1
  <2> HIDE DEF a, c
  <2> QED
    BY <1>0
<1>2. offered + 1 \in 0 .. Items
  BY Numbers, InvParts DEF Owner, Store
<1>3. rings[a] \in [0 .. c - 1 -> 0 .. Items] /\ RingsOK(rings)
  BY <1>1, RingsType DEF RingsOK
<1>4. rings' = [rings EXCEPT ![a] = new]
  BY DEF Store
<1>5. \A k \in Nat : k % c \in 0 .. c - 1
  BY <1>1
<1> HIDE DEF a, c
<1>6. /\ new \in [0 .. c - 1 -> 0 .. Items] /\ new[ob % c] = offered + 1
      /\ \A k \in Nat : k % c # ob % c => new[k % c] = rings[a][k % c]
  BY <1>1, <1>2, <1>3, <1>5
<1> HIDE DEF new
<1>7. new \in [0 .. Capacity(a) - 1 -> 0 .. Items]
  BY <1>6 DEF c
<1>8. /\ RingsOK(rings') /\ Active' = Active /\ rings'[a] = new
      /\ \A r \in 1 .. a : r # a => rings'[r] = rings[r]
  BY <1>3, <1>4, <1>7, Replaced DEF a
<1> QED
  BY <1>6, <1>8 DEF a, c, Cell

(* grow() copies each live item to the cell that its index has in the      *)
(* larger ring: no two of them have the same.                              *)
LEMMA Grows ==
  ASSUME DequeInv, Fit, Active < Rings, ob - ot >= Capacity(Active) - 1, ob >= ot,
         rings' = Append(rings, Grown)
  PROVE  /\ RingsOK(rings') /\ Active' = Active + 1
         /\ Capacity(Active + 1) = 2 * Capacity(Active)
         /\ \A r \in 1 .. Active : rings'[r] = rings[r]
         /\ \A k \in ot .. ob - 1 :
              rings'[Active + 1][k % Capacity(Active + 1)] = Cell(Active, k)
<1> DEFINE a == Active
           new == Capacity(a + 1)
           At(x) == {i \in ot .. ob - 1 : i % new = x}
           cellOf(x) == IF At(x) = {} THEN 0 ELSE Cell(a, CHOOSE i \in At(x) : TRUE)
<1>0. /\ a = Len(rings) /\ a \in 1 .. Rings /\ a + 1 \in 1 .. Rings /\ Capacity(a) \in Nat \ {0}
      /\ ob \in Nat /\ ot \in Nat /\ ob - ot <= Capacity(a) - 1 /\ Items \in Nat
  BY Numbers, InvParts DEF Owner, Active, Fit
<1>1. new = 2 * Capacity(a) /\ new \in Nat \ {0}
  BY <1>0, CapacityAssumption DEF CapacityAssumption
<1>2. RingsOK(rings) /\ rings[a] \in [0 .. Capacity(a) - 1 -> 0 .. Items]
  BY <1>0, RingsType DEF RingsOK
<1>3. Grown = [x \in 0 .. new - 1 |-> cellOf(x)]
  BY DEF Grown
<1>4. \A k \in Nat : Cell(a, k) \in 0 .. Items
  BY <1>0, <1>2, Division DEF Cell
<1> HIDE DEF a, new
<1>5. ASSUME NEW k \in ot .. ob - 1 PROVE At(k % new) = {k}
  <2>1. k \in Nat
    BY <1>0
  <2>2. ASSUME NEW i \in ot .. ob - 1, i # k PROVE i % new # k % new
    <3>1. i \in Nat /\ (i < k \/ k < i) /\ i < k + new /\ k < i + new
      BY <1>0, <1>1, <2>1, <2>2
    <3> QED
      BY <1>1, <2>1, <3>1, Apart
  <2> QED
    BY <2>2
<1>6. ASSUME NEW x \in 0 .. new - 1 PROVE cellOf(x) \in 0 .. Items
  <2>1. CASE At(x) = {}
    BY <1>0, <2>1
  <2>2. CASE At(x) # {}
    <3>1. (CHOOSE i \in At(x) : TRUE) \in At(x)
      BY <2>2
    <3>2. (CHOOSE i \in At(x) : TRUE) \in Nat
      BY <1>0, <3>1
    <3> QED
      BY <1>4, <2>2, <3>2
  <2> QED
    BY <2>1, <2>2
<1>7. ASSUME NEW k \in ot .. ob - 1 PROVE k % new \in 0 .. new - 1 /\ cellOf(k % new) = Cell(a, k)
  <2>1. k \in Nat /\ k % new \in 0 .. new - 1
    BY <1>0, <1>1
  <2>2. At(k % new) = {k}
    BY <1>5
  <2> HIDE DEF At
  <2>3. (CHOOSE i \in {k} : TRUE) = k
    OBVIOUS
  <2> QED
    BY <2>1, <2>2, <2>3
<1> HIDE DEF cellOf
<1>8. /\ Grown \in [0 .. new - 1 -> 0 .. Items]
      /\ \A k \in ot .. ob - 1 : Grown[k % new] = Cell(a, k)
  BY <1>3, <1>6, <1>7
<1>9. Grown \in AnyRing
  BY <1>0, <1>8 DEF AnyRing, new
<1>10. /\ rings' \in Seq(AnyRing) /\ Len(rings') = a + 1 /\ rings'[a + 1] = Grown
       /\ \A r \in 1 .. a : rings'[r] = rings[r]
  <2>1. rings \in Seq(AnyRing)
    BY <1>2 DEF RingsOK
  <2>2. rings' = Append(rings, Grown)
    OBVIOUS
  <2> QED
    BY <1>0, <1>9, <2>1, <2>2, AppendProperties
<1>11. RingsOK(rings')
  <2>1. ASSUME NEW r \in 1 .. Len(rings') PROVE rings'[r] \in [0 .. Capacity(r) - 1 -> 0 .. Items]
    <3>1. CASE r = a + 1
      BY <1>8, <1>10, <3>1 DEF new
    <3>2. CASE r # a + 1
      <4>1. r \in 1 .. a
        BY <1>0, <1>10, <3>2
      <4> QED
        BY <1>0, <1>2, <1>10, <4>1 DEF RingsOK
    <3> QED
      BY <3>1, <3>2
  <2> QED
    BY <1>0, <1>10, <2>1 DEF RingsOK
<1>12. Active' = a + 1
  BY <1>10 DEF Active
<1> QED
  BY <1>1, <1>8, <1>10, <1>11, <1>12 DEF a, new

(* The rebase moves the oldest item to cell 0, and the others after it.    *)
LEMMA Moves ==
  ASSUME DequeInv, Move, opc' = "top"
  PROVE  /\ RingsOK(rings') /\ Active' = Active
         /\ \A r \in 1 .. Active : r # Active => rings'[r] = rings[r]
         /\ ob' = bottom - top /\ top <= bottom
         /\ \A k \in 0 .. bottom - top - 1 :
              rings'[Active][k % Capacity(Active)] = Cell(Active, top + k)
<1> DEFINE a == Active
           c == Capacity(a)
           n == bottom - top
           new == [x \in 0 .. c - 1 |-> IF x < n THEN Cell(a, top + x) ELSE rings[a][x]]
<1>1. /\ a = Len(rings) /\ a \in 1 .. Rings /\ c \in Nat \ {0} /\ top \in Nat /\ bottom \in Nat
      /\ Items \in Nat
  BY Numbers DEF Active
<1>2. RingsOK(rings) /\ rings[a] \in [0 .. c - 1 -> 0 .. Items]
  BY <1>1, RingsType DEF RingsOK
<1>3. /\ top <= bottom /\ ob' = n
      /\ rings' = [rings EXCEPT ![a] =
                     [x \in DOMAIN rings[a] |-> IF x < n THEN Cell(a, top + x) ELSE rings[a][x]]]
  BY DEF Move
<1>4. rings' = [rings EXCEPT ![a] = new]
  BY <1>2, <1>3
<1>5. n \in 0 .. c - 1
  <2>1. opc = "move" /\ Live
    BY InvParts DEF Move
  <2>2. Past - Low = n
    BY <2>1 DEF Low, Past
  <2> QED
    BY <1>1, <1>3, <2>1, <2>2 DEF Live
<1>6. \A k \in Nat : Cell(a, k) \in 0 .. Items
  BY <1>1, <1>2, Division DEF Cell
<1> HIDE DEF a, c, n
<1>7. new \in [0 .. c - 1 -> 0 .. Items]
  <2>1. \A x \in 0 .. c - 1 : top + x \in Nat
    BY <1>1
  <2>2. \A x \in 0 .. c - 1 : Cell(a, top + x) \in 0 .. Items /\ rings[a][x] \in 0 .. Items
    BY <1>2, <1>6, <2>1
  <2> QED
    BY <2>2
<1>8. \A k \in 0 .. n - 1 : k % c = k /\ new[k] = Cell(a, top + k)
  <2> SUFFICES ASSUME NEW k \in 0 .. n - 1 PROVE k % c = k /\ new[k] = Cell(a, top + k)
    OBVIOUS
  <2>1. k \in 0 .. c - 1 /\ k < n
    BY <1>1, <1>5
  <2> QED
    BY <1>1, <2>1, Within
<1> HIDE DEF new
<1>9. new \in [0 .. Capacity(a) - 1 -> 0 .. Items]
  BY <1>7 DEF c
<1>10. /\ RingsOK(rings') /\ Active' = Active /\ rings'[a] = new
       /\ \A r \in 1 .. a : r # a => rings'[r] = rings[r]
  BY <1>2, <1>4, <1>9, Replaced DEF a
<1> QED
  BY <1>3, <1>8, <1>10 DEF a, c, n
-----------------------------------------------------------------------------
(* The types in groups.                                                    *)
IndexT == top \in 0 .. HighWatermark /\ bottom \in 0 .. HighWatermark
OwnerT == /\ opc \in {"idle", "fit", "store", "publish", "reload", "poptop", "popcas", "won",
                      "lost", "check", "quiesce", "move", "top", "bottom", "reopen", "abandon"}
          /\ ob \in 0 .. HighWatermark /\ ot \in 0 .. HighWatermark
          /\ pushing \in BOOLEAN /\ offered \in 0 .. Items
ThiefT == /\ tt \in [Thieves -> 0 .. HighWatermark] /\ ring \in [Thieves -> 1 .. Rings]
          /\ item \in [Thieves -> 0 .. Items]
TakenT == popped \subseteq 1 .. Items /\ stolen \subseteq 1 .. Items

LEMMA Groups ==
  DequeInv <=> /\ GateInv /\ RingsOK(rings) /\ IndexT /\ OwnerT /\ ThiefT /\ TakenT
               /\ Owner /\ Live /\ \A p \in Thieves : Aims(p)
BY DEF DequeInv, TypeOK, GateInv, Places, Counted, Inside, RingsOK, IndexT, OwnerT, ThiefT,
       TakenT, Active

LEMMA GroupsNext ==
  ASSUME GateInv', RingsOK(rings'), IndexT', OwnerT', ThiefT', TakenT', Owner', Live',
         \A p \in Thieves : Aims(p)'
  PROVE  DequeInv'
BY DEF DequeInv, TypeOK, GateInv, Places, Counted, Inside, RingsOK, IndexT, OwnerT, ThiefT,
       TakenT, Active

(* What the owner does of its own accord, as far as the deque is concerned.*)
Calm == \/ Push \/ Reload \/ Fit \/ Store \/ Pop \/ Restore \/ Check \/ Quiesce
        \/ ResetTop \/ ResetBottom \/ Reopen \/ Abandon
        \/ PopTop /\ top >= ob
        \/ PopCas /\ top # ob
        \/ Move /\ opc' = "abandon"

LEMMA CalmKeepsRange == ASSUME DequeInv, Calm PROVE Low' = Low /\ Past' = Past
<1> USE DEF indices, Return, Refuse
<1>0. /\ Owner /\ Extent(opc, Low, Past) /\ Extent(opc, Low, Past)'
      /\ bottom \in Nat /\ top \in Nat /\ ob \in Nat
  BY InvParts, Ranges, Numbers
<1>1. CASE Push
  BY <1>0, <1>1 DEF Push, Extent
<1>2. CASE Reload
  BY <1>0, <1>2 DEF Reload, Extent
<1>3. CASE Fit
  BY <1>0, <1>3 DEF Fit, Extent
<1>4. CASE Store
  BY <1>0, <1>4 DEF Store, Extent
<1>5. CASE Pop
  BY <1>0, <1>5 DEF Pop, Extent
<1>6. CASE Restore
  BY <1>0, <1>6 DEF Restore, Extent
<1>7. CASE Check
  BY <1>0, <1>7 DEF Check, Extent
<1>8. CASE Quiesce
  BY <1>0, <1>8 DEF Quiesce, Extent
<1>9. CASE ResetTop \/ ResetBottom
  BY <1>0, <1>9 DEF ResetTop, ResetBottom, Extent, Owner
<1>10. CASE Reopen
  BY <1>0, <1>10 DEF Reopen, Extent
<1>11. CASE Abandon
  BY <1>0, <1>11 DEF Abandon, Extent
<1>12. CASE PopTop /\ top >= ob
  BY <1>0, <1>12 DEF PopTop, Extent
<1>13. CASE PopCas /\ top # ob
  BY <1>0, <1>13 DEF PopCas, Extent
<1>14. CASE Move /\ opc' = "abandon"
  BY <1>0, <1>14 DEF Move, Extent
<1> QED
  BY <1>1, <1>2, <1>3, <1>4, <1>5, <1>6, <1>7, <1>8, <1>9, <1>10, <1>11, <1>12, <1>13, <1>14
     DEF Calm

(* Each step of the owner leaves it, and the indices, in a state that its  *)
(* next step expects.                                                      *)
LEMMA OwnerKeeps ==
  ASSUME DequeInv, Push \/ Pushing \/ Pop \/ Popping \/ Rebasing
  PROVE  IndexT' /\ OwnerT' /\ Owner'
<1> USE DEF indices, Refuse, IndexT, OwnerT
<1>0. /\ Owner /\ Live /\ Extent(opc, Low, Past) /\ IndexT /\ OwnerT
  BY InvParts, Ranges, Groups
<1>N. /\ HighWatermark \in Nat \ {0} /\ Items \in Nat /\ Capacity(Active) \in 1 .. HighWatermark
      /\ Low <= Past /\ Past <= HighWatermark /\ Past - Low <= Capacity(Active) - 1
  BY <1>0, Numbers DEF Live
<1>A. UNCHANGED rings => Active' = Active /\ Capacity(Active)' = Capacity(Active)
  BY DEF Active, Capacity
<1>R. Return => /\ opc' = "idle" /\ ob' = 0 /\ ot' = 0 /\ ~pushing' /\ pushing' \in BOOLEAN
  BY DEF Return
<1>1. CASE Push
  <2>1. /\ opc = "idle" /\ offered < Items /\ ob' = bottom /\ ot' = top /\ pushing' = TRUE
        /\ opc' = IF High THEN "check" ELSE "fit"
        /\ UNCHANGED <<top, bottom, offered, rings>>
    BY <1>1 DEF Push, history
  <2>3. opc' \in {"fit", "check"} /\ (opc' = "fit" => bottom < HighWatermark)
    BY <1>0, <1>N, <1>R, <2>1 DEF High
  <2>2. bottom - top <= Capacity(Active) - 1
    BY <1>0, <1>N, <1>R, <2>1 DEF Extent
  <2> QED
    BY <1>0, <1>N, <1>A, <1>R, <2>1, <2>2, <2>3 DEF Owner
<1>2. CASE Reload
  <2>1. /\ opc = "reload" /\ ob' = bottom /\ ot' = top /\ opc' = "fit"
        /\ UNCHANGED <<top, bottom, offered, rings, pushing>>
    BY <1>2 DEF Reload, history
  <2>2. bottom - top <= Capacity(Active) - 1 /\ bottom < HighWatermark
    BY <1>0, <1>N, <1>R, <2>1 DEF Extent, Owner
  <2> QED
    BY <1>0, <1>N, <1>A, <1>R, <2>1, <2>2 DEF Owner
<1>3. CASE Fit
  <2>1. CASE UNCHANGED rings
    <3>1. CASE opc' = "store"
      <4>1. /\ ob - ot < Capacity(Active) - 1 \/ rings' = Append(rings, Grown)
            /\ opc = "fit" /\ UNCHANGED <<top, bottom, ob, ot, pushing, offered>>
        BY <1>3, <1>R, <3>1 DEF Fit
      <4>2. rings' # Append(rings, Grown)
        <5>1. Len(Append(rings, Grown)) = Len(rings) + 1 /\ Len(rings) \in Nat
          BY InvParts, AppendProperties, Numbers DEF Active
        <5> QED
          BY <2>1, <5>1
      <4> QED
        BY <1>0, <1>N, <1>A, <1>R, <2>1, <3>1, <4>1, <4>2 DEF Owner
    <3>2. CASE Refuse
      <4>1. opc = "fit" /\ UNCHANGED <<top, bottom>>
        BY <1>3 DEF Fit
      <4> QED
        BY <1>0, <1>N, <1>R, <3>2, <4>1 DEF Owner
    <3> QED
      BY <1>3, <3>1, <3>2 DEF Fit
  <2>2. CASE rings' # rings
    <3>1. /\ ob >= ot /\ ob - ot >= Capacity(Active) - 1 /\ Active < Rings
          /\ rings' = Append(rings, Grown) /\ opc = "fit" /\ opc' = "store"
          /\ UNCHANGED <<indices, ob, ot, pushing, offered>>
      BY <1>3, <2>2 DEF Fit
    <3>2. /\ Active' = Active + 1 /\ Capacity(Active + 1) = 2 * Capacity(Active)
      BY <1>3, <3>1, Grows
    <3>3. Capacity(Active)' = 2 * Capacity(Active)
      BY <3>2 DEF Capacity
    <3> QED
      BY <1>0, <1>N, <1>R, <3>1, <3>3 DEF Owner
  <2> QED
    BY <2>1, <2>2
<1>4. CASE Store
  <2>1. /\ Active' = Active /\ rings'[Active][ob % Capacity(Active)] = offered + 1
    BY <1>4, Stored
  <2>2. Capacity(Active)' = Capacity(Active)
    BY <2>1 DEF Capacity
  <2>3. UNCHANGED <<indices, ob, ot, pushing, offered>> /\ opc = "store" /\ opc' = "publish"
    BY <1>4 DEF Store, history
  <2>4. Cell(Active, ob)' = offered' + 1
    BY <2>1, <2>2, <2>3 DEF Cell
  <2> QED
    BY <1>0, <1>N, <1>R, <2>2, <2>3, <2>4 DEF Owner
<1>5. CASE Publish
  <2>1. opc = "publish" /\ bottom' = ob + 1 /\ offered' = offered + 1 /\ Return /\ top' = top
    BY <1>5 DEF Publish
  <2> QED
    BY <1>0, <1>N, <1>R, <2>1 DEF Owner
<1>6. CASE Pop
  BY <1>0, <1>N, <1>A, <1>R, <1>6 DEF Pop, Extent, Owner, history
<1>7. CASE PopTop
  <2>1. CASE Return
    <3>1. UNCHANGED <<top, bottom, offered>>
      BY <1>7 DEF PopTop
    <3> QED
      BY <1>0, <1>N, <1>R, <2>1, <3>1 DEF Owner
  <2>2. CASE opc' # "idle"
    <3>1. /\ UNCHANGED <<top, bottom, ob, ot, pushing, offered>> /\ opc = "poptop"
          /\ \/ opc' = "popcas" /\ top = ob
             \/ opc' = "lost" /\ top > ob
      BY <1>7, <1>R, <2>2 DEF PopTop
    <3>2. top <= ob + 1
      BY <1>0, <1>N, <1>R, <3>1 DEF Extent
    <3> QED
      BY <1>0, <1>N, <1>R, <3>1, <3>2 DEF Owner
  <2> QED
    BY <1>7, <2>1, <2>2 DEF PopTop
<1>8. CASE PopCas
  BY <1>0, <1>N, <1>A, <1>R, <1>8 DEF PopCas, Extent, Owner
<1>9. CASE Restore
  <2>1. /\ opc \in {"won", "lost"} /\ bottom' = ob + 1 /\ UNCHANGED <<top, offered>>
        /\ \/ Return
           \/ opc' = "check" /\ UNCHANGED <<ob, ot, pushing>>
    BY <1>9 DEF Restore, history
  <2>2. ob + 1 <= HighWatermark
    BY <1>0, <1>N, <1>R, <2>1 DEF Extent
  <2>3. CASE Return
    BY <1>0, <1>N, <1>R, <2>1, <2>2, <2>3 DEF Owner
  <2>4. CASE opc' = "check" /\ UNCHANGED <<ob, ot, pushing>>
    BY <1>0, <1>N, <1>R, <2>1, <2>2, <2>4 DEF Owner
  <2> QED
    BY <2>1, <2>3, <2>4
<1>10. CASE Check
  <2>1. opc = "check" /\ UNCHANGED <<top, bottom>>
    BY <1>10 DEF Check
  <2>2. CASE pushing /\ Refuse
    BY <1>0, <1>N, <1>R, <2>1, <2>2 DEF Owner
  <2>3. CASE Return /\ UNCHANGED offered
    BY <1>0, <1>N, <1>R, <2>1, <2>3 DEF Owner
  <2>4. CASE opc' = "quiesce" /\ UNCHANGED <<ob, ot, pushing, offered>>
    BY <1>0, <1>N, <1>R, <2>1, <2>4 DEF Owner
  <2> QED
    BY <1>10, <2>2, <2>3, <2>4 DEF Check
<1>11. CASE Quiesce
  BY <1>0, <1>N, <1>A, <1>R, <1>11 DEF Quiesce, Extent, Owner, history
<1>12. CASE Move
  <2>1. CASE opc' = "top"
    <3>1. ob' = bottom - top /\ top <= bottom
      BY <1>12, <2>1, Moves
    <3>2. UNCHANGED <<indices, ot, pushing, offered>>
      BY <1>12 DEF Move, history
    <3> QED
      BY <1>0, <1>N, <1>R, <2>1, <3>1, <3>2 DEF Owner
  <2>2. CASE opc' = "abandon"
    <3>1. UNCHANGED <<indices, ob, ot, pushing, offered>>
      BY <1>12, <2>2 DEF Move, history
    <3> QED
      BY <1>0, <1>N, <1>R, <2>2, <3>1 DEF Owner
  <2> QED
    BY <1>12, <2>1, <2>2 DEF Move
<1>13. CASE ResetTop
  BY <1>0, <1>N, <1>A, <1>R, <1>13 DEF ResetTop, Extent, Owner, history
<1>14. CASE ResetBottom
  BY <1>0, <1>N, <1>A, <1>R, <1>14 DEF ResetBottom, Extent, Owner, history
<1>15. CASE Reopen
  <2>1. opc = "reopen" /\ UNCHANGED <<top, bottom, offered, rings>>
    BY <1>15 DEF Reopen, history
  <2>2. CASE Return
    BY <1>0, <1>N, <1>R, <2>1, <2>2 DEF Owner
  <2>3. CASE pushing /\ opc' = "reload" /\ UNCHANGED <<ob, ot, pushing>>
    BY <1>0, <1>N, <1>A, <1>R, <2>1, <2>3 DEF Owner
  <2> QED
    BY <1>15, <2>2, <2>3 DEF Reopen
<1>16. CASE Abandon
  <2>1. opc = "abandon" /\ UNCHANGED <<top, bottom>>
    BY <1>16 DEF Abandon
  <2>2. CASE pushing /\ Refuse
    BY <1>0, <1>N, <1>R, <2>1, <2>2 DEF Owner
  <2>3. CASE Return /\ UNCHANGED offered
    BY <1>0, <1>N, <1>R, <2>1, <2>3 DEF Owner
  <2> QED
    BY <1>16, <2>2, <2>3 DEF Abandon
<1> QED
  BY <1>1, <1>2, <1>3, <1>4, <1>5, <1>6, <1>7, <1>8, <1>9, <1>10, <1>11, <1>12, <1>13, <1>14,
     <1>15, <1>16 DEF Pushing, Popping, Rebasing

(* The live range and the thieves' aims, over the owner's steps.           *)
Sound == Live /\ \A p \in Thieves : Aims(p)

LEMMA CalmSound ==
  ASSUME DequeInv, Calm, UNCHANGED <<rings, thief>>, UNCHANGED top \/ ResetTop
  PROVE  Sound'
<1> USE DEF thief
<1>0. /\ Sound /\ Excluded /\ Low' = Low /\ Past' = Past
  BY InvParts, CalmKeepsRange DEF Sound
<1>1. /\ Active' = Active /\ Capacity(Active)' = Capacity(Active)
      /\ \A r, k : Cell(r, k)' = Cell(r, k)
  BY DEF Active, Capacity, Cell
<1>2. Live'
  <2>1. \A k : Cell(Active, k)' = Cell(Active, k)
    BY <1>1 DEF Cell
  <2> QED
    BY <1>0, <1>1, <2>1 DEF Sound, Live
<1>3. CASE UNCHANGED top
  <2>1. ASSUME NEW p \in Thieves PROVE Aims(p)'
    <3>1. Aims(p)
      BY <1>0 DEF Sound
    <3>2. \A r : Cell(r, top)' = Cell(r, top)
      BY <1>1, <1>3 DEF Cell
    <3>3. Cell(Active, top)' = Cell(Active, top)
      BY <1>1, <1>3 DEF Cell
    <3> QED
      BY <1>0, <1>1, <1>3, <3>1, <3>2, <3>3 DEF Aims
  <2> QED
    BY <1>2, <2>1 DEF Sound
<1>4. CASE ResetTop
  <2>1. \A p \in Thieves : pc[p] \notin {"bottom", "cell", "cas"} /\ ring[p] <= Active
    BY <1>0, <1>4 DEF ResetTop, Excluded, Sound, Aims
  <2> QED
    BY <1>1, <1>2, <2>1 DEF Sound, Aims
<1> QED
  BY <1>3, <1>4

(* The cells of the live range stay as they are when the owner stores above*)
(* it, and find their copies when it grows the ring.                       *)
LEMMA FitSound ==
  ASSUME DequeInv, Fit, rings' # rings
  PROVE  /\ Sound' /\ RingsOK(rings')
         /\ \A k \in Low .. Past - 1 : Cell(Active, k)' = Cell(Active, k)
<1> USE DEF thief, indices
<1>0. /\ Sound /\ Owner /\ Low' = Low /\ Past' = Past /\ Extent(opc, Low, Past)
  BY InvParts, CalmKeepsRange, Ranges DEF Sound, Calm
<1>1. /\ ob >= ot /\ ob - ot >= Capacity(Active) - 1 /\ Active < Rings
      /\ rings' = Append(rings, Grown) /\ opc = "fit"
      /\ UNCHANGED <<top, pc, tt, ring, item>>
  BY DEF Fit
<1>2. /\ RingsOK(rings') /\ Active' = Active + 1
      /\ Capacity(Active + 1) = 2 * Capacity(Active)
      /\ \A r \in 1 .. Active : rings'[r] = rings[r]
      /\ \A k \in ot .. ob - 1 :
           rings'[Active + 1][k % Capacity(Active + 1)] = Cell(Active, k)
  BY <1>1, Grows
<1>N. /\ ob \in Nat /\ ot \in Nat /\ top \in Nat /\ Active \in Nat \ {0}
      /\ Capacity(Active) \in Nat \ {0}
  BY Numbers
<1>3. Low = top /\ Past = ob /\ ot <= top
  BY <1>0, <1>1 DEF Extent, Owner
<1>4. \A k \in top .. ob - 1 : Cell(Active, k)' = Cell(Active, k)
  <2>1. \A k \in top .. ob - 1 : k \in ot .. ob - 1
    BY <1>N, <1>3
  <2>2. \A k : Cell(Active, k)' = rings'[Active + 1][k % Capacity(Active + 1)]
    BY <1>2 DEF Cell, Capacity
  <2> QED
    BY <1>2, <2>1, <2>2
<1>5. Capacity(Active)' = 2 * Capacity(Active)
  BY <1>2 DEF Capacity
<1>6. Live'
  BY <1>0, <1>N, <1>3, <1>4, <1>5 DEF Sound, Live
<1>7. ASSUME NEW p \in Thieves PROVE Aims(p)'
  <2>1. Aims(p) /\ ring[p] \in Nat
    BY <1>0, Groups DEF Sound, ThiefT
  <2>2. \A r \in 1 .. Active : Cell(r, top)' = Cell(r, top)
    BY <1>1, <1>2 DEF Cell, Capacity
  <2>3. top < Past => Cell(Active, top)' = Cell(Active, top)
    <3>1. top < Past => \A k \in top .. ob - 1 : Cell(Active, k)' = Cell(Active, k)
      BY <1>4
    <3>2. \A k : k = top => Cell(Active, top)' = Cell(Active, k)'
      BY <1>1 DEF Cell
    <3>3. top < Past => top \in top .. ob - 1
      BY <1>N, <1>3
    <3> QED
      BY <3>1, <3>2, <3>3
  <2>4. ASSUME pc[p] = "cell", tt[p] = top, NEW r \in ring[p] .. Active + 1
        PROVE  Cell(r, top)' = Cell(Active, top)
    <3>1. CASE r = Active + 1
      <4>1. Cell(r, top)' = Cell(Active, top)'
        BY <1>2, <3>1 DEF Cell
      <4> QED
        BY <2>1, <2>3, <2>4, <4>1 DEF Aims
    <3>2. CASE r # Active + 1
      <4>1. r \in ring[p] .. Active /\ r \in 1 .. Active
        BY <1>N, <2>1, <3>2, Groups DEF ThiefT
      <4> QED
        BY <2>1, <2>2, <2>4, <4>1 DEF Aims
    <3> QED
      BY <3>1, <3>2
  <2> QED
    BY <1>0, <1>N, <1>1, <1>2, <2>1, <2>3, <2>4 DEF Aims
<1> QED
  BY <1>2, <1>3, <1>4, <1>6, <1>7 DEF Sound

LEMMA StoreSound ==
  ASSUME DequeInv, Store
  PROVE  /\ Sound' /\ RingsOK(rings')
         /\ \A k \in Low .. Past - 1 : Cell(Active, k)' = Cell(Active, k)
<1> USE DEF thief, indices
<1>0. /\ Sound /\ Owner /\ Low' = Low /\ Past' = Past /\ Extent(opc, Low, Past)
  BY InvParts, CalmKeepsRange, Ranges DEF Sound, Calm
<1>1. opc = "store" /\ UNCHANGED <<top, pc, tt, ring, item>>
  BY DEF Store
<1>2. /\ RingsOK(rings') /\ Active' = Active
      /\ \A r \in 1 .. Active : r # Active => rings'[r] = rings[r]
      /\ \A k \in Nat : k % Capacity(Active) # ob % Capacity(Active) =>
           rings'[Active][k % Capacity(Active)] = Cell(Active, k)
  BY Stored
<1>N. /\ ob \in Nat /\ ot \in Nat /\ top \in Nat /\ Active \in Nat \ {0}
      /\ Capacity(Active) \in Nat \ {0}
  BY Numbers
<1>3. Low = top /\ Past = ob /\ ot <= top /\ ob - ot < Capacity(Active) - 1
  BY <1>0, <1>1 DEF Extent, Owner
<1>4. \A k \in top .. ob - 1 : Cell(Active, k)' = Cell(Active, k)
  <2> SUFFICES ASSUME NEW k \in top .. ob - 1 PROVE Cell(Active, k)' = Cell(Active, k)
    OBVIOUS
  <2>1. k \in Nat /\ k < ob /\ ob < k + Capacity(Active)
    BY <1>N, <1>3
  <2>2. k % Capacity(Active) # ob % Capacity(Active)
    BY <1>N, <2>1, Apart
  <2>3. Cell(Active, k)' = rings'[Active][k % Capacity(Active)]
    BY <1>2 DEF Cell, Capacity
  <2> QED
    BY <1>2, <2>1, <2>2, <2>3
<1>5. Capacity(Active)' = Capacity(Active)
  BY <1>2 DEF Capacity
<1>6. Live'
  BY <1>0, <1>N, <1>3, <1>4, <1>5 DEF Sound, Live
<1>7. ASSUME NEW p \in Thieves PROVE Aims(p)'
  <2>1. Aims(p) /\ ring[p] \in 1 .. Active
    BY <1>0, <1>N, Groups DEF Sound, ThiefT, Aims
  <2>2. \A r \in 1 .. Active : r # Active => Cell(r, top)' = Cell(r, top)
    BY <1>1, <1>2 DEF Cell, Capacity
  <2>3. top < Past => Cell(Active, top)' = Cell(Active, top)
    <3>1. \A k : k = top => Cell(Active, top)' = Cell(Active, k)'
      BY <1>1 DEF Cell
    <3>2. top < Past => top \in top .. ob - 1
      BY <1>N, <1>3
    <3> QED
      BY <1>4, <3>1, <3>2
  <2>4. ASSUME pc[p] = "cell", tt[p] = top, NEW r \in ring[p] .. Active
        PROVE  Cell(r, top)' = Cell(Active, top)
    <3>1. CASE r = Active
      <4>1. Cell(r, top)' = Cell(Active, top)'
        BY <1>2, <3>1 DEF Cell
      <4> QED
        BY <2>1, <2>3, <2>4, <4>1 DEF Aims
    <3>2. CASE r # Active
      <4>1. r \in 1 .. Active
        BY <1>N, <2>1
      <4> QED
        BY <2>1, <2>2, <2>4, <3>2, <4>1 DEF Aims
    <3> QED
      BY <3>1, <3>2
  <2> QED
    BY <1>0, <1>N, <1>1, <1>2, <2>1, <2>3, <2>4 DEF Aims
<1> QED
  BY <1>2, <1>3, <1>4, <1>6, <1>7 DEF Sound

LEMMA MoveSound ==
  ASSUME DequeInv, Move, opc' = "top"
  PROVE  /\ Sound' /\ RingsOK(rings')
         /\ Low' = 0 /\ Past' = Past - Low
         /\ \A k \in 0 .. Past - Low - 1 : Cell(Active, k)' = Cell(Active, Low + k)
<1> USE DEF thief
<1>0. /\ Sound /\ Excluded /\ Extent(opc, Low, Past) /\ Extent(opc, Low, Past)'
  BY InvParts, Ranges DEF Sound
<1>1. opc = "move" /\ UNCHANGED <<top, bottom, pc, tt, ring, item>>
  BY DEF Move, indices
<1>2. /\ RingsOK(rings') /\ Active' = Active
      /\ ob' = bottom - top /\ top <= bottom
      /\ \A k \in 0 .. bottom - top - 1 :
           rings'[Active][k % Capacity(Active)] = Cell(Active, top + k)
  BY Moves
<1>N. top \in Nat /\ bottom \in Nat /\ HighWatermark \in Nat /\ Capacity(Active) \in Nat
  BY Numbers
<1>3. Low = top /\ Past = bottom /\ Low' = 0 /\ Past' = bottom - top
  BY <1>0, <1>1, <1>2 DEF Extent
<1>4. Capacity(Active)' = Capacity(Active)
      /\ \A k : Cell(Active, k)' = rings'[Active][k % Capacity(Active)]
  BY <1>2 DEF Capacity, Cell
<1>5. \A k \in 0 .. bottom - top - 1 : Cell(Active, k)' # 0
  <2>1. \A k \in 0 .. bottom - top - 1 : top + k \in top .. bottom - 1
    BY <1>N
  <2> QED
    BY <1>0, <1>2, <1>3, <1>4, <2>1 DEF Sound, Live
<1>6. Live'
  BY <1>0, <1>N, <1>3, <1>4, <1>5 DEF Sound, Live
<1>7. \A p \in Thieves : Aims(p)'
  BY <1>0, <1>1, <1>2 DEF Sound, Excluded, Aims
<1> QED
  BY <1>2, <1>3, <1>4, <1>6, <1>7 DEF Sound

(* The steps of the owner by which an item comes or goes.                  *)
LEMMA TakeSound ==
  ASSUME DequeInv, Publish \/ (PopTop /\ top < ob) \/ (PopCas /\ top = ob)
  PROVE  /\ Sound' /\ \A k : Cell(Active, k)' = Cell(Active, k)
         /\ \/ Publish /\ Past = ob /\ Low' = Low /\ Past' = Past + 1
            \/ ~Publish /\ Past = ob + 1 /\ Low' = Low /\ Past' = Past - 1
            \/ ~Publish /\ Past = ob + 1 /\ Low = Past - 1 /\ Low' = Past /\ Past' = Past
<1> USE DEF thief, indices, Return
<1>0. /\ Sound /\ Owner /\ Extent(opc, Low, Past) /\ Extent(opc, Low, Past)'
  BY InvParts, Ranges DEF Sound
<1>N. /\ top \in Nat /\ bottom \in Nat /\ ob \in Nat /\ ot \in Nat
      /\ HighWatermark \in Nat
      /\ Capacity(Active) \in Nat \ {0} /\ offered \in Nat
  BY Numbers
<1>1. UNCHANGED <<rings, pc, tt, ring, item>>
  BY DEF Publish, PopTop, PopCas
<1>2. /\ Active' = Active /\ Capacity(Active)' = Capacity(Active)
      /\ \A r, k : Cell(r, k)' = Cell(r, k)
      /\ \A k : Cell(Active, k)' = Cell(Active, k)
  BY <1>1 DEF Active, Capacity, Cell
<1>3. \/ /\ UNCHANGED top /\ Low = top /\ Low' = top /\ Past' = Past + 1 /\ Past = ob
         /\ Cell(Active, Past) # 0 /\ ob < HighWatermark
         /\ Past' - top <= Capacity(Active) - 1 /\ Publish
      \/ /\ UNCHANGED top /\ Low = top /\ Low' = top /\ Past' = Past - 1 /\ top < Past'
         /\ ~Publish /\ Past = ob + 1
      \/ /\ Low = top /\ top' = top + 1 /\ Past' = top' /\ Low' = top' /\ Past = Past'
         /\ ~Publish /\ Past = ob + 1
  <2>1. CASE Publish
    <3>1. /\ opc = "publish" /\ opc' = "idle" /\ bottom' = ob + 1 /\ top' = top
      BY <2>1 DEF Publish
    <3> QED
      BY <1>0, <1>N, <2>1, <3>1 DEF Extent, Owner
  <2>2. CASE PopTop /\ top < ob
    <3>1. opc = "poptop" /\ opc' = "idle" /\ bottom' = bottom /\ top' = top /\ ~Publish
      BY <1>N, <2>2 DEF PopTop, Publish
    <3> QED
      BY <1>0, <1>N, <2>2, <3>1 DEF Extent, Owner
  <2>3. CASE PopCas /\ top = ob
    <3>1. opc = "popcas" /\ opc' = "won" /\ top' = ob + 1 /\ ob' = ob /\ ~Publish
      BY <2>3 DEF PopCas, Publish
    <3> QED
      BY <1>0, <1>N, <2>3, <3>1 DEF Extent, Owner
  <2> QED
    BY <2>1, <2>2, <2>3
<1>4. Low \in Nat /\ Past \in Nat /\ Low' \in Nat /\ Past' \in Nat
  BY <1>N, <1>0, <1>3 DEF Extent
<1>5. Live'
  <2>1. /\ Low <= Past /\ Past <= HighWatermark /\ Past - Low <= Capacity(Active) - 1
        /\ \A k \in Low .. Past - 1 : Cell(Active, k) # 0
    BY <1>0 DEF Sound, Live
  <2>2. /\ Low' <= Past' /\ Past' <= HighWatermark /\ Past' - Low' <= Capacity(Active) - 1
    BY <1>N, <1>3, <1>4, <2>1
  <2>3. \A k \in Low' .. Past' - 1 : k \in Low .. Past - 1 \/ (k = Past /\ Cell(Active, Past) # 0)
    <3>1. CASE Low' = Low /\ Past' = Past + 1 /\ Cell(Active, Past) # 0
      BY <1>4, <3>1
    <3>2. CASE Low' = Low /\ Past' = Past - 1
      BY <1>4, <3>2
    <3>3. CASE Low' = Past'
      <4>1. PICK n \in Nat : n = Low' /\ n = Past'
        BY <1>4, <3>3
      <4>2. n .. n - 1 = {}
        OBVIOUS
      <4> QED
        BY <4>1, <4>2
    <3> QED
      BY <1>3, <3>1, <3>2, <3>3
  <2>4. \A k \in Low' .. Past' - 1 : Cell(Active, k) # 0
    BY <2>1, <2>3
  <2> QED
    BY <1>2, <2>2, <2>4 DEF Live
<1>6. ASSUME NEW p \in Thieves PROVE Aims(p)'
  <2>1. Aims(p) /\ tt[p] \in Nat
    BY <1>0, Groups, Numbers DEF Sound, ThiefT
  <2>2. CASE UNCHANGED top
    <3>1. Cell(Active, top)' = Cell(Active, top) /\ \A r : Cell(r, top)' = Cell(r, top)
      BY <1>2, <2>2 DEF Cell
    <3> QED
      BY <1>1, <1>2, <1>3, <1>N, <1>4, <2>1, <2>2, <3>1 DEF Aims
  <2>3. CASE top' = top + 1
    BY <1>1, <1>2, <1>N, <2>1, <2>3 DEF Aims
  <2> QED
    BY <1>3, <2>2, <2>3
<1> QED
  BY <1>2, <1>3, <1>4, <1>5, <1>6 DEF Sound

LEMMA LiveItem ==
  ASSUME DequeInv, NEW k \in Low .. Past - 1
  PROVE  Cell(Active, k) \in 1 .. Items
<1>1. Cell(Active, k) # 0 /\ Low \in Nat /\ Past \in Nat
  BY InvParts, Numbers, Ranges DEF Live, Extent, Low, Past
<1>2. Active = Len(rings) /\ Active \in 1 .. Rings /\ Capacity(Active) \in Nat \ {0}
  BY Numbers DEF Active
<1>3. rings[Active] \in [0 .. Capacity(Active) - 1 -> 0 .. Items] /\ k \in Nat
  BY <1>1, <1>2, RingsType DEF RingsOK
<1>4. Cell(Active, k) \in 0 .. Items
  BY <1>2, <1>3, Division DEF Cell
<1> QED
  BY <1>1, <1>4, Numbers

LEMMA OwnerNext ==
  ASSUME DequeInv, Push \/ Pushing \/ Pop \/ Popping \/ Rebasing
  PROVE  DequeInv'
<1> USE DEF thief
<1>0. GateInv /\ RingsOK(rings) /\ ThiefT /\ TakenT
  BY Groups
<1>1. GateInv' /\ IndexT' /\ OwnerT' /\ Owner'
  BY <1>0, OwnerStep, OwnerKeeps
<1>2. UNCHANGED thief
  BY DEF Push, Pushing, Pop, Popping, Rebasing, Reload, Fit, Store, Publish, PopTop, PopCas,
         Restore, Check, Quiesce, Move, ResetTop, ResetBottom, Reopen, Abandon
<1>3. ThiefT'
  BY <1>0, <1>2 DEF ThiefT
<1>4. TakenT'
  <2>1. CASE UNCHANGED <<popped, stolen>>
    BY <1>0, <2>1 DEF TakenT
  <2>2. CASE (PopTop \/ PopCas) /\ popped' = popped \cup {Cell(Active, ob)} /\ stolen' = stolen
             /\ top <= ob
    <3>1. ob \in Low .. Past - 1
      BY <2>2, Ranges, Numbers DEF PopTop, PopCas, Extent
    <3> QED
      BY <1>0, <2>2, <3>1, LiveItem DEF TakenT
  <2>3. CASE PopTop
    BY <2>1, <2>2, <2>3, Numbers DEF PopTop
  <2>4. CASE PopCas
    BY <2>1, <2>2, <2>4, Numbers DEF PopCas
  <2>5. Push \/ Pushing \/ Pop \/ Restore \/ Rebasing => UNCHANGED <<popped, stolen>>
    BY DEF Push, Pushing, Pop, Rebasing, Reload, Fit, Store, Publish, Restore, Check, Quiesce,
           Move, ResetTop, ResetBottom, Reopen, Abandon, history
  <2> QED
    BY <2>1, <2>3, <2>4, <2>5 DEF Popping
<1>5. Sound' /\ RingsOK(rings')
  <2>1. CASE Calm /\ UNCHANGED rings
    <3>1. UNCHANGED top \/ ResetTop
      BY <2>1 DEF Calm, Push, Reload, Fit, Store, Pop, Restore, Check, Quiesce, ResetBottom,
                  Reopen, Abandon, PopTop, PopCas, Move, indices
    <3> QED
      BY <1>0, <1>2, <2>1, <3>1, CalmSound
  <2>2. CASE Fit /\ rings' # rings
    BY <2>2, FitSound
  <2>3. CASE Store
    BY <2>3, StoreSound
  <2>4. CASE Move /\ opc' = "top"
    BY <2>4, MoveSound
  <2>5. CASE Publish \/ (PopTop /\ top < ob) \/ (PopCas /\ top = ob)
    <3>1. UNCHANGED rings
      BY <2>5 DEF Publish, PopTop, PopCas
    <3> QED
      BY <1>0, <2>5, <3>1, TakeSound
  <2>6. CASE Move /\ opc' = "abandon"
    BY <2>1, <2>6 DEF Move, Calm
  <2>7. \/ Calm /\ UNCHANGED rings
        \/ Fit /\ rings' # rings
        \/ Store \/ Move
        \/ Publish \/ (PopTop /\ top < ob) \/ (PopCas /\ top = ob)
    <3>1. PopTop => Calm \/ top < ob
      BY Numbers DEF Calm
    <3>2. Calm => UNCHANGED rings \/ Fit \/ Store \/ Move
      BY DEF Calm, Push, Reload, Pop, Restore, Check, Quiesce, ResetTop, ResetBottom, Reopen,
             Abandon, PopTop, PopCas
    <3> QED
      BY <3>1, <3>2 DEF Calm, Pushing, Popping, Rebasing
  <2> QED
    BY <2>1, <2>2, <2>3, <2>4, <2>5, <2>6, <2>7 DEF Move
<1> QED
  BY <1>1, <1>3, <1>4, <1>5, GroupsNext DEF Sound

(* A thief that does not win changes nothing but its own place.            *)
LEMMA ThiefAims ==
  ASSUME DequeInv, NEW p \in Thieves,
         Steal(p) \/ Enter(p) \/ Again(p) \/ LoadTop(p) \/ LoadBottom(p) \/ LoadCell(p) \/ Leave(p)
         \/ (StealCas(p) /\ top # tt[p])
  PROVE  DequeInv'
<1> USE DEF Go, Quit, indices, owner
<1>0. /\ GateInv /\ RingsOK(rings) /\ IndexT /\ OwnerT /\ ThiefT /\ TakenT
      /\ Owner /\ Live /\ \A q \in Thieves : Aims(q)
  BY Groups
<1>1. GateInv'
  BY <1>0, ThiefStep DEF Stealing
<1>2. UNCHANGED <<top, bottom, rings, opc, ob, ot, pushing, offered, popped, stolen>>
  BY DEF Steal, Enter, Again, LoadTop, LoadBottom, LoadCell, Leave, StealCas, history
<1>3. IndexT' /\ OwnerT' /\ TakenT' /\ RingsOK(rings')
  BY <1>0, <1>2 DEF IndexT, OwnerT, TakenT
<1>4. /\ Active' = Active /\ Capacity(Active)' = Capacity(Active) /\ Low' = Low /\ Past' = Past
      /\ \A r, k : Cell(r, k)' = Cell(r, k)
      /\ \A k : Cell(Active, k)' = Cell(Active, k)
      /\ Cell(Active, ob)' = Cell(Active, ob) /\ Cell(Active, top)' = Cell(Active, top)
      /\ \A r : Cell(r, top)' = Cell(r, top)
  BY <1>2 DEF Active, Capacity, Low, Past, Cell
<1>5. Owner' /\ Live'
  BY <1>0, <1>2, <1>4 DEF Owner, Live
<1>6. /\ pc \in [Thieves -> Places] /\ tt \in [Thieves -> 0 .. HighWatermark]
      /\ ring \in [Thieves -> 1 .. Rings] /\ item \in [Thieves -> 0 .. Items]
      /\ top \in 0 .. HighWatermark /\ Active \in 1 .. Rings /\ Items \in Nat
      /\ 0 \in 0 .. HighWatermark /\ 1 \in 1 .. Rings /\ 0 \in 0 .. Items /\ Rings \in Nat
      /\ HighWatermark \in Nat
  BY <1>0, Numbers DEF GateInv, ThiefT, IndexT
<1>7. \A q \in Thieves \ {p} : /\ pc'[q] = pc[q] /\ tt'[q] = tt[q]
                               /\ ring'[q] = ring[q] /\ item'[q] = item[q]
  BY <1>6 DEF Steal, Enter, Again, LoadTop, LoadBottom, LoadCell, Leave, StealCas
<1>8. \A q \in Thieves \ {p} : Aims(q)'
  BY <1>0, <1>2, <1>4, <1>7 DEF Aims
<1>9. CASE Steal(p) \/ Enter(p) \/ Again(p) \/ Leave(p) \/ (StealCas(p) /\ top # tt[p])
  <2>1. /\ pc'[p] \in {"enter", "again", "leave", "top", "idle"}
        /\ tt' = tt \/ tt' = [tt EXCEPT ![p] = 0]
        /\ ring' = ring \/ ring' = [ring EXCEPT ![p] = 1]
        /\ item' = item \/ item' = [item EXCEPT ![p] = 0]
    BY <1>6, <1>9 DEF Steal, Enter, Again, Leave, StealCas
  <2>2. ThiefT' /\ ring'[p] <= Active
    BY <1>0, <1>6, <2>1 DEF ThiefT, Aims
  <2>3. Aims(p)'
    BY <1>4, <2>1, <2>2 DEF Aims
  <2> QED
    BY <1>1, <1>3, <1>5, <1>8, <2>2, <2>3, GroupsNext
<1>10. CASE LoadTop(p)
  <2>1. /\ pc'[p] = "bottom" /\ tt' = [tt EXCEPT ![p] = top] /\ UNCHANGED <<ring, item>>
    BY <1>6, <1>10 DEF LoadTop
  <2>2. ThiefT' /\ tt'[p] = top /\ ring'[p] <= Active
    BY <1>0, <1>6, <2>1 DEF ThiefT, Aims
  <2>3. Aims(p)'
    BY <1>2, <1>4, <1>6, <2>1, <2>2 DEF Aims
  <2> QED
    BY <1>1, <1>3, <1>5, <1>8, <2>2, <2>3, GroupsNext
<1>11. CASE LoadBottom(p)
  <2>1. CASE tt[p] < bottom
    <3>1. /\ pc'[p] = "cell" /\ ring' = [ring EXCEPT ![p] = Active] /\ UNCHANGED <<tt, item>>
          /\ pc[p] = "bottom"
      BY <1>6, <1>11, <2>1, Numbers DEF LoadBottom
    <3>2. ThiefT' /\ ring'[p] = Active
      BY <1>0, <1>6, <3>1 DEF ThiefT
    <3>3. tt[p] <= top /\ (tt[p] = top => top < Past)
      <4>1. tt[p] <= top /\ opc \notin {"top", "bottom"}
        BY <1>0, <3>1 DEF Aims, GateInv, Excluded
      <4>2. opc \in {"won", "lost"} => top > bottom
        BY <1>0, Numbers DEF Owner
      <4>3. top < bottom => top < Past
        BY <1>0, <4>1, Ranges, Numbers DEF Extent, Owner
      <4> QED
        BY <2>1, <4>1, <4>3
    <3>4. \A r \in Active .. Active : r = Active
      BY <1>6
    <3>5. Aims(p)'
      BY <1>2, <1>4, <1>6, <3>1, <3>2, <3>3, <3>4 DEF Aims
    <3> QED
      BY <1>1, <1>3, <1>5, <1>8, <3>2, <3>5, GroupsNext
  <2>2. CASE ~(tt[p] < bottom)
    <3>1. /\ pc'[p] = "leave" /\ tt' = [tt EXCEPT ![p] = 0]
          /\ ring' = [ring EXCEPT ![p] = 1] /\ item' = [item EXCEPT ![p] = 0]
      BY <1>6, <1>11, <2>2 DEF LoadBottom
    <3>2. ThiefT' /\ ring'[p] <= Active
      BY <1>0, <1>6, <3>1 DEF ThiefT
    <3>3. Aims(p)'
      BY <1>4, <3>1, <3>2 DEF Aims
    <3> QED
      BY <1>1, <1>3, <1>5, <1>8, <3>2, <3>3, GroupsNext
  <2> QED
    BY <2>1, <2>2
<1>12. CASE LoadCell(p)
  <2>1. PICK r \in ring[p] .. Active : item' = [item EXCEPT ![p] = Cell(r, tt[p])]
    BY <1>12 DEF LoadCell
  <2>2. pc[p] = "cell" /\ pc'[p] = "cas" /\ UNCHANGED <<tt, ring>>
    BY <1>6, <1>12 DEF LoadCell
  <2>3. Cell(r, tt[p]) \in 0 .. Items
    <3>1. r \in 1 .. Len(rings) /\ r \in 1 .. Rings /\ tt[p] \in Nat
      BY <1>6, <2>1 DEF Active
    <3>2. rings[r] \in [0 .. Capacity(r) - 1 -> 0 .. Items] /\ Capacity(r) \in Nat \ {0}
      BY <1>0, <3>1, CapacityAssumption DEF RingsOK, CapacityAssumption
    <3> QED
      BY <3>1, <3>2, Division DEF Cell
  <2>4. ThiefT' /\ item'[p] = Cell(r, tt[p])
    BY <1>0, <1>6, <2>1, <2>2, <2>3 DEF ThiefT
  <2>5. Aims(p)'
    BY <1>0, <1>2, <1>4, <2>1, <2>2, <2>4 DEF Aims
  <2> QED
    BY <1>1, <1>3, <1>5, <1>8, <2>4, <2>5, GroupsNext
<1> QED
  BY <1>9, <1>10, <1>11, <1>12

(* The thief that wins takes the oldest item.                              *)
LEMMA Wins ==
  ASSUME DequeInv, NEW p \in Thieves, StealCas(p), top = tt[p]
  PROVE  /\ top < Past /\ Low = top /\ Low' = top + 1 /\ Past' = Past
         /\ item[p] = Cell(Active, top) /\ top' = top + 1
         /\ stolen' = stolen \cup {item[p]}
         /\ UNCHANGED <<bottom, rings, opc, ob, ot, pushing, offered, popped>>
<1>1. pc[p] = "cas" /\ Aims(p) /\ Excluded
  BY InvParts DEF StealCas
<1>2. opc \notin {"top", "bottom"}
  BY <1>1 DEF Excluded
<1>3. /\ top' = top + 1 /\ stolen' = stolen \cup {item[p]}
      /\ UNCHANGED <<bottom, rings, opc, ob, ot, pushing, offered, popped>>
  BY DEF StealCas, owner
<1> QED
  BY <1>1, <1>2, <1>3, Ranges DEF Extent, Aims

LEMMA WinKeeps ==
  ASSUME DequeInv, NEW p \in Thieves, StealCas(p), top = tt[p]
  PROVE  DequeInv'
<1> USE DEF Go, Quit
<1>0. /\ GateInv /\ RingsOK(rings) /\ IndexT /\ OwnerT /\ ThiefT /\ TakenT
      /\ Owner /\ Live /\ \A q \in Thieves : Aims(q)
  BY Groups
<1>1. GateInv'
  BY <1>0, ThiefStep DEF Stealing
<1>2. /\ top < Past /\ Low = top /\ Low' = top + 1 /\ Past' = Past
      /\ item[p] = Cell(Active, top) /\ top' = top + 1 /\ stolen' = stolen \cup {item[p]}
      /\ UNCHANGED <<bottom, rings, opc, ob, ot, pushing, offered, popped>>
  BY Wins
<1>N. /\ top \in Nat /\ ob \in Nat /\ ot \in Nat /\ HighWatermark \in Nat /\ Rings \in Nat \ {0}
      /\ Active \in 1 .. Rings /\ Capacity(Active) \in Nat /\ Items \in Nat
      /\ Past \in Nat
  BY Numbers, Ranges, DequeAssumption DEF Extent, DequeAssumption
<1>3. IndexT' /\ OwnerT' /\ RingsOK(rings')
  BY <1>0, <1>2, <1>N DEF IndexT, OwnerT, Live
<1>4. TakenT'
  <2>1. top \in Low .. Past - 1
    BY <1>2, <1>N
  <2> QED
    BY <1>0, <1>2, <2>1, LiveItem DEF TakenT
<1>5. /\ Active' = Active /\ Capacity(Active)' = Capacity(Active)
      /\ \A k : Cell(Active, k)' = Cell(Active, k)
      /\ Cell(Active, ob)' = Cell(Active, ob)
  BY <1>2 DEF Active, Capacity, Cell
<1>6. Owner'
  <2>1. opc \notin {"won", "lost", "bottom"}
    <3>1. pc[p] = "cas" /\ Excluded
      BY <1>0 DEF StealCas, GateInv
    <3> QED
      BY <1>0, <1>2, <1>N, <3>1, Ranges DEF Excluded, Owner, Extent
  <2> QED
    BY <1>0, <1>2, <1>5, <1>N, <2>1 DEF Owner
<1>7. Live'
  BY <1>0, <1>2, <1>5, <1>N DEF Live
<1>8. /\ pc' = [pc EXCEPT ![p] = "leave"] /\ tt' = [tt EXCEPT ![p] = 0]
      /\ ring' = [ring EXCEPT ![p] = 1] /\ item' = [item EXCEPT ![p] = 0]
  BY DEF StealCas
<1>9. ThiefT'
  BY <1>0, <1>8, <1>N DEF ThiefT
<1>10. ASSUME NEW q \in Thieves PROVE Aims(q)'
  <2>1. /\ pc \in [Thieves -> Places] /\ tt[q] \in Nat
        /\ ring \in [Thieves -> 1 .. Rings] /\ tt \in [Thieves -> 0 .. HighWatermark]
    BY <1>0, <1>N DEF GateInv, ThiefT
  <2>2. CASE q = p
    BY <1>2, <1>5, <1>8, <1>N, <2>1, <2>2 DEF Aims
  <2>3. CASE q # p
    <3>1. pc'[q] = pc[q] /\ tt'[q] = tt[q] /\ ring'[q] = ring[q]
      BY <1>8, <2>1, <2>3
    <3>2. Aims(q)
      BY <1>0
    <3> QED
      BY <1>2, <1>5, <1>N, <2>1, <3>1, <3>2 DEF Aims
  <2> QED
    BY <2>2, <2>3
<1> QED
  BY <1>1, <1>3, <1>4, <1>6, <1>7, <1>9, <1>10, GroupsNext

LEMMA DequeStep == DequeInv /\ [Next]_vars => DequeInv'
<1> SUFFICES ASSUME DequeInv, [Next]_vars PROVE DequeInv'
  OBVIOUS
<1>1. CASE Push \/ Pushing \/ Pop \/ Popping \/ Rebasing
  BY <1>1, OwnerNext
<1>2. ASSUME NEW p \in Thieves, Steal(p) \/ Stealing(p) PROVE DequeInv'
  BY <1>2, ThiefAims, WinKeeps DEF Stealing
<1>3. CASE UNCHANGED vars
  <2> USE <1>3 DEF vars, indices, gate, owner, thief, history, DequeInv
  <2>1. rings' \in Seq(AnyRing) /\ TypeOK'
    <3>1. rings' \in Seq(AnyRing)
      OBVIOUS
    <3>2. Active' = Active /\ \A r : Capacity(r)' = Capacity(r)
      BY DEF Active, Capacity
    <3> QED
      BY <3>1, <3>2 DEF TypeOK
  <2>2. Shut' /\ Excluded'
    BY DEF Shut, Excluded
  <2>3. Active' = Active /\ Low' = Low /\ Past' = Past
    BY DEF Active, Low, Past
  <2>4. Owner'
    BY <2>3 DEF Owner, Capacity, Cell
  <2>5. Live'
    BY <2>3 DEF Live, Capacity, Cell
  <2>6. \A p \in Thieves : Aims(p)'
    BY <2>3 DEF Aims, Cell
  <2> QED
    BY <2>1, <2>2, <2>4, <2>5, <2>6
<1> QED
  BY <1>1, <1>2, <1>3 DEF Next
-----------------------------------------------------------------------------
(* The content of the deque, position by position.                         *)
ContentAt(l, n) ==
  /\ Low = l /\ Past = l + n
  /\ Content \in Seq(1 .. Items) /\ Len(Content) = n
  /\ \A k \in 1 .. n : Content[k] = Cell(Active, l + k - 1)

Contents == \E l, n \in Nat : ContentAt(l, n)

LEMMA ContentIs == DequeInv => Contents
<1> SUFFICES ASSUME DequeInv PROVE \E l, n \in Nat : ContentAt(l, n)
  BY DEF Contents
<1>1. Low \in Nat /\ Past \in Nat /\ Low <= Past
  BY InvParts, Numbers, Ranges DEF Live, Extent, Low, Past
<1>2. PICK l \in Nat, n \in Nat : Low = l /\ Past = l + n
  <2>1. Past - Low \in Nat /\ Past = Low + (Past - Low)
    BY <1>1
  <2> QED
    BY <1>1, <2>1
<1>3. Content = [k \in 1 .. n |-> Cell(Active, l + k - 1)]
  BY <1>2 DEF Content
<1>4. \A k \in 1 .. n : Cell(Active, l + k - 1) \in 1 .. Items
  <2>1. \A k \in 1 .. n : l + k - 1 \in Low .. Past - 1
    BY <1>2
  <2> QED
    BY <2>1, LiveItem
<1>5. [k \in 1 .. n |-> Cell(Active, l + k - 1)] \in Seq(1 .. Items)
  BY <1>4
<1>6. Len([k \in 1 .. n |-> Cell(Active, l + k - 1)]) = n
  OBVIOUS
<1>7. Content \in Seq(1 .. Items) /\ Len(Content) = n
  BY <1>3, <1>5, <1>6
<1> QED
  BY <1>2, <1>3, <1>7 DEF ContentAt

LEMMA ContentNext == DequeInv' => Contents'
BY ContentIs, PTL

(* Sequences that differ by one element at an end.                         *)
LEMMA Appended ==
  ASSUME NEW S, NEW s \in Seq(S), NEW t \in Seq(S), NEW e \in S, Len(t) = Len(s) + 1,
         \A k \in 1 .. Len(s) : t[k] = s[k], t[Len(s) + 1] = e
  PROVE  t = Append(s, e)
<1>1. /\ Append(s, e) \in Seq(S) /\ Len(Append(s, e)) = Len(s) + 1 /\ Len(s) \in Nat
      /\ \A k \in 1 .. Len(s) : Append(s, e)[k] = s[k]
      /\ Append(s, e)[Len(s) + 1] = e
  BY AppendProperties, LenProperties
<1> QED
  BY <1>1, SeqEqual

LEMMA Fronted ==
  ASSUME NEW S, NEW s \in Seq(S), NEW t \in Seq(S), Len(s) = Len(t) + 1,
         \A k \in 1 .. Len(t) : t[k] = s[k]
  PROVE  t = Front(s) /\ s # <<>> /\ Last(s) = s[Len(t) + 1]
<1>1. Len(t) \in Nat /\ \A k \in 1 .. Len(t) : s[k] \in S
  BY LenProperties
<1>2. /\ SubSeq(s, 1, Len(t)) \in Seq(S) /\ Len(SubSeq(s, 1, Len(t))) = Len(t)
      /\ \A k \in 1 .. Len(t) : SubSeq(s, 1, Len(t))[k] = s[k]
  BY <1>1, SubSeqProperties
<1>3. t = SubSeq(s, 1, Len(t))
  BY <1>2, SeqEqual
<1>4. Len(s) - 1 = Len(t) /\ s # <<>>
  BY <1>1
<1> QED
  BY <1>3, <1>4 DEF Front, Last

LEMMA Tailed ==
  ASSUME NEW S, NEW s \in Seq(S), NEW t \in Seq(S), Len(s) = Len(t) + 1,
         \A k \in 1 .. Len(t) : t[k] = s[k + 1]
  PROVE  t = Tail(s) /\ s # <<>> /\ Head(s) = s[1]
<1>1. Len(t) \in Nat /\ s # <<>>
  BY LenProperties
<1>2. /\ Tail(s) \in Seq(S) /\ Len(Tail(s)) = Len(t)
      /\ \A k \in 1 .. Len(t) : Tail(s)[k] = s[k + 1]
  BY <1>1, HeadTailProperties
<1> QED
  BY <1>1, <1>2, SeqEqual
-----------------------------------------------------------------------------
(* The same items at other indices, or in another ring, are the same queue.*)
LEMMA ContentKept ==
  ASSUME DequeInv, DequeInv', NEW a \in Nat, NEW b \in Nat, NEW n \in Nat,
         Low = a, Past = a + n, Low' = b, Past' = b + n,
         \A k \in 0 .. n - 1 : Cell(Active, b + k)' = Cell(Active, a + k)
  PROVE  Content' = Content
<1>1. PICK l \in Nat, m \in Nat : ContentAt(l, m)
  BY ContentIs DEF Contents
<1>2. PICK l2 \in Nat, m2 \in Nat : ContentAt(l2, m2)'
  BY ContentNext DEF Contents
<1>3. l = a /\ m = n /\ l2 = b /\ m2 = n
  BY <1>1, <1>2 DEF ContentAt
<1>4. /\ Content \in Seq(1 .. Items) /\ Content' \in Seq(1 .. Items)
      /\ Len(Content) = n /\ Len(Content') = n
  BY <1>1, <1>2, <1>3 DEF ContentAt
<1>5. ASSUME NEW k \in 1 .. n PROVE Content'[k] = Content[k]
  <2>1. k - 1 \in 0 .. n - 1 /\ a + k - 1 = a + (k - 1) /\ b + k - 1 = b + (k - 1)
    OBVIOUS
  <2>2. PICK j \in 0 .. n - 1 : a + k - 1 = a + j /\ b + k - 1 = b + j
    BY <2>1
  <2>3. Content[k] = Cell(Active, a + j)
    BY <1>1, <1>3, <2>2 DEF ContentAt
  <2>4. Content'[k] = Cell(Active, b + j)'
    BY <1>2, <1>3, <2>2 DEF ContentAt
  <2> QED
    BY <2>3, <2>4
<1> QED
  BY <1>4, <1>5, SeqEqual

(* Growth, rebase, a lost race and a refusal are not seen from outside,    *)
(* except that a refused push returns.                                     *)
LEMMA CalmHidden ==
  ASSUME DequeInv, DequeInv', Calm
  PROVE  Content' = Content /\ UNCHANGED <<popped, stolen>> /\ offered' \in {offered, offered + 1}
<1>1. PICK a \in Nat, n \in Nat : ContentAt(a, n)
  BY ContentIs DEF Contents
<1>2. Low = a /\ Past = a + n /\ Low' = a /\ Past' = a + n
  BY <1>1, CalmKeepsRange DEF ContentAt
<1>3. \A k \in Low .. Past - 1 : Cell(Active, k)' = Cell(Active, k)
  <2>1. CASE UNCHANGED rings
    BY <2>1 DEF Cell, Active
  <2>2. CASE rings' # rings
    <3>1. Fit \/ Store
      BY <2>2 DEF Calm, Push, Reload, Pop, Restore, Check, Quiesce, ResetTop, ResetBottom,
                  Reopen, Abandon, PopTop, PopCas, Move
    <3> QED
      BY <2>2, <3>1, FitSound, StoreSound
  <2> QED
    BY <2>1, <2>2
<1>4. \A k \in 0 .. n - 1 : Cell(Active, a + k)' = Cell(Active, a + k)
  <2>1. \A k \in 0 .. n - 1 : a + k \in Low .. Past - 1
    BY <1>2
  <2> QED
    BY <1>3, <2>1
<1>5. Content' = Content
  BY <1>2, <1>4, ContentKept
<1>6. UNCHANGED <<popped, stolen>> /\ offered' \in {offered, offered + 1}
  BY Numbers DEF Calm, Push, Reload, Fit, Store, Pop, Restore, Check, Quiesce, ResetTop,
     ResetBottom, Reopen, Abandon, PopTop, PopCas, Move, Refuse, history
<1> QED
  BY <1>5, <1>6

LEMMA MoveHidden ==
  ASSUME DequeInv, DequeInv', Move, opc' = "top"
  PROVE  Content' = Content /\ UNCHANGED history
<1>1. PICK a \in Nat, n \in Nat : ContentAt(a, n)
  BY ContentIs DEF Contents
<1>2. Low = a /\ Past = a + n /\ Low' = 0 /\ Past' = 0 + n
  BY <1>1, MoveSound DEF ContentAt
<1>3. \A k \in 0 .. n - 1 : Cell(Active, 0 + k)' = Cell(Active, a + k)
  <2> SUFFICES ASSUME NEW k \in 0 .. n - 1 PROVE Cell(Active, 0 + k)' = Cell(Active, a + k)
    OBVIOUS
  <2>1. k \in 0 .. Past - Low - 1 /\ 0 + k = k
    BY <1>2
  <2>2. Cell(Active, k)' = Cell(Active, a + k)
    BY <1>2, <2>1, MoveSound
  <2> QED
    BY <2>1, <2>2
<1>4. Content' = Content
  BY <1>2, <1>3, ContentKept
<1> QED
  BY <1>4 DEF Move

(* push() adds its item at the young end, pop() takes from there.          *)
LEMMA OwnerTakesEffect ==
  ASSUME DequeInv, DequeInv', Publish \/ (PopTop /\ top < ob) \/ (PopCas /\ top = ob)
  PROVE  \/ Publish /\ Content' = Append(Content, offered')
         \/ /\ ~Publish /\ Content # <<>>
            /\ Content' = Front(Content) /\ Last(Content) = Cell(Active, ob)
<1>1. PICK a \in Nat, n \in Nat : ContentAt(a, n)
  BY ContentIs DEF Contents
<1>2. PICK b \in Nat, m \in Nat : ContentAt(b, m)'
  BY ContentNext DEF Contents
<1>3. \A k : Cell(Active, k)' = Cell(Active, k)
  BY TakeSound
<1>4. /\ Content \in Seq(1 .. Items) /\ Len(Content) = n /\ Low = a /\ Past = a + n
      /\ \A k \in 1 .. n : Content[k] = Cell(Active, a + k - 1)
  BY <1>1 DEF ContentAt
<1>5. /\ Content' \in Seq(1 .. Items) /\ Len(Content') = m /\ Low' = b /\ Past' = b + m
      /\ \A k \in 1 .. m : Content'[k] = Cell(Active, b + k - 1)
  BY <1>2, <1>3 DEF ContentAt
<1>6. \A k \in 1 .. n : k \in 1 .. m /\ a = b => Content'[k] = Content[k]
  BY <1>4, <1>5
<1>7. CASE Publish
  <2>1. Past = ob /\ b = a /\ m = n + 1 /\ a + m - 1 = ob
    BY <1>4, <1>5, <1>7, TakeSound
  <2>2. Content'[n + 1] = Cell(Active, ob)
    BY <1>5, <2>1
  <2>3. Cell(Active, ob) = offered + 1 /\ offered' = offered + 1 /\ offered' \in 1 .. Items
    <3>1. Cell(Active, ob) = offered + 1 /\ offered' = offered + 1 /\ offered < Items
      BY <1>7, InvParts DEF Owner, Publish
    <3> QED
      BY <3>1, Numbers
  <2>4. \A k \in 1 .. n : Content'[k] = Content[k]
    BY <1>6, <2>1
  <2>5. Content' = Append(Content, offered')
    BY <1>4, <1>5, <2>1, <2>2, <2>3, <2>4, Appended
  <2> QED
    BY <1>7, <2>5
<1>8. CASE ~Publish
  <2>1. Past = ob + 1 /\ n = m + 1 /\ a + n - 1 = ob /\ (a = b \/ m = 0)
    <3>1. /\ Past = ob + 1
          /\ \/ Low' = Low /\ Past' = Past - 1
             \/ Low = Past - 1 /\ Low' = Past /\ Past' = Past
      BY <1>8, TakeSound
    <3>2. ob \in Nat
      BY Numbers
    <3>3. CASE Low' = Low /\ Past' = Past - 1
      BY <1>4, <1>5, <3>1, <3>2, <3>3
    <3>4. CASE Low = Past - 1 /\ Low' = Past /\ Past' = Past
      BY <1>4, <1>5, <3>1, <3>2, <3>4
    <3> QED
      BY <3>1, <3>3, <3>4
  <2>2. \A k \in 1 .. m : Content'[k] = Content[k]
    <3>1. CASE a = b
      BY <1>6, <2>1, <3>1
    <3>2. CASE m = 0
      BY <3>2
    <3> QED
      BY <2>1, <3>1, <3>2
  <2>3. Content' = Front(Content) /\ Content # <<>> /\ Last(Content) = Content[m + 1]
    BY <1>4, <1>5, <2>1, <2>2, Fronted
  <2>4. Content[m + 1] = Cell(Active, ob)
    BY <1>4, <2>1
  <2> QED
    BY <1>8, <2>3, <2>4
<1> QED
  BY <1>7, <1>8

(* steal() takes from the old end.                                         *)
LEMMA StealTakesEffect ==
  ASSUME DequeInv, DequeInv', NEW p \in Thieves, StealCas(p), top = tt[p]
  PROVE  /\ Content # <<>> /\ Content' = Tail(Content) /\ stolen' = stolen \cup {Head(Content)}
         /\ UNCHANGED <<offered, popped>>
<1>1. PICK a \in Nat, n \in Nat : ContentAt(a, n)
  BY ContentIs DEF Contents
<1>2. PICK b \in Nat, m \in Nat : ContentAt(b, m)'
  BY ContentNext DEF Contents
<1>3. /\ top < Past /\ Low = top /\ Low' = top + 1 /\ Past' = Past
      /\ item[p] = Cell(Active, top) /\ stolen' = stolen \cup {item[p]}
      /\ UNCHANGED <<rings, offered, popped>>
  BY Wins
<1>4. /\ Content \in Seq(1 .. Items) /\ Len(Content) = n /\ Low = a /\ Past = a + n
      /\ \A k \in 1 .. n : Content[k] = Cell(Active, a + k - 1)
  BY <1>1 DEF ContentAt
<1>5. \A k : Cell(Active, k)' = Cell(Active, k)
  BY <1>3 DEF Cell, Active
<1>6. /\ Content' \in Seq(1 .. Items) /\ Len(Content') = m /\ Low' = b /\ Past' = b + m
      /\ \A k \in 1 .. m : Content'[k] = Cell(Active, b + k - 1)
  BY <1>2, <1>5 DEF ContentAt
<1>7. b = a + 1 /\ n = m + 1 /\ top = a
  BY <1>3, <1>4, <1>6
<1>8. \A k \in 1 .. m : Content'[k] = Content[k + 1]
  <2> SUFFICES ASSUME NEW k \in 1 .. m PROVE Content'[k] = Content[k + 1]
    OBVIOUS
  <2>1. k + 1 \in 1 .. n /\ b + k - 1 = a + (k + 1) - 1
    BY <1>7
  <2> QED
    BY <1>4, <1>6, <2>1
<1>9. Content' = Tail(Content) /\ Content # <<>> /\ Head(Content) = Content[1]
  BY <1>4, <1>6, <1>7, <1>8, Tailed
<1>10. Content[1] = Cell(Active, top)
  <2>1. 1 \in 1 .. n /\ a + 1 - 1 = top
    BY <1>7
  <2> QED
    BY <1>4, <2>1
<1> QED
  BY <1>3, <1>9, <1>10
-----------------------------------------------------------------------------
(* R-066, R-067, R-068: the types, the gate, and that a thief whose        *)
(* compare-and-swap is about to succeed holds the oldest item: for any     *)
(* number of thieves, of items and of rings, and any watermark.            *)
THEOREM DequeInvariant == Spec => []Inv
<1>1. ASSUME DequeInv PROVE Inv
  <2>1. TypeOK /\ Excluded /\ \A p \in Thieves : Aims(p)
    BY <1>1, InvParts
  <2>2. ASSUME NEW p \in Thieves, pc[p] = "cas", tt[p] = top
        PROVE  Content # <<>> /\ item[p] = Head(Content)
    <3>1. PICK a \in Nat, n \in Nat : ContentAt(a, n)
      BY <1>1, ContentIs DEF Contents
    <3>2. /\ Content \in Seq(1 .. Items) /\ Len(Content) = n /\ Low = a /\ Past = a + n
          /\ \A k \in 1 .. n : Content[k] = Cell(Active, a + k - 1)
      BY <3>1 DEF ContentAt
    <3>3. top < Past /\ item[p] = Cell(Active, top) /\ Low = top
      BY <2>1, <2>2, Ranges DEF Aims, Excluded, Extent
    <3>4. 1 \in 1 .. n /\ a + 1 - 1 = top
      BY <3>2, <3>3
    <3>5. Content # <<>> /\ Content[1] = Cell(Active, top)
      BY <3>2, <3>4
    <3> QED
      BY <3>3, <3>5
  <2> QED
    BY <2>1, <2>2 DEF Inv, WinnerHoldsHead
<1> QED
  BY InitDeque, DequeStep, <1>1, PTL DEF Spec

LEMMA InitQueue == Init => Promise!Init
<1> SUFFICES ASSUME Init PROVE Promise!Init
  OBVIOUS
<1>1. Low = 0 /\ Past = 0
  BY DEF Init, Low, Past
<1>2. Content = <<>>
  <2>1. 1 .. 0 - 0 = {}
    OBVIOUS
  <2> QED
    BY <1>1, <2>1 DEF Content
<1> QED
  BY <1>2 DEF Init, Promise!Init

LEMMA StepPromises ==
  ASSUME DequeInv, DequeInv', [Next]_vars
  PROVE  [Promise!Next]_(Promise!vars)
<1> USE DEF Promise!vars, Promise!Next
<1>1. CASE Calm
  <2>1. Content' = Content /\ UNCHANGED <<popped, stolen>> /\ offered' \in {offered, offered + 1}
    BY <1>1, CalmHidden
  <2> QED
    BY <2>1 DEF Promise!Push
<1>2. CASE Move
  BY <1>1, <1>2, MoveHidden DEF Move, Calm, history
<1>3. CASE Publish \/ (PopTop /\ top < ob) \/ (PopCas /\ top = ob)
  <2>1. CASE Publish
    <3>1. offered' = offered + 1 /\ UNCHANGED <<popped, stolen>>
      BY <2>1 DEF Publish
    <3>2. Content' = Append(Content, offered')
      BY <1>3, <2>1, OwnerTakesEffect
    <3> QED
      BY <3>1, <3>2 DEF Promise!Push
  <2>2. CASE ~Publish
    <3>1. popped' = popped \cup {Cell(Active, ob)} /\ UNCHANGED <<offered, stolen>>
      BY <1>3, <2>2, Numbers DEF PopTop, PopCas
    <3>2. /\ Content # <<>> /\ Content' = Front(Content) /\ Last(Content) = Cell(Active, ob)
      BY <1>3, <2>2, OwnerTakesEffect
    <3> QED
      BY <3>1, <3>2 DEF Promise!Pop, Promise!Front, Promise!Last, Front, Last
  <2> QED
    BY <2>1, <2>2
<1>4. ASSUME NEW p \in Thieves, Steal(p) \/ Stealing(p)
      PROVE  [Promise!Next]_(Promise!vars)
  <2>1. CASE StealCas(p) /\ top = tt[p]
    BY <2>1, StealTakesEffect DEF Promise!Steal
  <2>2. CASE ~(StealCas(p) /\ top = tt[p])
    <3>1. UNCHANGED <<indices, rings, owner, history>>
      BY <1>4, <2>2 DEF Steal, Stealing, Enter, Again, LoadTop, LoadBottom, LoadCell, StealCas,
                        Leave, indices, history
    <3>2. Content' = Content
      BY <3>1 DEF Content, Low, Past, Cell, Active, indices, owner
    <3> QED
      BY <3>1, <3>2 DEF history
  <2> QED
    BY <2>1, <2>2
<1>5. CASE UNCHANGED vars
  <2>1. UNCHANGED <<indices, rings, owner, history>>
    BY <1>5 DEF vars
  <2>2. Content' = Content
    BY <2>1 DEF Content, Low, Past, Cell, Active, indices, owner
  <2> QED
    BY <2>1, <2>2 DEF history
<1>6. CASE Push \/ Pushing \/ Pop \/ Popping \/ Rebasing
  <2>1. PopTop => Calm \/ top < ob
    BY Numbers DEF Calm
  <2> QED
    BY <1>1, <1>2, <1>3, <1>6, <2>1 DEF Calm, Pushing, Popping, Rebasing
<1> QED
  BY <1>4, <1>5, <1>6 DEF Next

(* R-066, R-067, R-068: the deque is linearizable.  Every push, pop and    *)
(* steal takes effect at one step of push(), pop() or steal(), in the way  *)
(* of a double-ended queue; growth, rebase and lost races are not seen.    *)
THEOREM DequeIsLinearizable == Spec => DequeSpec
<1>1. Spec => []DequeInv
  BY InitDeque, DequeStep, PTL DEF Spec
<1>2. DequeInv /\ DequeInv' /\ [Next]_vars => [Promise!Next]_(Promise!vars)
  BY StepPromises
<1> QED
  BY <1>1, <1>2, InitQueue, PTL DEF Spec, DequeSpec, Promise!Spec
=============================================================================
