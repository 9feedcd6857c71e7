--------------------------- MODULE ChaseLevDeque ----------------------------
(***************************************************************************)
(* The work-stealing deque of one worker and one priority band             *)
(* (src/src/scheduling/chase_lev_deque.hpp, ChaseLevDeque).                *)
(*                                                                         *)
(* One step per access to a shared atomic.  Only the owner writes bottom,  *)
(* the rings and maintenance, so what it reads of them goes with the step  *)
(* before.  Accesses are interleaved; of the weaker orders only the choice *)
(* of the ring is modelled: a thief may still see any ring that was the    *)
(* active one since it read bottom.                                        *)
(***************************************************************************)
EXTENDS Naturals, FiniteSets, Sequences, SequencesExt

CONSTANTS
  Thieves,
  Items,            \* how many items the owner offers
  InitialCapacity,  \* a power of two
  Rings,            \* allocating a ring beyond these fails
  HighWatermark     \* kDefaultRebaseHighWatermark (2^58)

ASSUME DequeAssumption ==
  /\ IsFiniteSet(Thieves) /\ {Items, Rings, HighWatermark} \subseteq Nat \ {0}
  /\ \E k \in 1 .. HighWatermark : InitialCapacity = 2^k
  /\ InitialCapacity * 2^(Rings - 1) <= HighWatermark

VARIABLES
  top, bottom,
  rings,         \* history_buffers_; the last one is active_buffer_
  maintenance,
  activeThieves,
  opc, ob, ot,   \* the owner: its place, b and t
  pushing,       \* it rebases on behalf of push()
  pc, tt, ring, item,      \* a thief: its place, t, the ring and the item it read
  offered, popped, stolen  \* history: pushes that have returned, items taken

indices == <<top, bottom>>
gate == <<maintenance, activeThieves>>
owner == <<opc, ob, ot, pushing>>
thief == <<pc, tt, ring, item>>
history == <<offered, popped, stolen>>
vars == <<indices, rings, gate, owner, thief, history>>

Capacity(r) == InitialCapacity * 2^(r - 1)
Active == Len(rings)

(* The same in terms of doubling: no prover here unfolds an exponent.      *)
ASSUME CapacityAssumption ==
  \A r \in 1 .. Rings : /\ Capacity(r) \in 1 .. HighWatermark
                        /\ r < Rings => Capacity(r + 1) = 2 * Capacity(r)

(* load_cell(): & (capacity - 1), and capacity is a power of two.  A cell  *)
(* in which nothing has been stored holds 0.                               *)
Cell(r, i) == rings[r][i % Capacity(r)]

Init ==
  /\ top = 0 /\ bottom = 0
  /\ rings = <<[c \in 0 .. InitialCapacity - 1 |-> 0]>>
  /\ maintenance = FALSE /\ activeThieves = 0
  /\ opc = "idle" /\ ob = 0 /\ ot = 0 /\ pushing = FALSE
  /\ pc = [p \in Thieves |-> "idle"] /\ tt = [p \in Thieves |-> 0]
  /\ ring = [p \in Thieves |-> 1] /\ item = [p \in Thieves |-> 0]
  /\ offered = 0 /\ popped = {} /\ stolen = {}

(* The owner's locals end with the call. *)
Return == opc' = "idle" /\ ob' = 0 /\ ot' = 0 /\ pushing' = FALSE
Refuse == Return /\ offered' = offered + 1
-----------------------------------------------------------------------------
(* push()                                                                  *)

High == bottom >= HighWatermark \/ top >= HighWatermark

(* The first loads.  At the high watermark the indices are rebased first.  *)
Push ==
  /\ opc = "idle" /\ offered < Items
  /\ ob' = bottom /\ ot' = top /\ pushing' = TRUE
  /\ opc' = IF High THEN "check" ELSE "fit"
  /\ UNCHANGED <<indices, rings, gate, thief, history>>

Reload ==
  /\ opc = "reload"
  /\ ob' = bottom /\ ot' = top /\ opc' = "fit"
  /\ UNCHANGED <<indices, rings, gate, pushing, thief, history>>

(* grow(): the live items, copied into a ring of twice the capacity.       *)
Grown ==
  LET new == Capacity(Active + 1)
      At(c) == {i \in ot .. ob - 1 : i % new = c}
  IN [c \in 0 .. new - 1 |-> IF At(c) = {} THEN 0 ELSE Cell(Active, CHOOSE i \in At(c) : TRUE)]

(* One cell always stays free.  A ring that is replaced is kept.           *)
Fit ==
  /\ opc = "fit"
  /\ \/ /\ ob >= ot /\ ob - ot < Capacity(Active) - 1
        /\ opc' = "store" /\ UNCHANGED <<rings, ob, ot, pushing, offered>>
     \/ /\ ob >= ot /\ ob - ot >= Capacity(Active) - 1 /\ Active < Rings
        /\ rings' = Append(rings, Grown)
        /\ opc' = "store" /\ UNCHANGED <<ob, ot, pushing, offered>>
     \/ /\ ob < ot \/ ob - ot >= Capacity(Active) - 1
        /\ Refuse /\ UNCHANGED rings
  /\ UNCHANGED <<indices, gate, thief, popped, stolen>>

Store ==
  /\ opc = "store"
  /\ rings' = [rings EXCEPT ![Active][ob % Capacity(Active)] = offered + 1]
  /\ opc' = "publish"
  /\ UNCHANGED <<indices, gate, ob, ot, pushing, thief, history>>

Publish ==
  /\ opc = "publish"
  /\ bottom' = ob + 1 /\ offered' = offered + 1
  /\ Return
  /\ UNCHANGED <<top, rings, gate, thief, popped, stolen>>
-----------------------------------------------------------------------------
(* pop()                                                                   *)

Pop ==
  /\ opc = "idle"
  /\ \/ bottom = 0 /\ opc' = "check" /\ UNCHANGED <<bottom, ob>>
     \/ bottom > 0 /\ bottom' = bottom - 1 /\ ob' = bottom - 1 /\ opc' = "poptop"
  /\ UNCHANGED <<top, rings, gate, ot, pushing, thief, history>>

MutantPopTop ==
  /\ opc = "poptop"
  /\ \/ top <= ob /\ popped' = popped \cup {Cell(Active, ob)} /\ Return
     \/ top > ob /\ opc' = "lost" /\ UNCHANGED <<ob, ot, pushing, popped>>
  /\ UNCHANGED <<indices, rings, gate, thief, offered, stolen>>

(* With more than one item left no thief gets at the last one.             *)
PopTop ==
  /\ opc = "poptop"
  /\ \/ top < ob /\ popped' = popped \cup {Cell(Active, ob)} /\ Return
     \/ top = ob /\ opc' = "popcas" /\ UNCHANGED <<ob, ot, pushing, popped>>
     \/ top > ob /\ opc' = "lost" /\ UNCHANGED <<ob, ot, pushing, popped>>
  /\ UNCHANGED <<indices, rings, gate, thief, offered, stolen>>

PopCas ==
  /\ opc = "popcas"
  /\ \/ top = ob /\ top' = ob + 1 /\ popped' = popped \cup {Cell(Active, ob)} /\ opc' = "won"
     \/ top # ob /\ opc' = "lost" /\ UNCHANGED <<top, popped>>
  /\ UNCHANGED <<bottom, rings, gate, ob, ot, pushing, thief, offered, stolen>>

(* bottom is put back; an empty deque is rebased when it is high.          *)
Restore ==
  /\ opc \in {"won", "lost"}
  /\ bottom' = ob + 1
  /\ IF opc = "won" THEN Return ELSE opc' = "check" /\ UNCHANGED <<ob, ot, pushing>>
  /\ UNCHANGED <<top, rings, gate, thief, history>>
-----------------------------------------------------------------------------
(* maybe_quiescent_rebase()                                                *)

Check ==
  /\ opc = "check"
  /\ \/ High /\ maintenance' = TRUE /\ opc' = "quiesce" /\ UNCHANGED <<ob, ot, pushing, offered>>
     \/ ~High /\ pushing /\ Refuse /\ UNCHANGED maintenance
     \/ ~High /\ ~pushing /\ Return /\ UNCHANGED <<maintenance, offered>>
  /\ UNCHANGED <<indices, rings, activeThieves, thief, popped, stolen>>

Quiesce ==
  /\ opc = "quiesce" /\ activeThieves = 0
  /\ opc' = "move"
  /\ UNCHANGED <<indices, rings, gate, ob, ot, pushing, thief, history>>

(* The live items are read into a snapshot, whose allocation may fail, and *)
(* stored again from cell 0.  No thief is inside, so it is one step.       *)
Move ==
  /\ opc = "move"
  /\ \/ /\ bottom >= top
        /\ rings' = [rings EXCEPT ![Active] =
             [c \in DOMAIN @ |-> IF c < bottom - top THEN Cell(Active, top + c) ELSE @[c]]]
        /\ ob' = bottom - top /\ opc' = "top"
     \/ bottom # top /\ opc' = "abandon" /\ UNCHANGED <<rings, ob>>
  /\ UNCHANGED <<indices, gate, ot, pushing, thief, history>>

ResetTop ==
  /\ opc = "top"
  /\ top' = 0 /\ opc' = "bottom"
  /\ UNCHANGED <<bottom, rings, gate, ob, ot, pushing, thief, history>>

ResetBottom ==
  /\ opc = "bottom"
  /\ bottom' = ob /\ opc' = "reopen"
  /\ UNCHANGED <<top, rings, gate, ob, ot, pushing, thief, history>>

Reopen ==
  /\ opc = "reopen"
  /\ maintenance' = FALSE
  /\ IF pushing THEN opc' = "reload" /\ UNCHANGED <<ob, ot, pushing>> ELSE Return
  /\ UNCHANGED <<indices, rings, activeThieves, thief, history>>

(* What push() did before it looked at the result of the rebase. *)
Abandon ==
  /\ opc = "abandon"
  /\ maintenance' = FALSE
  /\ IF pushing THEN Refuse ELSE Return /\ UNCHANGED offered
  /\ UNCHANGED <<indices, rings, activeThieves, thief, popped, stolen>>
-----------------------------------------------------------------------------
(* steal()                                                                 *)

Go(p, place) == pc' = [pc EXCEPT ![p] = place]

(* The thief's locals end with the attempt. *)
Quit(p) ==
  /\ Go(p, "leave")
  /\ tt' = [tt EXCEPT ![p] = 0] /\ ring' = [ring EXCEPT ![p] = 1]
  /\ item' = [item EXCEPT ![p] = 0]

(* The first look at maintenance. *)
Steal(p) ==
  /\ pc[p] = "idle" /\ ~maintenance
  /\ Go(p, "enter")
  /\ UNCHANGED <<indices, rings, gate, owner, tt, ring, item, history>>

Enter(p) ==
  /\ pc[p] = "enter"
  /\ activeThieves' = activeThieves + 1
  /\ Go(p, "again")
  /\ UNCHANGED <<indices, rings, maintenance, owner, tt, ring, item, history>>

MutantAgain(p) ==
  /\ pc[p] = "again"
  /\ Go(p, "top")
  /\ UNCHANGED <<indices, rings, gate, owner, tt, ring, item, history>>

(* The second look. *)
Again(p) ==
  /\ pc[p] = "again"
  /\ Go(p, IF maintenance THEN "leave" ELSE "top")
  /\ UNCHANGED <<indices, rings, gate, owner, tt, ring, item, history>>

LoadTop(p) ==
  /\ pc[p] = "top"
  /\ tt' = [tt EXCEPT ![p] = top]
  /\ Go(p, "bottom")
  /\ UNCHANGED <<indices, rings, gate, owner, ring, item, history>>

LoadBottom(p) ==
  /\ pc[p] = "bottom"
  /\ \/ /\ tt[p] < bottom
        /\ ring' = [ring EXCEPT ![p] = Active]
        /\ Go(p, "cell")
        /\ UNCHANGED <<tt, item>>
     \/ tt[p] >= bottom /\ Quit(p)
  /\ UNCHANGED <<indices, rings, gate, owner, history>>

(* A ring that is no longer active does not change, so it makes no         *)
(* difference when the thief has read which one to look at.                *)
LoadCell(p) ==
  /\ pc[p] = "cell"
  /\ \E r \in ring[p] .. Active : item' = [item EXCEPT ![p] = Cell(r, tt[p])]
  /\ Go(p, "cas")
  /\ UNCHANGED <<indices, rings, gate, owner, tt, ring, history>>

StealCas(p) ==
  /\ pc[p] = "cas"
  /\ \/ top = tt[p] /\ top' = top + 1 /\ stolen' = stolen \cup {item[p]}
     \/ top # tt[p] /\ UNCHANGED <<top, stolen>>
  /\ Quit(p)
  /\ UNCHANGED <<bottom, rings, gate, owner, offered, popped>>

Leave(p) ==
  /\ pc[p] = "leave"
  /\ activeThieves' = activeThieves - 1
  /\ Go(p, "idle")
  /\ UNCHANGED <<indices, rings, maintenance, owner, tt, ring, item, history>>
-----------------------------------------------------------------------------
Pushing == Reload \/ Fit \/ Store \/ Publish
Popping == PopTop \/ PopCas \/ Restore
Rebasing == Check \/ Quiesce \/ Move \/ ResetTop \/ ResetBottom \/ Reopen \/ Abandon
Stealing(p) == Enter(p) \/ Again(p) \/ LoadTop(p) \/ LoadBottom(p)
               \/ LoadCell(p) \/ StealCas(p) \/ Leave(p)

Next == Push \/ Pushing \/ Pop \/ Popping \/ Rebasing
        \/ \E p \in Thieves : Steal(p) \/ Stealing(p)

Spec == Init /\ [][Next]_vars

(* A call once begun goes on; nobody has to call. *)
FairSpec == /\ Spec /\ WF_vars(Pushing \/ Popping \/ Rebasing)
            /\ \A p \in Thieves : WF_vars(Stealing(p))
-----------------------------------------------------------------------------
TypeOK ==
  /\ {top, bottom} \subseteq 0 .. HighWatermark
  /\ Active \in 1 .. Rings
  /\ \A r \in 1 .. Active : rings[r] \in [0 .. Capacity(r) - 1 -> 0 .. Items]
  /\ {maintenance, pushing} \subseteq BOOLEAN
  /\ activeThieves = Cardinality({p \in Thieves : pc[p] \notin {"idle", "enter"}})
  /\ opc \in {"idle", "fit", "store", "publish", "reload", "poptop", "popcas", "won", "lost",
              "check", "quiesce", "move", "top", "bottom", "reopen", "abandon"}
  /\ {ob, ot} \subseteq 0 .. HighWatermark
  /\ pc \in [Thieves -> {"idle", "enter", "again", "top", "bottom", "cell", "cas", "leave"}]
  /\ tt \in [Thieves -> 0 .. HighWatermark] /\ ring \in [Thieves -> 1 .. Rings]
  /\ item \in [Thieves -> 0 .. Items]
  /\ offered \in 0 .. Items /\ {popped, stolen} \subseteq SUBSET (1 .. Items)

(* The items in the deque, oldest first: while the owner holds bottom down *)
(* the last one is still there, and while it rebases they begin at cell 0. *)
Low == IF opc \in {"top", "bottom"} THEN 0 ELSE top
Past == CASE opc \in {"top", "bottom"} -> ob
          [] opc \in {"poptop", "popcas", "won", "lost"} -> ob + 1
          [] OTHER -> bottom
Content == [k \in 1 .. Past - Low |-> Cell(Active, Low + k - 1)]

(* R-066, R-068: every push, pop and steal takes effect at one step, in    *)
(* the way of a double-ended queue; growth and rebase are not seen.        *)
Promise == INSTANCE WorkDeque WITH queue <- Content
DequeSpec == Promise!Spec

(* R-066, R-067: whatever ring a thief has read, and however old its top   *)
(* is, if its compare-and-swap is going to succeed then it holds the       *)
(* oldest item.                                                            *)
WinnerHoldsHead ==
  \A p \in Thieves : pc[p] = "cas" /\ tt[p] = top =>
    Content # <<>> /\ item[p] = Head(Content)

(* R-068, D-101: nobody is past the gate while the owner moves items.      *)
Excluded ==
  opc \in {"move", "top", "bottom", "reopen", "abandon"} =>
    \A p \in Thieves : pc[p] \in {"idle", "enter", "again", "leave"}

(* The types, the head of the deque, and the gate. *)
Inv == TypeOK /\ WinnerHoldsHead /\ Excluded

(* R-068: maintenance ends, however many thieves come and go. *)
RebaseEnds == maintenance ~> ~maintenance
=============================================================================
