---------------------------- MODULE MCTaskAwait ----------------------------
(* Small programs for the task and await protocol. *)
EXTENDS TaskAwait

CONSTANTS w1, w2, c1, z1, tx, ty, tz, ta, tb

O(op, of) == [op |-> op, of |-> of]
Run(ts, out) == [body |-> [t \in ts |-> <<>>], outside |-> out]

(* a awaits the callable x and then sleeps; b awaits a.                    *)
MixedRun == [Run({tx, ta, tb}, {c1, z1}) EXCEPT
  !.body[ta] = <<O("await", tx), O("sleep", None)>>,
  !.body[tb] = <<O("await", ta)>>]

(* y and z wait for x on workers, which help each other's callers and run  *)
(* out of depth; a awaits z, which may so have failed; y gives a some time *)
(* and then cancels it.                                                    *)
HelpRun == [Run({tx, ty, tz, ta}, {}) EXCEPT
  !.body[ta] = <<O("await", tz), O("yield", None), O("sleep", None)>>,
  !.body[tz] = <<O("get", tx)>>,
  !.body[ty] = <<O("wait", tx), O("wait_for", ta), O("cancel", ta)>>]

(* Tasks that wait for and await themselves, one unless it is cancelled.   *)
SelfRun == [Run({tx, ta}, {c1}) EXCEPT
  !.body[tx] = <<O("wait", tx)>>,
  !.body[ta] = <<O("point", None), O("await", ta)>>]

Protocol == {MixedRun, HelpRun, SelfRun}

(* Two coroutines await one task. *)
TwoWaiters == {[Run({tx, ta, tb}, {}) EXCEPT !.body[ta] = <<O("await", tx)>>,
                                             !.body[tb] = <<O("await", tx)>>]}

(* y waits for a, which awaits x. *)
Chain == {[Run({tx, ty, ta}, {}) EXCEPT !.body[ta] = <<O("await", tx)>>,
                                        !.body[ty] = <<O("wait", ta)>>]}

(* a awaits x while somebody calls shutdown_now(). *)
Closed == {[Run({tx, ta}, {z1}) EXCEPT !.body[ta] = <<O("await", tx)>>]}

(* y waits for a, which sleeps. *)
Sleeper(out) == [Run({ty, ta}, out) EXCEPT !.body[ta] = <<O("sleep", None)>>,
                                           !.body[ty] = <<O("wait", ta)>>]
WaitSleeper == {Sleeper({})}
CancelSleeper == {Sleeper({c1, z1})}

AnyCancels == [c \in Cancellers |-> ta]
=============================================================================
