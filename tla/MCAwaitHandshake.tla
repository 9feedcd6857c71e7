-------------------------- MODULE MCAwaitHandshake --------------------------
(* Two completion sources and two stop sources around one arm(): every    *)
(* pair of racing calls of each kind occurs.                               *)
EXTENDS AwaitHandshake

CONSTANTS t1, t2, c1, c2, arm
MCTriggers == {t1, t2}
MCCancels == {c1, c2}
=============================================================================
