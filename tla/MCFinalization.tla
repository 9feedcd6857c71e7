--------------------------- MODULE MCFinalization ---------------------------
(* Who takes part: one runtime with two workers under two finalizers or, where *)
(* liveness is checked, under one; one runtime with one worker under two       *)
(* finalizers; and two runtimes with one worker each under one finalizer.      *)
EXTENDS Finalization

CONSTANTS r1, r2, w1, w2, f1, f2

Cast(rs, ws, fs, es) ==
  [runtimes |-> rs, workers |-> ws, finalizers |-> fs,
   ends |-> [r \in Runtimes |-> IF r = r1 THEN es ELSE {}]]

Ends == {"attach", "fail", "shutdown", "drop"}
Alone == Cast({r1}, {w1, w2}, {f1, f2}, Ends)
Calm == Cast({r1}, {w1, w2}, {f1}, Ends)
Race == Cast({r1}, {w1}, {f1, f2}, {"drop"})
Pair == Cast({r1, r2}, {w1}, {f1}, {})
MCCasts == {Calm, Race, Pair}
JustOne == {Alone}
=============================================================================
