-------------------------- MODULE MCChaseLevDeque ---------------------------
(* The thieves by name; they are alike. *)
EXTENDS ChaseLevDeque, TLC

CONSTANTS p1, p2

AlikeThieves == Permutations(Thieves)

=============================================================================
