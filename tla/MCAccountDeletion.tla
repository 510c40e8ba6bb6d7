------------------------- MODULE MCAccountDeletion --------------------------
EXTENDS AccountDeletion, TLC

CONSTANTS j1, j2, x1, x2, o1, o2, before, after

(* Objects and executors are alike; requests are, too, but withdrawing one  *)
(* and asking again is what the second is there for.                        *)
Symmetry == Permutations(Executors) \cup Permutations(Objects) \cup Permutations(Jobs)
=============================================================================
