--------------------------- MODULE MCAutoCupFlow ---------------------------
(* Small instances of AutoCupFlow.  Run ids and orders are only compared,  *)
(* so their names do not matter.                                           *)
EXTENDS AutoCupFlow, TLC
Symmetry == Permutations(RunIds) \cup Permutations(Orders)
=============================================================================
