------------------------- MODULE MCOptimizationGate -------------------------
(***************************************************************************)
(* Instances of OptimizationGate: the requests are model values, and every *)
(* step treats them alike, so a run without liveness may permute them.     *)
(***************************************************************************)
EXTENDS OptimizationGate

CallerSymmetry == Permutations(Requests)
=============================================================================
