-------------------------- MODULE MCInterpretation --------------------------
(***************************************************************************)
(* Instances of Interpretation; requests are interchangeable model values. *)
(***************************************************************************)
EXTENDS Interpretation, TLC

RequestSymmetry == Permutations(Requests)
=============================================================================
