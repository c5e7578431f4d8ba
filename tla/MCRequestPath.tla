---------------------------- MODULE MCRequestPath ----------------------------
(***************************************************************************)
(* Instances of RequestPath; requests are interchangeable model values.    *)
(***************************************************************************)
EXTENDS RequestPath

RequestSymmetry == Permutations(Requests)
=============================================================================
