-------------------------- MODULE MCCredentialPool --------------------------
(***************************************************************************)
(* Instances of the credential pool.  The tasks are interchangeable; the   *)
(* credentials are not, they are the positions the cursor moves over.      *)
(***************************************************************************)
EXTENDS CredentialPoolHistory, TLC

TaskSymmetry == Permutations(Tasks)
=============================================================================
