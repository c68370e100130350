-------------------------------- MODULE MCVcXn --------------------------------
(* Model-checking instance of VcXn. *)
EXTENDS VcXn, TLC

(* The callers are interchangeable: no action or invariant names one.      *)
CallerSymmetry == Permutations(Callers)
=============================================================================
