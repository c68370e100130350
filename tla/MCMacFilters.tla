----------------------------- MODULE MCMacFilters -----------------------------
(* MacFilters for TLC: addresses other than the first are interchangeable. *)
EXTENDS MacFilters, TLC

Symmetry == Permutations(Macs \ {Addr0})
===============================================================================
