------------------------------ MODULE MCCtlqSend ------------------------------
(* Model-checking instance of CtlqSend. *)
EXTENDS CtlqSend

(* The senders are interchangeable: no action or invariant names one.      *)
SenderSymmetry == Permutations(Senders)
=============================================================================
