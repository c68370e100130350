--------------------------------- MODULE Ctlq ---------------------------------
(***************************************************************************)
(* What the two control queues of the mailbox have in common: struct       *)
(* idpf_ctlq_info, a ring of descriptors between the driver and the device *)
(***************************************************************************)
EXTENDS Integers, FiniteSets

CONSTANTS
  RingSize,   \* cq->ring_size (64 for the mailbox)
  None,       \* NULL
  MaxMsg      \* bound: messages in a behaviour

(* ring_size is a u16 of struct idpf_ctlq_info.                            *)
ASSUME RingSizeAssumption == RingSize \in 2 .. 65535
ASSUME NoneAssumption == None \notin Nat

VARIABLES
  next_to_clean,
  tail            \* the tail register

Slot == 0 .. RingSize - 1

(* Mutant of Inc: the wrap comes one slot late *)
IncLate(i) == IF i = RingSize THEN 0 ELSE i + 1
Inc(i) == IF i + 1 = RingSize THEN 0 ELSE i + 1

(* Distance from slot a to slot b around the ring *)
Dist(a, b) == IF b >= a THEN b - a ELSE b - a + RingSize
=============================================================================
