----------------------------- MODULE MCTxTstamp -----------------------------
(***************************************************************************)
(* TxTstamp with bounds for TLC.  Latches and clock meet only where a      *)
(* value is extended, so one budget has several packets and failures while *)
(* the clock stands still, the other one packet while it runs and is set.  *)
(***************************************************************************)
EXTENDS TxTstamp

McBudgets == {[time |-> 0, pkts |-> 3, sets |-> 0, faults |-> 1],
              [time |-> 4, pkts |-> 1, sets |-> 1, faults |-> 0]}
==============================================================================
