------------------------------ MODULE MCTxSplitq ------------------------------
(* Model-checking instance of TxSplitq: packets of one buffer that takes    *)
(* three descriptors and of two buffers of one each, which fill the ring.  *)
EXTENDS TxSplitq

McMixed == {<<3>>, <<1, 1>>}
=============================================================================
