------------------------------ MODULE MCRxSplitq ------------------------------
EXTENDS RxSplitq, TLC

(* Two buffer queues, of 4 KB and 2 KB, or one of 4 KB with XDP            *)
Config(b, x, c, s, p) ==
  [big |-> b, xdp |-> x, count |-> c, stride |-> s, post |-> p]
McConfigs == {Config((0 :> TRUE @@ 1 :> FALSE), FALSE, 2, 1, 1),
              Config((0 :> TRUE), TRUE, 4, 2, 2), Config((0 :> TRUE), TRUE, 4, 2, 1)}

(* 64 descriptors, the fewest that idpf_set_ringparam takes: the buffer    *)
(* queues have 32 each, which is one stride.                               *)
McFewest == {Config((0 :> TRUE @@ 1 :> FALSE), FALSE, 2, 2, 1)}
Kind(h, p, e, b) == [hdr |-> h, pkt |-> p, eop |-> e, bad |-> b]
McKinds == {Kind(FALSE, TRUE, FALSE, FALSE), Kind(FALSE, TRUE, TRUE, FALSE),
            Kind(TRUE, TRUE, TRUE, FALSE), Kind(TRUE, FALSE, TRUE, FALSE),
            Kind(FALSE, TRUE, TRUE, TRUE)}
=============================================================================
