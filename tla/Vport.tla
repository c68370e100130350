-------------------------------- MODULE Vport --------------------------------
(***************************************************************************)
(* One vport going up and down: idpf_vport_open, idpf_vport_stop and       *)
(* idpf_initiate_soft_reset, which calls both (idpf_lib.c), the queue and  *)
(* vector memory they allocate and release, the device state behind their  *)
(* virtchnl messages, the software markers that tell when the Tx queues    *)
(* have drained, and link events.                                          *)
(*                                                                         *)
(* The control thread holds vport_ctrl_lock for the whole of a command and *)
(* is the only one to take the steps labelled in `pc'.  Beside it run NAPI *)
(* (Marker), the mailbox task (LinkEvent, LinkCarrier) and the device      *)
(* (LinkChange, CoreReset).  A message is one step: it is executed and     *)
(* answered, not executed, or executed and its answer given up on; the     *)
(* mailbox is first in first out, so nothing is executed after the next    *)
(* message.  MAC filters are in MacFilters, the transactions in VcXn.      *)
(***************************************************************************)
EXTENDS Naturals, FiniteSets, Sequences

CONSTANTS
  MaxQ,      \* Tx queues that may be asked for
  MaxCmd,    \* commands given
  MaxFault,  \* allocations and messages that fail
  MaxLink,   \* link events on their way
  CoreResets \* {TRUE} or {}: whether the device may be reset under us

ASSUME MaxQAssumption == MaxQ \in Nat \ {0}
ASSUME BoundsAssumption ==
  /\ MaxCmd \in Nat /\ MaxFault \in Nat /\ MaxLink \in Nat
  /\ CoreResets \subseteq {TRUE}

(* The blocks that the pointers of the vport structure lead to: q_vectors, *)
(* txq_grps, rxq_grps and the array txqs.                                  *)
Blocks == {"q_vectors", "txq_grps", "rxq_grps", "txqs"}
Queues == 1 .. MaxQ

VARIABLES
  pc,      \* what the control thread does next
  fn,      \* "open" or "stop": the function the shared steps belong to
  soft,    \* the soft reset under way
  iff,     \* IFF_UP: the stack holds the interface open
  up,      \* IDPF_VPORT_UP
  carrier, \* netif_carrier_ok
  vport,   \* the part of struct idpf_vport that a soft reset copies
  heap,    \* blocks allocated and not freed, of each kind
  napi,    \* "none", "added" or "on"
  bits,    \* queues with __IDPF_Q_SW_MARKER set
  idx,     \* the index i of the loop that sets them
  dev,     \* what the device holds for the vport
  marks,   \* markers the device writes, not handled yet
  devLink, \* the link as the device sees it
  events,  \* link events on their way
  epc,     \* "idle" or "carrier": the mailbox task in idpf_handle_event_link
  corer,   \* IDPF_CORER_IN_PROG
  cmds, faults,   \* counted against their bounds
  twice,   \* history: a pointer to freed memory was freed
  slips,   \* history: what kept the driver from knowing, see the properties
  trouble  \* history: what went wrong in the soft reset under way

ctlVars  == <<pc, fn, soft, iff, cmds, idx>>
netVars  == <<up, carrier>>
memVars  == <<vport, heap, twice>>
linkVars == <<devLink, events, epc>>
vars == <<ctlVars, netVars, memVars, napi, bits, dev, marks, linkVars, corer,
          faults, slips, trouble>>

NoPtr == [b \in Blocks |-> "null"]
NoDev == [num |-> 0, cfg |-> FALSE, map |-> FALSE, qena |-> FALSE,
          vena |-> FALSE, mem |-> "none"]
NoSoft == [on |-> FALSE, wasUp |-> FALSE, old |-> 0, clone |-> <<>>]

Init ==
  /\ pc = "idle" /\ fn = "stop" /\ soft = NoSoft /\ iff = FALSE
  /\ up = FALSE /\ carrier = FALSE
  /\ vport = [ptr |-> NoPtr, num |-> 1, ntxq |-> 0, link |-> FALSE,
              swm |-> FALSE, delq |-> FALSE]
  /\ heap = [b \in Blocks |-> 0]
  /\ napi = "none" /\ bits = {} /\ idx = 0
  /\ dev = [NoDev EXCEPT !.num = 1]
  /\ marks = {}
  /\ devLink = FALSE /\ events = <<>> /\ epc = "idle"
  /\ corer = FALSE
  /\ cmds = 0 /\ faults = 0
  /\ twice = FALSE /\ slips = {} /\ trouble = {}

--------------------------------------------------------------------------------
(* Faults and messages *)

(* Something fails, within the bound *)
Fault(what) ==
  /\ faults < MaxFault
  /\ faults' = faults + 1
  /\ trouble' = IF soft.on THEN trouble \cup {what} ELSE trouble

NoFault == UNCHANGED <<faults, trouble>>

(* After a core reset the transactions are shut down: every message fails. *)
(* So does what the device is asked to do with queues it has not granted.  *)
(* An answer is received by the mailbox task, once it is done with events. *)
Hopeless ==
  \/ corer
  \/ /\ pc \in {"o_txcfg", "o_rxcfg", "o_map", "o_qena"}
     /\ dev.num # vport.num

Outcomes ==
  IF Hopeless THEN {"failed"}
  ELSE {"failed", "late"} \cup (IF epc = "idle" THEN {"ok"} ELSE {})

(* idpf_vc_xn_exec seen from its callers: d is the device after executing  *)
(* the message.                                                            *)
Msg(o, d) ==
  /\ o \in Outcomes
  /\ dev' = IF o = "failed" THEN dev ELSE d
  /\ IF o = "ok" \/ Hopeless THEN NoFault
     ELSE Fault(IF pc = "sr_add" /\ o = "failed" THEN "refused" ELSE "other")

--------------------------------------------------------------------------------
(* Memory.  A pointer is null, live, or stale: its block was freed.        *)

Spoil(p, bs) == [b \in Blocks |-> IF b \in bs /\ p[b] = "live" THEN "stale"
                                  ELSE p[b]]

(* kcalloc of all the blocks bs, then kfree of all of fs: what is written  *)
(* over is lost, kfree of NULL does nothing.                               *)
AllocFree(bs, fs) ==
  LET p == [b \in Blocks |-> IF b \in bs THEN "live" ELSE vport.ptr[b]]
      gone == {b \in fs : p[b] = "live"}
  IN /\ vport' = [vport EXCEPT
                     !.ptr  = [b \in Blocks |-> IF b \in fs THEN "null" ELSE p[b]],
                     !.ntxq = IF "txqs" \in bs \ fs THEN vport.num ELSE @]
     /\ heap' = [b \in Blocks |->
                   (heap[b] + IF b \in bs THEN 1 ELSE 0)
                     - (IF b \in gone THEN 1 ELSE 0)]
     /\ twice' = (twice \/ \E b \in fs : p[b] = "stale")
     /\ soft' = IF soft.on
                THEN [soft EXCEPT !.clone.ptr = Spoil(@, gone)] ELSE soft

QueueBlocks == {"txq_grps", "rxq_grps", "txqs"}

--------------------------------------------------------------------------------
(* The commands *)

Idle == pc = "idle" /\ cmds < MaxCmd

(* idpf_open: ndo_open, called while the interface is closed *)
Open ==
  /\ Idle /\ ~ iff /\ ~ corer
  /\ pc' = "o_intr" /\ fn' = "open" /\ cmds' = cmds + 1
  /\ carrier' = FALSE
  /\ UNCHANGED <<idx, soft, iff, up, memVars, napi, bits, dev, marks, linkVars,
                 corer, faults, slips, trouble>>

(* idpf_stop: ndo_stop, or the stop that a hard reset begins with *)
Stop ==
  /\ Idle /\ iff
  /\ pc' = "s_clear" /\ fn' = "stop" /\ iff' = FALSE /\ cmds' = cmds + 1
  /\ UNCHANGED <<idx, soft, netVars, memVars, napi, bits, dev, marks, linkVars,
                 corer, faults, slips, trouble>>

(* idpf_initiate_soft_reset up to the stop: the clone is made, with the    *)
(* queues asked for, before anything else.                                 *)
SoftReset(n) ==
  /\ Idle /\ ~ corer
  /\ cmds' = cmds + 1
  /\ soft' = [on |-> TRUE, wasUp |-> up, old |-> vport.num,
              clone |-> [vport EXCEPT !.num = n]]
  /\ trouble' = {}
  /\ pc' = IF up THEN "s_clear" ELSE "sr_del"
  /\ fn' = "stop"
  /\ vport' = [vport EXCEPT !.delq = up]
  /\ UNCHANGED <<idx, iff, netVars, heap, twice, napi, bits, dev, marks, linkVars,
                 corer, faults, slips>>

(* The command, or the function called by the soft reset, is over.         *)
Return(err) ==
  \/ ~ soft.on /\ pc' = "idle" /\ iff' = (fn = "open" /\ ~ err)
  \/ soft.on /\ fn = "stop" /\ pc' = "sr_add" /\ UNCHANGED iff
  \/ soft.on /\ fn = "open" /\ pc' = "sr_end" /\ UNCHANGED iff

--------------------------------------------------------------------------------
(* idpf_vport_open *)

(* idpf_vport_intr_alloc *)
IntrAlloc ==
  /\ pc = "o_intr"
  /\ \/ /\ AllocFree({"q_vectors"}, {})
        /\ pc' = "o_queues"
        /\ NoFault
        /\ UNCHANGED <<iff, slips>>
     \/ /\ Fault("other")
        /\ AllocFree({"q_vectors"}, {"q_vectors"})
        /\ Return(TRUE)
        /\ slips' = slips \cup {"memory"}
  /\ UNCHANGED <<fn, cmds, idx, netVars, napi, bits, dev, marks, linkVars, corer>>

(* idpf_vport_queue_alloc_all: the blocks are allocated in this order; on  *)
(* a failure idpf_vport_queues_rel frees all that the pointers lead to.    *)
(* The block whose allocation fails is NULL by then; descriptor rings that *)
(* fail come between the second and the third and do what the second does. *)
(* idpf_fast_path_txq_init sets num_txq.                                   *)
AllocOrder == <<"txq_grps", "rxq_grps", "txqs">>

QueueAlloc ==
  /\ pc = "o_queues"
  /\ \/ /\ AllocFree(QueueBlocks, {})
        /\ pc' = "o_irq"
        /\ bits' = {}
        /\ NoFault
        /\ UNCHANGED slips
     \/ /\ Fault("other")
        /\ \E k \in 1 .. 3 :
             AllocFree({AllocOrder[j] : j \in 1 .. k}, QueueBlocks)
        /\ pc' = "intr_rel"
        /\ slips' = slips \cup {"memory"}
        /\ UNCHANGED bits
  /\ UNCHANGED <<fn, iff, cmds, idx, netVars, napi, dev, marks, linkVars, corer>>

(* Mutant of IntrInit: the label of the error path is one too low *)
IntrInitSkips ==
  /\ pc = "o_irq"
  /\ \/ napi' = "added" /\ pc' = "o_bufs" /\ NoFault
     \/ Fault("other") /\ pc' = "intr_rel" /\ UNCHANGED napi
  /\ UNCHANGED <<fn, soft, iff, cmds, idx, netVars, memVars, bits, dev, marks,
                 linkVars, corer, slips>>

(* idpf_vport_queue_ids_init and idpf_vport_intr_init *)
IntrInit ==
  /\ pc = "o_irq"
  /\ \/ napi' = "added" /\ pc' = "o_bufs" /\ NoFault
     \/ Fault("other") /\ pc' = "queues_rel" /\ UNCHANGED napi
  /\ UNCHANGED <<fn, soft, iff, cmds, idx, netVars, memVars, bits, dev, marks,
                 linkVars, corer, slips>>

(* idpf_queue_reg_init and idpf_rx_bufs_init_all, then idpf_vport_intr_ena *)
BufsInit ==
  /\ pc = "o_bufs"
  /\ \/ napi' = "on" /\ pc' = "o_txcfg" /\ NoFault
     \/ Fault("other") /\ pc' = "intr_deinit" /\ UNCHANGED napi
  /\ UNCHANGED <<fn, soft, iff, cmds, idx, netVars, memVars, bits, dev, marks,
                 linkVars, corer, slips>>

(* idpf_send_config_queues_msg.  First the Tx queues: the device learns    *)
(* their addresses ...                                                     *)
ConfigTxQueues ==
  /\ pc = "o_txcfg"
  /\ \E o \in Outcomes :
       /\ Msg(o, [dev EXCEPT !.mem = "live"])
       /\ pc' = IF o = "ok" THEN "o_rxcfg" ELSE "intr_deinit"
       /\ marks' = IF o = "failed" THEN marks ELSE {}
       /\ slips' = IF o = "failed" \/ dev.qena THEN slips
                   ELSE slips \ {"message"}
  /\ UNCHANGED <<fn, soft, iff, cmds, idx, netVars, memVars, napi, bits,
                 linkVars, corer>>

(* ... then the Rx queues and buffer queues.                               *)
ConfigRxQueues ==
  /\ pc = "o_rxcfg"
  /\ \E o \in Outcomes :
       /\ Msg(o, [dev EXCEPT !.cfg = TRUE])
       /\ pc' = IF o = "ok" THEN "o_map" ELSE "intr_deinit"
  /\ UNCHANGED <<fn, soft, iff, cmds, idx, netVars, memVars, napi, bits, marks,
                 linkVars, corer, slips>>

(* idpf_send_map_unmap_queue_vector_msg, map *)
MapVectors ==
  /\ pc = "o_map"
  /\ \E o \in Outcomes :
       /\ Msg(o, [dev EXCEPT !.map = TRUE])
       /\ pc' = IF o = "ok" THEN "o_qena" ELSE "intr_deinit"
  /\ UNCHANGED <<fn, soft, iff, cmds, idx, netVars, memVars, napi, bits, marks,
                 linkVars, corer, slips>>

(* Mutant of EnableQueues: its error is ignored *)
EnableQueuesIgnored ==
  /\ pc = "o_qena"
  /\ \E o \in Outcomes : Msg(o, [dev EXCEPT !.qena = TRUE])
  /\ pc' = "o_vena"
  /\ UNCHANGED <<fn, soft, iff, cmds, idx, netVars, memVars, napi, bits, marks,
                 linkVars, corer, slips>>

(* idpf_send_enable_queues_msg *)
EnableQueues ==
  /\ pc = "o_qena"
  /\ \E o \in Outcomes :
       /\ Msg(o, [dev EXCEPT !.qena = TRUE])
       /\ pc' = IF o = "ok" THEN "o_vena" ELSE "unmap"
       /\ slips' = IF o = "late" THEN slips \cup {"message"} ELSE slips
  /\ UNCHANGED <<fn, soft, iff, cmds, idx, netVars, memVars, napi, bits, marks,
                 linkVars, corer>>

(* idpf_send_enable_vport_msg *)
EnableVport ==
  /\ pc = "o_vena"
  /\ \E o \in Outcomes :
       /\ Msg(o, [dev EXCEPT !.vena = TRUE])
       /\ pc' = IF o = "ok" THEN "o_rss" ELSE "disq"
  /\ UNCHANGED <<fn, soft, iff, cmds, idx, netVars, memVars, napi, bits, marks,
                 linkVars, corer, slips>>

(* idpf_restore_features, then idpf_config_rss or idpf_init_rss: no state  *)
(* of this module but the message that may fail.                           *)
ConfigRss ==
  /\ pc = "o_rss"
  /\ \E o \in Outcomes :
       /\ Msg(o, dev)
       /\ pc' = IF o = "ok" THEN "o_link" ELSE "disv"
  /\ UNCHANGED <<fn, soft, iff, cmds, idx, netVars, memVars, napi, bits, marks,
                 linkVars, corer, slips>>

(* idpf_up_complete looks at the link ...                                  *)
UpLink ==
  /\ pc = "o_link"
  /\ carrier' = (carrier \/ vport.link)
  /\ pc' = "o_up"
  /\ UNCHANGED <<fn, soft, iff, cmds, idx, up, memVars, napi, bits, dev, marks,
                 linkVars, corer, faults, slips, trouble>>

(* ... and then says that the vport is up.                                 *)
UpComplete ==
  /\ pc = "o_up"
  /\ up' = TRUE
  /\ Return(FALSE)
  /\ UNCHANGED <<fn, soft, cmds, idx, carrier, memVars, napi, bits, dev, marks,
                 linkVars, corer, faults, slips, trouble>>

--------------------------------------------------------------------------------
(* idpf_vport_stop, and the unwinding of idpf_vport_open, which enters the *)
(* same steps at the label of what failed.                                 *)

(* test_and_clear_bit(IDPF_VPORT_UP) *)
ClearUp ==
  /\ pc = "s_clear"
  /\ up' = FALSE
  /\ IF up THEN pc' = "s_carrier" /\ UNCHANGED iff ELSE Return(FALSE)
  /\ UNCHANGED <<fn, soft, cmds, idx, carrier, memVars, napi, bits, dev, marks,
                 linkVars, corer, faults, slips, trouble>>

(* idpf_netdev_stop; in a core reset the device is not asked to disable.   *)
NetdevStop ==
  /\ pc = "s_carrier"
  /\ carrier' = FALSE
  /\ pc' = IF corer THEN "unmap" ELSE "disv"
  /\ UNCHANGED <<fn, soft, iff, cmds, idx, up, memVars, napi, bits, dev, marks,
                 linkVars, corer, faults, slips, trouble>>

(* idpf_send_disable_vport_msg, its error ignored *)
DisableVport ==
  /\ pc = "disv"
  /\ \E o \in Outcomes : Msg(o, [dev EXCEPT !.vena = FALSE])
  /\ pc' = "disq"
  /\ UNCHANGED <<fn, soft, iff, cmds, idx, netVars, memVars, napi, bits, marks,
                 linkVars, corer, slips>>

(* idpf_send_disable_queues_msg: the device writes a marker to every Tx    *)
(* queue it drains.  After an error nobody waits for them.                 *)
DisableQueues ==
  /\ pc = "disq"
  /\ \E o \in Outcomes :
       /\ Msg(o, [dev EXCEPT !.qena = FALSE])
       /\ marks' = IF o # "failed" /\ dev.qena THEN 1 .. dev.num ELSE marks
       /\ IF o = "ok"
          THEN /\ pc' = "bits"
               /\ slips' = (slips \ {"message", "marker"})
                             \cup (IF vport.swm THEN {"marker"} ELSE {})
          ELSE /\ pc' = "unmap"
               /\ slips' = slips \cup {"message"}
  /\ UNCHANGED <<fn, soft, iff, cmds, idx, netVars, memVars, napi, bits, linkVars,
                 corer>>

(* Mutant of SetBit: one queue too many *)
SetBitPast ==
  /\ pc = "bits"
  /\ idx' = IF idx <= vport.ntxq THEN idx + 1 ELSE 0
  /\ IF idx <= vport.ntxq
     THEN bits' = bits \cup {idx + 1} /\ UNCHANGED pc
     ELSE pc' = "wait" /\ UNCHANGED bits
  /\ UNCHANGED <<fn, soft, iff, cmds, netVars, memVars, napi, dev, marks,
                 linkVars, corer, faults, slips, trouble>>

(* idpf_wait_for_marker_event: NAPI polls already while the bits are set,  *)
(* one queue after the other.                                              *)
SetBit ==
  /\ pc = "bits"
  /\ idx' = IF idx < vport.ntxq THEN idx + 1 ELSE 0
  /\ IF idx < vport.ntxq
     THEN bits' = bits \cup {idx + 1} /\ UNCHANGED pc
     ELSE pc' = "wait" /\ UNCHANGED bits
  /\ UNCHANGED <<fn, soft, iff, cmds, netVars, memVars, napi, dev, marks,
                 linkVars, corer, faults, slips, trouble>>

(* test_and_clear_bit(IDPF_VPORT_SW_MARKER), or 500 ms are over *)
WaitMarkers ==
  /\ pc = "wait"
  /\ \/ /\ vport.swm
        /\ vport' = [vport EXCEPT !.swm = FALSE]
        /\ UNCHANGED slips
     \/ /\ slips' = slips \cup {"marker"}
        /\ UNCHANGED vport
  /\ pc' = "unmap"
  /\ UNCHANGED <<fn, soft, iff, cmds, idx, netVars, heap, twice, napi, bits,
                 dev, marks, linkVars, corer, faults, trouble>>

(* idpf_send_map_unmap_queue_vector_msg, unmap, its error ignored *)
UnmapVectors ==
  /\ pc = "unmap"
  /\ \E o \in Outcomes : Msg(o, [dev EXCEPT !.map = FALSE])
  /\ pc' = IF fn = "stop" THEN "delq" ELSE "intr_deinit"
  /\ UNCHANGED <<fn, soft, iff, cmds, idx, netVars, memVars, napi, bits, marks,
                 linkVars, corer, slips>>

(* test_and_clear_bit(IDPF_VPORT_DEL_QUEUES), idpf_send_delete_queues_msg, *)
(* its error ignored; deleted queues are disabled.                         *)
Deleted == [dev EXCEPT !.num = 0, !.cfg = FALSE, !.map = FALSE,
                       !.qena = FALSE, !.mem = "none"]

(* Mutant of DeleteQueues: the memory goes before NAPI is disabled *)
DeleteQueuesEarly ==
  /\ pc = "delq"
  /\ IF vport.delq
     THEN \E o \in Outcomes : Msg(o, Deleted)
     ELSE NoFault /\ UNCHANGED dev
  /\ vport' = [vport EXCEPT !.delq = FALSE]
  /\ pc' = "queues_rel"
  /\ UNCHANGED <<fn, soft, iff, cmds, idx, netVars, heap, twice, napi, bits,
                 marks, linkVars, corer, slips>>

DeleteQueues ==
  /\ pc = "delq"
  /\ IF vport.delq
     THEN \E o \in Outcomes : Msg(o, Deleted)
     ELSE NoFault /\ UNCHANGED dev
  /\ vport' = [vport EXCEPT !.delq = FALSE]
  /\ pc' = "intr_deinit"
  /\ UNCHANGED <<fn, soft, iff, cmds, idx, netVars, heap, twice, napi, bits,
                 marks, linkVars, corer, slips>>

(* idpf_vport_intr_deinit: napi_disable returns only if NAPI was enabled.  *)
IntrDeinit ==
  /\ pc = "intr_deinit"
  /\ napi = "on"
  /\ napi' = "none"
  /\ pc' = "queues_rel"
  /\ UNCHANGED <<fn, soft, iff, cmds, idx, netVars, memVars, bits, dev, marks,
                 linkVars, corer, faults, slips, trouble>>

(* idpf_vport_queues_rel *)
QueuesRel ==
  /\ pc = "queues_rel"
  /\ AllocFree({}, QueueBlocks)
  /\ dev' = IF vport.ptr["txq_grps"] = "live" /\ dev.mem = "live"
            THEN [dev EXCEPT !.mem = "stale"] ELSE dev
  /\ bits' = {}
  /\ pc' = "intr_rel"
  /\ UNCHANGED <<fn, iff, cmds, idx, netVars, napi, marks, linkVars, corer,
                 faults, slips, trouble>>

(* idpf_vport_intr_rel *)
IntrRel ==
  /\ pc = "intr_rel"
  /\ AllocFree({}, {"q_vectors"})
  /\ Return(fn = "open")
  /\ UNCHANGED <<fn, cmds, idx, netVars, napi, bits, dev, marks, linkVars,
                 corer, faults, slips, trouble>>

--------------------------------------------------------------------------------
(* idpf_initiate_soft_reset, after the stop *)

(* The vport was down: its queues are deleted here.                        *)
SoftDelete ==
  /\ pc = "sr_del"
  /\ \E o \in Outcomes : Msg(o, Deleted)
  /\ pc' = "sr_add"
  /\ UNCHANGED <<fn, soft, iff, cmds, idx, netVars, memVars, napi, bits, marks,
                 linkVars, corer, slips>>

(* memcpy(vport, new_vport): the pointers, flags and link of the time of   *)
(* the clone.                                                              *)
CopyBack ==
  /\ vport' = soft.clone
  /\ slips' = IF vport.link # soft.clone.link THEN slips \cup {"link"}
              ELSE slips

(* idpf_send_add_queues_msg for the new queues *)
SoftAdd ==
  /\ pc = "sr_add"
  /\ \E o \in Outcomes :
       /\ Msg(o, [dev EXCEPT !.num = soft.clone.num])
       /\ IF o = "ok" THEN CopyBack /\ pc' = "sr_real"
          ELSE UNCHANGED <<vport, slips>> /\ pc' = "sr_old"
  /\ UNCHANGED <<fn, soft, iff, cmds, idx, netVars, heap, twice, napi, bits,
                 marks, linkVars, corer>>

(* idpf_vport_open is called if the vport was up.                          *)
Reopen ==
  IF soft.wasUp
  THEN pc' = "o_intr" /\ fn' = "open" /\ carrier' = FALSE
  ELSE pc' = "sr_end" /\ UNCHANGED <<fn, carrier>>

(* Mutant of SoftReal: an error releases what the clone points to *)
SoftRealReleases ==
  /\ pc = "sr_real"
  /\ \/ NoFault /\ Reopen
     \/ /\ Fault("other")
        /\ pc' = "queues_rel" /\ fn' = "open"
        /\ UNCHANGED carrier
  /\ UNCHANGED <<soft, iff, cmds, idx, up, memVars, napi, bits, dev, marks,
                 linkVars, corer, slips>>

(* idpf_set_real_num_queues: after an error the vport is opened as well.   *)
SoftReal ==
  /\ pc = "sr_real"
  /\ NoFault \/ Fault("other")
  /\ Reopen
  /\ UNCHANGED <<soft, iff, cmds, idx, up, memVars, napi, bits, dev, marks,
                 linkVars, corer, slips>>

(* Mutant of SoftOld: the vport is not opened again *)
SoftOldDown ==
  /\ pc = "sr_old"
  /\ \E o \in Outcomes : Msg(o, [dev EXCEPT !.num = vport.num])
  /\ pc' = "sr_end"
  /\ UNCHANGED <<fn, carrier, soft, iff, cmds, idx, up, memVars, napi, bits,
                 marks, linkVars, corer, slips>>

(* err_reset: the old queues are asked for; without them nothing is opened *)
SoftOld ==
  /\ pc = "sr_old"
  /\ \E o \in Outcomes :
       /\ Msg(o, [dev EXCEPT !.num = vport.num])
       /\ IF o = "ok" THEN Reopen ELSE pc' = "sr_end" /\ UNCHANGED <<fn, carrier>>
  /\ UNCHANGED <<soft, iff, cmds, idx, up, memVars, napi, bits, marks,
                 linkVars, corer, slips>>

(* free_vport: the clone is freed.                                         *)
SoftEnd ==
  /\ pc = "sr_end"
  /\ pc' = "idle"
  /\ soft' = NoSoft
  /\ fn' = "stop"
  /\ UNCHANGED <<iff, cmds, idx, netVars, memVars, napi, bits, dev, marks,
                 linkVars, corer, faults, slips, trouble>>

--------------------------------------------------------------------------------
(* Beside the control thread *)

(* Mutant of Marker: the first marker ends the wait *)
MarkerFirst(q) ==
  /\ napi = "on" /\ q \in marks
  /\ marks' = marks \ {q}
  /\ bits' = bits \ {q}
  /\ vport' = [vport EXCEPT !.swm = TRUE]
  /\ slips' = IF pc = "wait" THEN slips ELSE slips \cup {"marker"}
  /\ UNCHANGED <<ctlVars, netVars, heap, twice, napi, dev, linkVars, corer,
                 faults, trouble>>

(* idpf_tx_handle_sw_marker, in NAPI; before the wait has begun, no queue  *)
(* seems to owe a marker.                                                  *)
Marker(q) ==
  /\ napi = "on" /\ q \in marks
  /\ marks' = marks \ {q}
  /\ bits' = bits \ {q}
  /\ vport' = [vport EXCEPT !.swm = @ \/ bits' \cap (1 .. vport.ntxq) = {}]
  /\ slips' = IF pc = "wait" THEN slips ELSE slips \cup {"marker"}
  /\ UNCHANGED <<ctlVars, netVars, heap, twice, napi, dev, linkVars, corer,
                 faults, trouble>>

(* The link changes and the device sends an event.                         *)
LinkChange ==
  /\ ~ corer /\ Len(events) < MaxLink /\ devLink' = ~ devLink
  /\ events' = Append(events, ~ devLink)
  /\ UNCHANGED <<ctlVars, netVars, memVars, napi, bits, dev, marks, epc, corer,
                 faults, slips, trouble>>

(* Mutant of LinkEvent: IDPF_VPORT_UP is tested first *)
LinkEventUpOnly ==
  /\ epc = "idle" /\ events # <<>>
  /\ events' = Tail(events)
  /\ vport' = [vport EXCEPT !.link = IF up THEN Head(events) ELSE @]
  /\ epc' = IF up /\ vport.link # Head(events) THEN "carrier" ELSE "idle"
  /\ slips' = IF pc = "o_up" THEN slips \cup {"link"} ELSE slips
  /\ UNCHANGED <<ctlVars, netVars, heap, twice, napi, bits, dev, marks,
                 devLink, corer, faults, trouble>>

(* idpf_handle_event_link: link_up is set, then IDPF_VPORT_UP tested ...   *)
LinkEvent ==
  /\ epc = "idle" /\ events # <<>>
  /\ events' = Tail(events)
  /\ vport' = [vport EXCEPT !.link = Head(events)]
  /\ epc' = IF up /\ vport.link # Head(events) THEN "carrier" ELSE "idle"
  /\ slips' = IF pc = "o_up" THEN slips \cup {"link"} ELSE slips
  /\ UNCHANGED <<ctlVars, netVars, heap, twice, napi, bits, dev, marks,
                 devLink, corer, faults, trouble>>

(* ... and then the carrier follows it.  The vport may have been stopped   *)
(* meanwhile, and be on its way up again, with its carrier off.            *)
LinkCarrier ==
  /\ epc = "carrier"
  /\ carrier' = vport.link
  /\ epc' = "idle"
  /\ slips' = IF fn = "open" /\ pc # "idle" /\ ~ up THEN slips \cup {"link"}
              ELSE slips
  /\ UNCHANGED <<ctlVars, up, memVars, napi, bits, dev, marks, devLink, events,
                 corer, faults, trouble>>

(* The device is reset: IDPF_CORER_IN_PROG, and it forgets the vport.      *)
CoreReset ==
  /\ CoreResets # {} /\ ~ corer
  /\ corer' = TRUE
  /\ dev' = NoDev /\ marks' = {} /\ events' = <<>>
  /\ trouble' = IF soft.on THEN trouble \cup {"other"} ELSE trouble
  /\ UNCHANGED <<ctlVars, netVars, memVars, napi, bits, devLink, epc, faults,
                 slips>>

Control ==
  \/ Open \/ Stop \/ \E n \in Queues : SoftReset(n)
  \/ IntrAlloc \/ QueueAlloc \/ IntrInit \/ BufsInit \/ ConfigTxQueues
  \/ ConfigRxQueues \/ MapVectors \/ EnableQueues \/ EnableVport \/ ConfigRss \/ UpLink
  \/ UpComplete
  \/ ClearUp \/ NetdevStop \/ DisableVport \/ DisableQueues \/ SetBit
  \/ WaitMarkers \/ UnmapVectors \/ DeleteQueues \/ IntrDeinit \/ QueuesRel
  \/ IntrRel
  \/ SoftDelete \/ SoftAdd \/ SoftReal \/ SoftOld \/ SoftEnd

Next ==
  \/ Control
  \/ \E q \in Queues : Marker(q)
  \/ LinkChange \/ LinkEvent \/ LinkCarrier
  \/ CoreReset

Spec == Init /\ [][Next]_vars

--------------------------------------------------------------------------------
(* The range of every variable *)
TypeOK ==
  /\ fn \in {"open", "stop"}
  /\ iff \in BOOLEAN /\ up \in BOOLEAN /\ carrier \in BOOLEAN
  /\ vport.ptr \in [Blocks -> {"null", "live", "stale"}]
  /\ vport.num \in Queues /\ vport.ntxq \in 0 .. MaxQ
  /\ {vport.link, vport.swm, vport.delq} \subseteq BOOLEAN
  /\ \A b \in Blocks : heap[b] \in 0 .. 1
  /\ napi \in {"none", "added", "on"}
  /\ bits \subseteq Queues /\ idx \in 0 .. MaxQ /\ marks \subseteq Queues
  /\ dev.num \in 0 .. MaxQ /\ dev.mem \in {"none", "live", "stale"}
  /\ {dev.cfg, dev.map, dev.qena, dev.vena} \subseteq BOOLEAN
  /\ slips \subseteq {"memory", "message", "marker", "link"}

(* A vport that is up and left alone has all its memory and its NAPI, and  *)
(* the device was told everything: the queues are the ones granted, they   *)
(* are configured with memory that is still there, mapped and enabled.     *)
(* However many opens and soft resets failed before.                       *)
UpMeansReady ==
  (pc = "idle" /\ up) =>
    /\ vport.ptr = [b \in Blocks |-> "live"]
    /\ napi = "on"
    /\ corer \/ /\ dev.num = vport.num /\ vport.ntxq = vport.num
                /\ dev.cfg /\ dev.map /\ dev.qena /\ dev.vena
                /\ dev.mem = "live"

(* A vport that is down holds no memory and no NAPI: the unwinding of      *)
(* idpf_vport_open releases exactly what was allocated, wherever it fails, *)
(* and no block is lost by writing over its pointer.                       *)
DownMeansFreed ==
  (pc = "idle" /\ ~ up) => napi = "none" /\ \A b \in Blocks : heap[b] = 0

(* While NAPI can run, what it walks is allocated.                         *)
PollLive ==
  napi = "on" => vport.ptr = [b \in Blocks |-> "live"]

(* No block is freed twice, although a soft reset copies pointers to freed *)
(* blocks back into the vport: the opening writes over all of them, unless *)
(* an allocation fails first.                                              *)
FreedOnce == twice => "memory" \in slips

(* The device never works on freed memory - neither through queues it has  *)
(* enabled nor through markers it has yet to write - unless a message that *)
(* enables or disables the queues failed, or the drain was not waited for. *)
DmaLive ==
  dev.mem = "stale" =>
    /\ dev.qena => "message" \in slips
    /\ marks # {} => slips \cap {"message", "marker"} # {}

(* The carrier of a vport that is up follows the link, unless an event was *)
(* overwritten by the copy that ends a soft reset, or handled between the  *)
(* two steps of idpf_up_complete, or its second half came so late that the *)
(* vport was stopped and half opened again.                                *)
LinkAgrees ==
  (pc = "idle" /\ up /\ events = <<>> /\ epc = "idle" /\ ~ corer
   /\ "link" \notin slips) => carrier = devLink

(* A soft reset leaves the vport up or down as it was, with the new queues *)
(* if nothing went wrong and with the old ones if the device refused the   *)
(* new ones and nothing else went wrong.                                   *)
SoftResetKeeps ==
  [][pc = "sr_end" /\ trouble \subseteq {"refused"} =>
       /\ up = soft.wasUp
       /\ vport.num = IF trouble = {} THEN soft.clone.num ELSE soft.old]_vars

(* The memory of the vport is exact through every error path: all freed    *)
(* when it is down, never while NAPI can walk it, and never twice.         *)
MemoryExact == TypeOK /\ DownMeansFreed /\ PollLive /\ FreedOnce
==============================================================================
