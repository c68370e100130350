------------------------------- MODULE CtlqRecv -------------------------------
(***************************************************************************)
(* The receive control queue (ARQ) of idpf_controlq.c, filled by the       *)
(* device and drained by the mailbox task (idpf_mbx_task,                  *)
(* idpf_recv_mb_msg): receive one message, handle it, post a buffer back.  *)
(*                                                                         *)
(* The device owns the slots [head, tail).  idpf_ctlq_post_rx_buffs works  *)
(* with the lock held, but the device writes messages meanwhile, so every  *)
(* iteration of its loop is a step.  Names that CtlqSend has as well bear  *)
(* the prefix Arq, for CtlqProofs extends both modules.                    *)
(***************************************************************************)
EXTENDS Ctlq

(* With two slots idpf_ctlq_post_rx_buffs would never post a buffer.        *)
ASSUME RecvSizeAssumption == RingSize > 2

Buf == 0 .. RingSize - 2      \* idpf_ctlq_alloc_bufs: all but the last slot
Dec(i) == IF i = 0 THEN RingSize - 1 ELSE i - 1

(* What the flags of a descriptor say: nothing (zeroed), a posted buffer   *)
(* (BUF | RD), or a message (DD), direct or in the buffer, with ERR or not *)
Kind == {"direct", "indirect"}
Flags == {"zero", "avail"} \cup Kind

VARIABLES
  flags, err, id, addr,  \* descriptors: err is the ERR flag, id stands for
                         \* opcode and cookie, addr for the buffer address
  rx_buff, next_to_post,
  head, arrived,         \* the device
  data,                  \* what the device last wrote into each buffer
  mode, irq, pend,       \* polled or by interrupt; the interrupt is enabled;
                         \* the mailbox task is queued
  mbx,                   \* the mailbox task
  mid, mbuf, failed,     \* the message it handles, its buffer, its local err
  ntp,                   \* local of idpf_ctlq_post_rx_buffs
  received, lost, nerr   \* history: messages taken, buffers dropped,
                         \* messages with the ERR flag

descVars == <<flags, err, id, addr>>
modeVars == <<mode, irq, pend>>
taskVars == <<mid, mbuf, failed>>
arqVars == <<descVars, rx_buff, next_to_clean, next_to_post, tail, head,
             arrived, data, modeVars, mbx, taskVars, ntp, received, lost, nerr>>

(* idpf_ctlq_add, idpf_ctlq_alloc_bufs, idpf_ctlq_init_rxq_bufs and        *)
(* idpf_ctlq_init_regs for the receive queue; idpf_init_dflt_mbx queues    *)
(* the task, which polls.                                                  *)
ArqInit ==
  /\ flags = [i \in Slot |-> IF i \in Buf THEN "avail" ELSE "zero"]
  /\ err   = [i \in Slot |-> FALSE]
  /\ id    = [i \in Slot |-> 0]
  /\ addr  = [i \in Slot |-> IF i \in Buf THEN i ELSE None]
  /\ rx_buff = [i \in Slot |-> IF i \in Buf THEN i ELSE None]
  /\ next_to_clean = 0 /\ next_to_post = RingSize - 1
  /\ tail = RingSize - 1
  /\ head = 0 /\ arrived = 0
  /\ data = [b \in Buf |-> 0]
  /\ mode = "polled" /\ irq = FALSE /\ pend = TRUE
  /\ mbx = "idle" /\ mid = 0 /\ mbuf = None /\ failed = FALSE
  /\ ntp = 0
  /\ received = 0 /\ lost = {} /\ nerr = 0

-----------------------------------------------------------------------------
(* External: the device writes a message into the next slot it owns.  An   *)
(* enabled interrupt fires, once until it is enabled again, and its        *)
(* handler idpf_mb_intr_clean queues the task.                             *)
HwWrite(k, e) ==
  /\ head # tail
  /\ arrived < MaxMsg
  /\ arrived' = arrived + 1
  /\ flags' = [flags EXCEPT ![head] = k]
  /\ err'   = [err EXCEPT ![head] = e]
  /\ id'    = [id EXCEPT ![head] = arrived + 1]
  /\ data'  = IF k = "indirect" /\ addr[head] # None
                THEN [data EXCEPT ![addr[head]] = arrived + 1] ELSE data
  /\ head' = Inc(head)
  /\ irq' = FALSE /\ pend' = (pend \/ irq)
  /\ UNCHANGED <<addr, rx_buff, next_to_clean, next_to_post, tail, mode, mbx,
                 taskVars, ntp, received, lost, nerr>>

-----------------------------------------------------------------------------
(* What the interrupt and the start of the task leave alone                *)
arqRing == <<descVars, rx_buff, next_to_clean, next_to_post, tail, head,
              arrived, data, mid, mbuf, ntp, received, lost, nerr>>

(* idpf_intr_req: the interrupt is requested, which sets                   *)
(* IDPF_MB_INTR_MODE, and enabled.  A mailbox gets it once in its life.    *)
IntrReq ==
  /\ mode = "polled"
  /\ mode' = "intr" /\ irq' = TRUE
  /\ UNCHANGED <<arqRing, pend, mbx, failed>>

(* idpf_mb_intr_rel_irq, on the way down: the interrupt is freed and the   *)
(* task queued, to poll the replies of the last calls.                     *)
IntrRel ==
  /\ mode = "intr"
  /\ mode' = "released" /\ irq' = FALSE /\ pend' = TRUE
  /\ UNCHANGED <<arqRing, mbx, failed>>

(* Mutant of MbxTask: the interrupt is not enabled again *)
MbxTaskNoIrq ==
  /\ mbx = "idle" /\ pend
  /\ mbx' = "recv" /\ failed' = FALSE
  /\ pend' = (mode # "intr")
  /\ UNCHANGED <<arqRing, mode, irq>>

(* idpf_mbx_task runs.  In interrupt mode it enables the interrupt before  *)
(* it looks at the ring, otherwise it queues itself for 300 ms later.      *)
MbxTask ==
  /\ mbx = "idle" /\ pend
  /\ mbx' = "recv" /\ failed' = FALSE
  /\ pend' = (mode # "intr") /\ irq' = (mode = "intr")
  /\ UNCHANGED <<arqRing, mode>>

(* idpf_ctlq_recv finds no DD flag: -ENOMSG, the task ends                 *)
RecvNone ==
  /\ mbx = "recv"
  /\ flags[next_to_clean] \notin Kind
  /\ mbx' = "idle"
  /\ UNCHANGED <<descVars, rx_buff, next_to_clean, next_to_post, tail, head,
                 arrived, data, modeVars, taskVars, ntp, received, lost,
                 nerr>>

(* Mutants of Take: the ring does not move on; the slot keeps a buffer     *)
(* that was handed out                                                     *)
TakeAgain ==
  LET i == next_to_clean IN
  /\ flags[i] \in Kind
  /\ rx_buff' = [rx_buff EXCEPT ![i] =
                   IF flags[i] = "indirect" THEN None ELSE @]
  /\ received' = received + 1
  /\ mid' = id[i]
  /\ UNCHANGED <<descVars, next_to_clean>>

TakeKeepsBuffer ==
  LET i == next_to_clean IN
  /\ flags[i] \in Kind
  /\ flags' = [flags EXCEPT ![i] = "zero"]
  /\ err'   = [err EXCEPT ![i] = FALSE]
  /\ id'    = [id EXCEPT ![i] = 0]
  /\ addr'  = [addr EXCEPT ![i] = None]
  /\ next_to_clean' = Inc(i)
  /\ received' = received + 1
  /\ mid' = id[i]
  /\ UNCHANGED rx_buff

(* What idpf_ctlq_recv does to the ring for one message: an indirect one   *)
(* takes its buffer along, a direct one leaves the buffer in rx_buff; the  *)
(* descriptor is zeroed either way.                                        *)
TakeBuffer(i) == IF flags[i] = "indirect" THEN rx_buff[i] ELSE None

Take ==
  LET i == next_to_clean IN
  /\ flags[i] \in Kind
  /\ rx_buff' = [rx_buff EXCEPT ![i] =
                   IF flags[i] = "indirect" THEN None ELSE @]
  /\ flags' = [flags EXCEPT ![i] = "zero"]
  /\ err'   = [err EXCEPT ![i] = FALSE]
  /\ id'    = [id EXCEPT ![i] = 0]
  /\ addr'  = [addr EXCEPT ![i] = None]
  /\ next_to_clean' = Inc(i)
  /\ received' = received + 1
  /\ mid' = id[i]

(* idpf_ctlq_recv takes a message *)
RecvMsg ==
  /\ mbx = "recv"
  /\ ~ err[next_to_clean]
  /\ Take
  /\ mbuf' = TakeBuffer(next_to_clean)
  /\ mbx' = "handle"
  /\ UNCHANGED <<next_to_post, tail, head, arrived, data, modeVars, failed, ntp,
                 lost, nerr>>

(* A message with the ERR flag: -EBADMSG, and idpf_recv_mb_msg leaves the  *)
(* loop without posting or freeing the buffer it was handed.               *)
RecvErr ==
  /\ mbx = "recv"
  /\ err[next_to_clean]
  /\ Take
  /\ lost' = lost \cup ({TakeBuffer(next_to_clean)} \ {None})
  /\ nerr' = nerr + 1
  /\ mbx' = "idle" /\ failed' = TRUE
  /\ UNCHANGED <<next_to_post, tail, head, arrived, data, modeVars, mbuf, ntp>>

(* idpf_recv_event_msg or idpf_vc_xn_forward_reply; the latter may fail    *)
Handle(ok) ==
  /\ mbx = "handle"
  /\ failed' = ~ ok
  /\ mbx' = "post"
  /\ UNCHANGED <<descVars, rx_buff, next_to_clean, next_to_post, tail, head,
                 arrived, data, modeVars, mid, mbuf, ntp, received, lost, nerr>>

(* idpf_ctlq_post_rx_buffs takes the lock.  With next_to_post just behind  *)
(* next_to_clean there is nothing to do.                                   *)
PostStart ==
  /\ mbx = "post"
  /\ ntp' = next_to_post
  /\ mbx' = IF Inc(next_to_post) = next_to_clean THEN "out" ELSE "fill"
  /\ UNCHANGED <<descVars, rx_buff, next_to_clean, next_to_post, tail, head,
                 arrived, data, modeVars, taskVars, received, lost, nerr>>

(* Mutant of FillDesc: the address is not written *)
FillDescNoAddr(b) ==
  /\ flags' = [flags EXCEPT ![ntp] = "avail"]
  /\ ntp' = Inc(ntp)
  /\ UNCHANGED <<err, id, addr>>

(* fill_desc: the descriptor of slot ntp gets buffer b *)
FillDesc(b) ==
  /\ flags' = [flags EXCEPT ![ntp] = "avail"]
  /\ addr'  = [addr EXCEPT ![ntp] = b]
  /\ ntp' = Inc(ntp)
  /\ UNCHANGED <<err, id>>

(* The slot still has a buffer *)
FillOwn ==
  /\ rx_buff[ntp] # None
  /\ FillDesc(rx_buff[ntp])
  /\ UNCHANGED <<rx_buff, mbuf>>

(* It gets the buffer the caller returns *)
FillGiven ==
  /\ rx_buff[ntp] = None /\ mbuf # None
  /\ rx_buff' = [rx_buff EXCEPT ![ntp] = mbuf]
  /\ mbuf' = None
  /\ FillDesc(mbuf)

(* Mutant of FirstBuffer: the ring is not searched *)
NoBuffer(t) == FALSE

(* The ring is searched up to next_to_clean; the first buffer found moves  *)
FirstBuffer(t) ==
  /\ Dist(ntp, t) \in 1 .. Dist(ntp, next_to_clean) - 1
  /\ rx_buff[t] # None
  /\ \A u \in Slot : Dist(ntp, u) \in 1 .. Dist(ntp, t) - 1 =>
       rx_buff[u] = None

(* Mutant of FillMoved: the buffer stays in its old slot, too *)
FillMovedCopy ==
  /\ rx_buff[ntp] = None /\ mbuf = None
  /\ \E t \in Slot :
       /\ FirstBuffer(t)
       /\ rx_buff' = [rx_buff EXCEPT ![ntp] = rx_buff[t]]
       /\ FillDesc(rx_buff[t])
  /\ UNCHANGED mbuf

FillMoved ==
  /\ rx_buff[ntp] = None /\ mbuf = None
  /\ \E t \in Slot :
       /\ FirstBuffer(t)
       /\ rx_buff' = [rx_buff EXCEPT ![ntp] = rx_buff[t], ![t] = None]
       /\ FillDesc(rx_buff[t])
  /\ UNCHANGED mbuf

PostFill ==
  /\ mbx = "fill" /\ ntp # next_to_clean
  /\ FillOwn \/ FillGiven \/ FillMoved
  /\ UNCHANGED <<next_to_clean, next_to_post, tail, head, arrived, data, modeVars,
                 mbx, mid, failed, received, lost, nerr>>

(* The loop ends: the used part is full, or no buffer was found *)
PostStop ==
  /\ mbx = "fill"
  /\ \/ ntp = next_to_clean
     \/ rx_buff[ntp] = None /\ mbuf = None
        /\ ~ \E t \in Slot : FirstBuffer(t)
  /\ mbx' = "out"
  /\ UNCHANGED <<descVars, rx_buff, next_to_clean, next_to_post, tail, head,
                 arrived, data, modeVars, taskVars, ntp, received, lost,
                 nerr>>

(* post_buffs_out: next_to_post and the tail become the last slot filled,  *)
(* so that slot itself is not yet handed to the device.  A buffer that was *)
(* not posted is forgotten.  The receive loop goes on unless the handler   *)
(* failed.                                                                 *)
PostOut ==
  /\ mbx = "out"
  /\ \/ /\ next_to_post # ntp
        /\ next_to_post' = Dec(ntp) /\ tail' = Dec(ntp)
     \/ /\ next_to_post = ntp
        /\ UNCHANGED <<next_to_post, tail>>
  /\ lost' = lost \cup ({mbuf} \ {None})
  /\ mbuf' = None
  /\ mbx' = IF failed THEN "idle" ELSE "recv"
  /\ UNCHANGED <<descVars, rx_buff, next_to_clean, head, arrived, data, modeVars,
                 mid, failed, ntp, received, nerr>>

Task ==
  \/ MbxTask \/ RecvNone \/ RecvMsg \/ RecvErr
  \/ \E ok \in BOOLEAN : Handle(ok)
  \/ PostStart \/ PostFill \/ PostStop \/ PostOut

ArqNext ==
  \/ Task \/ IntrReq \/ IntrRel
  \/ \E k \in Kind, e \in BOOLEAN : HwWrite(k, e)

ArqSpec == ArqInit /\ [][ArqNext]_arqVars

(* The workqueue runs a task that is queued, and the task runs to its end. *)
(* Nothing is assumed of the device and the interrupt.                     *)
FairArqSpec == ArqSpec /\ WF_arqVars(Task)

-----------------------------------------------------------------------------
(***************************************************************************)
(* Properties                                                              *)
(***************************************************************************)

RingTypeOK ==
  /\ flags \in [Slot -> Flags] /\ err \in [Slot -> BOOLEAN]
  /\ id \in [Slot -> Nat]
  /\ addr \in [Slot -> Buf \cup {None}]
  /\ rx_buff \in [Slot -> Buf \cup {None}]
  /\ next_to_clean \in Slot /\ next_to_post \in Slot /\ tail \in Slot
  /\ head \in Slot /\ arrived \in Nat /\ data \in [Buf -> Nat]
  /\ mbx \in {"idle", "recv", "handle", "post", "fill", "out"}
  /\ mid \in Nat /\ mbuf \in Buf \cup {None} /\ failed \in BOOLEAN
  /\ ntp \in Slot /\ received \in Nat
  /\ lost \subseteq Buf /\ nerr \in Nat

ArqTypeOK ==
  /\ RingTypeOK
  /\ mode \in {"polled", "intr", "released"}
  /\ irq \in BOOLEAN /\ pend \in BOOLEAN

(* Every slot the device may write has a posted buffer whose address is    *)
(* the buffer of that slot, even while idpf_ctlq_post_rx_buffs rewrites    *)
(* descriptors next to them: the device never follows a stale address.     *)
HwOwnsPosted ==
  \A i \in Slot : Dist(head, i) < Dist(head, tail) =>
     flags[i] = "avail" /\ addr[i] # None /\ addr[i] = rx_buff[i]

(* The messages reach the handlers in the order of arrival, none is lost   *)
(* and none is seen twice: no stale DD flag survives in the ring.          *)
ReceivedInOrder ==
  /\ mbx = "handle" => mid = received
  /\ received <= arrived

(* The payload the handler reads is the one that came with the descriptor: *)
(* the device does not own the buffer until it is posted again.            *)
PayloadIntact ==
  (mbx = "handle" /\ mbuf # None) => data[mbuf] = mid

(* A DMA buffer is in one place: one slot, the hands of the mailbox task,  *)
(* or dropped by the error path.                                           *)
BuffersOwnedOnce ==
  \A b \in Buf :
    Cardinality({i \in Slot : rx_buff[i] = b})
      + (IF mbuf = b THEN 1 ELSE 0) + (IF b \in lost THEN 1 ELSE 0) = 1

(* Posting keeps up: between two runs of the task the device has all the   *)
(* slots but two, less one for each message that carried the ERR flag.     *)
(* RingSize - 3 such messages may stop the queue for good: when            *)
(* next_to_clean catches up with next_to_post nothing is posted any more.  *)
NeverStarves ==
  (mbx = "idle" /\ nerr < RingSize - 3) =>
     Dist(next_to_clean, tail) >= RingSize - 2 - nerr

(* With the interrupt a loop that a failing handler or an ERR message      *)
(* ended, and nobody queued the task since                                 *)
LoopCut == mode = "intr" /\ mbx = "idle" /\ failed /\ ~ pend

(* Every message that arrived is handled, in either mode and over the      *)
(* change from one to the other: no interrupt is lost between the task's   *)
(* last look at the ring and its next run, and a polled task goes on after *)
(* a failure.  With the interrupt a failing handler or an ERR message ends *)
(* the loop for good, and the rest waits for another message.              *)
AllReceived ==
  \A n \in 1 .. MaxMsg : (arrived >= n) ~> (received >= n \/ LoopCut)

(* The receive ring is well formed, the device has exactly the buffers     *)
(* posted to it, each buffer is in one place, and the ring does not run    *)
(* empty for good.                                                         *)
BuffersSound == ArqTypeOK /\ HwOwnsPosted /\ BuffersOwnedOnce /\ NeverStarves

(* Messages are handled in the order the device sent them and with the     *)
(* payload it wrote.                                                       *)
DeliveredExact == ReceivedInOrder /\ PayloadIntact
=============================================================================
