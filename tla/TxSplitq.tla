------------------------------- MODULE TxSplitq -------------------------------
(***************************************************************************)
(* One transmit queue of the split queue model in flow scheduling mode     *)
(* (idpf_txrx.c, idpf_txrx.h): the descriptor ring, the pool of buffers    *)
(* whose index is the completion tag, the refill queue that hands free     *)
(* tags from the NAPI poll to ndo_start_xmit, and the completion queue.    *)
(*                                                                         *)
(* ndo_start_xmit runs under the lock of the netdev queue and so is one    *)
(* thread; the NAPI poll is another; the device fetches descriptors in     *)
(* order and completes packets in any order; a timer of every packet on    *)
(* the exception path may expire.  A step of xmit handles one buffer, a    *)
(* step of the poll one completion or one buffer of a packet: next_to_use, *)
(* next_to_clean and the two ends of the refill queue each have one        *)
(* writer, so what one thread reads of the other's in a step is one value. *)
(*                                                                         *)
(* The completion queue is the sequence of completions that were written   *)
(* and not yet read: its generation bit tells those from the others as     *)
(* long as there are no more than its descriptors (ComplqFits).  Likewise  *)
(* the contents of the descriptor ring are the packets in unfetched, as    *)
(* long as they do not overrun the ring (NoOverrun).                       *)
(***************************************************************************)
EXTENDS Integers, Sequences, FiniteSets

CONSTANTS
  RingSize,   \* desc_count of the Tx queue
  PoolSize,   \* buf_pool_size: the number of tags
  ComplqSize, \* desc_count of the completion queue
  ReGap,      \* IDPF_TX_SPLITQ_RE_MIN_GAP (64)
  WakeThresh, \* IDPF_TX_WAKE_THRESH
  Budget,     \* compln_clean_budget
  CtrMod,     \* the completion counters are u32: 2^32 in the driver
  Shapes,     \* packets: for each buffer the number of its descriptors
  Ctx,        \* numbers of context descriptors (TSO, VLAN) of a packet
  Stamps,     \* whether a packet may ask for a time stamp: a set of 0, 1
  Null,       \* IDPF_TXBUF_NULL, no packet
  MaxPkt,     \* bound: packets the stack hands over
  MaxFault,   \* bound: failed DMA mappings and timer allocations
  MissPkts    \* bound: packets that may be sent down the exception path

(* The sums of the first 0, 1, 2, ... elements of a sequence, and of all    *)
Upto(s) ==
  LET upto[n \in 0 .. Len(s)] == IF n = 0 THEN 0 ELSE upto[n - 1] + s[n]
  IN  upto
Sum(s) == Upto(s)[Len(s)]

(* A packet has at least one buffer.  The completion counters are wider    *)
(* than the completion queue is long.                                      *)
ASSUME PacketAssumption ==
  /\ \A s \in Shapes : s \in Seq(Nat) /\ Len(s) > 0
  /\ Ctx \subseteq Nat /\ Stamps \subseteq {0, 1}
  /\ MaxPkt \in Nat /\ MaxFault \in Nat
ASSUME CounterAssumption ==
  ComplqSize \in Nat /\ CtrMod \in Nat /\ CtrMod > (ComplqSize \div 2) + 2

(* A full ring wakes up: whatever part of the ring carries no RE bit, the  *)
(* rest is enough for the queue to be started again.                       *)
ASSUME RingAssumption ==
  /\ RingSize \in Nat \ {0} /\ PoolSize \in Nat \ {0} /\ Budget \in Nat \ {0}
  /\ ReGap \in 1 .. RingSize
  /\ \A s \in Shapes : RingSize - ReGap - Sum(s) + 1 >= WakeThresh
  /\ \A s \in Shapes, c \in Ctx : c + Sum(s) <= WakeThresh

Tag == 0 .. PoolSize - 1
Idx == 0 .. RingSize - 1
Pkt == 1 .. MaxPkt

ASSUME NullAssumption == Null \notin Tag /\ Null \notin Pkt

VARIABLES
  ntu, ntc, last_re, tail, \* the Tx queue: next_to_use, next_to_clean, ...
  bufs,                    \* tx.bufs: struct idpf_tx_buf of every tag
  rring, rntu, rgen,       \* the refill queue: ring, next_to_use, GEN_CHK,
  rntc, rflgen,            \* next_to_clean, RFL_GEN_CHK
  pending, compls,         \* num_completions_pending, num_completions
  stopped,                 \* the netdev queue is stopped
  xpc, xm,                 \* ndo_start_xmit and its local variables
  npc, nc,                 \* the poll and its local variables
  complq,                  \* completions not yet read
  head, unfetched,         \* the device: next descriptor, packets of the ring
  inflight, exc,           \* ... fetched packets, packets that missed
  timers,                  \* reinject_timers and the state of each timer
  npkt, freed, more,       \* packets so far, what became of the skbs, and
                           \* the promise of the stack to send another one
  nfault, nmiss, moved      \* history

ringVars == <<ntu, ntc, last_re, tail>>
rfVars   == <<rntc, rflgen>>
xmitVars == <<xpc, xm>>
napiVars == <<npc, nc>>
devVars  == <<head, unfetched, inflight, exc>>
histVars == <<nfault, nmiss, moved>>
vars == <<ringVars, bufs, rring, rntu, rgen, rfVars, pending, compls, stopped,
          xmitVars, napiVars, complq, devVars, timers, npkt, freed, more,
          histVars>>

NoXmit == [pkt |-> 0, shape |-> <<>>, ctx |-> 0, st |-> 0, k |-> 0, i |-> 0,
           first |-> 0, buf |-> 0, re |-> FALSE,
           ntu |-> 0, rntc |-> 0, rflgen |-> 0]
NoNapi == [tag |-> 0, cleaned |-> FALSE, budget |-> Budget, ok |-> FALSE]

EmptyBuf == [type |-> "EMPTY", skb |-> Null, next |-> Null, rs |-> 0]

(* idpf_tx_desc_alloc: every tag is in the refill queue, whose generation  *)
(* bit has been flipped for the filling; the first packet asks for RE.     *)
Init ==
  /\ ntu = 0 /\ ntc = 0 /\ tail = 0
  /\ last_re = RingSize - ReGap
  /\ bufs = [t \in Tag |-> EmptyBuf]
  /\ rring = [i \in Tag |-> [id |-> i, gen |-> 1]]
  /\ rntu = 0 /\ rgen = 0 /\ rntc = 0 /\ rflgen = 1
  /\ pending = 0 /\ compls = 0 /\ stopped = FALSE
  /\ xpc = "idle" /\ xm = NoXmit
  /\ npc = "idle" /\ nc = NoNapi
  /\ complq = <<>> /\ head = 0 /\ unfetched = <<>> /\ inflight = {}
  /\ exc = {} /\ timers = [t \in Tag |-> "none"]
  /\ npkt = 0 /\ freed = [p \in Pkt |-> 0] /\ more = FALSE
  /\ nfault = 0 /\ nmiss = 0 /\ moved = FALSE

-----------------------------------------------------------------------------
(* Mutant of Bump: the index does not wrap *)
BumpOn(i, n) == i + n

(* idpf_tx_splitq_bump_ntu, n times *)
Bump(i, n) == (i + n) % RingSize

(* Mutant of Unused: the ring may be filled to its last descriptor *)
UnusedAll == (IF ntc > ntu THEN 0 ELSE RingSize) + ntc - ntu

(* IDPF_DESC_UNUSED *)
Unused == (IF ntc > ntu THEN 0 ELSE RingSize) + ntc - ntu - 1

(* IDPF_TX_COMPLQ_PENDING and IDPF_TX_COMPLQ_OVERFLOW_THRESH *)
Pending == (pending - compls) % CtrMod
ComplqOk == Pending <= ComplqSize \div 2

(* Mutant of FreeBufs: the refill queue may be emptied *)
FreeBufsAll == (IF rntu > rntc THEN 0 ELSE PoolSize) + rntu - rntc

(* idpf_tx_splitq_get_free_bufs *)
FreeBufs == (IF rntu > rntc THEN 0 ELSE PoolSize) + rntu - rntc - 1

(* Mutant of HasRoom: no look at the completion queue *)
HasRoomNoComplq(x) == Unused >= x.ctx + Sum(x.shape) /\ FreeBufs >= Len(x.shape)

(* idpf_txq_has_room *)
HasRoom(x) ==
  Unused >= x.ctx + Sum(x.shape) /\ ComplqOk /\ FreeBufs >= Len(x.shape)

(* idpf_tx_splitq_need_re *)
NeedRe(i) == (i - last_re) % RingSize >= ReGap

(* idpf_tx_get_free_buf_id: the tag at next_to_clean, if it is a new one   *)
HasTag == rring[rntc].gen = rflgen
TakeTag ==
  /\ rntc' = (rntc + 1) % PoolSize
  /\ rflgen' = IF rntc + 1 = PoolSize THEN 1 - rflgen ELSE rflgen

(* idpf_post_buf_refill *)
PostTag(t) ==
  /\ rring' = [rring EXCEPT ![rntu] = [id |-> t, gen |-> rgen]]
  /\ rntu' = (rntu + 1) % PoolSize
  /\ rgen' = IF rntu + 1 = PoolSize THEN 1 - rgen ELSE rgen

Free(p) == freed' = [freed EXCEPT ![p] = @ + 1]

-----------------------------------------------------------------------------
(***************************************************************************)
(* ndo_start_xmit                                                          *)
(***************************************************************************)

(* The stack hands over a packet; mr is netdev_xmit_more().  The first     *)
(* check of idpf_tx_maybe_stop_splitq.  The context descriptor of a time   *)
(* stamp is not part of what is checked.                                   *)
XmitStart(s, c, mr) ==
  /\ xpc = "idle" /\ ~ stopped
  /\ npkt < MaxPkt /\ (mr => npkt + 1 < MaxPkt)
  /\ xm' = [NoXmit EXCEPT !.pkt = npkt + 1, !.shape = s, !.ctx = c]
  /\ xpc' = IF HasRoom(xm') THEN "first" ELSE "stop"
  /\ more' = mr
  /\ UNCHANGED <<ringVars, bufs, rring, rntu, rgen, rfVars, pending, compls,
                 stopped, napiVars, complq, devVars, timers, npkt, freed,
                 histVars>>

(* A packet that is refused before the check (no padding, a TSO that does  *)
(* not apply, too many fragments): idpf_tx_drop_skb                        *)
XmitRefuse(mr) ==
  /\ xpc = "idle" /\ ~ stopped
  /\ npkt < MaxPkt /\ (mr => npkt + 1 < MaxPkt)
  /\ npkt' = npkt + 1
  /\ Free(npkt + 1)
  /\ tail' = ntu
  /\ more' = mr
  /\ UNCHANGED <<ntu, ntc, last_re, bufs, rring, rntu, rgen, rfVars, pending,
                 compls, stopped, xmitVars, napiVars, complq, devVars, timers,
                 histVars>>

(* netif_txq_try_stop: stop, then look again *)
XmitStop ==
  /\ xpc = "stop"
  /\ stopped' = TRUE
  /\ xpc' = "recheck"
  /\ UNCHANGED <<ringVars, bufs, rring, rntu, rgen, rfVars, pending, compls,
                 xm, napiVars, complq, devVars, timers, npkt, freed, more,
                 histVars>>

(* Mutant of XmitRecheck: the queue is stopped without a second look *)
XmitRecheckNot ==
  /\ xpc = "recheck"
  /\ tail' = ntu /\ xpc' = "idle" /\ xm' = NoXmit /\ more' = FALSE
  /\ UNCHANGED <<ntu, ntc, last_re, bufs, rring, rntu, rgen, rfVars, pending,
                 compls, stopped, napiVars, complq, devVars, timers, npkt,
                 freed, histVars>>

(* Mutant of XmitRecheck: a burst that ends in NETDEV_TX_BUSY leaves the   *)
(* tail alone                                                              *)
XmitRecheckQuiet ==
  /\ xpc = "recheck"
  /\ \/ HasRoom(xm) /\ stopped' = FALSE /\ xpc' = "first"
        /\ UNCHANGED <<xm, more>>
     \/ ~ HasRoom(xm) /\ xpc' = "idle" /\ xm' = NoXmit /\ more' = FALSE
        /\ UNCHANGED stopped
  /\ UNCHANGED <<ringVars, bufs, rring, rntu, rgen, rfVars, pending, compls,
                 napiVars, complq, devVars, timers, npkt, freed, histVars>>

(* Room was made meanwhile, or NETDEV_TX_BUSY: the stack keeps the packet  *)
(* and its burst is over.                                                  *)
XmitRecheck ==
  /\ xpc = "recheck"
  /\ \/ /\ HasRoom(xm)
        /\ stopped' = FALSE /\ xpc' = "first"
        /\ UNCHANGED <<tail, xm, more>>
     \/ /\ ~ HasRoom(xm)
        /\ tail' = ntu /\ xpc' = "idle" /\ xm' = NoXmit /\ more' = FALSE
        /\ UNCHANGED stopped
  /\ UNCHANGED <<ntu, ntc, last_re, bufs, rring, rntu, rgen, rfVars, pending,
                 compls, napiVars, complq, devVars, timers, npkt, freed,
                 histVars>>

(* The context descriptors (st: one more for a time stamp) and the first   *)
(* tag, which is the completion tag of the packet; the RE bit.             *)
XmitFirst(st) ==
  LET i  == Bump(ntu, xm.ctx + st)
      t  == rring[rntc].id
      re == NeedRe(i)
  IN
  /\ xpc = "first"
  /\ HasTag
  /\ TakeTag
  /\ bufs' = [bufs EXCEPT ![t].skb = xm.pkt]
  /\ ntu' = i
  /\ last_re' = IF re THEN i ELSE last_re
  /\ pending' = IF re THEN (pending + 1) % CtrMod ELSE pending
  /\ xm' = [xm EXCEPT !.k = 1, !.i = i, !.first = t, !.buf = t, !.re = re,
                      !.st = st,
                      !.ntu = ntu, !.rntc = rntc, !.rflgen = rflgen]
  /\ xpc' = "map"
  /\ UNCHANGED <<ntc, tail, rring, rntu, rgen, compls, stopped, napiVars,
                 complq, devVars, timers, npkt, freed, more, nfault, nmiss,
                 moved>>

(* The buffers of the packet under construction, along their next links *)
Built ==
  LET c[j \in 1 .. xm.k] == IF j = 1 THEN xm.first ELSE bufs[c[j - 1]].next
  IN {c[j] : j \in 1 .. xm.k}

(* Mutant of Rollback: the tags are not given back *)
RollbackLeaks ==
  /\ bufs' = [t \in Tag |-> IF t \in Built THEN EmptyBuf ELSE bufs[t]]
  /\ Free(xm.pkt)
  /\ npkt' = npkt + 1
  /\ ntu' = xm.ntu /\ tail' = xm.ntu
  /\ UNCHANGED rfVars
  /\ xpc' = "idle" /\ xm' = NoXmit

(* idpf_tx_splitq_pkt_err_unmap: buffers, skb, next_to_use, the tail and   *)
(* the refill queue; not last_re and not num_completions_pending           *)
Rollback ==
  /\ bufs' = [t \in Tag |-> IF t \in Built THEN EmptyBuf ELSE bufs[t]]
  /\ Free(xm.pkt)
  /\ npkt' = npkt + 1
  /\ ntu' = xm.ntu /\ tail' = xm.ntu
  /\ rntc' = xm.rntc /\ rflgen' = xm.rflgen
  /\ xpc' = "idle" /\ xm' = NoXmit

(* A buffer cannot be mapped *)
XmitFault ==
  /\ xpc = "map"
  /\ nfault < MaxFault
  /\ nfault' = nfault + 1
  /\ Rollback
  /\ UNCHANGED <<ntc, last_re, rring, rntu, rgen, pending, compls, stopped,
                 napiVars, complq, devVars, timers, more, nmiss,
                 moved>>

(* One buffer of several: its descriptors, and a tag for the next one *)
XmitFrag ==
  LET t == rring[rntc].id IN
  /\ xpc = "map"
  /\ xm.k < Len(xm.shape)
  /\ HasTag
  /\ TakeTag
  /\ bufs' = [bufs EXCEPT ![xm.buf] = [@ EXCEPT !.type = "FRAG", !.next = t]]
  /\ xm' = [xm EXCEPT !.k = @ + 1, !.buf = t, !.i = Bump(@, xm.shape[xm.k])]
  /\ UNCHANGED <<ringVars, rring, rntu, rgen, pending, compls, stopped, xpc,
                 napiVars, complq, devVars, timers, npkt, freed, more,
                 histVars>>

(* idpf_tx_buf_hw_update *)
Doorbell(i) == IF stopped \/ ~ more THEN i ELSE tail

(* The last buffer: the first becomes the SKB, the tail moves unless       *)
(* another packet is promised                                              *)
XmitLast ==
  LET i == Bump(xm.i, xm.shape[xm.k] - 1) IN
  /\ xpc = "map"
  /\ xm.k = Len(xm.shape)
  /\ LET last == [bufs EXCEPT ![xm.buf] = [@ EXCEPT !.type = "FRAG", !.next = Null]]
         ty   == IF xm.st = 1 THEN "SKB_TSTAMP" ELSE "SKB"
     IN  bufs' = [last EXCEPT ![xm.first] = [@ EXCEPT !.rs = i, !.type = ty]]
  /\ pending' = (pending + 1) % CtrMod
  /\ ntu' = Bump(i, 1)
  /\ tail' = Doorbell(Bump(i, 1))
  /\ unfetched' = Append(unfetched,
       [pkt |-> xm.pkt, tag |-> xm.first, end |-> Bump(i, 1),
        n |-> xm.ctx + xm.st + Sum(xm.shape), re |-> xm.re])
  /\ npkt' = npkt + 1
  /\ xpc' = "idle" /\ xm' = NoXmit
  /\ UNCHANGED <<ntc, last_re, rring, rntu, rgen, rfVars, compls, stopped,
                 napiVars, complq, head, inflight, exc, timers, freed, more,
                 histVars>>

XmitStep ==
  \/ XmitStop \/ XmitRecheck \/ XmitFrag \/ XmitLast
  \/ \E st \in Stamps : XmitFirst(st)

Xmit ==
  \/ \E s \in Shapes, c \in Ctx, mr \in BOOLEAN : XmitStart(s, c, mr)
  \/ \E mr \in BOOLEAN : XmitRefuse(mr)
  \/ XmitStep \/ XmitFault

-----------------------------------------------------------------------------
(***************************************************************************)
(* The NAPI poll: idpf_tx_clean_complq                                     *)
(***************************************************************************)

(* The end of one turn of the loop, for a completion that frees nothing *)
NextCompl ==
  /\ compls' = (compls + 1) % CtrMod
  /\ nc' = [nc EXCEPT !.budget = @ - 1]
  /\ npc' = "loop"
  /\ UNCHANGED <<rring, rntu, rgen>>

(* idpf_tx_clean_bufs on a first buffer: libeth_tx_complete frees the skb, *)
(* the tag is given back, and the poll goes on with the next buffer        *)
CleanBufs(t) ==
  /\ bufs' = [bufs EXCEPT ![t].type = "EMPTY"]
  /\ Free(bufs[t].skb)
  /\ PostTag(t)
  /\ nc' = [nc EXCEPT !.tag = t, !.cleaned = TRUE]
  /\ npc' = "chain"
  /\ UNCHANGED compls

(* ... which does nothing with a buffer that is not of type SKB *)
IsSkb(t) == bufs[t].type \in {"SKB", "SKB_TSTAMP"}

(* Mutant of NapiRe: an RE completion cleans the buffers, too *)
NapiReCleans(c) ==
  /\ c.type = "RE"
  /\ ntc' = c.head
  /\ IF IsSkb(c.tag) THEN CleanBufs(c.tag)
                      ELSE NextCompl /\ UNCHANGED <<bufs, freed>>
  /\ UNCHANGED <<timers, moved, nfault>>

(* RE: the descriptors up to the head have been fetched *)
NapiRe(c) ==
  /\ c.type = "RE"
  /\ ntc' = c.head
  /\ NextCompl
  /\ UNCHANGED <<bufs, freed, timers, moved, nfault>>

(* RS: the packet has been sent *)
NapiRs(c) ==
  /\ c.type = "RS"
  /\ \/ IsSkb(c.tag) /\ CleanBufs(c.tag)
     \/ ~ IsSkb(c.tag) /\ NextCompl /\ UNCHANGED <<bufs, freed>>
  /\ UNCHANGED <<ntc, timers, moved, nfault>>

(* idpf_tx_handle_miss_completion: after the reinject completion the       *)
(* packet is cleaned; else a timer is started and the packet is of type    *)
(* MISS, which idpf_tx_clean_bufs leaves alone; without the memory for a   *)
(* timer the packet is cleaned.                                            *)
NapiMiss(c) ==
  /\ c.type = "MISS"
  /\ \/ /\ bufs[c.tag].type = "REINJECT"
        /\ CleanBufs(c.tag)
        /\ UNCHANGED <<timers, nfault>>
     \/ /\ bufs[c.tag].type # "REINJECT"
        /\ timers' = [timers EXCEPT ![c.tag] = "armed"]
        /\ bufs' = [bufs EXCEPT ![c.tag].type = "MISS"]
        /\ NextCompl
        /\ UNCHANGED <<freed, nfault>>
     \/ /\ IsSkb(c.tag)
        /\ nfault < MaxFault /\ nfault' = nfault + 1
        /\ CleanBufs(c.tag)
        /\ UNCHANGED timers
  /\ UNCHANGED <<ntc, moved>>

(* idpf_tx_handle_reinject_completion.  libeth_tx_complete does nothing    *)
(* for a buffer of type REINJECT but mark it EMPTY.  The entry of a timer  *)
(* that expired is still in the array, and its memory is used again here.  *)
NapiReinject(c) ==
  /\ c.type = "REINJECT"
  /\ \/ /\ bufs[c.tag].type = "MISS"
        /\ timers' = [timers EXCEPT ![c.tag] = "none"]
        /\ bufs' = [bufs EXCEPT ![c.tag].type =
                       IF timers[c.tag] = "none" THEN @ ELSE "EMPTY"]
        /\ UNCHANGED <<ntc, moved>>
     \/ /\ bufs[c.tag].type = "SKB"
        /\ bufs' = [bufs EXCEPT ![c.tag].type = "REINJECT"]
        /\ ntc' = Bump(bufs[c.tag].rs, 1)
        /\ moved' = TRUE
        /\ UNCHANGED timers
     \/ /\ bufs[c.tag].type \notin {"MISS", "SKB"}
        /\ UNCHANGED <<bufs, ntc, timers, moved>>
  /\ NextCompl
  /\ UNCHANGED <<freed, nfault>>

(* The next completion: the first of a poll, or another within its budget *)
NapiCompl ==
  /\ npc \in {"idle", "loop"}
  /\ complq # <<>> /\ nc.budget > 0
  /\ complq' = Tail(complq)
  /\ LET c == Head(complq) IN
       NapiRe(c) \/ NapiRs(c) \/ NapiMiss(c) \/ NapiReinject(c)
  /\ UNCHANGED <<ntu, last_re, tail, rfVars, pending, stopped, xmitVars,
                 devVars, npkt, more, nmiss>>

(* The loop of idpf_tx_clean_bufs over the other buffers: the link to the  *)
(* next one is read after the tag has been given back.  (The fields of an  *)
(* EMPTY buffer are dead once the link has been read.)                     *)
NapiChain ==
  LET t    == nc.tag
      nx   == bufs[t].next
      left == IF bufs[t].type = "EMPTY" THEN [bufs EXCEPT ![t] = EmptyBuf]
                                        ELSE bufs
  IN
  /\ npc = "chain"
  /\ \/ /\ nx = Null
        /\ bufs' = left
        /\ compls' = (compls + 1) % CtrMod
        /\ nc' = [nc EXCEPT !.budget = @ - 1]
        /\ npc' = "loop"
        /\ UNCHANGED <<rring, rntu, rgen>>
     \/ /\ nx # Null
        /\ bufs' = [left EXCEPT ![nx].type = "EMPTY"]
        /\ PostTag(nx)
        /\ nc' = [nc EXCEPT !.tag = nx]
        /\ UNCHANGED <<compls, npc>>
  /\ UNCHANGED <<ringVars, rfVars, pending, stopped, xmitVars, complq,
                 devVars, timers, npkt, freed, more, histVars>>

(* The end of the loop: the state of the completion queue is stored *)
NapiOut ==
  /\ npc = "loop"
  /\ complq = <<>> \/ nc.budget = 0
  /\ nc' = [nc EXCEPT !.ok = ComplqOk]
  /\ npc' = "wake"
  /\ UNCHANGED <<ringVars, bufs, rring, rntu, rgen, rfVars, pending, compls,
                 stopped, xmitVars, complq, devVars, timers, npkt, freed, more,
                 histVars>>

(* The queue is started again if something was freed and there is room *)
NapiWake ==
  /\ npc = "wake"
  /\ stopped' = (stopped /\ ~ (nc.cleaned /\ nc.ok /\ Unused >= WakeThresh))
  /\ npc' = "idle" /\ nc' = NoNapi
  /\ UNCHANGED <<ringVars, bufs, rring, rntu, rgen, rfVars, pending, compls,
                 xmitVars, complq, devVars, timers, npkt, freed, more,
                 histVars>>

(* idpf_tx_handle_reinject_expire: the skb and the memory of the timer are *)
(* freed; the array keeps the entry                                        *)
TimerExpire(t) ==
  /\ timers[t] = "armed"
  /\ timers' = [timers EXCEPT ![t] = "freed"]
  /\ Free(bufs[t].skb)
  /\ UNCHANGED <<ringVars, bufs, rring, rntu, rgen, rfVars, pending, compls,
                 stopped, xmitVars, napiVars, complq, devVars, npkt, more,
                 histVars>>

Napi == NapiCompl \/ NapiChain \/ NapiOut \/ NapiWake

-----------------------------------------------------------------------------
(***************************************************************************)
(* External: the device                                                    *)
(***************************************************************************)

driverVars == <<ringVars, bufs, rring, rntu, rgen, rfVars, pending, compls,
                stopped, xmitVars, napiVars, timers, npkt, freed, more,
                nfault, moved>>

(* Fetches the descriptors of the next packet, up to the tail, and reports *)
(* it when the packet has the RE bit                                       *)
HwFetch ==
  /\ head # tail
  /\ LET p == Head(unfetched) IN
       /\ head' = p.end
       /\ inflight' = inflight \cup {[pkt |-> p.pkt, tag |-> p.tag]}
       /\ complq' = IF p.re THEN Append(complq, [type |-> "RE", tag |-> p.tag,
                                                 head |-> p.end])
                            ELSE complq
  /\ unfetched' = Tail(unfetched)
  /\ UNCHANGED <<driverVars, exc, nmiss>>

Compl(ty, t) == [type |-> ty, tag |-> t, head |-> 0]

(* Has sent a packet, in any order *)
HwDone(p) ==
  /\ inflight' = inflight \ {p}
  /\ complq' = Append(complq, Compl("RS", p.tag))
  /\ UNCHANGED <<driverVars, head, unfetched, exc, nmiss>>

(* Sends a packet down the exception path: a MISS and a REINJECT           *)
(* completion, of which the second may never come                          *)
HwMiss(p, ty) ==
  /\ p.pkt \in MissPkts
  /\ nmiss' = nmiss + 1
  /\ inflight' = inflight \ {p}
  /\ complq' = Append(complq, Compl(ty, p.tag))
  /\ exc' = exc \cup {Compl(IF ty = "MISS" THEN "REINJECT" ELSE "MISS", p.tag)}
  /\ UNCHANGED <<driverVars, head, unfetched>>

HwExc(c) ==
  /\ exc' = exc \ {c}
  /\ complq' = Append(complq, c)
  /\ UNCHANGED <<driverVars, head, unfetched, inflight, nmiss>>

Device ==
  \/ HwFetch
  \/ \E p \in inflight : HwDone(p) \/ HwMiss(p, "MISS") \/ HwMiss(p, "REINJECT")
  \/ \E c \in exc : HwExc(c)

Next == Xmit \/ Napi \/ (\E t \in Tag : TimerExpire(t)) \/ Device

Spec == Init /\ [][Next]_vars

(* xmit runs to its end, the poll runs while there are completions, the    *)
(* device fetches what the tail announces and goes on sending.             *)
FairSpec ==
  Spec /\ WF_vars(XmitStep) /\ WF_vars(Napi) /\ WF_vars(HwFetch)
       /\ WF_vars(\E p \in inflight : HwDone(p))

-----------------------------------------------------------------------------
(***************************************************************************)
(* Properties                                                              *)
(***************************************************************************)

TypeOK ==
  /\ {ntu, ntc, last_re, tail, head} \subseteq Idx
  /\ bufs \in [Tag -> [type : {"EMPTY", "FRAG", "SKB", "SKB_TSTAMP", "MISS",
                               "REINJECT"},
                       skb : Pkt \cup {Null}, next : Tag \cup {Null},
                       rs : Idx]]
  /\ rring \in [Tag -> [id : Tag, gen : {0, 1}]]
  /\ {rntu, rntc} \subseteq Tag /\ {rgen, rflgen} \subseteq {0, 1}
  /\ {pending, compls} \subseteq 0 .. CtrMod - 1
  /\ {stopped, more, moved} \subseteq BOOLEAN
  /\ xpc \in {"idle", "stop", "recheck", "first", "map"}
  /\ npc \in {"idle", "loop", "chain", "wake"} /\ nc.budget \in 0 .. Budget
  /\ timers \in [Tag -> {"none", "armed", "freed"}]

(* The tags that the refill queue offers: from next_to_clean on, up to     *)
(* next_to_use, on this lap or the next                                    *)
NumFree == rntu - rntc + IF rgen = rflgen THEN 0 ELSE PoolSize
FreeTags == {rring[(rntc + k) % PoolSize].id : k \in 0 .. NumFree - 1}

(* The tags of packets: those under construction, sent or being cleaned *)
BusyTags == {t \in Tag : bufs[t].type # "EMPTY"}
            \cup (IF xpc = "map" THEN {xm.buf} ELSE {})

(* No descriptor that the device has not fetched is written again: those   *)
(* of the packets in the ring and of the one being built fit in it.  A     *)
(* REINJECT completion before its MISS sets next_to_clean and is exempt.   *)
NoOverrun ==
  moved \/ Sum([k \in DOMAIN unfetched |-> unfetched[k].n])
           + (IF xpc = "map" THEN xm.ctx + xm.st + Sum(xm.shape) ELSE 0)
           <= RingSize - 1

(* A tag is either offered once or used by one packet, through rollbacks   *)
(* and laps of the refill queue, and none is lost but those of packets on  *)
(* the exception path.                                                     *)
TagsOwnedOnce ==
  /\ Cardinality(FreeTags) = NumFree
  /\ FreeTags \cap BusyTags = {}
  /\ nmiss = 0 => FreeTags \cup BusyTags = Tag

(* idpf_tx_clean_bufs reads the link of a buffer after it has given the    *)
(* tag back: xmit never takes the tag that was given back last, because    *)
(* idpf_tx_splitq_get_free_bufs counts one less than there are.  So it     *)
(* also finds a tag whenever it needs one: the paths of idpf_tx_splitq_    *)
(* frame and idpf_tx_splitq_map for an empty refill queue are dead.        *)
LastTagKept ==
  /\ npc = "chain" => nc.tag \in FreeTags
  /\ xpc = "first" \/ (xpc = "map" /\ xm.k < Len(xm.shape)) => HasTag

(* What the device has still to report or the poll to read: an RS for every *)
(* packet, an RE for some, and the second half of an exception             *)
Owed == Len(complq) + Cardinality(exc) + Cardinality(inflight)
        + Sum([k \in DOMAIN unfetched |-> IF unfetched[k].re THEN 2 ELSE 1])

(* The completion queue cannot overrun, however long the poll stays away:  *)
(* what is owed to it never passes the threshold at which xmit stops by    *)
(* more than the two completions of one packet, although the two counters  *)
(* are written by two threads.  A packet on the exception path has two     *)
(* completions and is counted once.                                        *)
ComplqFits == Owed <= (ComplqSize \div 2) + 2 + nmiss

(* When xmit is over and no further packet is promised, the device knows   *)
(* of every descriptor, whichever way xmit ended.                          *)
DoorbellRung == (xpc = "idle" /\ ~ more) => tail = ntu

(* An skb is freed once, and not while the device may read it.             *)
SkbFreedOnce ==
  /\ \A p \in Pkt : freed[p] <= 1
  /\ \A p \in inflight : freed[p.pkt] = 0
  /\ \A k \in DOMAIN unfetched : freed[unfetched[k].pkt] = 0

Quiet == /\ xpc = "idle" /\ npc = "idle" /\ complq = <<>>
         /\ unfetched = <<>> /\ inflight = {} /\ exc = {}

(* When all is done every skb has been freed.                              *)
SkbsReturned ==
  Quiet => \A p \in 1 .. npkt : freed[p] = 1

(* A stopped queue is started again, although neither the completion of a  *)
(* packet nor the RE completion alone makes the poll look at it.  After a  *)
(* rollback it may not be (the RE bit went with the packet, last_re says   *)
(* that it was sent), nor when the exception path keeps tags for good.     *)
StoppedWakes == stopped ~> (~ stopped \/ nfault > 0 \/ nmiss > 0)

(* Neither ring is overrun: no descriptor the device has not fetched is    *)
(* written, and the completion queue has room for all that is owed.        *)
RingsFit == TypeOK /\ NoOverrun /\ ComplqFits

(* The tags of the stash have one owner each, and the one xmit takes is    *)
(* never the one whose link the poll has still to read.                    *)
TagsSound == TagsOwnedOnce /\ LastTagKept
=============================================================================
