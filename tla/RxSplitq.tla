------------------------------- MODULE RxSplitq -------------------------------
(***************************************************************************)
(* One receive queue of the split queue model with its buffer queues       *)
(* (idpf_txrx.c).  The device takes a buffer from a buffer queue, fills it *)
(* and writes a descriptor with the buffer's index to the Rx queue.  The   *)
(* NAPI poll turns descriptors into skbs, decides for each buffer whether  *)
(* its page can be used again, puts the index in the refill queue of its   *)
(* buffer queue, and at its end posts the refill queues to the device.     *)
(* The stack gives pages back whenever it likes.                           *)
(*                                                                         *)
(* idpf_vport_intr_map_vector_to_qs gives an Rx queue and its buffer       *)
(* queues the same vector, so that one NAPI context runs all of the driver *)
(* code here; it interleaves with the device and the stack.                *)
(*                                                                         *)
(* PAGE_SIZE is 4096.  A buffer has two places for data: two pages if it   *)
(* is of 4 KB (page_info[0] and [1]), two halves of one page if it is of   *)
(* 2 KB.  cur is the place to be used next (page_indx, page_offset).       *)
(***************************************************************************)
EXTENDS Integers, FiniteSets

CONSTANTS
  Budget,      \* budget of the poll
  Configs,     \* [big:    for every buffer queue whether its buffers are 4 KB,
               \*  xdp:    an XDP program is loaded,
               \*  count:  desc_count of a buffer queue and its refill queue,
               \*  stride: rx_buf_stride (IDPF_RX_BUF_STRIDE, 32),
               \*  post:   IDPF_RX_BUF_POST_STRIDE, 16]
  Kinds,       \* descriptors the device writes: [hdr, pkt, eop, bad]
  None,
  Faults,      \* what may happen: "nomem", "nomap" (idpf_alloc_page
               \* fails), "skb" (no skb), "remote" (page not reusable)
  MaxDesc,     \* bound: descriptors the device writes
  MaxFault     \* bound: failing allocations and bad descriptors

ASSUME SizeAssumption ==
  /\ Budget \in Nat \ {0}
  /\ \A c \in Configs : /\ c.count \in Nat \ {0, 1}
                        /\ c.stride \in 1 .. c.count /\ c.count % c.stride = 0
                        /\ c.post \in 1 .. c.stride /\ c.count % c.post = 0
                        /\ c.post < c.count
                        /\ IsFiniteSet(DOMAIN c.big) /\ DOMAIN c.big # {}
ASSUME KindAssumption ==
  Kinds \subseteq [hdr : BOOLEAN, pkt : BOOLEAN, eop : BOOLEAN, bad : BOOLEAN]

Place == {0, 1}

(* struct sk_buff, see NewSkb                                              *)
Skbs == [whole : BOOLEAN, head : BOOLEAN,
         frags : SUBSET ((UNION {DOMAIN c.big : c \in Configs}) \X Nat \X Place)]

ASSUME NoneAssumption == None \notin Skbs

VARIABLES
  conf,                     \* the configuration of the vport, constant
  rxd, hw_ntw, hw_gen,      \* ring of the Rx queue, the device's place in it
  ntc, gen_chk,             \* next_to_clean and GEN_CHK of the Rx queue
  bufd, head,               \* rings of the buffer queues, the device's place
  ntu, nta,                 \* next_to_use (the tail) and next_to_alloc
  ring, rfl_ntu, rfl_ntc,   \* refill queues
  rfl_gen, rfl_gen_chk,     \* GEN_CHK and RFL_GEN_CHK of each
  bufs,                     \* bufq->rx.bufs
  skb,                      \* rxq->rx.skb
  pc, total, ok, refilled,  \* the poll: place, total_rx_pkts, clean_complete,
                            \* buffer queues done
  pend,                     \* an interrupt is due when enabled
  mid,                      \* the device is in the middle of a packet
  ndesc, nfault,            \* bounds
  lost, mixed, beheaded, stuck
                            \* history: buffers of bad descriptors; a packet
                            \* was delivered with parts of another; without
                            \* its header; no skb could be allocated

rxVars  == <<hw_ntw, hw_gen, mid, ndesc>>
bqVars  == <<bufd, ntu, nta>>
rflVars == <<ring, rfl_ntu, rfl_ntc, rfl_gen, rfl_gen_chk>>
vars == <<conf, rxd, rxVars, ntc, gen_chk, bqVars, head, rflVars, bufs, skb, pc,
          total, ok, refilled, pend, nfault, lost, mixed, beheaded, stuck>>

DescCount  == conf.count
Stride     == conf.stride
PostStride == conf.post
Queues    == DOMAIN conf.big
Slot      == 0 .. DescCount - 1
BufId     == 0 .. DescCount - 2               \* IDPF_RX_BUFQ_WORKING_SET
RxqDescs  == DescCount * Cardinality(Queues)   \* IDPF_RX_BUFQ_DESC_COUNT
RxSlot    == 0 .. RxqDescs - 1

(* What is read once is forgotten in the model, all but generation bits.   *)
NoBuf  == [id |-> 0, cur |-> 0]
NoDesc == [gen |-> 0, bufq |-> 0, id |-> 0, sop |-> FALSE, hdr |-> FALSE,
           pkt |-> FALSE, eop |-> FALSE, bad |-> FALSE]
(* struct sk_buff: it began with the first descriptor of a packet and has *)
(* no other since; it has its header; the places of buffers it refers to   *)
NewSkb(d, hdr) == [whole |-> d.sop, head |-> d.hdr => hdr, frags |-> {}]

AlignDown(i, n) == (i \div n) * n

(* idpf_rx_post_init_bufs: the first tail *)
FirstTail == AlignDown(DescCount - 1, Stride)

(* idpf_rxq_group_alloc, idpf_rx_bufs_init_all: a page for every place, the *)
(* working set posted up to the last stride, the refill queues empty.       *)
Init ==
  /\ conf \in Configs
  /\ rxd = [i \in RxSlot |-> NoDesc]
  /\ hw_ntw = 0 /\ hw_gen = 1 /\ ntc = 0 /\ gen_chk = 1
  /\ bufd = [b \in Queues |-> [i \in Slot |-> [id |-> i, cur |-> 0]]]
  /\ head = [b \in Queues |-> 0]
  /\ nta = [b \in Queues |-> DescCount - 1]
  /\ ntu = [b \in Queues |-> FirstTail]
  /\ ring = [b \in Queues |-> [i \in Slot |-> [id |-> 0, gen |-> 0]]]
  /\ rfl_ntu = [b \in Queues |-> 0] /\ rfl_ntc = [b \in Queues |-> 0]
  /\ rfl_gen = [b \in Queues |-> 1] /\ rfl_gen_chk = [b \in Queues |-> 1]
  /\ bufs = [b \in Queues |-> [i \in BufId |->
               [cur |-> 0, page |-> <<"ok", "ok">>, held |-> <<0, 0>>]]]
  /\ skb = None /\ pc = "idle" /\ total = 0 /\ ok = TRUE
  /\ pend = FALSE /\ mid = FALSE /\ ndesc = 0 /\ nfault = 0
  /\ refilled = {} /\ lost = {}
  /\ mixed = FALSE /\ beheaded = FALSE /\ stuck = FALSE

-----------------------------------------------------------------------------
(* The device and the stack (external).                                    *)

(* The device fills the next buffer of queue b and writes a descriptor of  *)
(* kind k.  Only the first descriptor of a packet can have a header.       *)
HwWrite(b, k) ==
  /\ ndesc < MaxDesc /\ head[b] # ntu[b]
  /\ k.hdr => ~ mid /\ ~ conf.xdp
  /\ ~ k.eop => ~ conf.xdp
  /\ k.bad => nfault < MaxFault
  /\ rxd' = [rxd EXCEPT ![hw_ntw] =
               [gen |-> hw_gen, bufq |-> b, id |-> bufd[b][head[b]].id,
                sop |-> ~ mid, hdr |-> k.hdr, pkt |-> k.pkt, eop |-> k.eop,
                bad |-> k.bad]]
  /\ bufd' = [bufd EXCEPT ![b][head[b]] = NoBuf]
  /\ head' = [head EXCEPT ![b] = (@ + 1) % DescCount]
  /\ hw_ntw' = (hw_ntw + 1) % RxqDescs
  /\ hw_gen' = IF hw_ntw + 1 = RxqDescs THEN 1 - hw_gen ELSE hw_gen
  /\ mid' = ~ k.eop /\ ndesc' = ndesc + 1 /\ pend' = TRUE
  /\ nfault' = IF k.bad THEN nfault + 1 ELSE nfault
  /\ UNCHANGED <<conf, ntc, gen_chk, ntu, nta, rflVars, bufs, skb, pc, total,
                 ok, refilled, lost, mixed, beheaded, stuck>>

(* The stack frees a fragment of an skb it has received.                   *)
StackFree(b, i, p) ==
  /\ bufs[b][i].held[p + 1] > 0
  /\ skb # None => <<b, i, p>> \notin skb.frags
  /\ bufs' = [bufs EXCEPT ![b][i].held[p + 1] = @ - 1]
  /\ UNCHANGED <<conf, rxd, rxVars, ntc, gen_chk, bqVars, head, rflVars, skb, pc,
                 total, ok, refilled, pend, nfault, lost, mixed, beheaded, stuck>>

-----------------------------------------------------------------------------
(* idpf_rx_splitq_clean.                                                    *)

Big(b) == conf.big[b]

(* page_info that a place belongs to, as an index of the tuple page        *)
PageOf(b, p) == IF Big(b) THEN p + 1 ELSE 1

(* idpf_rx_buf_adjust_pg: flip to the other page or the other half *)
AdjustPg(b, buf) == [buf EXCEPT !.cur = 1 - @]

(* Mutant of CanReuse: reuse_bias is 1 for every buffer *)
CanReuseOne(b, buf) ==
  (IF Big(b) THEN buf.held[buf.cur + 1] ELSE buf.held[1] + buf.held[2]) <= 1

(* idpf_rx_can_reuse_page, page_count() less the driver's own references   *)
(* against reuse_bias                                                      *)
CanReuse(b, buf) ==
  IF Big(b) THEN buf.held[buf.cur + 1] = 0
            ELSE buf.held[1] + buf.held[2] <= 1

(* idpf_alloc_page: out of memory leaves page as the caller has set it,   *)
(* NULL; a failing mapping frees the page and leaves the pointer to it.    *)
(* A new page is used from its start.                                      *)
PageAfter == [ok |-> "ok", nomem |-> "null", nomap |-> "freed"]
AllocPage(b, buf, how) ==
  [buf EXCEPT !.page[PageOf(b, buf.cur)] = PageAfter[how],
              !.cur = IF how = "ok" /\ ~ Big(b) THEN 0 ELSE @]

(* Places of a page that is drained: the stack's references to them are    *)
(* to a page that is no longer the driver's.                               *)
Drained(b, buf) == IF Big(b) THEN {buf.cur} ELSE Place

(* idpf_rx_splitq_recycle_buf of a page that is not used again             *)
Replace(b, buf, how) ==
  AllocPage(b, [buf EXCEPT !.held = [n \in 1 .. 2 |->
                  IF n - 1 \in Drained(b, buf) THEN 0 ELSE @[n]]], how)

(* idpf_post_buf_refill *)
PostRefill(b, i) ==
  /\ ring' = [ring EXCEPT ![b][rfl_ntu[b]] = [id |-> i, gen |-> rfl_gen[b]]]
  /\ rfl_ntu' = [rfl_ntu EXCEPT ![b] = (@ + 1) % DescCount]
  /\ rfl_gen' = IF rfl_ntu[b] + 1 = DescCount
                THEN [rfl_gen EXCEPT ![b] = 1 - @] ELSE rfl_gen
  /\ UNCHANGED <<rfl_ntc, rfl_gen_chk>>

Desc == rxd[ntc]

(* Mutant of BumpNtc: next_to_clean does not wrap *)
BumpNtcOn ==
  /\ ntc' = ntc + 1 /\ gen_chk' = gen_chk
  /\ rxd' = [rxd EXCEPT ![ntc] = [NoDesc EXCEPT !.gen = Desc.gen]]

(* Mutant of BumpNtc: GEN_CHK is not flipped *)
BumpNtcNoFlip ==
  /\ ntc' = (ntc + 1) % RxqDescs /\ gen_chk' = gen_chk
  /\ rxd' = [rxd EXCEPT ![ntc] = [NoDesc EXCEPT !.gen = Desc.gen]]

(* idpf_rx_bump_ntc *)
BumpNtc ==
  /\ ntc' = (ntc + 1) % RxqDescs
  /\ gen_chk' = IF ntc + 1 = RxqDescs THEN 1 - gen_chk ELSE gen_chk
  /\ rxd' = [rxd EXCEPT ![ntc] = [NoDesc EXCEPT !.gen = Desc.gen]]

NewDesc == Desc.gen = gen_chk
Loops == pc = "rx" /\ total < Budget /\ NewDesc

(* A descriptor of another format is skipped with its buffer.              *)
RxBadDesc ==
  /\ Loops /\ Desc.bad
  /\ BumpNtc
  /\ lost' = lost \cup {<<Desc.bufq, Desc.id>>}
  /\ UNCHANGED <<conf, rxVars, bqVars, head, rflVars, bufs, skb, pc, total, ok,
                 pend, nfault, mixed, beheaded, refilled, stuck>>

(* The end of a buffer: its page is used again or replaced if the buffer   *)
(* was used (idpf_rx_splitq_recycle_buf; keep includes the answer of       *)
(* dev_page_is_reusable), its index goes to the refill queue and           *)
(* next_to_clean advances.  s is the skb.                                  *)
FinishBuf(buf, used, s) ==
  LET b == Desc.bufq
  IN  \E keep \in BOOLEAN, how \in {"ok"} \cup Faults :
        /\ IF used THEN keep => CanReuse(b, buf) ELSE keep
        /\ how # "ok" => ~ keep /\ how \in DOMAIN PageAfter
        /\ ~ keep /\ CanReuse(b, buf) => how = "ok" /\ "remote" \in Faults
        /\ nfault' = nfault + IF how # "ok" \/ (~ keep /\ CanReuse(b, buf))
                             THEN 1 ELSE 0
        /\ nfault' <= MaxFault
        /\ bufs' = [bufs EXCEPT ![b][Desc.id] =
                      IF keep THEN buf ELSE Replace(b, buf, how)]
        /\ skb' = IF s = None \/ keep THEN s
                  ELSE [s EXCEPT !.frags =
                          @ \ ({b} \X {Desc.id} \X Drained(b, buf))]
        /\ PostRefill(b, Desc.id) /\ BumpNtc

Buf == bufs[Desc.bufq][Desc.id]
Used(buf) == AdjustPg(Desc.bufq, [buf EXCEPT !.held[buf.cur + 1] = @ + 1])

(* XDP_TX and XDP_REDIRECT pass the page on, the other verdicts but PASS   *)
(* leave it with the driver (idpf_run_xdp, idpf_rx_xdp).                   *)
RxXdp(passesOn) ==
  /\ Loops /\ ~ Desc.bad /\ conf.xdp /\ Desc.pkt
  /\ FinishBuf(IF passesOn THEN Used(Buf) ELSE Buf, TRUE, skb)
  /\ total' = total + 1
  /\ UNCHANGED <<conf, rxVars, bqVars, head, pc, ok, pend, lost, mixed,
                 beheaded, stuck,
                 refilled>>

(* The skb after the header part: idpf_rx_hdr_construct_skb may fail.      *)
HdrSkb(fails) ==
  IF ~ Desc.hdr THEN skb ELSE IF fails THEN None ELSE NewSkb(Desc, TRUE)

(* A descriptor that begins or extends an skb.  The data of a small first  *)
(* buffer is copied; otherwise its place goes into the skb.  The last one  *)
(* sends the skb up the stack and is counted; if its fields are refused    *)
(* (idpf_rx_process_skb_fields), it is not counted and the skb is freed at *)
(* once, as the stack may free one that is sent up (StackFree).            *)
RxPacket(hdrFails, copied) ==
  LET s0 == HdrSkb(hdrFails)
      s1 == CASE s0 = None -> NewSkb(Desc, FALSE)
              [] s0 # None /\ Desc.hdr -> s0
              [] OTHER -> [s0 EXCEPT !.whole = @ /\ ~ Desc.sop]
      frag == Desc.pkt /\ ~ copied
      s2 == IF frag
            THEN [s1 EXCEPT !.frags = @ \cup {<<Desc.bufq, Desc.id, Buf.cur>>}]
            ELSE s1
  IN  /\ Loops /\ ~ Desc.bad
      /\ hdrFails => Desc.hdr /\ "skb" \in Faults /\ nfault < MaxFault
      /\ copied => Desc.pkt /\ s0 = None
      /\ Desc.pkt \/ s0 # None
      /\ FinishBuf(IF frag THEN Used(Buf) ELSE Buf, Desc.pkt,
                   IF Desc.eop THEN None ELSE s2)
      /\ mixed' = (mixed \/ (Desc.eop /\ ~ s2.whole))
      /\ beheaded' = (beheaded \/ (Desc.eop /\ ~ s2.head))
      /\ total' \in IF Desc.eop THEN {total, total + 1} ELSE {total}
      /\ UNCHANGED <<conf, rxVars, bqVars, head, pc, ok, pend, lost, stuck,
                 refilled>>

(* Mutant of RxNoSkb: the buffer is given back as well *)
RxNoSkbPosts ==
  /\ Loops /\ ~ Desc.bad /\ "skb" \in Faults /\ nfault < MaxFault
  /\ Desc.hdr \/ skb = None
  /\ skb' = None /\ nfault' = nfault + 1 /\ stuck' = TRUE
  /\ ok' = (total < Budget) /\ pc' = "refill"
  /\ PostRefill(Desc.bufq, Desc.id)
  /\ UNCHANGED <<conf, rxd, rxVars, ntc, gen_chk, bqVars, head, bufs,
                 total, pend, lost, mixed, beheaded, refilled>>

(* No skb could be allocated: the loop ends before this descriptor.        *)
RxNoSkb ==
  /\ Loops /\ ~ Desc.bad /\ "skb" \in Faults /\ nfault < MaxFault
  /\ Desc.hdr \/ skb = None
  /\ skb' = None /\ nfault' = nfault + 1 /\ stuck' = TRUE
  /\ ok' = (total < Budget) /\ pc' = "refill"
  /\ UNCHANGED <<conf, rxd, rxVars, ntc, gen_chk, bqVars, head, rflVars, bufs,
                 total, pend, lost, mixed, beheaded, refilled>>

(* Mutant of RxEnd: the skb of an unfinished packet is not kept *)
RxEndForgets ==
  /\ pc = "rx" /\ ~ Loops
  /\ ok' = (total < Budget) /\ pc' = "refill" /\ skb' = None
  /\ UNCHANGED <<conf, rxd, rxVars, ntc, gen_chk, bqVars, head, rflVars, bufs,
                 total, pend, nfault, lost, mixed, beheaded, refilled, stuck>>

(* Mutant of RxEnd: the poll is always complete *)
RxEndComplete ==
  /\ pc = "rx" /\ ~ Loops
  /\ ok' = TRUE /\ pc' = "refill"
  /\ UNCHANGED <<conf, rxd, rxVars, ntc, gen_chk, bqVars, head, rflVars, bufs, skb,
                 total, pend, nfault, lost, mixed, beheaded, refilled, stuck>>

(* The end of the loop: the budget is spent or no descriptor is done.      *)
RxEnd ==
  /\ pc = "rx" /\ ~ Loops
  /\ ok' = (total < Budget) /\ pc' = "refill"
  /\ UNCHANGED <<conf, rxd, rxVars, ntc, gen_chk, bqVars, head, rflVars, bufs, skb,
                 total, pend, nfault, lost, mixed, beheaded, refilled, stuck>>

-----------------------------------------------------------------------------
(* idpf_rx_clean_refillq_all.                                              *)

(* Entry n of the refill queue of b, counted from next_to_clean, and       *)
(* whether its generation bit says that it is new                          *)
Entry(b, n) == ring[b][(rfl_ntc[b] + n) % DescCount]
IsNew(b, n) ==
  Entry(b, n).gen = IF rfl_ntc[b] + n < DescCount THEN rfl_gen_chk[b]
                                                  ELSE 1 - rfl_gen_chk[b]
NewEntries(b) == {n \in 0 .. DescCount : \A k \in 0 .. n - 1 : IsNew(b, k)}

NoPage(b, n) ==
  LET buf == bufs[b][Entry(b, n).id] IN buf.page[PageOf(b, buf.cur)] = "null"

(* Mutant of Tail: the wrap of the ring is not accounted for *)
TailNoWrap(b, new) ==
  IF new - ntu[b] >= PostStride THEN AlignDown(new, PostStride) ELSE ntu[b]

(* The tail moves in strides. *)
Tail(b, new) ==
  IF (IF ntu[b] <= new THEN 0 ELSE DescCount) + new - ntu[b] >= PostStride
  THEN AlignDown(new, PostStride) ELSE ntu[b]

(* Mutant of RefillPages: a page that is missing is not allocated *)
RefillPagesNone(b, n, how) == bufs

(* idpf_rx_update_bufq_desc allocates the pages that the poll could not;   *)
(* entry n, if any, is where it fails.                                     *)
RefillPages(b, n, how) ==
  [bufs EXCEPT ![b] = [i \in BufId |->
     IF \E k \in 0 .. n - 1 : Entry(b, k).id = i /\ NoPage(b, k)
     THEN AllocPage(b, @[i], "ok")
     ELSE IF how # "ok" /\ Entry(b, n).id = i THEN AllocPage(b, @[i], how)
     ELSE @[i]]]

(* idpf_rx_clean_refillq for queue b: n entries are posted, until the      *)
(* queue is empty or an allocation fails.                                  *)
Refill(b, n, how) ==
  LET new == (nta[b] + n) % DescCount
      pages == RefillPages(b, n, how)
      off(i) == (i - nta[b]) % DescCount     \* slots from next_to_alloc
  IN  /\ pc = "refill" /\ b \in Queues \ refilled
      /\ \A c \in Queues \ refilled : b <= c
      /\ n \in NewEntries(b)
      /\ how = "ok" => n + 1 \notin NewEntries(b)
      /\ how # "ok" => /\ n + 1 \in NewEntries(b) /\ NoPage(b, n)
                       /\ how \in DOMAIN PageAfter /\ nfault < MaxFault
      /\ nfault' = IF how = "ok" THEN nfault ELSE nfault + 1
      /\ bufs' = pages
      /\ bufd' = [bufd EXCEPT ![b] = [i \in Slot |->
                    IF off(i) < n
                    THEN [id  |-> Entry(b, off(i)).id,
                          cur |-> pages[b][Entry(b, off(i)).id].cur]
                    ELSE @[i]]]
      /\ nta' = [nta EXCEPT ![b] = new]
      /\ ntu' = IF n = 0 THEN ntu ELSE [ntu EXCEPT ![b] = Tail(b, new)]
      /\ rfl_ntc' = [rfl_ntc EXCEPT ![b] = (@ + n) % DescCount]
      /\ rfl_gen_chk' = IF rfl_ntc[b] + n < DescCount THEN rfl_gen_chk
                        ELSE [rfl_gen_chk EXCEPT ![b] = 1 - @]
      /\ ring' = [ring EXCEPT ![b] = [i \in Slot |->
                    IF (i - rfl_ntc[b]) % DescCount < n
                    THEN [@[i] EXCEPT !.id = 0] ELSE @[i]]]
      /\ refilled' = refilled \cup {b}
      /\ UNCHANGED <<conf, rxd, rxVars, ntc, gen_chk, head, rfl_ntu, rfl_gen,
                     skb, pc, total, ok, pend, lost, mixed, beheaded, stuck>>

(* idpf_vport_splitq_napi_poll: the interrupt starts a poll; at its end it *)
(* is repeated at once, or the interrupt is enabled again.                 *)
NapiStart ==
  /\ pc = "idle" /\ pend
  /\ pc' = "rx" /\ total' = 0 /\ pend' = FALSE
  /\ UNCHANGED <<conf, rxd, rxVars, ntc, gen_chk, bqVars, head, rflVars, bufs, skb,
                 ok, nfault, lost, mixed, beheaded, refilled, stuck>>

NapiEnd ==
  /\ pc = "refill" /\ refilled = Queues
  /\ pc' = (IF ok THEN "idle" ELSE "rx") /\ total' = 0 /\ refilled' = {}
  /\ UNCHANGED <<conf, rxd, rxVars, ntc, gen_chk, bqVars, head, rflVars, bufs, skb,
                 ok, pend, nfault, lost, mixed, beheaded, stuck>>

-----------------------------------------------------------------------------
Napi ==
  \/ NapiStart \/ RxBadDesc \/ RxNoSkb \/ RxEnd \/ NapiEnd
  \/ \E f \in BOOLEAN, c \in BOOLEAN : RxPacket(f, c)
  \/ \E p \in BOOLEAN : RxXdp(p)
  \/ \E b \in Queues, n \in 0 .. DescCount, how \in {"ok"} \cup Faults :
       Refill(b, n, how)

Next ==
  \/ Napi
  \/ \E b \in Queues, k \in Kinds : HwWrite(b, k)
  \/ \E b \in Queues, i \in BufId, p \in Place : StackFree(b, i, p)

(* NAPI runs once scheduled; the device and the stack need not do anything *)
Spec == Init /\ [][Next]_vars /\ WF_vars(Napi)

-----------------------------------------------------------------------------
TypeOK ==
  /\ conf \in Configs /\ pc \in {"idle", "rx", "refill"}
  /\ hw_ntw \in RxSlot /\ ntc \in RxSlot /\ {hw_gen, gen_chk} \subseteq {0, 1}
  /\ head \in [Queues -> Slot] /\ ntu \in [Queues -> Slot] /\ nta \in [Queues -> Slot]
  /\ bufd \in [Queues -> [Slot -> [id : Slot, cur : Place]]]
  /\ ring \in [Queues -> [Slot -> [id : Slot, gen : {0, 1}]]]
  /\ rfl_ntu \in [Queues -> Slot] /\ rfl_ntc \in [Queues -> Slot]
  /\ total \in 0 .. Budget /\ refilled \subseteq Queues
  /\ lost \subseteq Queues \X BufId

(* Slots of buffer queue b from i up to j *)
Between(i, j) == {(i + n) % DescCount : n \in 0 .. ((j - i) % DescCount) - 1}

(* Rx descriptors the device has written and the poll has not cleaned.  A  *)
(* ring with equal indices is full if the generations differ.              *)
Written ==
  LET n == (hw_ntw - ntc) % RxqDescs
  IN  {(ntc + k) % RxqDescs : k \in 0 ..
         (IF n = 0 /\ hw_gen # gen_chk THEN RxqDescs ELSE n) - 1}
Refillable(b) ==
  LET n == (rfl_ntu[b] - rfl_ntc[b]) % DescCount
  IN  0 .. (IF n = 0 /\ rfl_gen[b] # rfl_gen_chk[b] THEN DescCount ELSE n) - 1

(* A buffer that the device may fill is in use nowhere else: its place is  *)
(* the one the driver will look for the packet, and no skb refers to it.   *)
(* This is what page flipping with reuse_bias has to achieve while the     *)
(* stack frees in any order.                                               *)
PostedUnshared ==
  \A b \in Queues : \A i \in Between(head[b], ntu[b]) :
    LET d == bufd[b][i]
    IN  d.cur = bufs[b][d.id].cur /\ bufs[b][d.id].held[d.cur + 1] = 0

(* The device is given live pages only.                                    *)
PostedLive ==
  \A b \in Queues : \A i \in Between(head[b], ntu[b]) :
    LET buf == bufs[b][bufd[b][i].id]
    IN  buf.page[PageOf(b, buf.cur)] = "ok"

(* Every buffer is in one place: posted or about to be, in a descriptor    *)
(* the poll has not reached, in the refill queue, or lost with a bad       *)
(* descriptor.                                                             *)
BufsOwnedOnce ==
  \A b \in Queues, i \in BufId :
    1 = Cardinality({s \in Between(head[b], nta[b]) : bufd[b][s].id = i})
      + Cardinality({s \in Written : rxd[s].bufq = b /\ rxd[s].id = i})
      + Cardinality({n \in Refillable(b) : Entry(b, n).id = i})
      + Cardinality(lost \cap {<<b, i>>})

(* The generation bits tell the poll exactly what is new, across wraps, in *)
(* the Rx queue and in the refill queues.                                  *)
GenExact ==
  /\ NewDesc <=> Written # {}
  /\ \A b \in Queues, n \in 0 .. DescCount - 1 :
       (\A k \in 0 .. n : IsNew(b, k)) <=> n \in Refillable(b)

(* A packet reaches the stack with all its buffers and none of another's,  *)
(* also when the budget runs out or an allocation fails in the middle.     *)
DeliveredWhole == lost = {} => ~ mixed

(* A poll that is over leaves the device all buffers but less than a       *)
(* stride, unless an allocation failed or a descriptor was bad.            *)
NeverStarves ==
  pc = "idle" /\ ~ pend /\ nfault = 0 =>
    \A b \in Queues : ((ntu[b] - head[b]) % DescCount) + Stride > DescCount - 1

(* The driver fills its rings with buffers for the device                  *)
(* (idpf_rx_post_init_bufs, "Post initial buffers to bufq"): when it is    *)
(* done, and nothing has failed, every queue has one.                      *)
DeviceFed ==
  pc = "idle" /\ ~ pend /\ nfault = 0 => \A b \in Queues : ntu[b] # head[b]

(* Everything received is handled, unless an skb could not be allocated.   *)
AllHandled == []<>(~ NewDesc \/ stuck)

(* The comment at the end of idpf_rx_splitq_clean, "guarantee a trip back  *)
(* through this routine if there was a failure": a descriptor that had to  *)
(* be left is handled.                                                     *)
TripBack == []<>(~ NewDesc)

(* What the device may fill is a live page that nobody else refers to.     *)
PostedSafe == PostedUnshared /\ PostedLive

(* No buffer is lost or doubled on its way through the rings, the          *)
(* generation bits are exact, and the device keeps its buffers.            *)
BufsSound == TypeOK /\ BufsOwnedOnce /\ GenExact /\ NeverStarves
=============================================================================
