------------------------------ MODULE VportProofs ------------------------------
(***************************************************************************)
(* Proofs about Vport, for any number of queues, commands and faults.      *)
(***************************************************************************)
EXTENDS Vport, TLAPS

(* Where the control thread may be                                         *)
Opening  == {"o_intr", "o_queues", "o_irq", "o_bufs", "o_txcfg", "o_rxcfg",
             "o_map", "o_qena", "o_vena", "o_rss", "o_link", "o_up"}
Stopping == {"s_clear", "s_carrier", "delq"}
Leaving  == {"disv", "disq", "bits", "wait", "unmap", "intr_deinit",
             "queues_rel", "intr_rel"}
Soft     == {"sr_del", "sr_add", "sr_real", "sr_old", "sr_end"}

(* Nothing is under way but what the flag IDPF_VPORT_UP says.              *)
Resting == pc \in {"idle", "s_clear", "sr_end"}

PtrType == [Blocks -> {"null", "live", "stale"}]
VportType == [ptr : PtrType, num : Queues, ntxq : 0 .. MaxQ,
              link : BOOLEAN, swm : BOOLEAN, delq : BOOLEAN]
DevType == [num : 0 .. MaxQ, cfg : BOOLEAN, map : BOOLEAN, qena : BOOLEAN,
            vena : BOOLEAN, mem : {"none", "live", "stale"}]
SoftType == [on : {TRUE}, wasUp : BOOLEAN, old : Queues, clone : VportType]

(* The places, and what they say about fn, soft and up                     *)
PlaceInv ==
  /\ pc \in Opening \cup Stopping \cup Leaving \cup Soft \cup {"idle"}
  /\ fn \in {"open", "stop"}
  /\ pc \in Opening => fn = "open"
  /\ pc \in Stopping => fn = "stop"
  /\ up \in BOOLEAN
  /\ up => Resting
  /\ soft = NoSoft \/ soft \in SoftType
  /\ pc = "idle" => soft = NoSoft
  /\ pc \in Soft => soft # NoSoft
  /\ soft # NoSoft /\ pc \in Opening \cup Stopping \cup Leaving => soft.wasUp

(* The stack holds a vport that is up open, or is stopping it.             *)
OpenInv ==
  /\ iff \in BOOLEAN
  /\ up => iff \/ (pc = "s_clear" /\ soft = NoSoft)
  /\ soft # NoSoft /\ soft.wasUp => iff

(* The pointers: what each place has allocated, and no other block.  The   *)
(* clone of a soft reset has no pointer to a block but the vport's own.    *)
Live(bs) == \A b \in Blocks : vport.ptr[b] = "live" <=> b \in bs
HasAll == \/ pc \in {"o_txcfg", "o_rxcfg", "o_map", "o_qena", "o_vena", "o_rss",
                     "o_link", "o_up", "s_carrier", "disv", "disq", "bits",
                     "wait", "unmap", "delq"}
          \/ Resting /\ up
HasNone == \/ pc \in {"o_intr", "sr_del", "sr_add", "sr_real", "sr_old"}
           \/ Resting /\ ~ up

HeapInv ==
  /\ vport \in VportType
  /\ heap = [b \in Blocks |-> IF vport.ptr[b] = "live" THEN 1 ELSE 0]
  /\ soft # NoSoft => \A b \in Blocks :
       soft.clone.ptr[b] = "live" => vport.ptr[b] = "live"
  /\ twice \in BOOLEAN

MemInv ==
  /\ HeapInv
  /\ HasAll => napi = "on" /\ Live(Blocks)
  /\ HasNone => napi = "none" /\ Live({})
  /\ pc \in {"o_queues", "intr_rel"} => napi = "none" /\ Live({"q_vectors"})
  /\ pc \in {"o_irq", "queues_rel"} => napi = "none" /\ Live(Blocks)
  /\ pc = "o_bufs" => napi = "added" /\ Live(Blocks)
  /\ pc = "intr_deinit" => napi \in {"added", "on"} /\ Live(Blocks)
  /\ twice => "memory" \in slips
  /\ slips \subseteq {"memory", "message", "marker", "link"}

(* The device: how far the opening has got.  A core reset has undone it.   *)
Reached(pcs) == pc \in pcs \/ (Resting /\ up)
Enabled == Reached({"o_vena", "o_rss", "o_link", "o_up", "s_carrier", "disv",
                    "disq"})
DevInv ==
  /\ dev \in DevType /\ corer \in BOOLEAN
  /\ marks \subseteq Queues
  /\ corer => dev = NoDev /\ marks = {} /\ events = <<>>
  /\ Reached({"o_irq", "o_bufs", "o_txcfg", "o_rxcfg", "o_map", "o_qena",
              "o_vena", "o_rss", "o_link", "o_up", "s_carrier", "disv", "disq",
              "bits", "wait"}) => vport.ntxq = vport.num
  /\ ~ corer =>
     /\ Reached({"o_rxcfg", "o_map", "o_qena", "o_vena", "o_rss", "o_link",
                 "o_up", "s_carrier", "disv", "disq", "bits", "wait"}) =>
          dev.num = vport.num /\ dev.mem = "live"
     /\ Reached({"o_map", "o_qena", "o_vena", "o_rss", "o_link", "o_up"}) =>
          dev.cfg
     /\ Reached({"o_qena", "o_vena", "o_rss", "o_link", "o_up"}) => dev.map
     /\ Enabled => dev.qena
     /\ Reached({"o_rss", "o_link", "o_up"}) => dev.vena

(* The drain: outside the wait for the markers none is left, unless a slip *)
(* says so; in it, every marker that is to come has its bit set.           *)
DrainInv ==
  /\ bits \subseteq Queues
  /\ idx \in 0 .. MaxQ
  /\ pc # "bits" => idx = 0
  /\ pc = "bits" => idx <= vport.ntxq
  /\ dev.qena => Enabled \/ "message" \in slips
  /\ pc \notin {"bits", "wait"} /\ marks # {} =>
       slips \cap {"message", "marker"} # {}
  /\ pc = "bits" /\ "marker" \notin slips =>
       ~ vport.swm /\ 1 .. idx \subseteq bits /\ marks \subseteq 1 .. vport.ntxq
  /\ pc = "wait" /\ "marker" \notin slips =>
       /\ marks \subseteq bits \cap (1 .. vport.ntxq)
       /\ vport.swm => marks = {}

(* The link: the last event says what the device sees, and the carrier     *)
(* follows.                                                                *)
LinkInv ==
  /\ carrier \in BOOLEAN /\ devLink \in BOOLEAN /\ events \in Seq(BOOLEAN)
  /\ epc \in {"idle", "carrier"}
  /\ "link" \notin slips =>
     /\ ~ corer => devLink = IF events = <<>> THEN vport.link
                             ELSE events[Len(events)]
     /\ pc \in Opening \ {"o_up"} => ~ carrier
     /\ pc = "o_up" => carrier = vport.link
     /\ up /\ epc = "idle" => carrier = vport.link

(* The soft reset: what it has done so far as long as nothing but the      *)
(* refusal of the new queues has gone wrong                                *)
Clean == soft # NoSoft /\ "other" \notin trouble
SoftInv ==
  /\ trouble \subseteq {"refused", "other"}
  /\ soft # NoSoft /\ corer => "other" \in trouble
  /\ Clean =>
     /\ fn = "open" => pc \notin Leaving
     /\ pc \in {"sr_del", "sr_add"} \cup Stopping \cup Leaving =>
          trouble = {} /\ vport.num = soft.old
     /\ pc = "s_clear" => up = soft.wasUp
     /\ pc = "sr_real" => trouble = {} /\ vport.num = soft.clone.num
     /\ pc = "sr_old" => trouble = {"refused"} /\ vport.num = soft.old
     /\ pc \in Opening \cup {"sr_real"} => dev.num = vport.num
     /\ pc \in Opening \cup {"sr_end"} =>
          vport.num = IF trouble = {} THEN soft.clone.num ELSE soft.old
     /\ pc = "sr_end" => up = soft.wasUp

IInv ==
  /\ PlaceInv /\ OpenInv /\ MemInv /\ DevInv /\ DrainInv /\ LinkInv /\ SoftInv

--------------------------------------------------------------------------------
(* What the helpers do                                                     *)

(* The flag of the soft reset says whether there is one.                   *)
LEMMA SoftOn ==
  ASSUME PlaceInv PROVE soft.on \in BOOLEAN /\ (soft.on <=> soft # NoSoft)
<1>1. NoSoft.on = FALSE
  BY DEF NoSoft
<1>2. CASE soft = NoSoft
  BY <1>1, <1>2
<1>3. CASE soft \in SoftType
  <2>1. soft.on = TRUE
    BY <1>3 DEF SoftType
  <2> QED
    BY <1>1, <2>1
<1> QED
  BY <1>2, <1>3 DEF PlaceInv

(* Where a function returns to                                             *)
LEMMA ReturnIs ==
  ASSUME PlaceInv, NEW err \in BOOLEAN, Return(err)
  PROVE  \/ soft = NoSoft /\ pc' = "idle" /\ iff' = (fn = "open" /\ ~ err)
         \/ soft # NoSoft /\ fn = "stop" /\ pc' = "sr_add" /\ iff' = iff
         \/ soft # NoSoft /\ fn = "open" /\ pc' = "sr_end" /\ iff' = iff
BY SoftOn DEF Return, PlaceInv

(* What an allocation changes of the soft reset: pointers of the clone     *)
LEMMA SoftSpoiled ==
  ASSUME PlaceInv, NEW bs, NEW fs, AllocFree(bs, fs)
  PROVE  \/ soft = NoSoft /\ soft' = NoSoft
         \/ /\ soft # NoSoft /\ soft' # NoSoft /\ soft' \in SoftType
            /\ soft'.wasUp = soft.wasUp /\ soft'.old = soft.old
            /\ soft'.clone.num = soft.clone.num
            /\ soft'.clone.link = soft.clone.link
<1> DEFINE p == [b \in Blocks |-> IF b \in bs THEN "live" ELSE vport.ptr[b]]
           gone == {b \in fs : p[b] = "live"}
<1>1. CASE soft = NoSoft
  BY <1>1 DEF AllocFree, NoSoft
<1>2. CASE soft \in SoftType
  <2>1. soft.on /\ soft' = [soft EXCEPT !.clone.ptr = Spoil(@, gone)]
    BY <1>2 DEF AllocFree, SoftType
  <2>2. Spoil(soft.clone.ptr, gone) \in PtrType
    BY <1>2 DEF Spoil, PtrType, SoftType, VportType
  <2> HIDE DEF gone
  <2>3. soft.clone \in VportType /\ soft.wasUp \in BOOLEAN /\ soft.old \in Queues
    BY <1>2 DEF SoftType
  <2>4. soft = [on |-> TRUE, wasUp |-> soft.wasUp, old |-> soft.old,
                clone |-> soft.clone]
    BY <1>2 DEF SoftType
  <2>5. soft' = [on |-> TRUE, wasUp |-> soft.wasUp, old |-> soft.old,
                 clone |-> [soft.clone EXCEPT !.ptr = Spoil(@, gone)]]
    BY <2>1, <2>4
  <2>6. [soft.clone EXCEPT !.ptr = Spoil(@, gone)] \in VportType
    BY <2>2, <2>3 DEF VportType
  <2>7. soft' \in SoftType
    BY <2>3, <2>5, <2>6 DEF SoftType
  <2>8. soft'.on = TRUE /\ NoSoft.on = FALSE
    BY <2>5 DEF NoSoft
  <2> QED
    BY <2>1, <2>3, <2>5, <2>7, <2>8, SoftOn DEF VportType
<1> QED
  BY <1>1, <1>2 DEF PlaceInv

(* What an allocation does to the pointers and the heap                    *)
LEMMA AllocIs ==
  ASSUME PlaceInv, HeapInv, NEW bs \in SUBSET Blocks, NEW fs \in SUBSET Blocks,
         \A b \in bs : vport.ptr[b] # "live", AllocFree(bs, fs)
  PROVE  /\ HeapInv'
         /\ vport'.ptr = [b \in Blocks |->
              IF b \in fs THEN "null" ELSE IF b \in bs THEN "live" ELSE vport.ptr[b]]
         /\ vport'.ntxq = IF "txqs" \in bs \ fs THEN vport.num ELSE vport.ntxq
         /\ vport'.num = vport.num /\ vport'.link = vport.link
         /\ vport'.swm = vport.swm /\ vport'.delq = vport.delq
         /\ twice' => twice \/ \E b \in fs \ bs : vport.ptr[b] = "stale"
<1> DEFINE p == [b \in Blocks |-> IF b \in bs THEN "live" ELSE vport.ptr[b]]
           gone == {b \in fs : p[b] = "live"}
           q == [b \in Blocks |-> IF b \in fs THEN "null" ELSE p[b]]
           n == IF "txqs" \in bs \ fs THEN vport.num ELSE vport.ntxq
<1>1. vport \in VportType /\ vport.ptr \in PtrType
  BY DEF HeapInv, VportType
<1>2. vport' = [vport EXCEPT !.ptr = q, !.ntxq = n]
  BY DEF AllocFree
<1>3. q \in PtrType /\ n \in 0 .. MaxQ
  BY <1>1, MaxQAssumption DEF VportType, PtrType, Queues
<1>4. /\ vport' \in VportType /\ vport'.ptr = q /\ vport'.ntxq = n
      /\ vport'.num = vport.num /\ vport'.link = vport.link
      /\ vport'.swm = vport.swm /\ vport'.delq = vport.delq
  <2> HIDE DEF q, n
  <2> QED
    BY <1>1, <1>2, <1>3 DEF VportType
<1>5. q = [b \in Blocks |->
             IF b \in fs THEN "null" ELSE IF b \in bs THEN "live" ELSE vport.ptr[b]]
  OBVIOUS
<1>6. heap' = [b \in Blocks |-> IF q[b] = "live" THEN 1 ELSE 0]
  <2>1. heap' = [b \in Blocks |-> (heap[b] + IF b \in bs THEN 1 ELSE 0)
                                    - (IF b \in gone THEN 1 ELSE 0)]
    BY DEF AllocFree
  <2>2. ASSUME NEW b \in Blocks
        PROVE  heap[b] = IF vport.ptr[b] = "live" THEN 1 ELSE 0
    BY DEF HeapInv
  <2>3. ASSUME NEW b \in Blocks
        PROVE  ((heap[b] + IF b \in bs THEN 1 ELSE 0) - (IF b \in gone THEN 1 ELSE 0))
                 = IF q[b] = "live" THEN 1 ELSE 0
    BY <2>2
  <2> QED
    BY <2>1, <2>3
<1>7. /\ twice' \in BOOLEAN
      /\ twice' => twice \/ \E b \in fs \ bs : vport.ptr[b] = "stale"
  <2>1. twice' = (twice \/ \E b \in fs : p[b] = "stale")
    BY DEF AllocFree
  <2>2. (\E b \in fs : p[b] = "stale") => \E b \in fs \ bs : vport.ptr[b] = "stale"
    OBVIOUS
  <2> HIDE DEF p
  <2> QED
    BY <2>1, <2>2, Zenon
<1>8. ASSUME soft' # NoSoft, NEW b \in Blocks, soft'.clone.ptr[b] = "live"
      PROVE  q[b] = "live"
  <2>1. soft # NoSoft /\ soft.on
    BY <1>8, SoftSpoiled, SoftOn
  <2>2. soft \in SoftType
    BY <2>1 DEF PlaceInv
  <2>3. soft'.clone.ptr = Spoil(soft.clone.ptr, gone)
    BY <2>1, <2>2 DEF AllocFree, SoftType, VportType
  <2>4. soft.clone.ptr[b] = "live" /\ b \notin gone
    BY <1>8, <2>3 DEF Spoil
  <2> QED
    BY <2>1, <2>4 DEF HeapInv
<1> QED
  BY <1>4, <1>5, <1>6, <1>7, <1>8 DEF HeapInv

(* A flag is set or cleared.                                               *)
LEMMA SwmSet ==
  ASSUME vport \in VportType, NEW b \in BOOLEAN
  PROVE  /\ [vport EXCEPT !.swm = b] \in VportType
         /\ [vport EXCEPT !.swm = b].ptr = vport.ptr
BY DEF VportType

(* The uses of AllocIs: what each allocation and release leaves behind     *)
LEMMA VectorsAlloc ==
  ASSUME PlaceInv, HeapInv, Live({}), AllocFree({"q_vectors"}, {})
  PROVE  HeapInv' /\ Live({"q_vectors"})' /\ (twice' => twice)
<1> DEFINE bs == {"q_vectors"}
<1>1. bs \in SUBSET Blocks /\ {} \in SUBSET Blocks /\ \A b \in bs : vport.ptr[b] # "live"
  BY DEF Live, Blocks
<1>2. AllocFree(bs, {})
  OBVIOUS
<1> HIDE DEF bs
<1>3. /\ HeapInv' /\ (twice' => twice)
      /\ vport'.ptr = [b \in Blocks |-> IF b \in bs THEN "live" ELSE vport.ptr[b]]
  BY <1>1, <1>2, AllocIs
<1> QED
  BY <1>3 DEF Live, bs

(* idpf_vport_intr_alloc, failing                                          *)
LEMMA VectorsFail ==
  ASSUME PlaceInv, HeapInv, Live({}), AllocFree({"q_vectors"}, {"q_vectors"})
  PROVE  HeapInv' /\ Live({})'
<1> DEFINE bs == {"q_vectors"}
<1>1. bs \in SUBSET Blocks /\ \A b \in bs : vport.ptr[b] # "live"
  BY DEF Live, Blocks
<1>2. AllocFree(bs, bs)
  OBVIOUS
<1> HIDE DEF bs
<1>3. /\ HeapInv'
      /\ vport'.ptr = [b \in Blocks |-> IF b \in bs THEN "null"
                         ELSE IF b \in bs THEN "live" ELSE vport.ptr[b]]
  BY <1>1, <1>2, AllocIs
<1> QED
  BY <1>3 DEF Live

(* idpf_vport_queue_alloc_all                                              *)
LEMMA QueuesAlloc ==
  ASSUME PlaceInv, HeapInv, Live({"q_vectors"}), AllocFree(QueueBlocks, {})
  PROVE  /\ HeapInv' /\ Live(Blocks)' /\ (twice' => twice)
         /\ vport'.ntxq = vport.num /\ vport'.num = vport.num
         /\ vport'.swm = vport.swm /\ vport'.link = vport.link
<1>1. /\ QueueBlocks \in SUBSET Blocks /\ {} \in SUBSET Blocks
      /\ \A b \in QueueBlocks : vport.ptr[b] # "live"
      /\ "txqs" \in QueueBlocks \ {}
      /\ \A b \in Blocks : b \in QueueBlocks \/ b = "q_vectors"
  BY DEF Live, Blocks, QueueBlocks
<1>2. /\ HeapInv' /\ (twice' => twice)
      /\ vport'.ptr = [b \in Blocks |->
                         IF b \in QueueBlocks THEN "live" ELSE vport.ptr[b]]
      /\ vport'.ntxq = vport.num /\ vport'.num = vport.num
      /\ vport'.swm = vport.swm /\ vport'.link = vport.link
  BY <1>1, AllocIs
<1> QED
  BY <1>1, <1>2 DEF Live

(* idpf_vport_queue_alloc_all, failing at any of its blocks                *)
LEMMA QueuesFail ==
  ASSUME PlaceInv, HeapInv, Live({"q_vectors"}), NEW bs \in SUBSET QueueBlocks,
         AllocFree(bs, QueueBlocks)
  PROVE  HeapInv' /\ Live({"q_vectors"})'
<1>1. /\ QueueBlocks \in SUBSET Blocks /\ bs \in SUBSET Blocks
      /\ \A b \in bs : vport.ptr[b] # "live"
      /\ "q_vectors" \notin QueueBlocks /\ "q_vectors" \in Blocks
      /\ \A b \in Blocks : b \in QueueBlocks \/ b = "q_vectors"
  BY DEF Live, Blocks, QueueBlocks
<1>2. /\ HeapInv'
      /\ vport'.ptr = [b \in Blocks |-> IF b \in QueueBlocks THEN "null"
                         ELSE IF b \in bs THEN "live" ELSE vport.ptr[b]]
  BY <1>1, AllocIs
<1> QED
  BY <1>1, <1>2 DEF Live

(* idpf_vport_queues_rel                                                   *)
LEMMA QueuesFreed ==
  ASSUME PlaceInv, HeapInv, Live(Blocks), AllocFree({}, QueueBlocks)
  PROVE  HeapInv' /\ Live({"q_vectors"})' /\ (twice' => twice)
<1>1. /\ QueueBlocks \in SUBSET Blocks /\ {} \in SUBSET Blocks
      /\ \A b \in QueueBlocks \ {} : vport.ptr[b] # "stale"
      /\ "q_vectors" \notin QueueBlocks /\ "q_vectors" \in Blocks
      /\ \A b \in Blocks : b \in QueueBlocks \/ b = "q_vectors"
  BY DEF Live, Blocks, QueueBlocks
<1>2. /\ HeapInv' /\ (twice' => twice)
      /\ vport'.ptr = [b \in Blocks |-> IF b \in QueueBlocks THEN "null"
                                                           ELSE vport.ptr[b]]
  BY SMTT(30), <1>1, AllocIs
<1> QED
  BY <1>1, <1>2 DEF Live

(* idpf_vport_intr_rel                                                     *)
LEMMA VectorsFreed ==
  ASSUME PlaceInv, HeapInv, Live({"q_vectors"}), AllocFree({}, {"q_vectors"})
  PROVE  HeapInv' /\ Live({})' /\ (twice' => twice)
<1> DEFINE fs == {"q_vectors"}
<1>1. /\ fs \in SUBSET Blocks /\ {} \in SUBSET Blocks
      /\ \A b \in fs \ {} : vport.ptr[b] # "stale"
  BY DEF Live, Blocks
<1>2. AllocFree({}, fs)
  OBVIOUS
<1> HIDE DEF fs
<1>3. /\ HeapInv' /\ (twice' => twice)
      /\ vport'.ptr = [b \in Blocks |-> IF b \in fs THEN "null" ELSE vport.ptr[b]]
  BY <1>1, <1>2, AllocIs
<1> QED
  BY <1>3 DEF Live, fs

--------------------------------------------------------------------------------
(* No step leaves the places, or lets up be TRUE elsewhere.                *)
LEMMA PlaceKept == IInv /\ [Next]_vars => PlaceInv'
<1> SUFFICES ASSUME IInv, [Next]_vars PROVE PlaceInv'
  OBVIOUS
<1> USE DEF IInv, PlaceInv, Resting, Opening, Stopping, Leaving, Soft, vars,
            ctlVars, netVars, memVars, linkVars, Msg, Fault, NoFault, Idle,
            NoSoft
<1>1. CASE Open
  BY <1>1 DEF Open, OpenInv
<1>2. CASE Stop
  BY <1>2 DEF Stop
<1>3. ASSUME NEW n \in Queues, SoftReset(n) PROVE PlaceInv'
  BY <1>3 DEF SoftReset, MemInv, HeapInv, VportType, SoftType
<1>4. CASE IntrAlloc
  BY <1>4, SoftSpoiled, ReturnIs DEF IntrAlloc
<1>5. CASE QueueAlloc
  BY <1>5, SoftSpoiled DEF QueueAlloc
<1>6. CASE IntrInit
  BY <1>6 DEF IntrInit
<1>7. CASE BufsInit
  BY <1>7 DEF BufsInit
<1>8. CASE ConfigTxQueues
  BY <1>8 DEF ConfigTxQueues
<1>9. CASE ConfigRxQueues
  BY <1>9 DEF ConfigRxQueues
<1>10. CASE MapVectors
  BY <1>10 DEF MapVectors
<1>11. CASE EnableQueues
  BY <1>11 DEF EnableQueues
<1>12. CASE EnableVport
  BY <1>12 DEF EnableVport
<1>13. CASE ConfigRss
  BY <1>13 DEF ConfigRss
<1>14. CASE UpLink
  BY <1>14 DEF UpLink
<1>15. CASE UpComplete
  BY <1>15, ReturnIs DEF UpComplete, SoftType
<1>16. CASE ClearUp
  BY <1>16, ReturnIs DEF ClearUp
<1>17. CASE NetdevStop
  BY <1>17 DEF NetdevStop
<1>18. CASE DisableVport
  BY <1>18 DEF DisableVport
<1>19. CASE DisableQueues
  BY <1>19 DEF DisableQueues
<1>20. CASE SetBit
  BY <1>20 DEF SetBit
<1>21. CASE WaitMarkers
  BY <1>21 DEF WaitMarkers
<1>22. CASE UnmapVectors
  BY <1>22 DEF UnmapVectors
<1>23. CASE DeleteQueues
  BY <1>23 DEF DeleteQueues
<1>24. CASE IntrDeinit
  BY <1>24 DEF IntrDeinit
<1>25. CASE QueuesRel
  BY <1>25, SoftSpoiled DEF QueuesRel
<1>26. CASE IntrRel
  BY <1>26, SoftSpoiled, ReturnIs DEF IntrRel
<1>27. CASE SoftDelete
  BY <1>27 DEF SoftDelete
<1>28. CASE SoftAdd
  BY <1>28 DEF SoftAdd
<1>29. CASE SoftReal
  BY <1>29 DEF SoftReal, Reopen
<1>30. CASE SoftOld
  BY <1>30 DEF SoftOld, Reopen
<1>31. CASE SoftEnd
  BY <1>31 DEF SoftEnd
<1>32. ASSUME NEW q \in Queues, Marker(q) PROVE PlaceInv'
  BY <1>32 DEF Marker
<1>33. CASE LinkChange
  BY <1>33 DEF LinkChange
<1>34. CASE LinkEvent
  BY <1>34 DEF LinkEvent
<1>35. CASE LinkCarrier
  BY <1>35 DEF LinkCarrier
<1>36. CASE CoreReset
  BY <1>36 DEF CoreReset
<1>37. CASE UNCHANGED vars
  BY <1>37
<1> QED
  BY <1>1, <1>2, <1>3, <1>4, <1>5, <1>6, <1>7, <1>8, <1>9, <1>10, <1>11, <1>12,
     <1>13, <1>14, <1>15, <1>16, <1>17, <1>18, <1>19, <1>20, <1>21, <1>22,
     <1>23, <1>24, <1>25, <1>26, <1>27, <1>28, <1>29, <1>30, <1>31, <1>32,
     <1>33, <1>34, <1>35, <1>36, <1>37
     DEF Next, Control

(* No step breaks what ties IFF_UP, IDPF_VPORT_UP and the soft reset.      *)
LEMMA OpenKept == IInv /\ [Next]_vars => OpenInv'
<1> SUFFICES ASSUME IInv, [Next]_vars PROVE OpenInv'
  OBVIOUS
<1> USE DEF IInv, PlaceInv, Resting, Opening, Stopping, Leaving, Soft, vars,
            ctlVars, netVars, memVars, linkVars, Msg, Fault, NoFault, Idle,
            NoSoft, OpenInv
<1>1. CASE Open
  BY <1>1 DEF Open
<1>2. CASE Stop
  BY <1>2 DEF Stop
<1>3. ASSUME NEW n \in Queues, SoftReset(n) PROVE OpenInv'
  <2>1. soft'.wasUp = up /\ iff' = iff /\ up' = up /\ pc = "idle"
    BY <1>3 DEF SoftReset
  <2>2. up => iff
    BY <2>1
  <2>3. iff \in BOOLEAN
    OBVIOUS
  <2> QED
    BY <2>1, <2>2, <2>3, Zenon
<1>4. CASE IntrAlloc
  BY <1>4, SoftSpoiled, ReturnIs DEF IntrAlloc
<1>5. CASE QueueAlloc
  BY <1>5, SoftSpoiled DEF QueueAlloc
<1>6. CASE IntrInit
  BY <1>6 DEF IntrInit
<1>7. CASE BufsInit
  BY <1>7 DEF BufsInit
<1>8. CASE ConfigTxQueues
  BY <1>8 DEF ConfigTxQueues
<1>9. CASE ConfigRxQueues
  BY <1>9 DEF ConfigRxQueues
<1>10. CASE MapVectors
  BY <1>10 DEF MapVectors
<1>11. CASE EnableQueues
  BY <1>11 DEF EnableQueues
<1>12. CASE EnableVport
  BY <1>12 DEF EnableVport
<1>13. CASE ConfigRss
  BY <1>13 DEF ConfigRss
<1>14. CASE UpLink
  BY <1>14 DEF UpLink
<1>15. CASE UpComplete
  <2>1. up' = TRUE /\ soft' = soft /\ pc = "o_up" /\ fn = "open"
    BY <1>15, ReturnIs DEF UpComplete
  <2>2. (soft = NoSoft /\ iff' = TRUE) \/ (soft # NoSoft /\ iff' = iff)
    <3>1. Return(FALSE)
      BY <1>15, ReturnIs DEF UpComplete
    <3> QED
      BY <2>1, <3>1, SoftOn, Zenon DEF Return
  <2>3. soft # NoSoft => iff
    BY <2>1
  <2>4. iff \in BOOLEAN
    OBVIOUS
  <2> QED
    BY <2>1, <2>2, <2>3, <2>4, Zenon
<1>16. CASE ClearUp
  BY <1>16, ReturnIs DEF ClearUp
<1>17. CASE NetdevStop
  BY <1>17 DEF NetdevStop
<1>18. CASE DisableVport
  BY <1>18 DEF DisableVport
<1>19. CASE DisableQueues
  BY <1>19 DEF DisableQueues
<1>20. CASE SetBit
  BY <1>20 DEF SetBit
<1>21. CASE WaitMarkers
  BY <1>21 DEF WaitMarkers
<1>22. CASE UnmapVectors
  BY <1>22 DEF UnmapVectors
<1>23. CASE DeleteQueues
  BY <1>23 DEF DeleteQueues
<1>24. CASE IntrDeinit
  BY <1>24 DEF IntrDeinit
<1>25. CASE QueuesRel
  BY <1>25, SoftSpoiled DEF QueuesRel
<1>26. CASE IntrRel
  BY <1>26, SoftSpoiled, ReturnIs DEF IntrRel
<1>27. CASE SoftDelete
  BY <1>27 DEF SoftDelete
<1>28. CASE SoftAdd
  BY <1>28 DEF SoftAdd
<1>29. CASE SoftReal
  BY <1>29 DEF SoftReal, Reopen
<1>30. CASE SoftOld
  BY <1>30 DEF SoftOld, Reopen
<1>31. CASE SoftEnd
  BY <1>31 DEF SoftEnd
<1>32. ASSUME NEW q \in Queues, Marker(q) PROVE OpenInv'
  BY <1>32 DEF Marker
<1>33. CASE LinkChange
  BY <1>33 DEF LinkChange
<1>34. CASE LinkEvent
  BY <1>34 DEF LinkEvent
<1>35. CASE LinkCarrier
  BY <1>35 DEF LinkCarrier
<1>36. CASE CoreReset
  BY <1>36 DEF CoreReset
<1>37. CASE UNCHANGED vars
  BY <1>37
<1> QED
  BY <1>1, <1>2, <1>3, <1>4, <1>5, <1>6, <1>7, <1>8, <1>9, <1>10, <1>11, <1>12,
     <1>13, <1>14, <1>15, <1>16, <1>17, <1>18, <1>19, <1>20, <1>21, <1>22,
     <1>23, <1>24, <1>25, <1>26, <1>27, <1>28, <1>29, <1>30, <1>31, <1>32,
     <1>33, <1>34, <1>35, <1>36, <1>37
     DEF Next, Control

(* No step loses a block, or frees one that its place should have.         *)
LEMMA MemKept == IInv /\ [Next]_vars => MemInv'
<1> SUFFICES ASSUME IInv, [Next]_vars PROVE MemInv'
  OBVIOUS
<1> USE DEF IInv, PlaceInv, Resting, Opening, Stopping, Leaving, Soft, vars,
            ctlVars, netVars, memVars, linkVars, Msg, Fault, NoFault, Idle,
            NoSoft, MemInv, OpenInv, HasAll, HasNone, HeapInv
<1>1. CASE Open
  BY <1>1 DEF Open, Live, Blocks
<1>2. CASE Stop
  BY <1>2 DEF Stop, Live, Blocks
<1>3. ASSUME NEW n \in Queues, SoftReset(n) PROVE MemInv'
  BY <1>3 DEF SoftReset, Live, Blocks, VportType, SoftType
<1>4. CASE IntrAlloc
  <2>1. CASE AllocFree({"q_vectors"}, {}) /\ pc' = "o_queues" /\ slips' = slips
    <3>1. HeapInv' /\ Live({"q_vectors"})' /\ (twice' => twice)
      BY <1>4, <2>1, VectorsAlloc DEF IntrAlloc
    <3> QED
      BY <1>4, <2>1, <3>1 DEF IntrAlloc
  <2>2. CASE /\ AllocFree({"q_vectors"}, {"q_vectors"}) /\ Return(TRUE)
             /\ slips' = slips \cup {"memory"}
    <3>1. HeapInv' /\ Live({})'
      BY <1>4, <2>2, VectorsFail DEF IntrAlloc
    <3>2. pc' \in {"idle", "sr_end"} /\ ~ up
      BY <1>4, <2>2, ReturnIs DEF IntrAlloc
    <3> QED
      BY <1>4, <2>2, <3>1, <3>2 DEF IntrAlloc
  <2> QED
    BY <1>4, <2>1, <2>2 DEF IntrAlloc
<1>5. CASE QueueAlloc
  <2>1. CASE AllocFree(QueueBlocks, {}) /\ pc' = "o_irq" /\ slips' = slips
    <3>1. HeapInv' /\ Live(Blocks)' /\ (twice' => twice)
      BY <1>5, <2>1, QueuesAlloc DEF QueueAlloc
    <3> QED
      BY <1>5, <2>1, <3>1 DEF QueueAlloc
  <2>2. ASSUME NEW k \in 1 .. 3,
               AllocFree({AllocOrder[j] : j \in 1 .. k}, QueueBlocks),
               pc' = "intr_rel", slips' = slips \cup {"memory"}
        PROVE  MemInv'
    <3> DEFINE bs == {AllocOrder[j] : j \in 1 .. k}
    <3>1. bs \in SUBSET QueueBlocks
      BY DEF AllocOrder, QueueBlocks
    <3>2. AllocFree(bs, QueueBlocks)
      BY <2>2
    <3> HIDE DEF bs
    <3>3. HeapInv' /\ Live({"q_vectors"})'
      BY <1>5, <3>1, <3>2, QueuesFail DEF QueueAlloc
    <3> QED
      BY <1>5, <2>2, <3>3 DEF QueueAlloc
  <2> QED
    BY <1>5, <2>1, <2>2 DEF QueueAlloc
<1>6. CASE IntrInit
  BY <1>6 DEF IntrInit, Live, Blocks
<1>7. CASE BufsInit
  BY <1>7 DEF BufsInit, Live, Blocks
<1>8. CASE ConfigTxQueues
  BY <1>8 DEF ConfigTxQueues, Live, Blocks
<1>9. CASE ConfigRxQueues
  BY <1>9 DEF ConfigRxQueues, Live, Blocks
<1>10. CASE MapVectors
  BY <1>10 DEF MapVectors, Live, Blocks
<1>11. CASE EnableQueues
  BY <1>11 DEF EnableQueues, Live, Blocks
<1>12. CASE EnableVport
  BY <1>12 DEF EnableVport, Live, Blocks
<1>13. CASE ConfigRss
  BY <1>13 DEF ConfigRss, Live, Blocks
<1>14. CASE UpLink
  BY <1>14 DEF UpLink, Live, Blocks
<1>15. CASE UpComplete
  BY <1>15, ReturnIs DEF UpComplete, Live, Blocks
<1>16. CASE ClearUp
  BY <1>16, ReturnIs DEF ClearUp, Live, Blocks
<1>17. CASE NetdevStop
  BY <1>17 DEF NetdevStop, Live, Blocks
<1>18. CASE DisableVport
  BY <1>18 DEF DisableVport, Live, Blocks
<1>19. CASE DisableQueues
  BY <1>19 DEF DisableQueues, Live, Blocks
<1>20. CASE SetBit
  BY <1>20 DEF SetBit, Live, Blocks
<1>21. CASE WaitMarkers
  <2>0. vport \in VportType
    OBVIOUS
  <2>1. vport' = vport \/ vport' = [vport EXCEPT !.swm = FALSE]
    BY <1>21 DEF WaitMarkers
  <2>2. vport' \in VportType /\ vport'.ptr = vport.ptr
    BY <2>0, <2>1, SwmSet
  <2> QED
    BY <1>21, <2>2 DEF WaitMarkers, Live
<1>22. CASE UnmapVectors
  BY <1>22 DEF UnmapVectors, Live, Blocks
<1>23. CASE DeleteQueues
  BY <1>23 DEF DeleteQueues, Live, Blocks, VportType
<1>24. CASE IntrDeinit
  BY <1>24 DEF IntrDeinit, Live, Blocks
<1>25. CASE QueuesRel
  <2>1. HeapInv' /\ Live({"q_vectors"})' /\ (twice' => twice)
    BY <1>25, QueuesFreed DEF QueuesRel
  <2> QED
    BY <1>25, <2>1 DEF QueuesRel
<1>26. CASE IntrRel
  <2>1. HeapInv' /\ Live({})' /\ (twice' => twice)
    BY <1>26, VectorsFreed DEF IntrRel
  <2>2. pc' \in {"idle", "sr_end", "sr_add"} /\ ~ up
    BY <1>26, ReturnIs DEF IntrRel
  <2> QED
    BY <1>26, <2>1, <2>2 DEF IntrRel
<1>27. CASE SoftDelete
  BY <1>27 DEF SoftDelete, Live, Blocks
<1>28. CASE SoftAdd
  <2>1. soft \in SoftType /\ soft' = soft /\ \A b \in Blocks : vport.ptr[b] # "live"
    BY <1>28 DEF SoftAdd, Live
  <2>2. vport' = vport \/ vport' = soft.clone
    BY <1>28 DEF SoftAdd, CopyBack
  <2>3. vport' \in VportType /\ \A b \in Blocks : vport'.ptr[b] # "live"
    <3>1. soft.clone \in VportType /\ \A b \in Blocks : soft.clone.ptr[b] # "live"
      BY <2>1, SoftOn DEF SoftType
    <3> QED
      BY <2>1, <2>2, <3>1
  <2>4. heap' = heap /\ heap = [b \in Blocks |-> 0]
    BY <1>28, <2>1 DEF SoftAdd
  <2>5. slips' \in {slips, slips \cup {"link"}}
    BY <1>28 DEF SoftAdd, CopyBack
  <2> QED
    BY <1>28, <2>1, <2>3, <2>4, <2>5 DEF SoftAdd, Live
<1>29. CASE SoftReal
  BY <1>29 DEF SoftReal, Live, Blocks, Reopen
<1>30. CASE SoftOld
  BY <1>30 DEF SoftOld, Live, Blocks, Reopen
<1>31. CASE SoftEnd
  BY <1>31 DEF SoftEnd, Live, Blocks
<1>32. ASSUME NEW q \in Queues, Marker(q) PROVE MemInv'
  BY <1>32 DEF Marker, Live, Blocks, VportType
<1>33. CASE LinkChange
  BY <1>33 DEF LinkChange, Live, Blocks
<1>34. CASE LinkEvent
  <2>1. Head(events) \in BOOLEAN
    BY <1>34 DEF LinkEvent, LinkInv
  <2>2. vport' \in VportType /\ vport'.ptr = vport.ptr
    BY <1>34, <2>1 DEF LinkEvent, VportType
  <2> QED
    BY <1>34, <2>2 DEF LinkEvent, Live
<1>35. CASE LinkCarrier
  BY <1>35 DEF LinkCarrier, Live, Blocks
<1>36. CASE CoreReset
  BY <1>36 DEF CoreReset, Live, Blocks
<1>37. CASE UNCHANGED vars
  BY <1>37 DEF Live, Blocks
<1> QED
  BY <1>1, <1>2, <1>3, <1>4, <1>5, <1>6, <1>7, <1>8, <1>9, <1>10, <1>11, <1>12,
     <1>13, <1>14, <1>15, <1>16, <1>17, <1>18, <1>19, <1>20, <1>21, <1>22,
     <1>23, <1>24, <1>25, <1>26, <1>27, <1>28, <1>29, <1>30, <1>31, <1>32,
     <1>33, <1>34, <1>35, <1>36, <1>37
     DEF Next, Control

(* What a message does to the device: nothing, or what it asks for         *)
LEMMA MsgIs ==
  ASSUME NEW o \in Outcomes, NEW d, Msg(o, d)
  PROVE  /\ o \in {"ok", "late", "failed"}
         /\ dev' = IF o = "failed" THEN dev ELSE d
         /\ o # "failed" => ~ Hopeless
BY DEF Msg, Outcomes

(* The vport whose queues are deleted                                      *)
LEMMA DeletedIs ==
  ASSUME dev \in DevType
  PROVE  /\ Deleted \in DevType
         /\ ~ Deleted.qena /\ Deleted.num = 0 /\ Deleted.mem = "none"
<1>1. 0 \in 0 .. MaxQ
  BY MaxQAssumption
<1>2. Deleted \in DevType
  BY <1>1 DEF DevType, Deleted
<1>3. ~ Deleted.qena /\ Deleted.num = 0 /\ Deleted.mem = "none"
  BY DEF DevType, Deleted
<1> QED
  BY <1>2, <1>3

(* No step takes back what the device was told on the way up.              *)
LEMMA DevKept == IInv /\ [Next]_vars => DevInv'
<1> SUFFICES ASSUME IInv, [Next]_vars PROVE DevInv'
  OBVIOUS
<1> USE DEF IInv, PlaceInv, Resting, Opening, Stopping, Leaving, Soft, vars,
            ctlVars, netVars, memVars, linkVars, Msg, Fault, NoFault, Idle,
            NoSoft, DevInv, NoDev, Reached, Enabled
<1>1. CASE Open
  BY <1>1 DEF Open, DevType
<1>2. CASE Stop
  BY <1>2 DEF Stop, DevType
<1>3. ASSUME NEW n \in Queues, SoftReset(n) PROVE DevInv'
  BY <1>3 DEF SoftReset, DevType, MemInv, HeapInv, VportType
<1>4. CASE IntrAlloc
  <2>1. pc' \in {"o_queues", "idle", "sr_end"} /\ ~ up'
    BY <1>4, ReturnIs DEF IntrAlloc
  <2> QED
    BY <1>4, <2>1 DEF IntrAlloc
<1>5. CASE QueueAlloc
  <2>1. CASE AllocFree(QueueBlocks, {}) /\ pc' = "o_irq"
    <3>1. vport'.ntxq = vport.num /\ vport'.num = vport.num
      <4>1. HeapInv /\ Live({"q_vectors"})
        BY <1>5 DEF QueueAlloc, MemInv
      <4> QED
        BY <2>1, <4>1, QueuesAlloc
    <3> QED
      BY <1>5, <2>1, <3>1 DEF QueueAlloc
  <2>2. CASE pc' = "intr_rel"
    BY <1>5, <2>2 DEF QueueAlloc
  <2> QED
    BY <1>5, <2>1, <2>2 DEF QueueAlloc
<1>6. CASE IntrInit
  BY <1>6 DEF IntrInit, DevType
<1>7. CASE BufsInit
  BY <1>7 DEF BufsInit, DevType
<1>8. CASE ConfigTxQueues
  <2> DEFINE d == [dev EXCEPT !.mem = "live"]
  <2>1. PICK o \in Outcomes : Msg(o, d)
            /\ pc' = (IF o = "ok" THEN "o_rxcfg" ELSE "intr_deinit")
            /\ marks' = (IF o = "failed" THEN marks ELSE {})
    BY <1>8 DEF ConfigTxQueues
  <2>2. /\ d \in DevType
        /\ d.mem = "live" /\ d.num = dev.num
    BY MaxQAssumption DEF DevType
  <2>3. /\ dev' = IF o = "failed" THEN dev ELSE d
        /\ o # "failed" => ~ Hopeless
    BY <2>1, MsgIs, Zenon
  <2> HIDE DEF d
  <2> QED
    BY <1>8, <2>1, <2>2, <2>3 DEF ConfigTxQueues, Hopeless
<1>9. CASE ConfigRxQueues
  <2> DEFINE d == [dev EXCEPT !.cfg = TRUE]
  <2>1. PICK o \in Outcomes : Msg(o, d)
            /\ pc' = (IF o = "ok" THEN "o_map" ELSE "intr_deinit")
    BY <1>9 DEF ConfigRxQueues
  <2>2. /\ d \in DevType
        /\ d.mem = dev.mem /\ d.num = dev.num /\ d.cfg = TRUE
    BY MaxQAssumption DEF DevType
  <2>3. /\ dev' = IF o = "failed" THEN dev ELSE d
        /\ o # "failed" => ~ Hopeless
    BY <2>1, MsgIs, Zenon
  <2> HIDE DEF d
  <2> QED
    BY <1>9, <2>1, <2>2, <2>3 DEF ConfigRxQueues, Hopeless
<1>10. CASE MapVectors
  BY ZenonT(30), <1>10 DEF MapVectors, DevType, Outcomes, Hopeless
<1>11. CASE EnableQueues
  BY ZenonT(30), <1>11 DEF EnableQueues, DevType, Outcomes, Hopeless
<1>12. CASE EnableVport
  BY ZenonT(30), <1>12 DEF EnableVport, DevType, Outcomes, Hopeless
<1>13. CASE ConfigRss
  BY <1>13 DEF ConfigRss, DevType, Outcomes, Hopeless
<1>14. CASE UpLink
  BY <1>14 DEF UpLink, DevType
<1>15. CASE UpComplete
  BY <1>15, ReturnIs DEF UpComplete, DevType
<1>16. CASE ClearUp
  BY <1>16, ReturnIs DEF ClearUp, DevType
<1>17. CASE NetdevStop
  BY <1>17 DEF NetdevStop, DevType
<1>18. CASE DisableVport
  BY ZenonT(30), <1>18 DEF DisableVport, DevType, Outcomes, Hopeless
<1>19. CASE DisableQueues
  <2> DEFINE d == [dev EXCEPT !.qena = FALSE]
  <2>1. PICK o \in Outcomes : Msg(o, d)
            /\ marks' = (IF o # "failed" /\ dev.qena THEN 1 .. dev.num ELSE marks)
            /\ pc' \in {"bits", "unmap"} /\ (pc' = "bits" => o = "ok")
    BY <1>19 DEF DisableQueues
  <2>2. /\ d \in DevType
        /\ d.mem = dev.mem /\ d.num = dev.num /\ dev.num \in 0 .. MaxQ
    BY MaxQAssumption DEF DevType
  <2>3. /\ dev' = IF o = "failed" THEN dev ELSE d
        /\ o # "failed" => ~ Hopeless
    BY <2>1, MsgIs, Zenon
  <2> HIDE DEF d
  <2>4. marks' \subseteq Queues
    <3>1. marks' = 1 .. dev.num \/ marks' = marks
      BY <2>1
    <3>2. 1 .. dev.num \subseteq Queues
      BY <2>2, MaxQAssumption DEF Queues
    <3> QED
      BY <3>1, <3>2
  <2> QED
    BY <1>19, <2>1, <2>2, <2>3, <2>4 DEF DisableQueues, Hopeless
<1>20. CASE SetBit
  BY <1>20 DEF SetBit, DevType
<1>21. CASE WaitMarkers
  BY <1>21 DEF WaitMarkers, DevType, MemInv, HeapInv, VportType
<1>22. CASE UnmapVectors
  BY ZenonT(30), <1>22 DEF UnmapVectors, DevType, Outcomes, Hopeless
<1>23. CASE DeleteQueues
  <2>1. pc = "delq" /\ pc' = "intr_deinit"
    BY <1>23 DEF DeleteQueues
  <2>2. dev' \in DevType /\ (corer => dev' = dev)
    <3>1. CASE ~ vport.delq
      BY <1>23, <3>1 DEF DeleteQueues
    <3>2. CASE vport.delq
      <4>1. PICK o \in Outcomes : Msg(o, Deleted)
        BY <1>23, <3>2 DEF DeleteQueues
      <4>2. Deleted \in DevType
        BY DeletedIs
      <4> QED
        BY <4>1, <4>2, MsgIs DEF Hopeless
    <3> QED
      BY <3>1, <3>2
  <2> QED
    BY <1>23, <2>1, <2>2 DEF DeleteQueues
<1>24. CASE IntrDeinit
  BY <1>24 DEF IntrDeinit, DevType
<1>25. CASE QueuesRel
  <2>1. dev' \in DevType /\ (corer => dev' = dev)
    <3>1. [dev EXCEPT !.mem = "stale"] \in DevType
      BY DEF DevType
    <3> QED
      BY <1>25, <3>1 DEF QueuesRel
  <2> QED
    BY <1>25, <2>1 DEF QueuesRel
<1>26. CASE IntrRel
  <2>1. pc' \in {"sr_add", "idle", "sr_end"} /\ ~ up'
    BY <1>26, ReturnIs DEF IntrRel
  <2> QED
    BY <1>26, <2>1 DEF IntrRel
<1>27. CASE SoftDelete
  <2>1. dev' \in DevType /\ (corer => dev' = dev)
    <3>1. PICK o \in Outcomes : Msg(o, Deleted)
      BY <1>27 DEF SoftDelete
    <3>2. Deleted \in DevType
      BY DeletedIs
    <3> QED
      BY <3>1, <3>2, MsgIs DEF Hopeless
  <2> QED
    BY <1>27, <2>1 DEF SoftDelete
<1>28. CASE SoftAdd
  <2>1. dev' \in DevType /\ (corer => dev' = dev)
    <3>1. PICK o \in Outcomes : Msg(o, [dev EXCEPT !.num = soft.clone.num])
      BY <1>28 DEF SoftAdd
    <3>2. soft.clone.num \in 0 .. MaxQ
      <4>1. soft \in SoftType
        BY <1>28 DEF SoftAdd
      <4>2. soft.clone \in VportType
        BY <4>1 DEF SoftType
      <4>3. soft.clone.num \in Queues
        BY <4>2 DEF VportType
      <4> QED
        BY <4>3, MaxQAssumption DEF Queues
    <3>3. [dev EXCEPT !.num = soft.clone.num] \in DevType
      BY <3>2 DEF DevType
    <3> QED
      BY <3>1, <3>3, MsgIs DEF Hopeless
  <2>2. pc' \in {"sr_real", "sr_old"} /\ ~ up
    BY <1>28 DEF SoftAdd
  <2> QED
    BY <1>28, <2>1, <2>2 DEF SoftAdd
<1>29. CASE SoftReal
  BY <1>29 DEF SoftReal, DevType, Reopen
<1>30. CASE SoftOld
  <2>1. dev' \in DevType /\ (corer => dev' = dev)
    <3>1. PICK o \in Outcomes : Msg(o, [dev EXCEPT !.num = vport.num])
      BY <1>30 DEF SoftOld
    <3>2. vport.num \in 0 .. MaxQ
      BY MaxQAssumption DEF MemInv, HeapInv, VportType, Queues
    <3>3. [dev EXCEPT !.num = vport.num] \in DevType
      BY <3>2 DEF DevType
    <3> QED
      BY <3>1, <3>3, MsgIs DEF Hopeless
  <2>2. pc' \in {"sr_end", "o_intr"} /\ ~ up
    BY <1>30 DEF SoftOld, Reopen
  <2> QED
    BY <1>30, <2>1, <2>2 DEF SoftOld
<1>31. CASE SoftEnd
  BY <1>31 DEF SoftEnd, DevType
<1>32. ASSUME NEW q \in Queues, Marker(q) PROVE DevInv'
  BY <1>32 DEF Marker, DevType, MemInv, HeapInv, VportType
<1>33. CASE LinkChange
  BY <1>33 DEF LinkChange, DevType
<1>34. CASE LinkEvent
  BY <1>34 DEF LinkEvent, DevType, MemInv, HeapInv, VportType
<1>35. CASE LinkCarrier
  BY <1>35 DEF LinkCarrier, DevType
<1>36. CASE CoreReset
  <2>1. NoDev \in DevType
    BY MaxQAssumption DEF DevType
  <2> QED
    BY <1>36, <2>1 DEF CoreReset
<1>37. CASE UNCHANGED vars
  BY <1>37
<1> QED
  BY <1>1, <1>2, <1>3, <1>4, <1>5, <1>6, <1>7, <1>8, <1>9, <1>10, <1>11, <1>12,
     <1>13, <1>14, <1>15, <1>16, <1>17, <1>18, <1>19, <1>20, <1>21, <1>22,
     <1>23, <1>24, <1>25, <1>26, <1>27, <1>28, <1>29, <1>30, <1>31, <1>32,
     <1>33, <1>34, <1>35, <1>36, <1>37
     DEF Next, Control

(* No step lets a marker be forgotten without a slip.                      *)
LEMMA DrainKept == IInv /\ [Next]_vars => DrainInv'
<1> SUFFICES ASSUME IInv, [Next]_vars PROVE DrainInv'
  OBVIOUS
<1> USE DEF IInv, PlaceInv, Resting, Opening, Stopping, Leaving, Soft, vars,
            ctlVars, netVars, memVars, linkVars, Msg, Fault, NoFault, Idle,
            NoSoft, DrainInv, NoDev, Reached, Enabled
<1>1. CASE Open
  BY <1>1 DEF Open, OpenInv
<1>2. CASE Stop
  BY <1>2 DEF Stop
<1>3. ASSUME NEW n \in Queues, SoftReset(n) PROVE DrainInv'
  BY <1>3 DEF SoftReset, MemInv, HeapInv, VportType
<1>4. CASE IntrAlloc
  BY <1>4, ReturnIs DEF IntrAlloc
<1>5. CASE QueueAlloc
  BY <1>5 DEF QueueAlloc
<1>6. CASE IntrInit
  BY <1>6 DEF IntrInit
<1>7. CASE BufsInit
  BY <1>7 DEF BufsInit
<1>8. CASE ConfigTxQueues
  <2> DEFINE d == [dev EXCEPT !.mem = "live"]
  <2>1. PICK o \in Outcomes : Msg(o, d)
            /\ pc' = (IF o = "ok" THEN "o_rxcfg" ELSE "intr_deinit")
            /\ marks' = (IF o = "failed" THEN marks ELSE {})
            /\ slips' = (IF o = "failed" \/ dev.qena THEN slips
                         ELSE slips \ {"message"})
    BY <1>8 DEF ConfigTxQueues
  <2>2. d.qena = dev.qena
    BY DEF DevInv, DevType
  <2>3. /\ dev' = IF o = "failed" THEN dev ELSE d
        /\ o # "failed" => ~ Hopeless
        /\ o \in {"ok", "late", "failed"}
    BY <2>1, MsgIs, Zenon
  <2> HIDE DEF d
  <2> QED
    BY <1>8, <2>1, <2>2, <2>3 DEF ConfigTxQueues, Hopeless
<1>9. CASE ConfigRxQueues
  BY <1>9 DEF ConfigRxQueues, DevInv, DevType, Outcomes, Hopeless
<1>10. CASE MapVectors
  BY <1>10 DEF MapVectors, DevInv, DevType, Outcomes, Hopeless
<1>11. CASE EnableQueues
  <2> DEFINE d == [dev EXCEPT !.qena = TRUE]
  <2>1. PICK o \in Outcomes : Msg(o, d)
            /\ pc' = (IF o = "ok" THEN "o_vena" ELSE "unmap")
            /\ slips' = (IF o = "late" THEN slips \cup {"message"} ELSE slips)
    BY <1>11 DEF EnableQueues
  <2>2. d.qena = TRUE
    BY DEF DevInv, DevType
  <2>3. /\ dev' = IF o = "failed" THEN dev ELSE d
        /\ o # "failed" => ~ Hopeless
        /\ o \in {"ok", "late", "failed"}
    BY <2>1, MsgIs, Zenon
  <2> HIDE DEF d
  <2> QED
    BY <1>11, <2>1, <2>2, <2>3 DEF EnableQueues, Hopeless
<1>12. CASE EnableVport
  BY <1>12 DEF EnableVport, DevInv, DevType, Outcomes, Hopeless
<1>13. CASE ConfigRss
  BY <1>13 DEF ConfigRss, DevInv, DevType, Outcomes, Hopeless
<1>14. CASE UpLink
  BY <1>14 DEF UpLink
<1>15. CASE UpComplete
  BY <1>15, ReturnIs DEF UpComplete, DevInv
<1>16. CASE ClearUp
  BY <1>16, ReturnIs DEF ClearUp
<1>17. CASE NetdevStop
  BY <1>17 DEF NetdevStop, DevInv
<1>18. CASE DisableVport
  BY <1>18 DEF DisableVport, DevInv, DevType, Outcomes, Hopeless
<1>19. CASE DisableQueues
  <2> DEFINE d == [dev EXCEPT !.qena = FALSE]
  <2>1. PICK o \in Outcomes : Msg(o, d)
            /\ marks' = (IF o # "failed" /\ dev.qena THEN 1 .. dev.num ELSE marks)
            /\ IF o = "ok"
               THEN /\ pc' = "bits"
                    /\ slips' = (slips \ {"message", "marker"})
                                  \cup (IF vport.swm THEN {"marker"} ELSE {})
               ELSE pc' = "unmap" /\ slips' = slips \cup {"message"}
    BY <1>19 DEF DisableQueues
  <2>2. d.qena = FALSE
    BY DEF DevInv, DevType
  <2>3. /\ dev' = IF o = "failed" THEN dev ELSE d
        /\ o # "failed" => ~ Hopeless
        /\ o \in {"ok", "late", "failed"}
    BY <2>1, MsgIs, Zenon
  <2> HIDE DEF d
  <2>4. o = "ok" =>
          /\ marks' = 1 .. vport.ntxq
          /\ "message" \notin slips' /\ ("marker" \in slips' <=> vport.swm)
          /\ vport.ntxq >= 0 /\ 1 .. 0 = {}
    <3>1. vport.ntxq \in 0 .. MaxQ
      BY DEF MemInv, HeapInv, VportType
    <3>2. ~ corer => dev.qena /\ dev.num = vport.num /\ vport.ntxq = vport.num
      BY <1>19 DEF DisableQueues, DevInv
    <3>3. o = "ok" => ~ corer
      BY <2>3 DEF Hopeless
    <3> QED
      BY <2>1, <3>1, <3>2, <3>3, MaxQAssumption
  <2> QED
    BY <1>19, <2>1, <2>2, <2>3, <2>4 DEF DisableQueues, Hopeless
<1>20. CASE SetBit
  <2>1. vport.ntxq \in Nat /\ vport.ntxq <= MaxQ /\ idx \in Nat /\ idx <= vport.ntxq
    BY <1>20, MaxQAssumption DEF SetBit, MemInv, HeapInv, VportType
  <2>2. CASE idx < vport.ntxq
    <3>1. idx + 1 \in Queues /\ idx + 1 \in 0 .. MaxQ /\ idx + 1 <= vport.ntxq
      BY <2>1, <2>2, MaxQAssumption DEF Queues
    <3>2. 1 .. (idx + 1) \subseteq (1 .. idx) \cup {idx + 1}
      BY <2>1
    <3>3. idx' = idx + 1 /\ bits' = bits \cup {idx + 1} /\ pc = "bits" /\ pc' = pc
      BY <1>20, <2>2 DEF SetBit
    <3> QED
      BY <1>20, <2>2, <3>1, <3>2, <3>3 DEF SetBit
  <2>3. CASE idx = vport.ntxq
    <3>1. idx' = 0 /\ bits' = bits /\ pc = "bits" /\ pc' = "wait" /\ 0 \in 0 .. MaxQ
      BY <1>20, <2>1, <2>3, MaxQAssumption DEF SetBit
    <3> QED
      BY <1>20, <2>3, <3>1 DEF SetBit
  <2> QED
    BY <2>1, <2>2, <2>3
<1>21. CASE WaitMarkers
  <2>1. CASE vport.swm /\ slips' = slips
    BY <1>21, <2>1 DEF WaitMarkers
  <2>2. CASE slips' = slips \cup {"marker"}
    BY <1>21, <2>2 DEF WaitMarkers
  <2> QED
    BY <1>21, <2>1, <2>2 DEF WaitMarkers
<1>22. CASE UnmapVectors
  BY <1>22 DEF UnmapVectors, DevInv, DevType, Outcomes, Hopeless
<1>23. CASE DeleteQueues
  <2>1. pc = "delq" /\ pc' = "intr_deinit" /\ (dev'.qena => dev.qena)
    <3>1. CASE ~ vport.delq
      BY <1>23, <3>1 DEF DeleteQueues
    <3>2. CASE vport.delq
      <4>1. PICK o \in Outcomes : Msg(o, Deleted)
        BY <1>23, <3>2 DEF DeleteQueues
      <4> QED
        BY <1>23, <4>1, MsgIs, DeletedIs DEF DeleteQueues, DevInv
    <3> QED
      BY <3>1, <3>2
  <2> QED
    BY <1>23, <2>1 DEF DeleteQueues
<1>24. CASE IntrDeinit
  BY <1>24 DEF IntrDeinit
<1>25. CASE QueuesRel
  <2>1. dev'.qena = dev.qena
    BY <1>25 DEF QueuesRel, DevInv, DevType
  <2> QED
    BY <1>25, <2>1 DEF QueuesRel
<1>26. CASE IntrRel
  BY <1>26, ReturnIs DEF IntrRel
<1>27. CASE SoftDelete
  <2>1. dev'.qena => dev.qena
    <3>1. PICK o \in Outcomes : Msg(o, Deleted)
      BY <1>27 DEF SoftDelete
    <3> QED
      BY <3>1, MsgIs, DeletedIs DEF DevInv
  <2> QED
    BY <1>27, <2>1 DEF SoftDelete
<1>28. CASE SoftAdd
  BY <1>28 DEF SoftAdd, CopyBack, DevInv, DevType, Outcomes, Hopeless
<1>29. CASE SoftReal
  BY <1>29 DEF SoftReal, Reopen
<1>30. CASE SoftOld
  BY <1>30 DEF SoftOld, DevInv, DevType, Outcomes, Hopeless, Reopen
<1>31. CASE SoftEnd
  BY <1>31 DEF SoftEnd
<1>32. ASSUME NEW q \in Queues, Marker(q) PROVE DrainInv'
  <2> DEFINE b == vport.swm \/ bits' \cap (1 .. vport.ntxq) = {}
  <2>1. /\ vport'.swm = b /\ vport'.ntxq = vport.ntxq
        /\ marks' = marks \ {q} /\ bits' = bits \ {q}
        /\ slips' = (IF pc = "wait" THEN slips ELSE slips \cup {"marker"})
        /\ pc' = pc /\ idx' = idx /\ up' = up /\ dev' = dev
    BY <1>32 DEF Marker, MemInv, HeapInv, VportType
  <2>2. CASE pc = "wait"
    BY <2>1, <2>2
  <2>3. CASE pc # "wait"
    <3>1. "marker" \in slips' /\ slips \subseteq slips'
      BY <2>1, <2>3
    <3> QED
      BY <2>1, <2>3, <3>1
  <2> QED
    BY <2>2, <2>3
<1>33. CASE LinkChange
  BY <1>33 DEF LinkChange
<1>34. CASE LinkEvent
  BY <1>34 DEF LinkEvent, MemInv, HeapInv, VportType
<1>35. CASE LinkCarrier
  BY <1>35 DEF LinkCarrier
<1>36. CASE CoreReset
  BY <1>36 DEF CoreReset, DevInv
<1>37. CASE UNCHANGED vars
  BY <1>37
<1> QED
  BY <1>1, <1>2, <1>3, <1>4, <1>5, <1>6, <1>7, <1>8, <1>9, <1>10, <1>11, <1>12,
     <1>13, <1>14, <1>15, <1>16, <1>17, <1>18, <1>19, <1>20, <1>21, <1>22,
     <1>23, <1>24, <1>25, <1>26, <1>27, <1>28, <1>29, <1>30, <1>31, <1>32,
     <1>33, <1>34, <1>35, <1>36, <1>37
     DEF Next, Control

(* Memory comes and goes without a change of the queues, flags or link.    *)
LEMMA AllocKeeps ==
  ASSUME HeapInv
  PROVE  \A bs, fs : AllocFree(bs, fs) =>
           /\ vport'.link = vport.link /\ vport'.num = vport.num
           /\ vport'.swm = vport.swm
BY DEF HeapInv, VportType, AllocFree

(* The last event is the last one of those behind the first, if there are. *)
LEMMA TailIs ==
  ASSUME NEW e \in Seq(BOOLEAN), e # <<>>
  PROVE  /\ Tail(e) \in Seq(BOOLEAN) /\ Head(e) \in BOOLEAN
         /\ Tail(e) = <<>> => Head(e) = e[Len(e)]
         /\ Tail(e) # <<>> => Tail(e)[Len(Tail(e))] = e[Len(e)]
<1>1. /\ Len(e) \in Nat /\ Len(e) > 0
      /\ Tail(e) \in Seq(BOOLEAN) /\ Len(Tail(e)) = Len(e) - 1
      /\ Head(e) = e[1] /\ e[1] \in BOOLEAN
  OBVIOUS
<1>2. ASSUME NEW i \in 1 .. Len(e) - 1 PROVE Tail(e)[i] = e[i + 1]
  BY <1>1
<1>3. \A t \in Seq(BOOLEAN) : Len(t) \in Nat /\ (t = <<>> <=> Len(t) = 0)
  OBVIOUS
<1> PICK t : t = Tail(e)
  OBVIOUS
<1> PICK n : n = Len(e)
  OBVIOUS
<1>4. /\ t \in Seq(BOOLEAN) /\ Len(t) \in Nat /\ (t = <<>> <=> Len(t) = 0)
      /\ n \in Nat /\ n > 0 /\ Len(t) = n - 1
  BY <1>1, <1>3
<1>5. CASE n = 1
  <2>1. t = <<>>
    BY <1>4, <1>5
  <2> QED
    BY <1>1, <1>5, <2>1
<1>6. CASE n # 1
  <2>1. n - 1 \in 1 .. n - 1 /\ (n - 1) + 1 = n /\ Len(t) # 0
    BY <1>4, <1>6
  <2>2. Tail(e)[n - 1] = e[(n - 1) + 1]
    BY <1>2, <2>1
  <2>3. Tail(e)[n - 1] = e[n]
    BY <2>1, <2>2
  <2> QED
    BY <1>1, <1>4, <2>1, <2>3
<1> QED
  BY <1>5, <1>6

(* No step parts the carrier from the link without a slip.                 *)
LEMMA LinkKept == IInv /\ [Next]_vars => LinkInv'
<1> SUFFICES ASSUME IInv, [Next]_vars PROVE LinkInv'
  OBVIOUS
<1> USE DEF IInv, PlaceInv, Resting, Opening, Stopping, Leaving, Soft, vars,
            ctlVars, netVars, memVars, linkVars, Msg, Fault, NoFault, Idle,
            NoSoft, LinkInv, MemInv
<1>1. CASE Open
  BY <1>1 DEF Open, OpenInv
<1>2. CASE Stop
  BY <1>2 DEF Stop
<1>3. ASSUME NEW n \in Queues, SoftReset(n) PROVE LinkInv'
  BY <1>3 DEF SoftReset, MemInv, HeapInv, VportType
<1>4. CASE IntrAlloc
  <2>1. vport'.link = vport.link
    BY <1>4, AllocKeeps DEF IntrAlloc
  <2> QED
    BY <1>4, <2>1, ReturnIs DEF IntrAlloc
<1>5. CASE QueueAlloc
  <2>1. vport'.link = vport.link
    BY <1>5, AllocKeeps DEF QueueAlloc
  <2> QED
    BY <1>5, <2>1 DEF QueueAlloc
<1>6. CASE IntrInit
  BY <1>6 DEF IntrInit
<1>7. CASE BufsInit
  BY <1>7 DEF BufsInit
<1>8. CASE ConfigTxQueues
  BY <1>8 DEF ConfigTxQueues
<1>9. CASE ConfigRxQueues
  BY <1>9 DEF ConfigRxQueues
<1>10. CASE MapVectors
  BY <1>10 DEF MapVectors
<1>11. CASE EnableQueues
  BY <1>11 DEF EnableQueues
<1>12. CASE EnableVport
  BY <1>12 DEF EnableVport
<1>13. CASE ConfigRss
  BY <1>13 DEF ConfigRss
<1>14. CASE UpLink
  BY <1>14 DEF UpLink, MemInv, HeapInv, VportType
<1>15. CASE UpComplete
  BY <1>15, ReturnIs DEF UpComplete
<1>16. CASE ClearUp
  BY <1>16, ReturnIs DEF ClearUp
<1>17. CASE NetdevStop
  BY <1>17 DEF NetdevStop
<1>18. CASE DisableVport
  BY <1>18 DEF DisableVport
<1>19. CASE DisableQueues
  BY <1>19 DEF DisableQueues
<1>20. CASE SetBit
  BY <1>20 DEF SetBit
<1>21. CASE WaitMarkers
  BY <1>21 DEF WaitMarkers, MemInv, HeapInv, VportType
<1>22. CASE UnmapVectors
  BY <1>22 DEF UnmapVectors
<1>23. CASE DeleteQueues
  BY <1>23 DEF DeleteQueues, MemInv, HeapInv, VportType
<1>24. CASE IntrDeinit
  BY <1>24 DEF IntrDeinit
<1>25. CASE QueuesRel
  <2>1. vport'.link = vport.link
    BY <1>25, AllocKeeps DEF QueuesRel
  <2> QED
    BY <1>25, <2>1 DEF QueuesRel
<1>26. CASE IntrRel
  <2>1. vport'.link = vport.link
    BY <1>26, AllocKeeps DEF IntrRel
  <2> QED
    BY <1>26, <2>1, ReturnIs DEF IntrRel
<1>27. CASE SoftDelete
  BY <1>27 DEF SoftDelete
<1>28. CASE SoftAdd
  BY <1>28 DEF SoftAdd, CopyBack
<1>29. CASE SoftReal
  BY <1>29 DEF SoftReal, Reopen
<1>30. CASE SoftOld
  BY <1>30 DEF SoftOld, Reopen
<1>31. CASE SoftEnd
  BY <1>31 DEF SoftEnd
<1>32. ASSUME NEW q \in Queues, Marker(q) PROVE LinkInv'
  BY <1>32 DEF Marker, MemInv, HeapInv, VportType
<1>33. CASE LinkChange
  BY <1>33 DEF LinkChange
<1>34. CASE LinkEvent
  <2>1. /\ vport'.link = Head(events) /\ events' = Tail(events)
        /\ epc = "idle"
        /\ epc' = (IF up /\ vport.link # Head(events) THEN "carrier" ELSE "idle")
        /\ slips' = (IF pc = "o_up" THEN slips \cup {"link"} ELSE slips)
        /\ pc' = pc /\ up' = up /\ carrier' = carrier /\ devLink' = devLink
        /\ corer' = corer
    BY <1>34 DEF LinkEvent, MemInv, HeapInv, VportType
  <2>2. /\ Tail(events) \in Seq(BOOLEAN) /\ Head(events) \in BOOLEAN
        /\ Tail(events) = <<>> => Head(events) = events[Len(events)]
        /\ Tail(events) # <<>> =>
             Tail(events)[Len(Tail(events))] = events[Len(events)]
    BY <1>34, TailIs DEF LinkEvent
  <2>3. "link" \notin slips' /\ ~ corer' =>
          devLink' = IF events' = <<>> THEN vport'.link ELSE events'[Len(events')]
    BY <1>34, <2>1, <2>2 DEF LinkEvent
  <2> QED
    BY <2>1, <2>2, <2>3
<1>35. CASE LinkCarrier
  BY <1>35 DEF LinkCarrier, MemInv, HeapInv, VportType
<1>36. CASE CoreReset
  BY <1>36 DEF CoreReset, DevInv
<1>37. CASE UNCHANGED vars
  BY <1>37
<1> QED
  BY <1>1, <1>2, <1>3, <1>4, <1>5, <1>6, <1>7, <1>8, <1>9, <1>10, <1>11, <1>12,
     <1>13, <1>14, <1>15, <1>16, <1>17, <1>18, <1>19, <1>20, <1>21, <1>22,
     <1>23, <1>24, <1>25, <1>26, <1>27, <1>28, <1>29, <1>30, <1>31, <1>32,
     <1>33, <1>34, <1>35, <1>36, <1>37
     DEF Next, Control

(* A message of a soft reset that nothing has gone wrong with is answered, *)
(* unless it is the refusal of the new queues.                             *)
LEMMA MsgClean ==
  ASSUME PlaceInv, SoftInv, NEW o \in Outcomes, NEW d, Msg(o, d),
         soft' = soft, soft # NoSoft, "other" \notin trouble'
  PROVE  /\ Clean
         /\ \/ o = "ok" /\ trouble' = trouble
            \/ o = "failed" /\ pc = "sr_add" /\ trouble' = trouble \cup {"refused"}
<1>1. soft.on
  BY SoftOn
<1>2. CASE Hopeless
  <2>1. o = "failed" /\ trouble' = trouble
    BY <1>2 DEF Msg, Outcomes, NoFault
  <2>2. Clean
    BY <2>1 DEF Clean
  <2>3. ~ corer
    BY <2>2 DEF SoftInv, Clean
  <2>4. pc \in Opening /\ dev.num # vport.num
    BY <1>2, <2>3 DEF Hopeless, Opening
  <2> QED
    BY <2>2, <2>4 DEF SoftInv
<1>3. CASE ~ Hopeless
  BY <1>1, <1>3 DEF Msg, Outcomes, NoFault, Fault, Clean
<1> QED
  BY <1>2, <1>3

(* No step takes a clean soft reset off its way.                           *)
LEMMA SoftKept == IInv /\ [Next]_vars => SoftInv'
<1> SUFFICES ASSUME IInv, [Next]_vars PROVE SoftInv'
  OBVIOUS
<1> USE DEF IInv, PlaceInv, Resting, Opening, Stopping, Leaving, Soft, vars,
            ctlVars, netVars, memVars, linkVars, Fault, NoFault, Idle, SoftInv,
            Clean
<1>1. CASE Open
  BY <1>1, SoftOn DEF Open
<1>2. CASE Stop
  BY <1>2, SoftOn DEF Stop
<1>3. ASSUME NEW n \in Queues, SoftReset(n) PROVE SoftInv'
  BY <1>3, SoftOn DEF SoftReset, MemInv, HeapInv, VportType
<1>4. CASE IntrAlloc
  BY <1>4, SoftOn, ReturnIs, SoftSpoiled, AllocKeeps DEF IntrAlloc, MemInv
<1>5. CASE QueueAlloc
  BY <1>5, SoftOn, SoftSpoiled, AllocKeeps DEF QueueAlloc, MemInv
<1>6. CASE IntrInit
  BY <1>6, SoftOn DEF IntrInit
<1>7. CASE BufsInit
  BY <1>7, SoftOn DEF BufsInit
<1>8. CASE ConfigTxQueues
  <2> SUFFICES ASSUME Clean' PROVE SoftInv'
    <3>1. trouble' \subseteq {"refused", "other"} /\ trouble \subseteq trouble'
      BY <1>8, SoftOn DEF ConfigTxQueues, Msg
    <3> QED
      BY <1>8, <3>1 DEF ConfigTxQueues
  <2> DEFINE d == [dev EXCEPT !.mem = "live"]
  <2>1. PICK o \in Outcomes : Msg(o, d)
            /\ pc' = (IF o = "ok" THEN "o_rxcfg" ELSE "intr_deinit")
    BY <1>8, SoftOn DEF ConfigTxQueues
  <2>2. d.num = dev.num
    BY DEF DevInv, DevType
  <2>3. soft' = soft /\ soft # NoSoft /\ "other" \notin trouble'
    BY <1>8, SoftOn DEF ConfigTxQueues
  <2>4. /\ Clean
        /\ \/ o = "ok" /\ trouble' = trouble
           \/ o = "failed" /\ pc = "sr_add" /\ trouble' = trouble \cup {"refused"}
    BY <2>1, <2>3, MsgClean, Zenon
  <2>5. dev' = IF o = "failed" THEN dev ELSE d
    BY <2>1, MsgIs, Zenon
  <2> HIDE DEF d
  <2> QED
    BY <1>8, <2>1, <2>2, <2>3, <2>4, <2>5 DEF ConfigTxQueues
<1>9. CASE ConfigRxQueues
  <2> SUFFICES ASSUME Clean' PROVE SoftInv'
    <3>1. trouble' \subseteq {"refused", "other"} /\ trouble \subseteq trouble'
      BY <1>9, SoftOn DEF ConfigRxQueues, Msg
    <3> QED
      BY <1>9, <3>1 DEF ConfigRxQueues
  <2> DEFINE d == [dev EXCEPT !.cfg = TRUE]
  <2>1. PICK o \in Outcomes : Msg(o, d)
            /\ pc' = (IF o = "ok" THEN "o_map" ELSE "intr_deinit")
    BY <1>9, SoftOn DEF ConfigRxQueues
  <2>2. d.num = dev.num
    BY DEF DevInv, DevType
  <2>3. soft' = soft /\ soft # NoSoft /\ "other" \notin trouble'
    BY <1>9, SoftOn DEF ConfigRxQueues
  <2>4. /\ Clean
        /\ \/ o = "ok" /\ trouble' = trouble
           \/ o = "failed" /\ pc = "sr_add" /\ trouble' = trouble \cup {"refused"}
    BY <2>1, <2>3, MsgClean, Zenon
  <2>5. dev' = IF o = "failed" THEN dev ELSE d
    BY <2>1, MsgIs, Zenon
  <2> HIDE DEF d
  <2> QED
    BY <1>9, <2>1, <2>2, <2>3, <2>4, <2>5 DEF ConfigRxQueues
<1>10. CASE MapVectors
  <2> SUFFICES ASSUME Clean' PROVE SoftInv'
    <3>1. trouble' \subseteq {"refused", "other"} /\ trouble \subseteq trouble'
      BY <1>10, SoftOn DEF MapVectors, Msg
    <3> QED
      BY <1>10, <3>1 DEF MapVectors
  <2> DEFINE d == [dev EXCEPT !.map = TRUE]
  <2>1. PICK o \in Outcomes : Msg(o, d)
            /\ pc' = (IF o = "ok" THEN "o_qena" ELSE "intr_deinit")
    BY <1>10, SoftOn DEF MapVectors
  <2>2. d.num = dev.num
    BY DEF DevInv, DevType
  <2>3. soft' = soft /\ soft # NoSoft /\ "other" \notin trouble'
    BY <1>10, SoftOn DEF MapVectors
  <2>4. /\ Clean
        /\ \/ o = "ok" /\ trouble' = trouble
           \/ o = "failed" /\ pc = "sr_add" /\ trouble' = trouble \cup {"refused"}
    BY <2>1, <2>3, MsgClean, Zenon
  <2>5. dev' = IF o = "failed" THEN dev ELSE d
    BY <2>1, MsgIs, Zenon
  <2> HIDE DEF d
  <2> QED
    BY <1>10, <2>1, <2>2, <2>3, <2>4, <2>5 DEF MapVectors
<1>11. CASE EnableQueues
  <2> SUFFICES ASSUME Clean' PROVE SoftInv'
    <3>1. trouble' \subseteq {"refused", "other"} /\ trouble \subseteq trouble'
      BY <1>11, SoftOn DEF EnableQueues, Msg
    <3> QED
      BY <1>11, <3>1 DEF EnableQueues
  <2> DEFINE d == [dev EXCEPT !.qena = TRUE]
  <2>1. PICK o \in Outcomes : Msg(o, d)
            /\ pc' = (IF o = "ok" THEN "o_vena" ELSE "unmap")
    BY <1>11, SoftOn DEF EnableQueues
  <2>2. d.num = dev.num
    BY DEF DevInv, DevType
  <2>3. soft' = soft /\ soft # NoSoft /\ "other" \notin trouble'
    BY <1>11, SoftOn DEF EnableQueues
  <2>4. /\ Clean
        /\ \/ o = "ok" /\ trouble' = trouble
           \/ o = "failed" /\ pc = "sr_add" /\ trouble' = trouble \cup {"refused"}
    BY <2>1, <2>3, MsgClean, Zenon
  <2>5. dev' = IF o = "failed" THEN dev ELSE d
    BY <2>1, MsgIs, Zenon
  <2> HIDE DEF d
  <2> QED
    BY <1>11, <2>1, <2>2, <2>3, <2>4, <2>5 DEF EnableQueues
<1>12. CASE EnableVport
  <2> SUFFICES ASSUME Clean' PROVE SoftInv'
    <3>1. trouble' \subseteq {"refused", "other"} /\ trouble \subseteq trouble'
      BY <1>12, SoftOn DEF EnableVport, Msg
    <3> QED
      BY <1>12, <3>1 DEF EnableVport
  <2> DEFINE d == [dev EXCEPT !.vena = TRUE]
  <2>1. PICK o \in Outcomes : Msg(o, d)
            /\ pc' = (IF o = "ok" THEN "o_rss" ELSE "disq")
    BY <1>12, SoftOn DEF EnableVport
  <2>2. d.num = dev.num
    BY DEF DevInv, DevType
  <2>3. soft' = soft /\ soft # NoSoft /\ "other" \notin trouble'
    BY <1>12, SoftOn DEF EnableVport
  <2>4. /\ Clean
        /\ \/ o = "ok" /\ trouble' = trouble
           \/ o = "failed" /\ pc = "sr_add" /\ trouble' = trouble \cup {"refused"}
    BY <2>1, <2>3, MsgClean, Zenon
  <2>5. dev' = IF o = "failed" THEN dev ELSE d
    BY <2>1, MsgIs, Zenon
  <2> HIDE DEF d
  <2> QED
    BY <1>12, <2>1, <2>2, <2>3, <2>4, <2>5 DEF EnableVport
<1>13. CASE ConfigRss
  <2> SUFFICES ASSUME Clean' PROVE SoftInv'
    <3>1. trouble' \subseteq {"refused", "other"} /\ trouble \subseteq trouble'
      BY <1>13, SoftOn DEF ConfigRss, Msg
    <3> QED
      BY <1>13, <3>1 DEF ConfigRss
  <2> DEFINE d == dev
  <2>1. PICK o \in Outcomes : Msg(o, d)
            /\ pc' = (IF o = "ok" THEN "o_link" ELSE "disv")
    BY <1>13, SoftOn DEF ConfigRss
  <2>2. d.num = dev.num
    BY DEF DevInv, DevType
  <2>3. soft' = soft /\ soft # NoSoft /\ "other" \notin trouble'
    BY <1>13, SoftOn DEF ConfigRss
  <2>4. /\ Clean
        /\ \/ o = "ok" /\ trouble' = trouble
           \/ o = "failed" /\ pc = "sr_add" /\ trouble' = trouble \cup {"refused"}
    BY <2>1, <2>3, MsgClean, Zenon
  <2>5. dev' = IF o = "failed" THEN dev ELSE d
    BY <2>1, MsgIs, Zenon
  <2> HIDE DEF d
  <2> QED
    BY <1>13, <2>1, <2>2, <2>3, <2>4, <2>5 DEF ConfigRss
<1>14. CASE UpLink
  BY <1>14, SoftOn DEF UpLink
<1>15. CASE UpComplete
  BY <1>15, SoftOn, ReturnIs DEF UpComplete
<1>16. CASE ClearUp
  BY <1>16, SoftOn, ReturnIs DEF ClearUp
<1>17. CASE NetdevStop
  BY <1>17, SoftOn DEF NetdevStop
<1>18. CASE DisableVport
  <2> SUFFICES ASSUME Clean' PROVE SoftInv'
    <3>1. trouble' \subseteq {"refused", "other"} /\ trouble \subseteq trouble'
      BY <1>18, SoftOn DEF DisableVport, Msg
    <3> QED
      BY <1>18, <3>1 DEF DisableVport
  <2> DEFINE d == [dev EXCEPT !.vena = FALSE]
  <2>1. PICK o \in Outcomes : Msg(o, d)
    BY <1>18, SoftOn DEF DisableVport
  <2>2. d.num = dev.num
    BY DEF DevInv, DevType
  <2>3. soft' = soft /\ soft # NoSoft /\ "other" \notin trouble'
    BY <1>18, SoftOn DEF DisableVport
  <2>4. /\ Clean
        /\ \/ o = "ok" /\ trouble' = trouble
           \/ o = "failed" /\ pc = "sr_add" /\ trouble' = trouble \cup {"refused"}
    BY <2>1, <2>3, MsgClean, Zenon
  <2>5. dev' = IF o = "failed" THEN dev ELSE d
    BY <2>1, MsgIs, Zenon
  <2> HIDE DEF d
  <2> QED
    BY <1>18, <2>1, <2>2, <2>3, <2>4, <2>5 DEF DisableVport
<1>19. CASE DisableQueues
  <2> SUFFICES ASSUME Clean' PROVE SoftInv'
    <3>1. trouble' \subseteq {"refused", "other"} /\ trouble \subseteq trouble'
      BY <1>19, SoftOn DEF DisableQueues, Msg
    <3> QED
      BY <1>19, <3>1 DEF DisableQueues
  <2> DEFINE d == [dev EXCEPT !.qena = FALSE]
  <2>1. PICK o \in Outcomes : Msg(o, d)
            /\ pc' = IF o = "ok" THEN "bits" ELSE "unmap"
    BY <1>19, SoftOn DEF DisableQueues
  <2>2. d.num = dev.num
    BY DEF DevInv, DevType
  <2>3. soft' = soft /\ soft # NoSoft /\ "other" \notin trouble'
    BY <1>19, SoftOn DEF DisableQueues
  <2>4. /\ Clean
        /\ \/ o = "ok" /\ trouble' = trouble
           \/ o = "failed" /\ pc = "sr_add" /\ trouble' = trouble \cup {"refused"}
    BY <2>1, <2>3, MsgClean, Zenon
  <2>5. dev' = IF o = "failed" THEN dev ELSE d
    BY <2>1, MsgIs, Zenon
  <2> HIDE DEF d
  <2> QED
    BY <1>19, <2>1, <2>2, <2>3, <2>4, <2>5 DEF DisableQueues
<1>20. CASE SetBit
  BY <1>20, SoftOn DEF SetBit
<1>21. CASE WaitMarkers
  BY <1>21, SoftOn DEF WaitMarkers, MemInv, HeapInv, VportType
<1>22. CASE UnmapVectors
  <2> SUFFICES ASSUME Clean' PROVE SoftInv'
    <3>1. trouble' \subseteq {"refused", "other"} /\ trouble \subseteq trouble'
      BY <1>22, SoftOn DEF UnmapVectors, Msg
    <3> QED
      BY <1>22, <3>1 DEF UnmapVectors
  <2> DEFINE d == [dev EXCEPT !.map = FALSE]
  <2>1. PICK o \in Outcomes : Msg(o, d)
    BY <1>22, SoftOn DEF UnmapVectors
  <2>2. d.num = dev.num
    BY DEF DevInv, DevType
  <2>3. soft' = soft /\ soft # NoSoft /\ "other" \notin trouble'
    BY <1>22, SoftOn DEF UnmapVectors
  <2>4. /\ Clean
        /\ \/ o = "ok" /\ trouble' = trouble
           \/ o = "failed" /\ pc = "sr_add" /\ trouble' = trouble \cup {"refused"}
    BY <2>1, <2>3, MsgClean, Zenon
  <2>5. dev' = IF o = "failed" THEN dev ELSE d
    BY <2>1, MsgIs, Zenon
  <2> HIDE DEF d
  <2> QED
    BY <1>22, <2>1, <2>2, <2>3, <2>4, <2>5 DEF UnmapVectors
<1>23. CASE DeleteQueues
  <2> SUFFICES ASSUME Clean' PROVE SoftInv'
    <3>1. trouble' \subseteq {"refused", "other"} /\ trouble \subseteq trouble'
      BY <1>23, SoftOn DEF DeleteQueues, Msg
    <3> QED
      BY <1>23, <3>1 DEF DeleteQueues
  <2>1. soft' = soft /\ soft # NoSoft /\ "other" \notin trouble'
    BY <1>23, SoftOn DEF DeleteQueues
  <2>2. Clean /\ trouble' = trouble
    <3>1. CASE vport.delq
      <4>1. PICK o \in Outcomes : Msg(o, Deleted)
        BY <1>23, <3>1 DEF DeleteQueues
      <4> QED
        BY <1>23, <2>1, <4>1, MsgClean DEF DeleteQueues
    <3>2. CASE ~ vport.delq
      BY <1>23, <2>1, <3>2 DEF DeleteQueues
    <3> QED
      BY <3>1, <3>2
  <2>3. vport'.num = vport.num
    BY <1>23, SoftOn DEF DeleteQueues, MemInv, HeapInv, VportType
  <2> QED
    BY <1>23, <2>1, <2>2, <2>3 DEF DeleteQueues
<1>24. CASE IntrDeinit
  BY <1>24, SoftOn DEF IntrDeinit
<1>25. CASE QueuesRel
  BY <1>25, SoftOn, SoftSpoiled, AllocKeeps
     DEF QueuesRel, MemInv, DevInv, DevType
<1>26. CASE IntrRel
  BY <1>26, SoftOn, ReturnIs, SoftSpoiled, AllocKeeps DEF IntrRel, MemInv
<1>27. CASE SoftDelete
  <2> SUFFICES ASSUME Clean' PROVE SoftInv'
    <3>1. trouble' \subseteq {"refused", "other"} /\ trouble \subseteq trouble'
      BY <1>27, SoftOn DEF SoftDelete, Msg
    <3> QED
      BY <1>27, <3>1 DEF SoftDelete
  <2> DEFINE d == Deleted
  <2>1. PICK o \in Outcomes : Msg(o, d)
    BY <1>27, SoftOn DEF SoftDelete
  <2>2. TRUE
    BY Zenon
  <2>3. soft' = soft /\ soft # NoSoft /\ "other" \notin trouble'
    BY <1>27, SoftOn DEF SoftDelete
  <2>4. /\ Clean
        /\ \/ o = "ok" /\ trouble' = trouble
           \/ o = "failed" /\ pc = "sr_add" /\ trouble' = trouble \cup {"refused"}
    BY <2>1, <2>3, MsgClean, Zenon
  <2>5. dev' = IF o = "failed" THEN dev ELSE d
    BY <2>1, MsgIs, Zenon
  <2> HIDE DEF d
  <2> QED
    BY <1>27, <2>1, <2>2, <2>3, <2>4, <2>5 DEF SoftDelete
<1>28. CASE SoftAdd
  <2> SUFFICES ASSUME Clean' PROVE SoftInv'
    <3>1. trouble' \subseteq {"refused", "other"} /\ trouble \subseteq trouble'
      BY <1>28, SoftOn DEF SoftAdd, Msg
    <3> QED
      BY <1>28, <3>1 DEF SoftAdd
  <2> DEFINE d == [dev EXCEPT !.num = soft.clone.num]
  <2>1. PICK o \in Outcomes : Msg(o, d)
            /\ IF o = "ok" THEN CopyBack /\ pc' = "sr_real"
               ELSE UNCHANGED <<vport, slips>> /\ pc' = "sr_old"
    BY <1>28, SoftOn DEF SoftAdd
  <2>2. d.num = soft.clone.num
    BY DEF DevInv, DevType
  <2>3. soft' = soft /\ soft # NoSoft /\ "other" \notin trouble'
    BY <1>28, SoftOn DEF SoftAdd
  <2>4. /\ Clean
        /\ \/ o = "ok" /\ trouble' = trouble
           \/ o = "failed" /\ pc = "sr_add" /\ trouble' = trouble \cup {"refused"}
    BY <2>1, <2>3, MsgClean, Zenon
  <2>5. dev' = IF o = "failed" THEN dev ELSE d
    BY <2>1, MsgIs, Zenon
  <2> HIDE DEF d
  <2> QED
    BY <1>28, <2>1, <2>2, <2>3, <2>4, <2>5 DEF SoftAdd, CopyBack
<1>29. CASE SoftReal
  <2> SUFFICES ASSUME Clean' PROVE SoftInv'
    <3>1. trouble' \subseteq {"refused", "other"} /\ trouble \subseteq trouble'
      BY <1>29, SoftOn DEF SoftReal
    <3> QED
      BY <1>29, <3>1 DEF SoftReal
  <2>1. soft' = soft /\ Clean /\ trouble' = trouble
    BY <1>29, SoftOn DEF SoftReal
  <2>2. soft.wasUp \in BOOLEAN /\ up = FALSE
    <3>1. soft \in SoftType
      BY <2>1
    <3> QED
      BY <1>29, <3>1 DEF SoftType, SoftReal
  <2>3. \/ soft.wasUp /\ pc' = "o_intr" /\ fn' = "open"
        \/ soft.wasUp = FALSE /\ pc' = "sr_end" /\ fn' = fn
    BY <1>29, <2>2 DEF SoftReal, Reopen
  <2>4. trouble = {} /\ vport.num = soft.clone.num /\ dev.num = vport.num
    BY <1>29, <2>1 DEF SoftReal
  <2>5. up' = up /\ vport' = vport /\ dev' = dev /\ corer' = corer
    BY <1>29, SoftOn DEF SoftReal
  <2> QED
    BY <2>1, <2>2, <2>3, <2>4, <2>5
<1>30. CASE SoftOld
  <2> SUFFICES ASSUME Clean' PROVE SoftInv'
    <3>1. trouble' \subseteq {"refused", "other"} /\ trouble \subseteq trouble'
      BY <1>30, SoftOn DEF SoftOld, Msg
    <3> QED
      BY <1>30, <3>1 DEF SoftOld
  <2> DEFINE d == [dev EXCEPT !.num = vport.num]
  <2>1. PICK o \in Outcomes : Msg(o, d)
            /\ IF o = "ok" THEN Reopen
               ELSE pc' = "sr_end" /\ UNCHANGED <<fn, carrier>>
    BY <1>30, SoftOn DEF SoftOld
  <2>2. d.num = vport.num
    BY DEF DevInv, DevType
  <2>3. soft' = soft /\ soft # NoSoft /\ "other" \notin trouble'
    BY <1>30, SoftOn DEF SoftOld
  <2>4. /\ Clean
        /\ \/ o = "ok" /\ trouble' = trouble
           \/ o = "failed" /\ pc = "sr_add" /\ trouble' = trouble \cup {"refused"}
    BY <2>1, <2>3, MsgClean, Zenon
  <2>5. dev' = IF o = "failed" THEN dev ELSE d
    BY <2>1, MsgIs, Zenon
  <2>6. soft.wasUp \in BOOLEAN /\ up = FALSE
    <3>1. soft \in SoftType
      BY <2>3
    <3> QED
      BY <1>30, <3>1 DEF SoftType, SoftOld
  <2>7. \/ soft.wasUp /\ pc' = "o_intr" /\ fn' = "open"
        \/ soft.wasUp = FALSE /\ pc' = "sr_end" /\ fn' = fn
    BY <2>1, <2>4, <2>6, <1>30 DEF Reopen, SoftOld
  <2> HIDE DEF d
  <2> QED
    BY <1>30, <2>1, <2>2, <2>3, <2>4, <2>5, <2>6, <2>7 DEF SoftOld
<1>31. CASE SoftEnd
  BY <1>31, SoftOn DEF SoftEnd
<1>32. ASSUME NEW q \in Queues, Marker(q) PROVE SoftInv'
  BY <1>32, SoftOn DEF Marker, MemInv, HeapInv, VportType
<1>33. CASE LinkChange
  BY <1>33, SoftOn DEF LinkChange
<1>34. CASE LinkEvent
  BY <1>34, SoftOn DEF LinkEvent, MemInv, HeapInv, VportType
<1>35. CASE LinkCarrier
  BY <1>35, SoftOn DEF LinkCarrier
<1>36. CASE CoreReset
  BY <1>36, SoftOn DEF CoreReset
<1>37. CASE UNCHANGED vars
  BY <1>37
<1> QED
  BY <1>1, <1>2, <1>3, <1>4, <1>5, <1>6, <1>7, <1>8, <1>9, <1>10, <1>11, <1>12,
     <1>13, <1>14, <1>15, <1>16, <1>17, <1>18, <1>19, <1>20, <1>21, <1>22,
     <1>23, <1>24, <1>25, <1>26, <1>27, <1>28, <1>29, <1>30, <1>31, <1>32,
     <1>33, <1>34, <1>35, <1>36, <1>37
     DEF Next, Control

(* The driver begins with a vport that is down.                            *)
LEMMA VportInit == Init => IInv
<1> SUFFICES ASSUME Init PROVE IInv
  OBVIOUS
<1> USE DEF Init
<1>1. vport \in VportType /\ \A b \in Blocks : vport.ptr[b] = "null"
  <2>1. 1 \in Queues /\ 0 \in 0 .. MaxQ /\ NoPtr \in PtrType
    BY MaxQAssumption DEF Queues, NoPtr, PtrType
  <2> QED
    BY <2>1 DEF VportType, NoPtr
<1>2. dev \in DevType /\ dev.qena = FALSE
  <2>1. 1 \in 0 .. MaxQ /\ 0 \in 0 .. MaxQ
    BY MaxQAssumption
  <2> QED
    BY <2>1 DEF DevType, NoDev
<1>3. PlaceInv /\ OpenInv
  BY DEF PlaceInv, OpenInv, Opening, Stopping, Leaving, Soft, Resting
<1>4. MemInv
  BY <1>1 DEF MemInv, HeapInv, HasAll, HasNone, Live, Resting
<1>5. DevInv
  BY <1>2 DEF DevInv, Reached, Enabled, Resting
<1>6. DrainInv
  <2>1. 0 \in 0 .. MaxQ
    BY MaxQAssumption
  <2> QED
    BY <1>2, <2>1 DEF DrainInv
<1>7. LinkInv
  <2>1. vport.link = FALSE
    OBVIOUS
  <2>2. events \in Seq(BOOLEAN)
    OBVIOUS
  <2> QED
    BY <2>1, <2>2 DEF LinkInv, Opening
<1>8. SoftInv
  BY DEF SoftInv, Clean
<1> QED
  BY <1>3, <1>4, <1>5, <1>6, <1>7, <1>8 DEF IInv

(* The inductive invariant holds in every state.                           *)
LEMMA IInvariant == Spec => []IInv
<1>1. IInv /\ [Next]_vars => IInv'
  BY PlaceKept, OpenKept, MemKept, DevKept, DrainKept, LinkKept, SoftKept
     DEF IInv
<1> QED
  BY VportInit, <1>1, PTL DEF Spec

--------------------------------------------------------------------------------
(* Through every error path of an opening, a stop or a soft reset, the     *)
(* vport's memory is exact: what is down holds none, NAPI never walks      *)
(* freed memory, and no block is freed twice unless an allocation failed.  *)
THEOREM MemorySafe == Spec => []MemoryExact
<1>1. IInv => TypeOK
  <2> SUFFICES ASSUME IInv PROVE TypeOK
    OBVIOUS
  <2>1. vport \in VportType /\ dev \in DevType
    BY DEF IInv, MemInv, HeapInv, DevInv
  <2>2. /\ vport.ptr \in [Blocks -> {"null", "live", "stale"}]
        /\ vport.num \in Queues /\ vport.ntxq \in 0 .. MaxQ
        /\ {vport.link, vport.swm, vport.delq} \subseteq BOOLEAN
    BY <2>1 DEF VportType, PtrType
  <2>3. /\ dev.num \in 0 .. MaxQ /\ dev.mem \in {"none", "live", "stale"}
        /\ {dev.cfg, dev.map, dev.qena, dev.vena} \subseteq BOOLEAN
    BY <2>1 DEF DevType
  <2>4. \A b \in Blocks : heap[b] \in 0 .. 1
    BY DEF IInv, MemInv, HeapInv
  <2>5. napi \in {"none", "added", "on"}
    BY DEF IInv, MemInv, HasAll, HasNone, PlaceInv, Opening, Stopping, Leaving,
           Soft, Resting
  <2> QED
    BY <2>2, <2>3, <2>4, <2>5
       DEF TypeOK, IInv, PlaceInv, OpenInv, MemInv, DevInv, DrainInv, LinkInv
<1>2. IInv => DownMeansFreed
  BY DEF IInv, MemInv, HeapInv, HasNone, Live, Resting, PlaceInv, DownMeansFreed
<1>3. IInv => PollLive
  <2> SUFFICES ASSUME IInv, napi = "on"
               PROVE  vport.ptr = [b \in Blocks |-> "live"]
    BY DEF PollLive
  <2>1. Live(Blocks)
    BY DEF IInv, MemInv, HasAll, HasNone, PlaceInv, Opening, Stopping, Leaving,
           Soft, Resting
  <2>2. vport.ptr \in PtrType
    BY DEF IInv, MemInv, HeapInv, VportType
  <2> QED
    BY <2>1, <2>2 DEF Live, PtrType
<1>4. IInv => FreedOnce
  BY DEF IInv, MemInv, FreedOnce
<1> QED
  BY IInvariant, <1>1, <1>2, <1>3, <1>4, PTL DEF MemoryExact

(* A vport that is up has its memory, its NAPI and a device that was told  *)
(* everything, however many openings and soft resets failed before.        *)
THEOREM ReadySafe == Spec => []UpMeansReady
<1>1. IInv => UpMeansReady
  <2> SUFFICES ASSUME IInv, pc = "idle", up PROVE UpMeansReady
    BY DEF UpMeansReady
  <2>1. napi = "on" /\ Live(Blocks)
    BY DEF IInv, MemInv, HasAll, Resting
  <2>2. vport.ptr = [b \in Blocks |-> "live"]
    <3>1. vport.ptr \in PtrType
      BY DEF IInv, MemInv, HeapInv, VportType
    <3> QED
      BY <2>1, <3>1 DEF Live, PtrType
  <2>3. corer \/ /\ dev.num = vport.num /\ vport.ntxq = vport.num
                 /\ dev.cfg /\ dev.map /\ dev.qena /\ dev.vena
                 /\ dev.mem = "live"
    BY DEF IInv, DevInv, Reached, Enabled, Resting
  <2> QED
    BY <2>1, <2>2, <2>3 DEF UpMeansReady
<1> QED
  BY IInvariant, <1>1, PTL

(* The device does not work on freed memory unless a message that enables  *)
(* or disables the queues went unanswered, or its drain was not awaited.   *)
THEOREM DmaSafe == Spec => []DmaLive
<1>1. IInv => DmaLive
  <2> SUFFICES ASSUME IInv, dev.mem = "stale"
               PROVE  /\ dev.qena => "message" \in slips
                      /\ marks # {} => slips \cap {"message", "marker"} # {}
    BY DEF DmaLive
  <2>1. ~ corer
    BY DEF IInv, DevInv, NoDev
  <2>2. ~ Enabled /\ pc \notin {"bits", "wait"}
    BY <2>1 DEF IInv, DevInv, Enabled, Reached
  <2> QED
    BY <2>2 DEF IInv, DrainInv
<1> QED
  BY IInvariant, <1>1, PTL

(* The carrier of a vport that is up follows the link.                     *)
THEOREM LinkSafe == Spec => []LinkAgrees
<1>1. IInv => LinkAgrees
  BY DEF IInv, LinkInv, LinkAgrees
<1> QED
  BY IInvariant, <1>1, PTL

(* A soft reset leaves the vport up or down as it found it, with the queues *)
(* it was asked for, or the old ones if the device refused them.           *)
THEOREM SoftSafe == Spec => SoftResetKeeps
<1> DEFINE Kept ==
      pc = "sr_end" /\ trouble \subseteq {"refused"} =>
        /\ up = soft.wasUp
        /\ vport.num = IF trouble = {} THEN soft.clone.num ELSE soft.old
<1>1. IInv => Kept
  BY DEF IInv, SoftInv, Clean, PlaceInv, Soft
<1>2. []IInv => [][Kept]_vars
  BY <1>1, PTL
<1> QED
  BY IInvariant, <1>2, PTL DEF SoftResetKeeps

================================================================================
