------------------------------- MODULE CtlqSend -------------------------------
(***************************************************************************)
(* The send control queue (ASQ) of idpf_controlq.c, used by the senders of *)
(* idpf_virtchnl.c through idpf_send_mb_msg, and drained by the device.    *)
(*                                                                         *)
(* A sender first reclaims what the device has written back                *)
(* (idpf_mb_clean), then allocates a message and its DMA buffer, and queues*)
(* it (idpf_ctlq_send).  cq_lock protects the ring; the device runs        *)
(* concurrently with the locked sections, so the store of the descriptor   *)
(* and the write of the tail register are two steps.                       *)
(***************************************************************************)
EXTENDS Ctlq, Sequences, SequencesExt

CONSTANTS
  Senders,    \* threads inside idpf_send_mb_msg
  MaxReset    \* bound: device resets in a behaviour

ASSUME SendersAssumption == None \notin Senders
ASSUME BoundAssumption == MaxMsg \in Nat

Msg == 1 .. MaxMsg

VARIABLES
  desc,           \* descriptors: "zero", "ready" (written), "done" (DD)
  tx_msg,         \* cq->bi.tx_msg
  next_to_use, cq_lock,
  fetched, done,  \* the device: next slot to fetch, next slot to write back
  running,        \* the device serves the ring
  pc, msg, got,   \* a sender: its message, the messages it reclaimed
  live,           \* messages (and DMA buffers) that are allocated
  count,          \* messages allocated so far
  sent, executed, \* history: what was queued, what the device fetched
  finished,       \* history: how many messages the device wrote back
  nreset

ringVars == <<desc, tx_msg, next_to_use, next_to_clean>>
hwVars   == <<fetched, done, running, executed, finished>>
sendVars == <<pc, msg, got>>
vars == <<ringVars, cq_lock, tail, hwVars, sendVars, live, count, sent, nreset>>

(* idpf_ctlq_add of the transmit queue                                     *)
Init ==
  /\ desc   = [i \in Slot |-> "zero"]
  /\ tx_msg = [i \in Slot |-> None]
  /\ next_to_use = 0 /\ next_to_clean = 0
  /\ tail = 0 /\ fetched = 0 /\ done = 0 /\ running = TRUE
  /\ cq_lock = None
  /\ pc  = [t \in Senders |-> "idle"]
  /\ msg = [t \in Senders |-> None]
  /\ got = [t \in Senders |-> {}]
  /\ live = {} /\ count = 0
  /\ sent = <<>> /\ executed = <<>> /\ finished = 0 /\ nreset = 0

-----------------------------------------------------------------------------
(* IDPF_CTLQ_DESC_UNUSED; the subtraction is done in u16                   *)
Unused ==
  ((IF next_to_clean > next_to_use THEN 0 ELSE RingSize)
     + next_to_clean - next_to_use - 1) % 65536

(* The slot that lies k places after next_to_clean                         *)
FromClean(k) == (next_to_clean + k) % RingSize

(* Mutant of Passes: the DD flag is not looked at *)
PassesUndone(i, force) == tx_msg[i] # None

(* The loop of __idpf_ctlq_clean_sq passes a slot that the device wrote    *)
(* back, or any slot under force, as long as the slot holds a message.     *)
Passes(i, force) == (force \/ desc[i] = "done") /\ tx_msg[i] # None

(* With *clean_count = ring_size the loop cleans s: the longest run of     *)
(* slots after next_to_clean that pass.                                    *)
Cleans(s, force) ==
  \E k \in 0 .. RingSize :
    /\ s = {FromClean(j) : j \in 0 .. k - 1}
    /\ \A i \in s : Passes(i, force)
    /\ k < RingSize => ~ Passes(FromClean(k), force)

(***************************************************************************)
(* idpf_send_mb_msg                                                        *)
(***************************************************************************)

(* The reset check: a sender that sees a reset returns at once (and the    *)
(* step is a stuttering one).                                              *)
SendStart(t) ==
  /\ pc[t] = "idle" /\ running
  /\ count < MaxMsg
  /\ pc' = [pc EXCEPT ![t] = "clean"]
  /\ UNCHANGED <<ringVars, cq_lock, tail, hwVars, msg, got, live, count, sent,
                 nreset>>

(* Mutant of SendClean: the descriptors are not zeroed *)
SendCleanKeepsDesc(t) ==
  /\ pc[t] = "clean" /\ cq_lock = None
  /\ \E s \in SUBSET Slot :
       /\ Cleans(s, FALSE)
       /\ got'    = [got EXCEPT ![t] = {tx_msg[i] : i \in s}]
       /\ tx_msg' = [i \in Slot |-> IF i \in s THEN None ELSE tx_msg[i]]
       /\ next_to_clean' = FromClean(Cardinality(s))
  /\ pc' = [pc EXCEPT ![t] = "free"]
  /\ UNCHANGED <<desc, next_to_use, cq_lock, tail, hwVars, msg, live, count,
                 sent, nreset>>

(* idpf_mb_clean, the locked part                                          *)
SendClean(t) ==
  /\ pc[t] = "clean" /\ cq_lock = None
  /\ \E s \in SUBSET Slot :
       /\ Cleans(s, FALSE)
       /\ got'    = [got EXCEPT ![t] = {tx_msg[i] : i \in s}]
       /\ desc'   = [i \in Slot |-> IF i \in s THEN "zero" ELSE desc[i]]
       /\ tx_msg' = [i \in Slot |-> IF i \in s THEN None ELSE tx_msg[i]]
       /\ next_to_clean' = FromClean(Cardinality(s))
  /\ pc' = [pc EXCEPT ![t] = "free"]
  /\ UNCHANGED <<next_to_use, cq_lock, tail, hwVars, msg, live, count, sent, nreset>>

(* idpf_mb_clean, the release of the reclaimed messages and buffers        *)
SendFree(t) ==
  /\ pc[t] = "free"
  /\ live' = live \ got[t]
  /\ got' = [got EXCEPT ![t] = {}]
  /\ pc' = [pc EXCEPT ![t] = "alloc"]
  /\ UNCHANGED <<ringVars, cq_lock, tail, hwVars, msg, count, sent, nreset>>

(* idpf_mb_clean or an allocation failed with -ENOMEM: nothing is kept     *)
SendNoMem(t) ==
  /\ pc[t] \in {"clean", "alloc"}
  /\ pc' = [pc EXCEPT ![t] = "idle"]
  /\ UNCHANGED <<ringVars, cq_lock, tail, hwVars, msg, got, live, count, sent,
                 nreset>>

SendAlloc(t) ==
  /\ pc[t] = "alloc" /\ count < MaxMsg
  /\ count' = count + 1
  /\ msg' = [msg EXCEPT ![t] = count + 1]
  /\ live' = live \cup {count + 1}
  /\ pc' = [pc EXCEPT ![t] = "send"]
  /\ UNCHANGED <<ringVars, cq_lock, tail, hwVars, got, sent, nreset>>

(* Mutant of SendNoSpace: the message is not released *)
SendNoSpaceLeaks(t) ==
  /\ pc[t] = "send" /\ cq_lock = None
  /\ Unused = 0
  /\ msg' = [msg EXCEPT ![t] = None]
  /\ pc' = [pc EXCEPT ![t] = "idle"]
  /\ UNCHANGED <<ringVars, cq_lock, tail, hwVars, got, live, count, sent,
                 nreset>>

(* idpf_ctlq_send of one message finds no descriptor: -ENOSPC, and the     *)
(* message and its buffer are released.                                    *)
SendNoSpace(t) ==
  /\ pc[t] = "send" /\ cq_lock = None
  /\ Unused = 0
  /\ live' = live \ {msg[t]}
  /\ msg' = [msg EXCEPT ![t] = None]
  /\ pc' = [pc EXCEPT ![t] = "idle"]
  /\ UNCHANGED <<ringVars, cq_lock, tail, hwVars, got, count, sent, nreset>>

(* Mutant of SendDesc: the lock is not held up to the write of the tail *)
SendDescUnlocked(t) ==
  /\ pc[t] = "send" /\ cq_lock = None
  /\ Unused > 0
  /\ desc'   = [desc EXCEPT ![next_to_use] = "ready"]
  /\ tx_msg' = [tx_msg EXCEPT ![next_to_use] = msg[t]]
  /\ next_to_use' = Inc(next_to_use)
  /\ pc' = [pc EXCEPT ![t] = "tail"]
  /\ UNCHANGED <<next_to_clean, cq_lock, tail, hwVars, msg, got, live, count,
                 sent, nreset>>

(* idpf_ctlq_send takes the lock and writes the descriptor                 *)
SendDesc(t) ==
  /\ pc[t] = "send" /\ cq_lock = None
  /\ Unused > 0
  /\ cq_lock' = t
  /\ desc'   = [desc EXCEPT ![next_to_use] = "ready"]
  /\ tx_msg' = [tx_msg EXCEPT ![next_to_use] = msg[t]]
  /\ next_to_use' = Inc(next_to_use)
  /\ pc' = [pc EXCEPT ![t] = "tail"]
  /\ UNCHANGED <<next_to_clean, tail, hwVars, msg, got, live, count, sent,
                 nreset>>

(* dma_wmb, the write of the tail register, spin_unlock                    *)
SendTail(t) ==
  /\ pc[t] = "tail"
  /\ tail' = next_to_use
  /\ sent' = Append(sent, msg[t])
  /\ cq_lock' = None
  /\ msg' = [msg EXCEPT ![t] = None]
  /\ pc' = [pc EXCEPT ![t] = "idle"]
  /\ UNCHANGED <<ringVars, hwVars, got, live, count, nreset>>

Send(t) ==
  \/ SendStart(t) \/ SendClean(t) \/ SendFree(t) \/ SendNoMem(t)
  \/ SendAlloc(t) \/ SendNoSpace(t) \/ SendDesc(t) \/ SendTail(t)

-----------------------------------------------------------------------------
(* External: the device fetches the descriptors up to the tail in order    *)
(* and writes them back (DD) in order, possibly much later.                *)
HwFetch ==
  /\ running /\ fetched # tail
  /\ executed' = Append(executed, tx_msg[fetched])
  /\ fetched' = Inc(fetched)
  /\ UNCHANGED <<ringVars, cq_lock, tail, done, running, finished, sendVars,
                 live, count, sent, nreset>>

HwWriteBack ==
  /\ running /\ done # fetched
  /\ desc' = [desc EXCEPT ![done] = "done"]
  /\ done' = Inc(done)
  /\ finished' = finished + 1
  /\ UNCHANGED <<tx_msg, next_to_use, next_to_clean, cq_lock, tail, fetched,
                 running, executed, sendVars, live, count, sent, nreset>>

HwReset ==
  /\ running /\ nreset < MaxReset
  /\ running' = FALSE
  /\ nreset' = nreset + 1
  /\ UNCHANGED <<ringVars, cq_lock, tail, fetched, done, executed, finished,
                 sendVars, live, count, sent>>

(***************************************************************************)
(* idpf_deinit_dflt_mbx after a reset, then idpf_init_dflt_mbx: every      *)
(* message still in the ring is reclaimed by force and released, the ring  *)
(* is destroyed and created again.  idpf_vc_core_deinit has stopped the    *)
(* senders before.                                                         *)
(***************************************************************************)
Reinit ==
  /\ ~ running
  /\ \A t \in Senders : pc[t] = "idle"
  /\ \E s \in SUBSET Slot :
       Cleans(s, TRUE) /\ live' = live \ {tx_msg[i] : i \in s}
  /\ desc'   = [i \in Slot |-> "zero"]
  /\ tx_msg' = [i \in Slot |-> None]
  /\ next_to_use' = 0 /\ next_to_clean' = 0
  /\ tail' = 0 /\ fetched' = 0 /\ done' = 0 /\ running' = TRUE
  /\ sent' = <<>> /\ executed' = <<>> /\ finished' = 0
  /\ UNCHANGED <<cq_lock, sendVars, count, nreset>>

Next ==
  \/ \E t \in Senders : Send(t)
  \/ HwFetch \/ HwWriteBack \/ HwReset
  \/ Reinit

Spec == Init /\ [][Next]_vars

-----------------------------------------------------------------------------
(***************************************************************************)
(* Properties                                                              *)
(***************************************************************************)

TypeOK ==
  /\ desc \in [Slot -> {"zero", "ready", "done"}]
  /\ tx_msg \in [Slot -> Nat \cup {None}]
  /\ next_to_use \in Slot /\ next_to_clean \in Slot
  /\ tail \in Slot /\ fetched \in Slot /\ done \in Slot
  /\ cq_lock \in Senders \cup {None}
  /\ running \in BOOLEAN
  /\ pc \in [Senders -> {"idle", "clean", "free", "alloc", "send", "tail"}]
  /\ msg \in [Senders -> Nat \cup {None}]
  /\ got \in [Senders -> SUBSET Nat]
  /\ live \subseteq Nat /\ count \in Nat /\ nreset \in Nat
  /\ sent \in Seq(Nat) /\ executed \in Seq(Nat \cup {None})
  /\ finished \in Nat

(* The slots that the driver handed to the device and has not reclaimed    *)
InFlight == {FromClean(j) : j \in 0 .. Dist(next_to_clean, next_to_use) - 1}

(* The device executes exactly the messages that were queued, in the order *)
(* of the tail writes: none is skipped, repeated or seen half written,     *)
(* whatever the interleaving of the senders and the device.                *)
ExecutedInOrder == IsPrefix(executed, sent)

(* The message and the DMA buffer of a queued message are not released     *)
(* before the device has written its descriptor back: the device may read  *)
(* the buffer until then.                                                  *)
BufferLiveUntilDone ==
  running => \A n \in finished + 1 .. Len(sent) : sent[n] \in live

(* Every allocated message is in exactly one place: held by the sender     *)
(* that built it, in one slot of the ring, or with the one sender that     *)
(* reclaimed it and is about to free it.  So nothing leaks and nothing is  *)
(* freed twice, through -ENOSPC, -ENOMEM, reset and re-initialisation.     *)
MessagesOwnedOnce ==
  \A m \in Msg :
    LET holders == {<<"ring", i>> : i \in {j \in Slot : tx_msg[j] = m}}
           \cup {<<"built", t>> : t \in {u \in Senders : pc[u] = "send"
                                                         /\ msg[u] = m}}
           \cup {<<"got", t>> : t \in {u \in Senders : m \in got[u]}}
    IN Cardinality(holders) = IF m \in live THEN 1 ELSE 0

(* IDPF_CTLQ_DESC_UNUSED is the room of the ring: exactly the slots of     *)
(* [next_to_clean, next_to_use) hold a message, one slot stays empty, and  *)
(* the slot the next message goes to is zeroed (desc->datalen |= relies on *)
(* that).                                                                  *)
RingExact ==
  /\ \A i \in Slot : (tx_msg[i] # None) <=> i \in InFlight
  /\ \A i \in Slot \ InFlight : desc[i] = "zero"
  /\ Unused = RingSize - 1 - Cardinality(InFlight)

(* The send ring is well formed, its indices say exactly which slots the   *)
(* device has, and a message belongs to one of sender, ring and nobody,    *)
(* over wraps, a full ring and resets.                                     *)
RingSound == TypeOK /\ RingExact /\ MessagesOwnedOnce
=============================================================================
