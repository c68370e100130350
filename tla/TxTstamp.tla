------------------------------- MODULE TxTstamp -------------------------------
(***************************************************************************)
(* Transmit time stamps of one vport.  A packet that is to be stamped      *)
(* takes a latch of the device from the list of free ones; its completion  *)
(* puts it into a tracker and queues a work; the work asks the device, by  *)
(* a message it does not wait for, for the values of all tracked latches;  *)
(* the mailbox task hands each value, which has 32 bits, extended to 64 by *)
(* a cached copy of the clock, to the packet's skb and frees the latch.    *)
(*                                                                         *)
(* The lists are guarded by latches_lock, the trackers by status_lock, and *)
(* the cached clock, which a periodic worker and the setting of the clock  *)
(* write, by nothing.  Time passes in ticks; the low Wrap values of the    *)
(* clock stand for 32 bits.                                                *)
(***************************************************************************)
EXTENDS Naturals, Sequences, SequencesExt

CONSTANTS
  NumLatches,  \* num_latches of the device
  Wrap,        \* 2^32 nanoseconds
  Discard,     \* 2 seconds
  Period,      \* of the worker that caches the clock: half a second
  MaxRead,     \* an update of the cached clock that takes longer is slow
  Start,       \* the first value of the clock
  Jump,        \* what the user adds to it
  MaxPkt,      \* bound: packets
  Budgets      \* bounds: ticks, packets, settings of the clock, failures

ASSUME LatchAssumption == NumLatches \in Nat \ {0}
ASSUME ClockAssumption ==
  /\ {Wrap, Discard, Period, MaxRead, Start, Jump} \subseteq Nat
  /\ Wrap > 0 /\ Wrap % 2 = 0
  /\ Discard + 2 * MaxRead < Wrap \div 2
ASSUME BoundsAssumption ==
  /\ MaxPkt \in Nat
  /\ Budgets \subseteq [time : Nat, pkts : 0 .. MaxPkt, sets : Nat, faults : Nat]

Latches  == 1 .. NumLatches
Pkts     == 1 .. MaxPkt
NoPkt    == 0
Updaters == {"worker", "user"}

VARIABLES
  now,      \* jiffies
  offset,   \* of the device clock to jiffies
  epoch,    \* how often the clock was set
  cache,    \* cached_phc_time with its epoch, and cached_phc_jiffies
  upd,      \* the threads in idpf_ptp_update_cached_phctime
  slow,     \* history: one of them was slow
  qup,      \* the Tx queues exist
  caps,     \* tx_tstamp_caps is allocated
  lock,     \* who holds latches_lock across steps
  free, in_use,  \* latches_free, latches_in_use: sequences of latches
  skb,      \* the skb of each latch
  tracker,  \* tx_tstamp_status
  refs,     \* references that latches took to each skb
  pkt,      \* what became of each packet
  at,       \* when it was stamped, by which clock; forgotten at the end
  hw,       \* the packet each latch of the device has last stamped
  queued,   \* tstamp_task is queued
  work,     \* what tstamp_task does
  msgs, replies,  \* requests to the device, and its answers
  mbx,      \* what the mailbox task does
  aged,     \* it found the cached clock young or old, for the next latch
  got,      \* the kind of value each skb was given
  budget,   \* what is left of a member of Budgets
  lost      \* packets whose stamp a failure has cost

time  == <<now, offset, epoch, cache, upd, slow>>
clock == <<now, offset, epoch, cache, upd, slow, aged>>
lists == <<lock, free, in_use, skb, refs>>
chan  == <<msgs, replies, hw>>
vars  == <<clock, qup, caps, lists, tracker, pkt, at, chan, queued, work, mbx,
           got, budget, lost>>

Clock  == now + offset
NoTime == [val |-> 0, epoch |-> 0]

(* idpf_ptp_get_vport_tstamps_caps was answered; the clock was read.       *)
Init ==
  /\ now = Start /\ offset = 0 /\ epoch = 0
  /\ cache = [val |-> Start, epoch |-> 0, jiffies |-> Start]
  /\ upd = [u \in Updaters |-> [pc |-> "idle", read |-> NoTime, at |-> Start]]
  /\ slow = FALSE /\ aged = "no"
  /\ qup = TRUE /\ caps = TRUE /\ lock = "none"
  /\ free = [i \in Latches |-> NumLatches + 1 - i] /\ in_use = <<>>
  /\ skb = [i \in Latches |-> NoPkt]
  /\ tracker = [i \in Latches |-> [skb |-> NoPkt, state |-> "FREE"]]
  /\ refs = [p \in Pkts |-> 0]
  /\ pkt = [p \in Pkts |-> "none"] /\ at = [p \in Pkts |-> NoTime]
  /\ hw = [i \in Latches |-> NoPkt]
  /\ queued = FALSE /\ work = [pc |-> "idle", todo |-> <<>>, msg |-> <<>>]
  /\ msgs = <<>> /\ replies = <<>>
  /\ mbx = [pc |-> "idle", todo |-> <<>>]
  /\ got = [p \in Pkts |-> "none"]
  /\ budget \in Budgets /\ lost = {}

Spend(what) == budget[what] > 0 /\ budget' = [budget EXCEPT ![what] = @ - 1]

--------------------------------------------------------------------------------
(* The clock and its cached copy *)

(* Time passes whatever the threads do.  One that reads the clock through  *)
(* the mailbox waits for the reply, which comes at the next poll or never. *)
Tick ==
  /\ Spend("time")
  /\ now' = now + 1
  /\ slow' = (slow \/ \E u \in Updaters : /\ upd[u].pc \in {"write", "stamp"}
                                         /\ now' > upd[u].at + MaxRead)
  /\ UNCHANGED <<offset, epoch, cache, upd, aged, qup, caps, lists, tracker,
                 pkt, at, chan, queued, work, mbx, got, lost>>

Pc(u, pc) == upd' = [upd EXCEPT ![u].pc = pc]

(* idpf_ptp_settime64: the device sets its clock.                          *)
Settime ==
  /\ Spend("sets") /\ upd["user"].pc = "idle"
  /\ offset' = offset + Jump /\ epoch' = epoch + 1
  /\ Pc("user", "read")
  /\ UNCHANGED <<now, cache, slow, aged, qup, caps, lists, tracker, pkt, at, chan, queued,
                 work, mbx, got, lost>>

(* idpf_ptp_update_cached_phctime: the clock is read, by the thread or by  *)
(* the device that answers its message; a read that fails stores nothing,  *)
(* like one that does not end, and is left out; ...                        *)
ReadClock(u) ==
  /\ \/ u = "user" /\ upd[u].pc = "read"
     \/ u = "worker" /\ upd[u].pc = "idle" /\ now >= upd[u].at + Period
  /\ upd' = [upd EXCEPT ![u] = [pc |-> "write", at |-> now,
                                read |-> [val |-> Clock, epoch |-> epoch]]]
  /\ UNCHANGED <<now, offset, epoch, cache, slow, aged, qup, caps, lists,
                 tracker, pkt, at, chan, queued, work, mbx, got, budget, lost>>

(* ... its value is stored ...                                             *)
StoreTime(u) ==
  /\ upd[u].pc = "write"
  /\ cache' = [cache EXCEPT !.val = upd[u].read.val,
                            !.epoch = upd[u].read.epoch]
  /\ Pc(u, "stamp")
  /\ UNCHANGED <<now, offset, epoch, slow, aged, qup, caps, lists, tracker, pkt,
                 at, chan, queued, work, mbx, got, budget, lost>>

(* ... and then when that was.                                             *)
StoreJiffies(u) ==
  /\ upd[u].pc = "stamp"
  /\ cache' = [cache EXCEPT !.jiffies = now]
  /\ upd' = [upd EXCEPT ![u] = [pc |-> "idle", read |-> NoTime, at |-> now]]
  /\ UNCHANGED <<now, offset, epoch, slow, aged, qup, caps, lists, tracker, pkt,
                 at, chan, queued, work, mbx, got, budget, lost>>

(* idpf_ptp_tstamp_extend_32b_to_64b: `lo' has the low bits only.          *)
ExtendTstamp(cached, lo) ==
  LET cachedLo == cached % Wrap
      delta    == (lo + Wrap - cachedLo) % Wrap
      reverse  == (cachedLo + Wrap - lo) % Wrap
  IN IF delta > (Wrap \div 2) - 1 THEN cached - reverse ELSE cached + delta

(* Mutant of TstampValue: a cached value of any age is used.               *)
TstampValueOld(p) == ExtendTstamp(cache.val, at[p].val % Wrap)

(* idpf_ptp_extend_tstamp: 0 if the cached value was found too old; it is  *)
(* read some time after its age, and may be another one by then.           *)
TstampValue(p) ==
  IF aged = "old" THEN 0
  ELSE ExtendTstamp(cache.val, at[p].val % Wrap)

--------------------------------------------------------------------------------
(* Transmission *)

(* idpf_ptp_request_ts, for the packet that idpf_tx_splitq_frame is about  *)
(* to put on the ring; without a latch the packet goes out unstamped.  If  *)
(* its mapping then fails, nobody gives the latch back.                    *)
RequestTs(p) ==
  LET i == Head(free)
  IN /\ qup /\ lock = "none"
     /\ p <= budget.pkts
     /\ pkt[p] = "none" /\ \A q \in 1 .. p - 1 : pkt[q] # "none"
     /\ \/ /\ free = <<>>
           /\ pkt' = [pkt EXCEPT ![p] = "plain"]
           /\ UNCHANGED <<free, in_use, skb, refs, budget, lost>>
        \/ /\ free # <<>>
           /\ free' = Tail(free)
           /\ in_use' = <<i>> \o in_use
           /\ skb' = [skb EXCEPT ![i] = p]
           /\ refs' = [refs EXCEPT ![p] = @ + 1]
           /\ \/ /\ pkt' = [pkt EXCEPT ![p] = "ring"]
                 /\ UNCHANGED <<budget, lost>>
              \/ /\ Spend("faults")
                 /\ pkt' = [pkt EXCEPT ![p] = "dropped"]
                 /\ lost' = lost \cup {p}
     /\ UNCHANGED <<clock, qup, caps, lock, tracker, at, chan, queued, work,
                    mbx, got>>

(* The index that idpf_tx_tstamp puts into the context descriptor of p     *)
LatchOf(p) == CHOOSE i \in Latches : skb[i] = p

(* The device sends the packet and stamps it.                              *)
DevSend(p) ==
  /\ pkt[p] = "ring"
  /\ pkt' = [pkt EXCEPT ![p] = "air"]
  /\ at' = [at EXCEPT ![p] = [val |-> Clock, epoch |-> epoch]]
  /\ hw' = [hw EXCEPT ![LatchOf(p)] = p]
  /\ UNCHANGED <<clock, qup, caps, lists, tracker, msgs, replies, queued, work,
                 mbx, got, budget, lost>>

(* Mutant of FreeTracker: the first one is taken to be free.               *)
FreeTrackerAny == 1

(* The first tracker that is free, or 0                                    *)
FreeTracker ==
  LET fs == {i \in Latches : tracker[i].state = "FREE"}
  IN IF fs = {} THEN 0 ELSE CHOOSE i \in fs : \A j \in fs : i <= j

(* Mutant of ReadTstamp: the work is only queued if nothing was tracked.   *)
ReadTstampOnce(p) ==
  /\ pkt[p] = "air"
  /\ pkt' = [pkt EXCEPT ![p] = "done"]
  /\ IF FreeTracker = 0 THEN UNCHANGED <<tracker, queued>>
     ELSE /\ tracker' = [tracker EXCEPT
                           ![FreeTracker] = [skb |-> p, state |-> "REQUEST"]]
          /\ queued' = (queued \/ \A i \in Latches : tracker[i].state = "FREE")
  /\ UNCHANGED <<clock, qup, caps, lists, at, chan, work, mbx, got, budget,
                 lost>>

(* idpf_tx_read_tstamp, when the completion of the packet is cleaned       *)
ReadTstamp(p) ==
  /\ pkt[p] = "air"
  /\ pkt' = [pkt EXCEPT ![p] = "done"]
  /\ IF FreeTracker = 0 THEN UNCHANGED <<tracker, queued>>
     ELSE /\ tracker' = [tracker EXCEPT
                           ![FreeTracker] = [skb |-> p, state |-> "REQUEST"]]
          /\ queued' = TRUE
  /\ UNCHANGED <<clock, qup, caps, lists, at, chan, work, mbx, got, budget,
                 lost>>

(* idpf_vport_stop: packets on the rings are freed without a completion.   *)
QueuesDown ==
  LET gone == {p \in Pkts : pkt[p] \in {"ring", "air"}}
  IN /\ qup /\ caps
     /\ qup' = FALSE
     /\ pkt' = [p \in Pkts |-> IF p \in gone THEN "dropped" ELSE pkt[p]]
     /\ lost' = lost \cup gone
     /\ at' = [p \in Pkts |-> IF p \in gone THEN NoTime ELSE at[p]]
     /\ UNCHANGED <<clock, caps, lists, tracker, chan, queued, work, mbx,
                    got, budget>>

QueuesUp ==
  /\ ~ qup /\ caps
  /\ qup' = TRUE
  /\ UNCHANGED <<clock, caps, lists, tracker, pkt, at, chan, queued, work, mbx,
                 got, budget, lost>>

--------------------------------------------------------------------------------
(* idpf_ptp_update_tstamp_tracker *)

Requests == {i \in Latches : tracker[i].state = "REQUEST"}

TrackerOf(p, from) ==
  {i \in Latches : tracker[i].skb = p /\ tracker[i].state = from}

UpdateTracker(p, from, to) ==
  LET ts == TrackerOf(p, from)
      first == CHOOSE i \in ts : \A j \in ts : i <= j
  IN tracker' = IF ts = {} THEN tracker
                ELSE [tracker EXCEPT ![first] =
                        [skb |-> IF to = "FREE" THEN NoPkt ELSE p, state |-> to]]

(* idpf_ptp_get_tx_tstamp: memory for a message to all latches             *)
WorkStart ==
  /\ queued /\ work.pc = "idle"
  /\ queued' = FALSE
  /\ \/ /\ work' = [work EXCEPT !.pc = "lock"]
        /\ UNCHANGED <<budget, lost>>
     \/ /\ Spend("faults")
        /\ lost' = lost \cup {tracker[i].skb : i \in Requests}
        /\ UNCHANGED work
  /\ UNCHANGED <<clock, qup, caps, lists, tracker, pkt, at, chan, mbx, got>>

WorkLock ==
  /\ work.pc = "lock" /\ lock = "none"
  /\ lock' = "work"
  /\ work' = [pc |-> "walk", todo |-> in_use, msg |-> <<>>]
  /\ UNCHANGED <<clock, qup, caps, free, in_use, skb, refs, tracker, pkt, at,
                 chan, queued, mbx, got, budget, lost>>

(* Mutant of WorkWalk: every latch in use is asked for.                    *)
WorkWalkAll ==
  /\ work.pc = "walk" /\ work.todo # <<>>
  /\ UpdateTracker(skb[Head(work.todo)], "REQUEST", "READ_VALUE")
  /\ work' = [work EXCEPT !.todo = Tail(@), !.msg = Append(@, Head(work.todo))]
  /\ UNCHANGED <<clock, qup, caps, lists, pkt, at, chan, queued, mbx, got,
                 budget, lost>>

(* Each latch whose tracker asks for its value goes into the message.      *)
WorkWalk ==
  LET i == Head(work.todo)
  IN /\ work.pc = "walk" /\ work.todo # <<>>
     /\ UpdateTracker(skb[i], "REQUEST", "READ_VALUE")
     /\ work' = [work EXCEPT
          !.todo = Tail(@),
          !.msg = IF TrackerOf(skb[i], "REQUEST") = {} THEN @
                  ELSE Append(@, i)]
     /\ UNCHANGED <<clock, qup, caps, lists, pkt, at, chan, queued, mbx, got,
                    budget, lost>>

WorkUnlock ==
  /\ work.pc = "walk" /\ work.todo = <<>>
  /\ lock' = "none"
  /\ work' = [work EXCEPT !.pc = "send"]
  /\ UNCHANGED <<clock, qup, caps, free, in_use, skb, refs, tracker, pkt, at,
                 chan, queued, mbx, got, budget, lost>>

(* A message without latches gets an answer without latches, which has no  *)
(* effect; it is left out.  After a failure nobody asks again.             *)
WorkSend ==
  /\ work.pc = "send"
  /\ work' = [pc |-> "idle", todo |-> <<>>, msg |-> <<>>]
  /\ \/ /\ msgs' = IF work.msg = <<>> THEN msgs ELSE Append(msgs, work.msg)
        /\ UNCHANGED <<budget, lost>>
     \/ /\ Spend("faults")
        /\ lost' = lost \cup {skb[i] : i \in ToSet(work.msg)}
        /\ UNCHANGED msgs
  /\ UNCHANGED <<clock, qup, caps, lists, tracker, pkt, at, hw, replies, queued,
                 mbx, got>>

(* The device answers with what its latches hold, or says that it is not   *)
(* valid.                                                                  *)
DevAnswer ==
  LET m == Head(msgs)
      with(valid) == [k \in DOMAIN m |->
                        [latch |-> m[k], of |-> hw[m[k]], valid |-> valid]]
  IN /\ msgs # <<>>
     /\ msgs' = Tail(msgs)
     /\ \/ /\ replies' = Append(replies, with(TRUE))
           /\ UNCHANGED <<budget, lost>>
        \/ /\ Spend("faults")
           /\ replies' = Append(replies, with(FALSE))
           /\ lost' = lost \cup {skb[i] : i \in ToSet(m)}
     /\ UNCHANGED <<clock, qup, caps, lists, tracker, pkt, at, hw, queued, work,
                    mbx, got>>

--------------------------------------------------------------------------------
(* idpf_ptp_get_tx_tstamp_async_handler: the vport is looked up ...        *)
MbxLook ==
  /\ replies # <<>> /\ mbx.pc = "idle"
  /\ replies' = Tail(replies)
  /\ mbx' = IF caps THEN [pc |-> "lock", todo |-> Head(replies)] ELSE mbx
  /\ UNCHANGED <<clock, qup, caps, lists, tracker, pkt, at, msgs, hw, queued,
                 work, got, budget, lost>>

(* ... and its latches are locked.  If they were released in between, the  *)
(* code uses freed memory; the model goes no further.                      *)
MbxLock ==
  /\ mbx.pc = "lock" /\ lock = "none"
  /\ IF caps
     THEN lock' = "mbx" /\ mbx' = [mbx EXCEPT !.pc = "walk"]
     ELSE mbx' = [pc |-> "idle", todo |-> <<>>] /\ UNCHANGED lock
  /\ UNCHANGED <<clock, qup, caps, free, in_use, skb, refs, tracker, pkt, at,
                 chan, queued, work, got, budget, lost>>

(* idpf_ptp_extend_tstamp looks how old the cached value is.  The step is  *)
(* taken for every latch of an answer; only one that is handed a value     *)
(* makes use of it.                                                        *)
MbxAge ==
  /\ mbx.pc = "walk" /\ mbx.todo # <<>> /\ aged = "no"
  /\ aged' = IF cache.jiffies + Discard < now THEN "old" ELSE "young"
  /\ UNCHANGED <<time, qup, caps, lists, tracker, pkt, at, chan, queued, work,
                 mbx, got, budget, lost>>

MbxDone == mbx' = [mbx EXCEPT !.todo = <<>>]
(* Mutant of MbxNext: the answer ends with its first latch.                *)
MbxNextBreak == MbxDone
MbxNext == mbx' = [mbx EXCEPT !.todo = Tail(@)]

(* Mutant of GiveBack: the latch is not taken off the list in use.         *)
GiveBackKeeps(i) ==
  /\ free' = <<i>> \o free
  /\ skb' = [skb EXCEPT ![i] = NoPkt]
  /\ refs' = [refs EXCEPT ![skb[i]] = @ - 1]
  /\ UNCHANGED in_use

(* list_del of latch i from latches_in_use                                 *)
LeaveList(i) ==
  \E k \in DOMAIN in_use : in_use[k] = i /\ in_use' = RemoveAt(in_use, k)

(* Mutant of GiveBack: the skb is consumed twice.                          *)
GiveBackTwice(i) ==
  /\ LeaveList(i)
  /\ free' = <<i>> \o free
  /\ skb' = [skb EXCEPT ![i] = NoPkt]
  /\ refs' = [refs EXCEPT ![skb[i]] = @ - 2]

(* idpf_ptp_get_tstamp_value for latch i, whose value is that of packet    *)
(* `of': the latch becomes free, with the value given to its skb or not.   *)
GiveBack(i) ==
  /\ LeaveList(i)
  /\ free' = <<i>> \o free
  /\ skb' = [skb EXCEPT ![i] = NoPkt]
  /\ refs' = [refs EXCEPT ![skb[i]] = @ - 1]

Given(p, value) ==
  CASE value = 0 -> "zero"
    [] value # 0 /\ value = at[p].val -> "right"
    [] OTHER -> "wrong"

TstampOf(i, of) ==
  /\ GiveBack(i)
  /\ UpdateTracker(skb[i], "READ_VALUE", "FREE")
  /\ at' = [at EXCEPT ![skb[i]] = NoTime]
  /\ IF TrackerOf(skb[i], "READ_VALUE") = {}
     THEN UNCHANGED got /\ MbxDone
     ELSE got' = [got EXCEPT ![skb[i]] = Given(skb[i], TstampValue(of))] /\ MbxNext

(* The next latch of the answer *)
MbxLatch ==
  LET r == Head(mbx.todo)
  IN /\ mbx.pc = "walk" /\ mbx.todo # <<>> /\ aged # "no"
     /\ aged' = "no"
     /\ \/ ~ r.valid /\ MbxNext /\ UNCHANGED <<lists, tracker, at, got>>
        \/ /\ r.valid /\ in_use = <<>>
           /\ MbxDone /\ UNCHANGED <<lists, tracker, at, got>>
        \/ /\ r.valid /\ in_use # <<>> /\ r.latch \notin ToSet(in_use)
           /\ MbxNext /\ UNCHANGED <<lists, tracker, at, got>>
        \/ /\ r.valid /\ r.latch \in ToSet(in_use)
           /\ TstampOf(r.latch, r.of) /\ UNCHANGED lock
     /\ UNCHANGED <<time, qup, caps, pkt, chan, queued, work, budget, lost>>

MbxUnlock ==
  /\ mbx.pc = "walk" /\ mbx.todo = <<>>
  /\ lock' = "none"
  /\ mbx' = [mbx EXCEPT !.pc = "idle"]
  /\ UNCHANGED <<clock, qup, caps, free, in_use, skb, refs, tracker, pkt, at,
                 chan, queued, work, got, budget, lost>>

--------------------------------------------------------------------------------
(* idpf_ptp_release_vport_tstamp in a hard reset, which has closed the     *)
(* vport: the work is cancelled and waited for.                            *)
Release ==
  /\ caps /\ ~ qup
  /\ work.pc = "idle" /\ lock = "none"
  /\ queued' = FALSE
  /\ refs' = [p \in Pkts |->
       IF \E i \in ToSet(in_use) : skb[i] = p THEN refs[p] - 1 ELSE refs[p]]
  /\ free' = <<>> /\ in_use' = <<>> /\ skb' = [i \in Latches |-> NoPkt]
  /\ tracker' = [i \in Latches |-> [skb |-> NoPkt, state |-> "FREE"]]
  /\ caps' = FALSE
  /\ UNCHANGED <<clock, qup, lock, pkt, at, chan, work, mbx, got, budget, lost>>

--------------------------------------------------------------------------------
Driver ==
  \/ WorkStart \/ WorkLock \/ WorkWalk \/ WorkUnlock \/ WorkSend
  \/ MbxLook \/ MbxLock \/ MbxAge \/ MbxLatch \/ MbxUnlock

Next ==
  \/ Tick \/ Settime
  \/ \E u \in Updaters : ReadClock(u) \/ StoreTime(u) \/ StoreJiffies(u)
  \/ \E p \in Pkts : RequestTs(p) \/ DevSend(p) \/ ReadTstamp(p)
  \/ QueuesDown \/ QueuesUp \/ Release
  \/ Driver \/ DevAnswer

Spec == Init /\ [][Next]_vars

(* A queued work is run, a lock that is free is taken at last, the device  *)
(* answers and the mailbox task looks.                                     *)
FairSpec ==
  /\ Spec
  /\ WF_vars(WorkStart) /\ SF_vars(WorkLock) /\ WF_vars(WorkWalk)
  /\ WF_vars(WorkUnlock) /\ WF_vars(WorkSend) /\ WF_vars(DevAnswer)
  /\ WF_vars(MbxLook) /\ SF_vars(MbxLock) /\ WF_vars(MbxAge)
  /\ WF_vars(MbxLatch) /\ WF_vars(MbxUnlock)

--------------------------------------------------------------------------------
(* The range of every variable *)
RangeOK ==
  /\ now \in Nat /\ offset \in Nat /\ epoch \in Nat
  /\ cache \in [val : Nat, epoch : Nat, jiffies : Nat]
  /\ qup \in BOOLEAN /\ caps \in BOOLEAN /\ queued \in BOOLEAN
  /\ lock \in {"none", "work", "mbx"}
  /\ free \in Seq(Latches) /\ in_use \in Seq(Latches)
  /\ skb \in [Latches -> Pkts \cup {NoPkt}]
  /\ tracker \in [Latches -> [skb : Pkts \cup {NoPkt},
                              state : {"FREE", "REQUEST", "READ_VALUE"}]]
  /\ refs \in [Pkts -> Nat]
  /\ work.pc \in {"idle", "lock", "walk", "send"}
  /\ mbx.pc \in {"idle", "lock", "walk"}

TypeOK == RangeOK /\ slow \in BOOLEAN /\ aged \in {"no", "young", "old"}

(* No latch is lost or used twice, whatever the work, the mailbox task and *)
(* senders do in between: each is in one list, once; a latch in use holds  *)
(* a packet of its own and the one reference to it, a free one holds       *)
(* nothing; after the release no reference is left.                        *)
LatchesOwned ==
  /\ caps => /\ ToSet(free) \cup ToSet(in_use) = Latches
             /\ Len(free) + Len(in_use) = NumLatches
  /\ \A i \in Latches : skb[i] # NoPkt <=> i \in ToSet(in_use)
  /\ \A p \in Pkts :
       /\ refs[p] \in {0, 1}
       /\ refs[p] = 1 <=> \E i \in Latches : skb[i] = p
  /\ \A i, j \in Latches : skb[i] = skb[j] /\ skb[i] # NoPkt => i = j

(* The trackers, which compare skb pointers without a reference, only ever *)
(* point to skbs that a latch in use keeps alive; and every packet whose   *)
(* completion was cleaned found a tracker, as long as it has a latch.      *)
TrackersMatch ==
  /\ \A i \in Latches : tracker[i].state # "FREE" =>
       /\ \E j \in ToSet(in_use) : skb[j] = tracker[i].skb
       /\ \A k \in Latches \ {i} : tracker[k].skb # tracker[i].skb
  /\ \A j \in ToSet(in_use) : pkt[skb[j]] = "done" =>
       \E i \in Latches : tracker[i].skb = skb[j]

(* Whatever the device is asked for is in use and tracked as being read    *)
(* until its answer is handled, and holds the value of that very packet:   *)
(* the error exits of the handler, which would drop the rest of an answer, *)
(* are never taken, and no skb is given the stamp of another one.          *)
Asked == UNION ({ToSet(msgs[k]) : k \in DOMAIN msgs}
                \cup {{r.latch : r \in ToSet(replies[k])} : k \in DOMAIN replies}
                \cup {{r.latch : r \in ToSet(mbx.todo)}})
AnswersExpected ==
  caps => \A i \in Asked : /\ i \in ToSet(in_use)
                           /\ TrackerOf(skb[i], "READ_VALUE") # {}
                           /\ hw[i] = skb[i]

(* No request is lost: a tracker that asks for a value has a work to come, *)
(* although the completion that sets it does not wait for a work that is   *)
(* just walking the list.                                                  *)
RequestHeard ==
  \A i \in Requests :
     \/ queued \/ work.pc = "lock"
     \/ work.pc = "walk" /\ \E j \in ToSet(work.todo) : skb[j] = tracker[i].skb
     \/ tracker[i].skb \in lost

(* A value that is given to an skb is 0 or the very time at which the      *)
(* device has stamped the packet, across the wrap of its 32 bits and with  *)
(* the cached clock being written between the look at its age and its use, *)
(* if it is given at most half a wrap later, the cached clock is not that  *)
(* of another setting, and no update of it was slow.                       *)
TstampExact ==
  [][\A p \in Pkts :
       (/\ got'[p] # got[p] /\ ~ slow
        /\ now + offset <= at[p].val + Wrap \div 2
        /\ cache.epoch = at[p].epoch /\ epoch = cache.epoch)
       => got'[p] \in {"zero", "right"}]_vars

(* Every packet that was sent with a latch is given its time stamp and its *)
(* latch becomes free again, unless a failure has cost it the stamp or the *)
(* latches are released.                                                   *)
AllStamped ==
  \A p \in Pkts :
    (pkt[p] = "done") ~>
      \/ got[p] # "none" /\ \A i \in Latches : skb[i] # p
      \/ p \in lost \/ ~ caps

(* Latches and trackers are well formed, each latch is in one list with a  *)
(* packet of its own or none, and trackers follow the latches.             *)
LatchesSound == TypeOK /\ LatchesOwned /\ TrackersMatch

(* Between completion, work, device and mailbox task no request is lost    *)
(* and no answer is given to the wrong packet.                             *)
RequestsSound == RequestHeard /\ AnswersExpected
==============================================================================
