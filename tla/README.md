# A TLA+ model of the idpf driver

idpf is the Linux driver of the Intel Infrastructure Data Path Function, a
network device that is operated through a mailbox. This directory models the
parts of it whose correctness depends on the order in which threads, interrupts
and the device take their steps, checks them with TLC on small instances, and
proves with TLAPS, for every size, all the safety properties that its passing runs
check. File names below are relative to `src/idpf/src/`. `PROJECT.json` lists the
runs, the source lines of every definition, the hazards and the theorems.

## 1. The system

### Components, their state and their operations

| Component | State | Operations | Module |
|---|---|---|---|
| virtchnl transactions (`idpf_virtchnl.c`) | 255 transactions with state, cookie (index, 8-bit salt), reply buffer and completion; bitmap of the free ones | `idpf_vc_xn_exec`, `_forward_reply`, `_forward_async`, `_shutdown`, `_init` | `VcXn` |
| control queue, sending (`idpf_controlq.c`) | send ring with two indices and a tail; a message and a DMA buffer for each slot | `idpf_send_mb_msg`, `idpf_mb_clean`, `idpf_ctlq_send`, `_clean_sq` | `CtlqSend` |
| control queue, receiving | receive ring, a buffer for each slot but one, next_to_clean, next_to_post | `idpf_mbx_task`, `idpf_recv_mb_msg`, `idpf_ctlq_recv`, `_post_rx_buffs` | `CtlqRecv` |
| loading, reset, removal (`idpf_main.c`, `idpf_lib.c`) | flags of the adapter, delayed works, RTNL and `vport_ctrl_lock`, vports and their network devices | service, event and init task, PCI error callbacks, `idpf_remove`, mailbox interrupt, `idpf_open`, `idpf_stop` | `HardReset` |
| split queue transmit (`idpf_txrx.c`) | descriptor ring, pool of buffers (tags), refill queue, completion queue, timers of the exception path | `ndo_start_xmit`, the NAPI poll, reinject timers | `TxSplitq` |
| split queue receive | Rx queue, two buffer queues, refill queues, generation bits, pages with their references | NAPI poll, posting of buffers | `RxSplitq` |
| vport up, down, soft reset (`idpf_lib.c`) with queue messages and markers (`idpf_virtchnl.c`) | memory and NAPI of a vport, what the device was told of it, marker flags, link | `idpf_vport_open`, `_stop`, `idpf_initiate_soft_reset`, marker completions, link events | `Vport` |
| MAC filters (`idpf_lib.c`, `idpf_virtchnl.c`) | list of filters with add and remove flags, promiscuous bits | `ndo_set_rx_mode`, `idpf_set_mac`, restoring and removing, asynchronous messages and their errors | `MacFilters` |
| PTP (`idpf_ptp.c`, `idpf_virtchnl_ptp.c`) | latches and trackers of Tx time stamps, cached clock | take a latch, track a completion, ask the device, extend and hand out a stamp | `TxTstamp` |
| vectors and queue pools | free stacks shared by vports and RDMA | allocate, return | planned |
| single queue model, AF_XDP | rings | transmit, clean | not modelled |
| RDMA (`idpf_idc.c`), ADI/VDCM, devlink, ethtool, flow steering, VF registers, kcompat, auxiliary bus | | | not modelled; the reasons are in `PROJECT.json` |

### Interactions

* A thread that wants something of the device calls `idpf_vc_xn_exec`: it takes
  a transaction, sends a message with its cookie through the send ring and waits
  for the completion. The mailbox task takes replies from the receive ring and
  completes the transaction that the cookie names.
* A reset shuts the transactions down, frees both rings and builds everything
  anew. The service task detects it by a register, the event task handles it,
  and the init task creates the vports, one for each run. PCI error callbacks do
  the same from a thread of the PCI core, and removal tears down for good.
* A user opens and closes network devices under RTNL; `idpf_open` and
  `idpf_stop` take `vport_ctrl_lock`, which the event task holds for the whole
  reset.
* `ndo_start_xmit` and the NAPI poll of a queue share a ring and a pool of tags
  without a lock: each index has one writer, and a generation bit in every entry
  of the refill queue tells new entries from old ones. On the receive side one
  NAPI context runs poll and refill; the device and the stack, which frees pages
  in any order, run beside it.
* Opening, stopping and soft resets of a vport hold `vport_ctrl_lock`; NAPI sees
  marker completions and the mailbox task link events meanwhile.
* `ndo_set_rx_mode` changes the list of MAC filters under a spin lock of its own
  and sends messages whose answers it does not wait for; so does the work that
  asks for time stamps. The mailbox task handles the answers.

### What is hard

Steps outside locks (the completion of a transaction), late and duplicated
replies, an 8-bit salt that wraps, rings that wrap and fill, delayed works that
queue and cancel each other, locks held while waiting for another work, error
exits half way, a queue that must be started by somebody other than who stopped
it, completions out of order, timers racing late completions, messages that
nobody waits for, pages shared with the stack, and a 32-bit clock. `PROJECT.json`
has the list, each hazard at its line.

## 2. The modules

Every module has one action per step of its threads. A step is what happens
under one lock, or between two accesses to state that another thread writes.
Where the code does several things without anything that another thread could
see in between, they are one step.

**VcXn.** Callers run `Exec*`: pop a transaction (`xn_bm_lock`), arm it
(`xn->lock`), `reinit_completion` (no lock), send, wait, finish (`xn->lock`). The
mailbox task runs `Recv*`; `RecvComplete` is the `complete()` after the unlock.
`Shutdown*` and `InitXn` are the manager. The control plane answers a request
never, once, or several times, late, with failure, or with another opcode. `gen`
numbers the uses of transactions, `answer` says whose reply a transaction got:
both are history. `overlap` marks that `idpf_vc_xn_init` has run while a call of
the earlier life was still under way; the properties about the ownership of
transactions make no statement afterwards, nor after a wrap of the salt, which
can release an asynchronous transaction of another call (`Sound`).

**VcCall.** What `idpf_vc_xn_exec` promises a caller, without transactions: a
call is begun, sent, gets at most one verdict (reply, failure, shutdown) and ends
with a value that tells it. `VcXn` implements it: `PhaseOf` maps the program
counter of a caller, `VerdictOf` the state of the transaction it holds, and
`ImplementsCalls` is `VcCall!Spec` under that mapping, for as long as `Sound`
holds; after that `VcCall` allows anything.

**Ctlq.** What the two control queues share: the size of the ring, two of its
indices, and the arithmetic of going round it. `CtlqSend` and `CtlqRecv` extend it;
names of `CtlqRecv` that would clash with `CtlqSend` begin with `Arq`, and its
program counter is `mbx`, so that one module can state theorems about both.

**CtlqSend.** A sender cleans the ring, frees what it reclaimed, allocates, and
writes the descriptor and then the tail, two steps with the device in between.
The device fetches up to the tail and writes back in order. `HwReset` stops it
at any time, `Reinit` frees and builds the ring.

**CtlqRecv.** The mailbox task takes a message, handles it (the handler may fail
and end the loop), and posts buffers, one slot a step, while the device writes
further messages: direct, indirect or with the ERR flag. The mailbox is polled, then
driven by its interrupt, then polled again once the interrupt is freed (`mode`):
in interrupt mode the task is queued only by an interrupt (`irq`, `pend`), which
fires once until the task enables it again; otherwise the task queues itself.

**HardReset.** Each of the three works is queued or not (`pend`) and at a place
in its code (`pc`); `cancel_delayed_work_sync` takes it off the queue and waits
until it does not run. `flags` has the names of the code. A vport exists, its
network device is allocated, registered, present, running, and its queues are
up. The mailbox is reduced to whether a message is answered (`VcWorks`): one
assumption about the device is that it does not answer any more once it was asked
to reset, although its `rstat` may still read ready for a while. What may happen to the adapter is a set of troubles, each at most once in a
behaviour: a reset of the device, a CORER, a Tx timeout or a request by RDMA, a
PCI error, a function level reset, a failing step, the removal.

**TxSplitq.** One queue in flow scheduling mode. xmit checks the room, stops the
queue and looks again, writes context descriptors, takes a tag for each buffer
and moves the tail; it may fail at any mapping and is then rolled back. The poll
handles RE, RS, MISS and REINJECT completions and starts the queue. The device
fetches in order, completes in any order, and may send a packet down the
exception path, whose two completions come in either order. A packet is the
sequence of the descriptor counts of its buffers. Left out: BQL, queue based
scheduling, XDP, the software marker. A packet that was refused with
NETDEV_TX_BUSY may come back with another shape, which only adds behaviours.

**RxSplitq.** The device takes posted buffers and writes descriptors; the poll
turns them into skbs, flips or replaces pages and puts indices into the refill
queues, and at its end posts them in strides; the stack gives references back
at any time. A buffer has two places, two pages of 4 KB or two halves of one
page. Generation bits, `next_to_*` and `reuse_bias` are those of the code. A packet whose fields
`idpf_rx_process_skb_fields` refuses is freed at once and not counted
(idpf_txrx.c:4804): it is a packet the stack frees, without the count.

**Vport.** The control thread runs the steps of `idpf_vport_open` and
`idpf_vport_stop`, with the label of the error path each failing step jumps to;
`idpf_initiate_soft_reset` calls both around the copy of `struct idpf_vport`, of
which the pointers, counts and flags are kept. A pointer is null, live or stale,
and `heap` counts the blocks. A message is executed and answered, refused, or
executed and given up on. NAPI handles markers, the mailbox task link events,
in two steps. `slips` records which accepted losses happened.

**MacFilters.** Two threads run `idpf_add_del_mac_filters`, one step for each
hold of `mac_filter_list_lock` and each message sent; the device executes the
messages in order, and the mailbox task handles errors of those nobody waits
for. Only a reset or a message takes a filter out of the device: disabling the
vport does not. An opening may fail after its filters were restored
(`RestoreFail`: idpf_lib.c:1899, the RSS configuration). `unsent`, `left` and `dropped` record the addresses that the code loses
track of, each at the place where it does.

**TxTstamp.** A sender takes a latch, the device stamps, the completion fills a
tracker and queues the work; the work walks the list under `latches_lock`, one
latch a step, because completions change trackers under `status_lock` in
between; the mailbox task does the same with the answer. The clock is in ticks;
its low `Wrap` values stand for 32 bits. Two threads write the cached clock in
two stores each, any time after they read it, for a read through the mailbox waits
for a reply; `slow` records that one took longer than `MaxRead`. The mailbox
task looks at the age of the cached clock and uses its value in two steps (`MbxAge`,
`MbxLatch`). A read that fails stores nothing and is left out. `Release` is that of a hard reset, which has closed the vport;
`idpf_remove` is listed below.

Each component has a module of its own for its theorems, and the two control queues
have one together: `VcXnProofs`, `CtlqProofs`, `HardResetProofs`, `VportProofs`,
`TxSplitqProofs`, `RxSplitqProofs`, `MacFiltersProofs`, `TxTstampProofs` (section 4).

MC modules (`MCVcXn`, `MCCtlqSend`, `MCTxSplitq`, `MCRxSplitq`, `MCMacFilters`,
`MCTxTstamp`) define symmetry sets, packet shapes, configurations and budgets. Operators whose comment begins with "Mutant of" are wrong versions of the
next definition and are used only to show that the properties notice.

## 3. The runs

All runs use the specifications as they are; no definition is replaced. Deadlock
checking is off where a behaviour may rightly end (the bound on packets, messages
or troubles is used up, the driver is removed); `CtlqRecv` has none of these and
keeps it on.

| Run | Instance | Shows |
|---|---|---|
| `vcxn` | 2 callers, 2 transactions, salt modulo 2, 3 calls, 2 replies, one shutdown and re-initialisation anywhere | A reply is written only to the buffer of a caller that waits on that transaction (`ReplyBufferLive`); only a wrap of the salt can attribute a reply to the wrong request (`ReplyMatchesRequest`); one call per transaction (`ExclusiveXn`), none lost (`NoLeakedXn`), the free list offers only idle ones (`FreeXnIdle`); no wake-up by a reply is lost (`WakePending`); the manager stays down (`DownStaysDown`) and calls that end meanwhile fail (`DownCallsFail`); `VcXn` implements `VcCall` (`ImplementsCalls`). |
| `ctlq_send` | 2 senders, 3 slots, 5 messages, one reset | Execution in order, lifetime and single ownership of messages, exact ring arithmetic (`RingExact`), over the wrap and a full ring. |
| `ctlq_recv` | 5 slots, 7 messages | The device only sees posted buffers, order and payload, single ownership of buffers, the ring keeps its buffers; every message is handled (`AllReceived`), in interrupt mode too and over the changes of mode, unless a failure has cut the loop short in interrupt mode (`LoopCut`, see below). |
| `hr_reset` | 2 default vports, any 2 of reset, PCI error, function level reset, failing step, removal | No network device is left without its vport except in the window described below (`VportLiveAlone`), recovery starts from nothing, no work outlives the adapter. |
| `hr_live` | 1 default vport, any 2 of reset, CORER, Tx timeout, failing step, removal | `VportLive` without exception, as there are no PCI callbacks; a reset or load ends, whatever happens meanwhile: its flag is cleared or the event task is at its error exit (`ResetEnds`); what a reset closed comes up, if nothing fails, no second reset comes and the device was not found ready before it had begun the first (`ComesBack`). |
| `hr_deadlock` | 2 default vports, no trouble | **Violated**, see below. |
| `tx_splitq` | ring 8, pool 5, completion queue 6, packets of 3 descriptors or 2 buffers, 4 packets, one fault, the second packet may miss | No unfetched descriptor is overwritten (`NoOverrun`), a tag has one owner (`TagsOwnedOnce`), the tag given back last is not taken (`LastTagKept`), the device is told of every descriptor (`DoorbellRung`), skbs are freed once and not too early (`SkbFreedOnce`), the completions owed never pass what the threshold allows (`ComplqFits`), a stopped queue is started (`StoppedWakes`). |
| `tx_miss` | 2 packets, the first may miss | **Violated**, see below. |
| `rx_splitq` | two buffer queues of 2 slots, or one of 4 with XDP and strides of 2 and 2 or 2 and 1; 5 descriptors of 5 kinds, one failing allocation or bad descriptor | What the device may fill is live and shared with nobody (`PostedLive`, `PostedUnshared`), a buffer is in one place (`BufsOwnedOnce`), generation bits are exact (`GenExact`), packets arrive whole (`DeliveredWhole`), the device keeps its buffers (`NeverStarves`), what is received is handled (`AllHandled`). |
| `vport` | up to 2 queues, 4 commands, 2 failures, 2 link events on their way, a core reset | Up means everything allocated and the device told (`UpMeansReady`), down means everything freed (`DownMeansFreed`), NAPI walks live memory (`PollLive`), nothing is freed twice (`FreedOnce`), the device does not work on freed memory (`DmaLive`), carrier and link agree (`LinkAgrees`), a soft reset keeps the vport up with new or old queues (`SoftResetKeeps`); up to the slips the properties name. |
| `mac_filters` | 3 addresses, messages of one filter, 5 calls, one failure, resets | When nothing is under way list, device and stack agree (`ListInDevice`, `DeviceInList`, `WantedListed`) up to the recorded losses, no promiscuous mode outlives its request (`PromiscLeft`), and opening the vport heals (`RestoreHeals`). |
| `tx_tstamp` | 2 latches; 3 packets and one failure with the clock still, or one packet, 4 ticks and one setting of the clock | No latch is lost (`LatchesOwned`), trackers point to skbs that latches keep alive (`TrackersMatch`), answers find what they are for (`AnswersExpected`), no request is lost (`RequestHeard`), stamps are exact or 0 as long as no update of the cached clock was slow (`TstampExact`), every packet gets one (`AllStamped`). |

Invariants that speak of the same state are checked together, as conjunctions of
the named parts that the table refers to, each with the module's type invariant in
one of them:

| Module | Invariant of the run | Parts |
|---|---|---|
| `VcXn` | `XnOwnership` | `TypeOK`, `ExclusiveXn`, `NoLeakedXn`, `FreeXnIdle` |
| `CtlqSend` | `RingSound` | `TypeOK`, `RingExact`, `MessagesOwnedOnce` |
| `CtlqRecv` | `BuffersSound` | `ArqTypeOK`, `HwOwnsPosted`, `BuffersOwnedOnce`, `NeverStarves` |
| | `DeliveredExact` | `ReceivedInOrder`, `PayloadIntact` |
| `HardReset` | `VportsSound` | `TypeOK`, `VportLiveAlone` |
| `TxSplitq` | `RingsFit` | `TypeOK`, `NoOverrun`, `ComplqFits` |
| | `TagsSound` | `TagsOwnedOnce`, `LastTagKept` |
| `RxSplitq` | `BufsSound` | `TypeOK`, `BufsOwnedOnce`, `GenExact`, `NeverStarves` |
| | `PostedSafe` | `PostedUnshared`, `PostedLive` |
| `Vport` | `MemoryExact` | `TypeOK`, `DownMeansFreed`, `PollLive`, `FreedOnce` |
| `MacFilters` | `FiltersAgree` | `TypeOK`, `ListInDevice`, `DeviceInList`, `WantedListed` |
| `TxTstamp` | `LatchesSound` | `TypeOK`, `LatchesOwned`, `TrackersMatch` |
| | `RequestsSound` | `RequestHeard`, `AnswersExpected` |

Each part has a mutant of its own.

### Why the bounds are enough

The bounds are chosen for the cases, and the mutants show that the cases happen:
each property is violated by a small error in the code it is about, within the
same bounds. Two callers on two transactions make both reuse and contention; a
third call wraps a salt of two. A send ring of three has two usable slots, so
five messages fill it and go round twice. A receive ring of five lets the two
indices of posting meet. Two vports are the fewest for which the init task is
queued again in the middle of a load. In `tx_splitq` three packets fill the ring
and the fourth wraps it, with and without the RE bit, and the threshold of the
completion queue is met before that of the ring or after it, depending on the
shapes. Missing packets other than the second were run by themselves with the
same result. In `rx_splitq` five descriptors go round a buffer queue of two twice,
and a page is flipped, kept by the stack and flipped back. Four commands of
`vport` are an open, two soft resets and a stop. Five calls of `mac_filters` are
enough for an asynchronous failure between an open, a change of address and a
stop; with no reset in the model two failures were run with the same result. In
`tx_tstamp` latches and clock meet only where a value is extended, so that they
are varied apart; three packets on two latches make one go unstamped and one
latch be used again.

### Fairness

* `VcXn`, `CtlqSend`, `Vport`, `MacFilters` are checked without fairness: their
  properties say what holds whenever nothing is under way, or at every step.
* `CtlqRecv`: a mailbox task that is queued runs to its end. Nothing is assumed
  of the device and of the interrupt: that the task is queued again while messages
  wait is what `AllReceived` shows, and where it is not, `LoopCut` says so.
* `HardReset`: queued works run; RTNL and `vport_ctrl_lock` are mutexes, which
  hand over to their oldest waiter, hence strong fairness of those who wait for
  them; the PCI core finishes what it began; the device ends its resets. Users
  need not open or close anything.
* `TxSplitq`: xmit runs to its end, the poll runs while there are completions,
  the device fetches what the tail announces and goes on sending. The stack need
  not send anything, and packets may be completed in any order.
* `RxSplitq`: NAPI runs once it is scheduled; the device and the stack need not
  do anything.
* `TxTstamp`: a queued work runs, the device answers, the mailbox task runs;
  `latches_lock` is a fair spin lock, hence strong fairness of those who take it.

### What the violated runs show

* **`hr_deadlock`.** On load with two default vports `idpf_reset_recover` keeps
  `vport_ctrl_lock` until the init task has created all vports. After the first
  one is registered a user can open it: `idpf_open` holds RTNL and waits for
  `vport_ctrl_lock`, the init task waits for RTNL in `register_netdev` for the
  second. The event task, the init task and the user wait for each other.
* **`tx_miss`.** MISS and then REINJECT: the timer that would have freed the skb
  is deleted, and `libeth_tx_complete` frees nothing for a buffer of type
  REINJECT. The skb and the tags of the packet are lost.

### Other deviations the models contain

These are behaviours of the models that the properties above exempt or do not
speak of. Each can be seen by checking the formula given.

* `VcXn`: `reinit_completion` outside the lock wipes out the wake-up of a
  shutdown (`mpc = "down" => \A t : pc[t] = "wait" => Signalled(...)`); the
  `complete()` of a late reply wakes the next user of the transaction, which
  reports a timeout; after 256 uses of the salt a late reply is accepted. A
  transaction whose reply never comes to an asynchronous message stays taken
  until the next reset.
* `CtlqRecv`: in interrupt mode a handler that fails, or a message with the ERR
  flag, ends the loop of `idpf_recv_mb_msg` (idpf_virtchnl.c:738-751), and nobody
  queues the task again (idpf_lib.c:1638): the messages behind it wait until
  another one raises an interrupt (`AllReceived` without `LoopCut`). A message with the ERR flag takes its buffer out of the ring for
  good (`pc = "idle" => lost = {}`); `RingSize - 3` of them stop the mailbox.
* `HardReset`: `idpf_check_reset_complete` takes the first `rstat` that reads ready
  (idpf_lib.c:2189-2203), and looks right after `trigger_reset`: if the device has not
  cleared it yet, the recovery goes on towards a device that is about to reset,
  fails there, and leaves the adapter as below, with nothing else having gone
  wrong (`ResetEnds` without its second alternative, `ComesBack` without
  `StaleReady`). Error exits of the recovery leave `HR_RESET_IN_PROG` set with
  nobody at work, and later resets are ignored; a reset asked for between the
  cancels of `idpf_reset_prepare` and its flag runs the event task beside the PCI
  callbacks, which free the vport it is about to close (`VportLive` in `hr_reset`);
  `vc_event_task` may be queued again after `idpf_remove` has cancelled it; the
  interrupt of a CORER may come after the event task has looked for it.
* `TxSplitq`: a rollback forgets the RE bit and the pending completion of its
  packet, and on a small ring the queue may stay stopped (`StoppedWakes` without
  its exemption and with `MaxFault = 1`); the context descriptor of a time stamp
  is not counted (`NoOverrun` with `Stamps = {0, 1}`); a packet on the exception
  path has two completions but is counted once, so the pending count can pass
  below zero; a REINJECT before its MISS moves `next_to_clean` by itself; the
  entry of an expired timer stays in the array and is freed again.
* `RxSplitq`: a poll that an skb allocation ended early leaves its descriptor
  until the next interrupt, although idpf_txrx.c:4831 says "guarantee a trip back
  through this routine if there was a failure" (`TripBack`); when the mapping of a
  new page fails, `idpf_alloc_page` frees the page and leaves its pointer, and
  the next refill posts it (`PostedLive` with `"nomap"` among the `Faults`; idpf_txrx.c:565,
  4861); a packet whose `idpf_rx_hdr_construct_skb` fails loses its header; the
  buffer of a descriptor with a bad type is lost; a refill that failed is tried
  again only by the next packet, and without buffers there is none. Rings as long
  as the stride of the first tail begin without a buffer for the device
  (`DeviceFed` with `Configs <- McFewest`): with 64 Rx descriptors, the fewest
  that `idpf_set_ringparam` takes (idpf_ethtool.c:778), each of two buffer queues
  has 32, `idpf_rx_post_init_bufs` fills 31 and sets the tail to
  `ALIGN_DOWN(31, 32) = 0`, where it was (idpf_txrx.c:683); nothing is received,
  so nothing is refilled and the tail never moves.
* `Vport`: a soft reset whose allocation fails frees blocks twice through the
  pointers it copied (`FreedOnce` without its exemption; idpf_lib.c:2464,
  idpf_txrx.c:1310), against the comment at idpf_lib.c:2372; a marker handled
  between the setting of two flags lets the wait end early
  (idpf_virtchnl.c:786-808); a link event between the two steps of
  `idpf_up_complete`, or during a soft reset, is lost (idpf_lib.c:1716, 2464), the
  second half of an old one may come into a new opening, and a carrier may be on
  with the vport down; when `idpf_queue_reg_init` or
  `idpf_rx_bufs_init_all` fails, `idpf_vport_intr_deinit` calls `napi_disable` on
  a NAPI that was never enabled and waits for ever (idpf_lib.c:1846,
  idpf_txrx.c:5410; the model goes on); an enable that was executed and timed out
  leaves the device working on freed memory (`DmaLive` without its exemption).
* `MacFilters`: a failed chunk drops the chunks after it; a failed unsync keeps in
  the list what the device deleted; a remove flag left behind by a failure is sent
  with a later request; `idpf_set_mac` leaves the old address in the device and
  drops it from the list; the handler of asynchronous errors takes filters off
  the list without freeing them and indexes `vport_config` by the vport's id
  (idpf_virtchnl.c:4425). The comment at idpf_lib.c:2573-2578 promises unicast and
  multicast promiscuity under `IFF_PROMISC` without `IFF_ALLMULTI`, but line 2584 sets
  the bit of multicast in `adapter->flags` and not in `user_flags`: the device is
  told of unicast only (`flags.promisc => hwFlags.mc` under the premise of
  `PromiscLeft`). When the RSS configuration fails behind `idpf_restore_features`
  (idpf_lib.c:1899-1931), the vport is down and its filters stay in the device, which
  `DeviceInList` forgives through `left`. A reset re-initialises the
  head of the list (idpf_lib.c:1992), which loses the stack's addresses, and does
  not send the promiscuous modes again.
* `TxTstamp`: a packet that is dropped after it took a latch keeps it until the
  release; after a failed send or an answer that is not valid nobody asks again;
  because the two stores of the cached clock can mix, it may be older than its
  age says by the time of two reads, not one (`ClockAssumption`); stamps are exact
  only if they are handed out within 2^31 ns. `cached_phc_jiffies` is taken when the
  value is stored: a read through the mailbox (idpf_ptp.c:136-173,
  idpf_virtchnl_ptp.c:166-192) may take up to the timeout of a transaction, so that a
  value more than 2^31 ns old can pass the check of 2 s and the stamp is a wrap off
  (`TstampExact` without `~ slow`). That the age and the value are read apart
  (idpf_ptp.c:647, 659) does no harm. `idpf_ptp_release` can free the latches
  between the look-up and the lock of the mailbox task (idpf_virtchnl_ptp.c:607-613;
  the model goes no further), and `idpf_vc_core_deinit` calls it before the vports
  are stopped (idpf_virtchnl.c:3823): on removal of a running device the queues go
  on using freed latches. Read while modelling: `idpf_fast_path_txq_init` indexes
  `txqs[i]` for `txqs[k]` (idpf_txrx.c:844), so that only the first queues stamp;
  `ppb << 13 / 125` in `idpf_ptp_adjfreq` (idpf_ptp.c:593); the stamps of
  completions and receive descriptors are extended without a look at the age of
  the cached clock (idpf_txrx.c:2050, 3903).

## 4. The proofs

Eight modules of proofs state what holds for every value of the constants: any
numbers of callers, transactions, slots, senders, queues, vports, addresses,
latches, tags, buffers, descriptors, packets, commands and failures. They cover every
safety invariant of every passing run, the action properties `DownCallsFail`,
`SoftResetKeeps`, `RestoreHeals` and `TstampExact`, and the refinement of `VcCall`. Each inductive invariant was
first checked by TLC, as an invariant of the instance of the run.

| Module | Theorems | State |
|---|---|---|
| `VcXnProofs` | `Typing`, `ReplyBufferSafe`, `DownSafe`, `DownCallsFailSafe`, `SaltSafe` | `TypeOK`, `ReplyBufferLive`, `DownStaysDown`, `DownCallsFail`, `ReplyMatchesRequest` |
| | `OwnershipSafe`, `WakeSafe`, `CallsImplemented` | `XnOwnership`, `WakePending`, `ImplementsCalls` |
| `CtlqProofs` | `SendRingSafe`, `OrderSafe`, `BufferSafe` | `RingSound`, `ExecutedInOrder`, `BufferLiveUntilDone` |
| | `RecvRingSafe`, `DeliverySafe` | `BuffersSound`, `DeliveredExact` |
| `VportProofs` | `MemorySafe`, `ReadySafe`, `DmaSafe`, `LinkSafe`, `SoftSafe` | `MemoryExact`, `UpMeansReady`, `DmaLive`, `LinkAgrees`, `SoftResetKeeps` |
| `HardResetProofs` | `VportsSafe`, `RecoverSafe`, `DrainSafe`, `LiveAlone` | `VportsSound`, `RecoversFromNothing`, `WorksDrained`, and `VportLive` if there are no PCI callbacks |
| `TxSplitqProofs` | `SpecTagsSound`, `SpecSkbFreedOnce`, `SpecDoorbellRung`, `SpecComplqFits`, `SpecRingsFit` | `TagsSound`, `SkbFreedOnce`, `DoorbellRung`, `ComplqFits`, and `RingsFit` if no packet asks for a time stamp |
| `RxSplitqProofs` | `BufsSafe`, `WholeAlways`, `UnsharedAlways`, `SafeAlways`, `FedAlways` | `BufsSound`, `DeliveredWhole`, `PostedUnshared`; `PostedSafe` if no mapping of a page fails; `DeviceFed` if the rings are longer than a stride |
| `MacFiltersProofs` | `FiltersSafe`, `PromiscSafe`, `HealsSafe` | `FiltersAgree`, `PromiscLeft`, `RestoreHeals` |
| `TxTstampProofs` | `LatchesSafe`, `RequestsSafe`, `StampsExact` | `LatchesSound`, `RequestsSound`, `TstampExact` |

### Assumptions

`VcXn`: there is a transaction and the salt has a width (`RingLenAssumption`,
`SaltModAssumption`). `Ctlq`: the ring has at least two slots, one of which always
stays empty, and its size fits the 16 bits of `struct idpf_ctlq_info`
(`RingSizeAssumption`); `CtlqRecv`: at least three slots (`RecvSizeAssumption`).
`Vport`, `HardReset`,
`TxTstamp`: at least one queue, vport and latch. `MacFilters`: a message has room
for a filter, and the first address is one of the addresses. `ClockAssumption` says that
the stamps of `TxTstamp` have an even number of values (32 bits) and that the age at
which the cached clock is given up, with the time of two reads, is below half of
that, as the driver's 2 s are below 2^31 ns: `StampsExact` needs all of it. It defines
which reads are slow and asks nothing of them: nothing in the code bounds a read
through the mailbox by what is left of 2^31 ns, about 73 ms for each of two,
and `StampsExact` says nothing of stamps given after a longer one. `TxSplitq`: `RingAssumption` relates the
sizes of ring and packets to the gap of the RE bits and the threshold for waking,
`PacketAssumption` says that a packet has at least one buffer,
`CounterAssumption` that the completion counters (32 bits) are wider than the
threshold of the completion queue (whose length is 16 bits), `NullAssumption` that
`IDPF_TXBUF_NULL` is no tag. `SpecRingsFit` has the hypothesis `Stamps = {0}`, that
of the run: `idpf_txq_has_room` does not count the descriptor of a time stamp, and
with it the property is false. `RxSplitq`: a configuration has a finite number of buffer
queues, at least one, and a size of the rings of two slots or more; the stride of the
first tail divides it, and so does that of refills, which is no longer and below the
size (`SizeAssumption`; the driver aligns the sizes to 32, and the strides are 32 and
16); the kinds of descriptors are any set (`KindAssumption`). `FedAlways` has the
hypothesis that the rings are longer than the stride of the first tail, which 64
descriptors do not satisfy (section 3). `SafeAlways` has the hypothesis that
`"nomap"` is not among the `Faults`, as in `rx_splitq`: with it the page is freed under
the pointer that stays, and the property is false. `LiveAlone` has the hypothesis that the troubles do
not include the two that bring PCI callbacks, as in `hr_live`. `NoneAssumption` says that the "nobody"
and "nothing" of a module is none of its other values. The bounds that keep TLC's
state spaces finite (`MaxMsg`, `MaxCmd`, `MaxPkt`, budgets) are arbitrary numbers,
and so is the set of troubles of `HardReset`.

### The inductive invariants

* **`VcXnProofs`.** `TypeOK` is inductive by itself. What threatens
  `ReplyBufferLive` is a caller leaving while its buffer is still registered;
  `BufferInv` adds that a transaction that is shut down has no reply buffer
  (`ShutdownDropsReply`): a caller leaves either through the release, which
  clears the buffer, or because it found SHUTDOWN. `DownInv` follows the loop of
  the shutdown: the transactions below its cursor are already SHUTDOWN.
  `ShutdownSticks` shows for each action that only `idpf_vc_xn_init` takes a
  transaction out of that state; this is where late replies and failing sends
  enter. `SaltInv` says that the salt of the manager, of every transaction and of
  every message on its way is congruent to the number of its use; two uses of a
  transaction with the same salt are then equal or at least `SaltMod` apart
  (`WrapApart`).
* **`VcXnProofs`, ownership.** `OwnerInv`, for as long as `Sound`. One holder per
  transaction is not inductive without knowing in which states a holder can find
  its transaction (`StateFits`): a reply may complete it only after the request
  went out, which needs that before the send no message bears the number of the
  call (`RequestUnsent`, `NumbersGiven`); that in turn needs `SaltInv`, because a
  message is matched by its salt alone. `InitAlone` carries the ownership over a
  shutdown and re-initialisation, and shows that exactly the calls that are still
  under way then end `Sound`. The refinement follows action by action: the
  abstract verdict changes only where the state of the transaction does.
* **`CtlqProofs`, sending.** Places on the ring are counted from `next_to_clean`
  (`Off`), which turns the ring into an interval: written back, handed over, free,
  in this order (`RingOrder`, `SlotState`). `HistoryFits` ties the two histories to
  it: the message in the k-th place is the k-th after those reclaimed. `LockHeld` is
  the state between the descriptor and the tail write. `OneHolder` and
  `HoldersLive` say who may release a message; `BufferLiveUntilDone` is theirs.
* **`CtlqProofs`, receiving.** `Posted` counts the slots the driver has filled, those
  included that it has not handed over yet; all between `next_to_clean` and there
  hold buffers. When the search of `idpf_ctlq_post_rx_buffs` finds nothing, all
  slots behind are empty (`SearchedAll`, from the least place of a set, `LeastOf`).
  `NeverStarves` needs a count: one slot more than
  buffers is empty, plus one for each buffer lost and for the one in the hands of
  the handler (`RoomInv`), so that by pigeonhole the refill can end only with all
  but these posted.
* **`VportProofs`.** For each label of the open and stop paths what is
  allocated (`MemInv`), what the device was told (`DevInv`), which markers may come
  (`DrainInv`), what carrier and events say (`LinkInv`), and what a soft reset has
  changed so far (`SoftInv`). The error paths of the code are right exactly if each
  jump lands at a label with the memory of its predecessor.
* **`HardResetProofs`.** `CoreInv` is the argument of the code: what is torn
  down is idle, because the works are cancelled before the core is marked as gone
  and queued again only when it is built anew. `LockInv` says at which places
  `vport_ctrl_lock` and RTNL are held. `TurnInv`, `NetInv` and `LoadInv` need that the
  event task and the PCI callbacks take turns, and hold as long as `beside` does
  not; `WorksDrained` does not need it. The proof shows that neither the number of
  troubles nor that each comes once matters: `BoundsAssumption` is used for types
  only. `NoCallback`: without the troubles that bring PCI callbacks none ever starts,
  so `beside` stays false and `VportLive` needs no exception.
* **`TxSplitqProofs`.** The refill queue is seen from where the packet under
  construction took its first tag (`TagBase`), so that a rollback changes nothing:
  from there lie the tags already taken, then those offered (`Held`), each of
  the lap its generation bit says and none twice (`QueueInv`). The tags offered are
  of empty buffers, and the last of them is the one the poll has just given back
  (`OfferInv`); since `idpf_tx_splitq_get_free_bufs` counts one less, xmit cannot
  reach it. `BuildInv` is the chain of the packet under construction, `ChainInv`
  says that chains of packets neither meet nor touch it: a link leads to a buffer of
  type FRAG which nothing else leads to, so what the poll gives back was nobody
  else's. `WaitInv` places the tag of every packet the driver waits for: in the ring, on
  the wire, in the completion queue or on the exception path, once; then a
  completion finds the packet it is for. `SkbInv` names who will free an skb, the
  buffer or an armed timer. `PathInv` is about the tail: it is where the device is
  or at the end of a packet.
  The completion queue (`CreditInv`): the two counters wrap, so their
  difference is a number only up to a multiple of `CtrMod`. There is a number `d`
  in that class which covers what is owed and stays at the threshold plus what the
  packet under construction has added; a packet on the exception path, counted once
  and reported twice, is allowed for by `nmiss`.
  The ring: `LineInv` says that the packets lie end to end from the device to
  `next_to_use`, `SpotInv` where the packet under construction writes, `RoomInv`
  that, counted from `next_to_clean`, what is written and what xmit has found room
  for ends before the ring does. That needs the RE completions to be in the order
  of the ring (`Ordered`), because each sets `next_to_clean`. A REINJECT completion
  that overtakes its MISS breaks this (`moved`), and `NoOverrun` then says nothing.
* **`RxSplitqProofs`.** The three rings are seen as arcs: the slots posted to the
  device, the descriptors the poll has not reached, the entries to be refilled. A
  buffer is on one of them, once, or lost (`OwnInv`), and what lies on them names
  buffers that exist (`IdsInv`). Since there is one buffer less than slots, the
  pigeonhole says that no ring overruns: there is room to post when something is to be
  refilled, room in the refill queue when the poll ends a buffer, and room in the Rx
  queue when the device writes (`RoomToPost`, `RoomToRefill`, `RoomToWrite`). `GenInv`
  says that the entries before the place of a writer have its generation and those
  behind it the other, and whether the reader has passed the wrap as well; from this
  what a reader takes for new is exactly the arc (`NewIs`, `IsNewIs`). `TailInv` ties the
  tail, which moves in strides, to `next_to_alloc`: it is rounded down by one stride
  from the first refill that moves it, and by another before. `FreeInv` is the argument of page
  reuse: the place a buffer is to use next has no reference, whatever the stack gives
  back and when, and a buffer without a page is on its way to the refill. `PacketInv`
  follows the packet that is being put together over the end of a poll: a descriptor
  begins a packet exactly if the one before it ended one. `DoneInv` says that without
  failures a poll leaves nothing behind; with the count of the buffers that gives
  `NeverStarves`.
* **`MacFiltersProofs`.** The properties speak of moments when nothing is under
  way; the invariant says what holds in between. `Fate` is whether the device has
  an address once it has executed what is on its way: the last request about the
  address decides, and executing a request changes no fate (`ExecuteKeeps`).
  `AddInv`: every filter of a live list has its fate, is in the batch of a thread,
  is flagged while a thread that adds will still collect, or is in `unsent`.
  `DelInv`: what the device has or will have is listed, will be removed, or is in
  `left`. Each thread collects the flags of both, so the two hold for the threads
  together and not for each; what a request sent beside the other thread may undo
  is on record (`PlaceInv`: two busy threads know of each other). `UnsyncInv`
  carries an address that is taken back from its flag to the request that removes
  it, `WantInv` says that nothing else leaves the list, and `HealInv` follows an
  undisturbed opening through its batch: the requests behind the one it waits for
  are about modes only. The list is seen as three sets, of its addresses and of
  those with each flag; the list lemmas say what each operation does to them.
* **`TxTstampProofs`.** The lists are lists without repetition (`List`). A latch
  in use holds a packet of its own and a reference to it (`HoldInv`). Trackers and
  latches whose packet was cleaned belong together, one to one (`TrackInv`), and as
  the packet that is just cleaned has none yet, by pigeonhole a tracker is free: the
  error exit of `idpf_tx_read_tstamp` is never taken. `OnceInv` says that a latch
  that was asked for is in one place, once: in the message of the work, a message to
  the device, an answer, or what the mailbox task has left of one; then no answer
  finds a latch that was given to another packet meanwhile.
  The values: `OfInv` says that an answer of the device holds the stamp of the packet
  that still has the latch, `StampInv` that no packet was stamped in the future,
  `AgeInv` that the cached clock is at most the time of two reads older than its age
  says, while no read was slow (`SlowStays`). The last is where the two writers meet: one may store its old value between
  the value and the age of the other, which then claims to be younger than it is. With
  these bounds the cached clock and the stamp lie within half a wrap of each other, and
  extending the low bits gives the stamp back (`ExtendIs`, by `ModApart`). Between
  the look at the age and the use of the value the cached clock may change and time
  pass: `YoungInv` is what remains true of it then, for the answer that is about to
  be extended (`YoungKept`, `AnswerKept`).

### What the proofs have changed

Four places of the models were put right because an invariant would not go
through. `LinkAgrees` of `Vport` exempts one window more: the mailbox task has
stored a link event, and before it sets the carrier the vport is stopped and half
opened again (`LinkCarrier`); this takes more faults than the run allows. `mb_wait_count` of `HardReset` has no bound in the code, and has none in `TypeOK`
now. In `TxTstamp` the entry a `list_del` takes away is the one that is there
(`LeaveList`). In `MacFilters` what a thread does after a message was a `CASE` with
guards that overlap, which leaves the choice open (TLC takes the first): the
invariant for the thread that waits did not follow. The walk along the list is
written without recursion (`Walk`). `TxSplitq` sums a sequence by a recursive
function (`Upto`), about which steps can be proved, and names what it takes for
granted of packets and counters (`PacketAssumption`, `CounterAssumption`,
`NullAssumption`); so does `RxSplitq` for its queues and descriptors. `None` of
`RxSplitq` has to differ from every skb the poll can build (`Skbs`). The first tail
of a buffer queue and those of refills are rounded down to strides of their own
(`FirstTail`, `Tail`), as in the code; the model had one stride for both.

### Only model-checked

* All liveness, which needs fairness and `ENABLED`: `AllReceived`, `ResetEnds`,
  `ComesBack`, `StoppedWakes`, `AllHandled`, `AllStamped`.
* `TripBack`, which the code does not satisfy.

The sums by which the rings of `TxSplitq` are counted are proved about by induction
over a set instead of a predicate: a set that has 0 and with each number the next
has them all (`StepByStep`, from the well-foundedness of `<`), and a function of
partial sums exists for every length (`UptoExists`).

## 5. Not modelled

In modelled components: `idpf_shutdown`, suspend and resume, SR-IOV, the
`trigger_reset` of a VF, subfunctions; the teardown of the receive control
queue; a send that is under way while a reset frees the ring
(idpf_virtchnl.c:246); the chunks of queue messages; soft resets for other
reasons than a change of queues (XSK pool, MTU); RSS and flow steering; the
adjustment of the PTP clock and receive time stamps. The mailbox interrupt handler
is one step; one that comes during a core reset and completes what the reset waits for,
instead of queueing the mailbox task, is left out of `CtlqRecv`. Weakly ordered memory is not modelled: barriers and `WRITE_ONCE` are
taken to do what they are for, and the bits that `idpf_queue_change` flips with
a non-atomic operation have one writer. Statistics, logging, formats of messages
and descriptors are abstracted.

Not modelled at all, with the reason for each in `PROJECT.json`: single queue
model, AF_XDP and XDP verdicts, flow steering, vector and queue pools, RDMA, ADI
and VDCM, devlink, ethtool, statistics, VF registers. Most of the repository's
lines are kernel compatibility code (`kcompat*`, twice), message layouts
(`virtchnl2.h`) and a copy of the auxiliary bus, which have no behaviour of
the driver's own.

## 6. Plan

Next modules, in this order:

1. The mailbox as a whole: `VcXn` on top of `CtlqSend` and `CtlqRecv`, and the
   reset freeing the rings under a sender.
2. Vectors and queue pools, shared by vports and RDMA.
3. RDMA plugging, ADI, the single queue model.

Next theorems: that the tags of a packet refused by `TxSplitq` all return, and the
refinement of the mailbox as a whole.
