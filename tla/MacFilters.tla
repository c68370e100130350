------------------------------ MODULE MacFilters ------------------------------
(***************************************************************************)
(* The MAC filters of one vport: the driver's list of them, the flags that *)
(* say what the device is still to be told, and the device's own set.      *)
(*                                                                         *)
(* Two threads run idpf_add_del_mac_filters.  "stack" is ndo_set_rx_mode,  *)
(* under the address lock of the stack only: it cannot sleep, so its       *)
(* messages are sent and forgotten, and an error that comes back is dealt  *)
(* with by the mailbox task.  "ctl" holds vport_ctrl_lock: it opens and    *)
(* stops the vport and sets its address, and waits for every answer.  Each *)
(* takes mac_filter_list_lock for single looks at the list; a step here is *)
(* what happens under one such lock, or one message sent.                  *)
(***************************************************************************)
EXTENDS Naturals, Sequences, FiniteSets, SequencesExt

CONSTANTS
  Macs, Addr0,  \* addresses, and the one the vport begins with
  PerMsg,       \* IDPF_NUM_FILTERS_PER_MSG
  MaxCmd,       \* calls into the driver
  MaxFault      \* allocations, sends and requests that fail

ASSUME AddrAssumption == Addr0 \in Macs
ASSUME BoundsAssumption ==
  /\ PerMsg \in Nat \ {0} /\ MaxCmd \in Nat /\ MaxFault \in Nat

Threads == {"stack", "ctl"}

VARIABLES
  up,      \* IDPF_VPORT_UP
  list,    \* mac_filter_list: sequence of [mac, add, remove]
  addr,    \* netdev->dev_addr
  wanted,  \* addresses the stack takes for synchronised
  th,      \* what each thread is doing
  sendq,   \* requests on their way to the device, in order
  errs,    \* answers with an error to requests nobody waits for
  hw,      \* the device's filters
  flags,   \* IFF_PROMISC and IFF_ALLMULTI, and the bits of user_flags
  hwFlags, \* the modes the device was told
  cmds, faults,          \* counted against their bounds
  unsent, left, dropped, \* history: addresses the driver lost track of
  pfail                  \* history: a promiscuous mode message failed

hist == <<unsent, left, dropped>>
vars == <<up, list, addr, wanted, th, sendq, errs, hw, flags, hwFlags, cmds,
          faults, hist, pfail>>

Filter(m) == [mac |-> m, add |-> TRUE, remove |-> FALSE]
Listed == {list[i].mac : i \in DOMAIN list}

(* The places of the list in I, from its head on: list_for_each_entry      *)
Walk(I) == {f \in [1 .. Cardinality(I) -> I] :
              ToSet(f) = I /\ \A i, j \in DOMAIN f : i < j => f[i] < f[j]}

(* __idpf_del_mac_filter: the entries of ms leave the list.                *)
Without(ms) ==
  \E f \in Walk({i \in DOMAIN list : list[i].mac \notin ms}) :
    list' = [k \in DOMAIN f |-> list[f[k]]]

IdleThread == [pc |-> "idle", fn |-> "none", mac |-> Addr0, batch |-> <<>>,
               err |-> FALSE, alone |-> TRUE]

(* The vport is down; idpf_init_mac_addr has put its address in the list.  *)
Init ==
  /\ up = FALSE /\ list = <<Filter(Addr0)>> /\ addr = Addr0 /\ wanted = {}
  /\ th = [t \in Threads |-> IdleThread]
  /\ sendq = <<>> /\ errs = <<>> /\ hw = {}
  /\ flags = [promisc |-> FALSE, allmulti |-> FALSE, uc |-> FALSE, mc |-> FALSE]
  /\ hwFlags = [uc |-> FALSE, mc |-> FALSE]
  /\ cmds = 0 /\ faults = 0
  /\ unsent = {} /\ left = {} /\ dropped = {} /\ pfail = FALSE

--------------------------------------------------------------------------------
Adds(t)  == th[t].fn \in {"sync", "set_mac", "restore"}
Async(t) == t = "stack"
Other(t) == IF t = "stack" THEN "ctl" ELSE "stack"

Begins(t) == th[t].pc = "idle" /\ cmds < MaxCmd /\ cmds' = cmds + 1

(* A thread starts; from then on neither is alone if both are busy.        *)
Start(t, fn, m, pc) ==
  LET alone == th[Other(t)].pc = "idle"
  IN th' = [th EXCEPT
       ![t] = [IdleThread EXCEPT !.pc = pc, !.fn = fn, !.mac = m,
                                 !.alone = alone],
       ![Other(t)].alone = @ /\ alone]

Goto(t, pc) == th' = [th EXCEPT ![t].pc = pc]
Done(t, err) == th' = [th EXCEPT ![t].pc = "done", ![t].batch = <<>>,
                                 ![t].err = err]

Fault == faults < MaxFault /\ faults' = faults + 1

(* The driver gives up on telling the device about ms.                     *)
Lose(t, ms) ==
  /\ unsent' = IF Adds(t) THEN unsent \cup ms ELSE unsent
  /\ left'   = IF Adds(t) THEN left ELSE left \cup ms
  /\ UNCHANGED dropped

(* Mutant of AddToList: the list is not searched first *)
AddToListTwice(m) == list' = Append(list, Filter(m))

(* __idpf_add_mac_filter.  A failing allocation of the entry changes       *)
(* nothing, in its callers too, and is left out.                           *)
AddToList(m) ==
  list' = IF m \in Listed
          THEN [i \in DOMAIN list |->
                  IF list[i].mac = m THEN [list[i] EXCEPT !.remove = FALSE]
                  ELSE list[i]]
          ELSE Append(list, Filter(m))

--------------------------------------------------------------------------------
(* The calls into the driver *)

(* idpf_addr_sync *)
Sync(m) ==
  /\ Begins("stack") /\ m \notin wanted
  /\ AddToList(m)
  /\ dropped' = dropped \ {m}
  /\ left' = IF th["ctl"].pc = "idle" THEN left ELSE left \cup {m}
  /\ Start("stack", "sync", m, "test_up")
  /\ UNCHANGED <<up, addr, wanted, sendq, errs, hw, flags, hwFlags, faults,
                 unsent, pfail>>

(* Mutant of Unsync: the device address is not kept *)
UnsyncAny(m) ==
  /\ Begins("stack") /\ m \in wanted
  /\ wanted' = wanted \ {m}
  /\ IF m \notin Listed
     THEN UNCHANGED <<list, th>>
     ELSE /\ list' = [i \in DOMAIN list |->
                        IF list[i].mac = m THEN [list[i] EXCEPT !.remove = TRUE]
                        ELSE list[i]]
          /\ Start("stack", "unsync", m, "test_up")
  /\ UNCHANGED <<up, addr, sendq, errs, hw, flags, hwFlags, faults, hist, pfail>>

(* idpf_addr_unsync: the device address is kept; what is not in the list   *)
(* is not deleted.                                                         *)
Unsync(m) ==
  /\ Begins("stack") /\ m \in wanted
  /\ wanted' = wanted \ {m}
  /\ IF m = addr \/ m \notin Listed
     THEN UNCHANGED <<list, th>>
     ELSE /\ list' = [i \in DOMAIN list |->
                        IF list[i].mac = m THEN [list[i] EXCEPT !.remove = TRUE]
                        ELSE list[i]]
          /\ Start("stack", "unsync", m, "test_up")
  /\ UNCHANGED <<up, addr, sendq, errs, hw, flags, hwFlags, faults, hist, pfail>>

(* idpf_set_mac *)
SetMac(m) ==
  /\ Begins("ctl") /\ m # addr
  /\ AddToList(m)
  /\ Start("ctl", "set_mac", m, "test_up")
  /\ UNCHANGED <<up, addr, wanted, sendq, errs, hw, flags, hwFlags, faults,
                 hist, pfail>>

(* Mutant of Open: the filters are not flagged again *)
OpenNoFlags ==
  /\ Begins("ctl") /\ ~ up
  /\ Start("ctl", "restore", addr, "collect")
  /\ UNCHANGED <<up, list, addr, wanted, sendq, errs, hw, flags, hwFlags,
                 faults, hist, pfail>>

(* idpf_restore_mac_filters, as idpf_vport_open does it before the vport   *)
(* is up.                                                                  *)
Open ==
  /\ Begins("ctl") /\ ~ up
  /\ list' = [i \in DOMAIN list |-> [list[i] EXCEPT !.add = TRUE]]
  /\ Start("ctl", "restore", addr, "collect")
  /\ UNCHANGED <<up, addr, wanted, sendq, errs, hw, flags, hwFlags, faults,
                 hist, pfail>>

(* idpf_vport_stop: IDPF_VPORT_UP is cleared some time before the filters  *)
(* are removed.                                                            *)
Stop ==
  /\ Begins("ctl") /\ up
  /\ up' = FALSE
  /\ Start("ctl", "remove", addr, "mark")
  /\ UNCHANGED <<list, addr, wanted, sendq, errs, hw, flags, hwFlags, faults,
                 hist, pfail>>

(* Mutant of MarkRemove: the first filter is passed over *)
MarkRemoveTail ==
  /\ th["ctl"].pc = "mark"
  /\ list' = [i \in DOMAIN list |-> [list[i] EXCEPT !.remove = @ \/ i > 1]]
  /\ Goto("ctl", "collect")
  /\ UNCHANGED <<up, addr, wanted, sendq, errs, hw, flags, hwFlags, cmds,
                 faults, hist, pfail>>

(* idpf_remove_mac_filters *)
MarkRemove ==
  /\ th["ctl"].pc = "mark"
  /\ list' = [i \in DOMAIN list |-> [list[i] EXCEPT !.remove = TRUE]]
  /\ Goto("ctl", "collect")
  /\ UNCHANGED <<up, addr, wanted, sendq, errs, hw, flags, hwFlags, cmds,
                 faults, hist, pfail>>

(* A reset of the adapter, between other calls: the vport is stopped while *)
(* nothing can be sent, destroyed and created again.  idpf_init_task makes *)
(* the list empty and idpf_init_mac_addr begins it anew with the address   *)
(* the device gives; the stack takes the others for synchronised still,    *)
(* and nobody sends the promiscuous modes again.                           *)
Reset ==
  /\ Begins("ctl") /\ th["stack"].pc = "idle"
  /\ up' = FALSE /\ addr' = Addr0 /\ list' = <<Filter(Addr0)>>
  /\ sendq' = <<>> /\ errs' = <<>> /\ hw' = {}
  /\ hwFlags' = [uc |-> FALSE, mc |-> FALSE]
  /\ unsent' = {} /\ left' = {} /\ dropped' = wanted \ {Addr0}
  /\ pfail' = (flags.uc \/ flags.mc)
  /\ UNCHANGED <<wanted, th, flags, faults>>

(* The device is told only while the vport is up.  If it is on its way up  *)
(* or down, nobody may tell it.                                            *)
TestUp(t) ==
  /\ th[t].pc = "test_up"
  /\ IF up THEN Goto(t, "collect") ELSE Done(t, FALSE)
  /\ IF up \/ th[t].alone THEN UNCHANGED hist ELSE Lose(t, {th[t].mac})
  /\ UNCHANGED <<up, list, addr, wanted, sendq, errs, hw, flags, hwFlags, cmds,
                 faults, pfail>>

--------------------------------------------------------------------------------
(* idpf_add_del_mac_filters *)

Flagged(t, f) == IF Adds(t) THEN f.add ELSE f.remove

Unflag(t, f) ==
  IF Adds(t) THEN [f EXCEPT !.add = FALSE] ELSE [f EXCEPT !.remove = FALSE]

(* Under the lock: all filters with the flag, whoever set it, are taken    *)
(* into the message and lose the flag.                                     *)
Collect(t) ==
  LET fs == {i \in DOMAIN list : Flagged(t, list[i])}
      ms == {list[i].mac : i \in fs}
  IN /\ th[t].pc = "collect"
     /\ \/ /\ fs = {}
           /\ Done(t, FALSE)
           /\ UNCHANGED <<list, faults, hist>>
        \/ /\ fs # {}
           /\ list' = [i \in DOMAIN list |-> Unflag(t, list[i])]
           /\ \E f \in Walk(fs) : th' = [th EXCEPT ![t].pc = "send",
                ![t].batch = [k \in DOMAIN f |-> list[f[k]].mac]]
           /\ UNCHANGED <<faults, hist>>
        \/ /\ fs # {} /\ Fault
           /\ Done(t, TRUE)
           /\ Lose(t, ms)
           /\ UNCHANGED list
     /\ UNCHANGED <<up, addr, wanted, sendq, errs, hw, flags, hwFlags, cmds,
                    pfail>>

Chunk(b) == SubSeq(b, 1, IF Len(b) < PerMsg THEN Len(b) ELSE PerMsg)

(* Mutant of Rest: the next message starts one filter too late *)
RestSkips(b) == SubSeq(b, Len(Chunk(b)) + 2, Len(b))

Rest(b) == SubSeq(b, Len(Chunk(b)) + 1, Len(b))

(* Filters of a batch that an unsync deletes only because a collection     *)
(* that failed has left them flagged                                       *)
StaleFlags(t) ==
  IF th[t].fn = "unsync" THEN ToSet(th[t].batch) \ {th[t].mac} ELSE {}

(* The next message of the batch; after an error the others are not sent.  *)
(* What overtakes the other thread may undo what that one has done.        *)
Send(t) ==
  LET b == th[t].batch
      req == [op |-> IF Adds(t) THEN "add" ELSE "del", macs |-> ToSet(Chunk(b)),
              wait |-> ~ Async(t)]
  IN /\ th[t].pc = "send"
     /\ \/ /\ sendq' = Append(sendq, req)
           /\ IF ~ Async(t) THEN Goto(t, "wait")
              ELSE IF Rest(b) = <<>> THEN Done(t, FALSE)
              ELSE th' = [th EXCEPT ![t].batch = Rest(b)]
           /\ IF th[t].alone
              THEN unsent' = unsent \cup StaleFlags(t) /\ UNCHANGED left
              ELSE unsent' = unsent \cup req.macs /\ left' = left \cup req.macs
           /\ UNCHANGED dropped
           /\ UNCHANGED faults
        \/ /\ Fault
           /\ Done(t, TRUE)
           /\ Lose(t, ToSet(b))
           /\ UNCHANGED sendq
     /\ UNCHANGED <<up, list, addr, wanted, errs, hw, flags, hwFlags, cmds,
                    pfail>>

(* The wait for an answer ends without it.                                 *)
Timeout ==
  /\ th["ctl"].pc = "wait" /\ Fault
  /\ Done("ctl", TRUE)
  /\ Lose("ctl", ToSet(th["ctl"].batch))
  /\ sendq' = [i \in DOMAIN sendq |-> [sendq[i] EXCEPT !.wait = FALSE]]
  /\ UNCHANGED <<up, list, addr, wanted, errs, hw, flags, hwFlags, cmds, pfail>>

--------------------------------------------------------------------------------
(* What the callers do with the result *)

(* idpf_addr_sync returns an error to the stack, which will try again.     *)
SyncEnd ==
  /\ th["stack"].fn = "sync"
  /\ wanted' = IF th["stack"].err THEN wanted ELSE wanted \cup {th["stack"].mac}
  /\ UNCHANGED <<up, list, addr, hist>>

(* idpf_del_mac_filter: after an error the filter stays in the list, even  *)
(* if the message it was in had been sent.                                 *)
UnsyncEnd ==
  LET s == th["stack"]
      ms == IF s.alone THEN {} ELSE {s.mac}
  IN /\ s.fn = "unsync"
     /\ IF s.err THEN UNCHANGED list ELSE Without({s.mac})
     /\ dropped' = dropped \cup ms
     /\ left' = left \cup ms
     /\ unsent' = IF s.err THEN unsent \cup {s.mac} ELSE unsent
     /\ UNCHANGED <<up, addr, wanted>>

(* idpf_set_mac: the address that is not used leaves the list, and nobody  *)
(* tells the device.                                                       *)
SetMacEnd ==
  LET m == th["ctl"].mac
      gone == IF th["ctl"].err THEN m ELSE addr
  IN /\ th["ctl"].fn = "set_mac"
     /\ Without({gone})
     /\ addr' = IF th["ctl"].err THEN addr ELSE m
     /\ left' = left \cup {gone}
     /\ dropped' = dropped \cup {gone}
     /\ UNCHANGED <<up, wanted, unsent>>

(* idpf_vport_open goes on whatever became of the filters.                 *)
RestoreEnd ==
  /\ th["ctl"].fn = "restore"
  /\ up' = TRUE
  /\ UNCHANGED <<list, addr, wanted, hist>>

(* The RSS configuration behind idpf_restore_features fails: the opening   *)
(* is undone to disable_vport, but nobody removes the filters.             *)
RestoreFail ==
  /\ th["ctl"].fn = "restore"
  /\ left' = left \cup Listed
  /\ UNCHANGED <<up, list, addr, wanted, unsent, dropped>>

RemoveEnd ==
  /\ th["ctl"].fn = "remove"
  /\ UNCHANGED <<up, list, addr, wanted, hist>>

End(t) ==
  /\ th[t].pc = "done"
  /\ th' = [th EXCEPT ![t] = IdleThread]
  /\ IF t = "stack" THEN SyncEnd \/ UnsyncEnd
     ELSE SetMacEnd \/ RestoreEnd \/ RestoreFail \/ RemoveEnd
  /\ UNCHANGED <<sendq, errs, hw, flags, hwFlags, cmds, faults, pfail>>

--------------------------------------------------------------------------------
(* Mutant of UserFlags: the multicast bit is never cleared *)
UserFlagsSticky(p, a) ==
  [promisc |-> p, allmulti |-> a, uc |-> p, mc |-> a \/ flags.mc]

(* Promiscuous modes: the rest of idpf_set_rx_mode.  IFF_PROMISC sets the  *)
(* unicast bit only: the multicast bit it sets is one of adapter->flags.   *)
UserFlags(p, a) ==
  [promisc |-> p, allmulti |-> a, uc |-> p,
   mc |-> a \/ (flags.mc /\ p)]

SetRxMode(p, a) ==
  /\ Begins("stack")
  /\ <<p, a>> # <<flags.promisc, flags.allmulti>>
  /\ flags' = UserFlags(p, a)
  /\ IF <<flags'.uc, flags'.mc>> = <<flags.uc, flags.mc>>
     THEN UNCHANGED <<sendq, faults, pfail>>
     ELSE \/ /\ sendq' = Append(sendq, [op |-> "promisc",
                            macs |-> [uc |-> flags'.uc, mc |-> flags'.mc],
                            wait |-> FALSE])
             /\ UNCHANGED <<faults, pfail>>
          \/ Fault /\ pfail' = TRUE /\ UNCHANGED sendq
  /\ UNCHANGED <<up, list, addr, wanted, th, errs, hw, hwFlags, hist>>

--------------------------------------------------------------------------------
(* The device takes the requests in order, and may refuse one.             *)

Answer(r, ok) ==
  IF r.wait
  THEN LET rest == Rest(th["ctl"].batch)
       IN /\ IF ~ ok \/ rest = <<>> THEN Done("ctl", ~ ok)
             ELSE th' = [th EXCEPT !["ctl"].pc = "send", !["ctl"].batch = rest]
          /\ UNCHANGED errs
  ELSE /\ errs' = IF ok \/ r.op = "promisc" THEN errs ELSE Append(errs, r.macs)
       /\ UNCHANGED th

(* Addresses that the requests of q are about *)
About(q) ==
  UNION {q[i].macs : i \in {j \in DOMAIN q : q[j].op # "promisc"}}

Execute ==
  LET r == Head(sendq)
      ctl == th["ctl"].batch
      last == r.macs \ (About(Tail(sendq)) \cup ToSet(th["stack"].batch)
                           \cup ToSet(IF r.wait THEN Rest(ctl) ELSE ctl))
  IN /\ sendq # <<>>
     /\ sendq' = Tail(sendq)
     /\ Answer(r, TRUE)
     /\ CASE r.op = "add" -> /\ hw' = hw \cup r.macs
                             /\ unsent' = unsent \ last
                             /\ UNCHANGED <<hwFlags, left>>
          [] r.op = "del" -> /\ hw' = hw \ r.macs
                             /\ left' = left \ last
                             /\ UNCHANGED <<hwFlags, unsent>>
          [] OTHER        -> /\ hwFlags' = r.macs
                             /\ UNCHANGED <<hw, unsent, left>>
     /\ UNCHANGED <<up, list, addr, wanted, flags, cmds, faults, dropped, pfail>>

(* After an error the rest of the batch is dropped as well.                *)
Refuse ==
  LET r == Head(sendq)
      ms == IF r.wait THEN ToSet(th["ctl"].batch) ELSE r.macs
  IN /\ sendq # <<>> /\ Fault
     /\ sendq' = Tail(sendq)
     /\ Answer(r, FALSE)
     /\ unsent' = IF r.op = "add" THEN unsent \cup ms ELSE unsent
     /\ left'   = IF r.op = "del" THEN left \cup ms ELSE left
     /\ pfail' = (pfail \/ r.op = "promisc")
     /\ UNCHANGED <<up, list, addr, wanted, hw, flags, hwFlags, cmds, dropped>>

(* idpf_mac_filter_async_handler: whatever the list says by now, the       *)
(* addresses of the request leave it.                                      *)
AsyncHandler ==
  LET ms == Head(errs)
  IN /\ errs # <<>>
     /\ errs' = Tail(errs)
     /\ Without(ms)
     /\ dropped' = dropped \cup ms
     /\ left' = left \cup ms
     /\ UNCHANGED <<up, addr, wanted, th, sendq, hw, flags, hwFlags, cmds,
                    faults, unsent, pfail>>

--------------------------------------------------------------------------------
Next ==
  \/ \E m \in Macs : Sync(m) \/ Unsync(m) \/ SetMac(m)
  \/ Open \/ Stop \/ MarkRemove \/ Reset
  \/ \E t \in Threads : TestUp(t) \/ Collect(t) \/ Send(t) \/ End(t)
  \/ Timeout
  \/ \E p, a \in BOOLEAN : SetRxMode(p, a)
  \/ Execute \/ Refuse \/ AsyncHandler

Spec == Init /\ [][Next]_vars

--------------------------------------------------------------------------------
(* The range of every variable; the list holds an address at most once.    *)
TypeOK ==
  /\ up \in BOOLEAN /\ addr \in Macs /\ wanted \subseteq Macs
  /\ list \in Seq([mac : Macs, add : BOOLEAN, remove : BOOLEAN])
  /\ \A i, j \in DOMAIN list : list[i].mac = list[j].mac => i = j
  /\ \A t \in Threads :
       /\ th[t].pc \in {"idle", "mark", "test_up", "collect", "send", "wait",
                        "done"}
       /\ th[t].batch \in Seq(Macs)
  /\ hw \subseteq Macs /\ unsent \subseteq Macs /\ left \subseteq Macs
  /\ dropped \subseteq Macs

Quiet ==
  /\ \A t \in Threads : th[t].pc = "idle"
  /\ sendq = <<>> /\ errs = <<>>

(* Whenever nothing is under way, every filter of the list of a vport that *)
(* is up is in the device, however the flags of two threads were mixed in  *)
(* one message and however a batch was cut, except those whose last        *)
(* request failed, was dropped or overtook the other thread, or was sent   *)
(* for a flag that an earlier failure had left behind.                     *)
ListInDevice == (Quiet /\ up) => Listed \subseteq hw \cup unsent

(* The other way round: the device has no filter that the list does not    *)
(* have, and none at all while the vport is down, except those whose       *)
(* removal failed, the addresses idpf_set_mac replaced, and what the list  *)
(* had when an opening failed after its filters were restored.             *)
DeviceInList ==
  Quiet => hw \subseteq left \cup (IF up THEN Listed ELSE {})

(* The stack's addresses and the vport's own are in the list, except those *)
(* taken out by an error answer, by idpf_set_mac, or by an unsync that ran *)
(* beside the other thread.                                                *)
WantedListed == Quiet => wanted \cup {addr} \subseteq Listed \cup dropped

(* Opening the vport heals: once idpf_restore_mac_filters was answered     *)
(* without an error and nobody interfered, the device has all of the list, *)
(* whatever was lost before.                                               *)
RestoreHeals ==
  [][(~ up /\ up' /\ ~ th["ctl"].err /\ th["ctl"].alone) => Listed \subseteq hw]_vars

(* With no message lost no promiscuous mode outlives its request, though   *)
(* the multicast bit of user_flags has two requesters and only the last to *)
(* leave clears it.  That a mode is entered is not said: under IFF_PROMISC *)
(* alone the device is never told of multicast.                            *)
PromiscLeft ==
  (sendq = <<>> /\ ~ pfail) =>
    /\ hwFlags.uc => flags.promisc
    /\ hwFlags.mc => flags.allmulti \/ flags.promisc

(* Whenever nothing is under way the list, the device and the stack agree  *)
(* on the filters, up to the losses that the code accepts.                 *)
FiltersAgree == TypeOK /\ ListInDevice /\ DeviceInList /\ WantedListed
==============================================================================
