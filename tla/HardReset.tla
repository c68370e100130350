------------------------------ MODULE HardReset ------------------------------
(***************************************************************************)
(* Loading, resetting and removing an adapter: idpf_main.c (probe, remove, *)
(* the PCI error callbacks), idpf_lib.c (the service, event and init tasks)*)
(* and the core of idpf_virtchnl.c (idpf_vc_core_init and _deinit).        *)
(*                                                                         *)
(* The actors are the three delayed works serv_task, vc_event_task and     *)
(* init_task, the PCI error callbacks, the removal of the driver, a user   *)
(* who opens and closes the network devices, and the device.  They share   *)
(* the bits of adapter->flags and two locks: RTNL and vport_ctrl_lock.     *)
(* cancel_delayed_work_sync(w) is a step that takes w out of the queue and *)
(* is enabled when w does not run.                                         *)
(***************************************************************************)
EXTENDS Integers, FiniteSets

CONSTANTS
  NumVports,    \* caps.default_num_vports
  MaxErr,       \* IDPF_MB_MAX_ERR (20)
  Troubles,     \* what may happen to the adapter
  MaxTrouble    \* bound: how many of them; each happens once at most

ASSUME NumVportsAssumption == NumVports \in Nat \ {0}
ASSUME BoundsAssumption == MaxErr \in Nat /\ MaxTrouble \in Nat

(* The device resets on its own, in a CORER or not; the Tx watchdog or RDMA *)
(* asks for a reset; a run of the PCI error callbacks; a step of the device *)
(* or of the kernel fails; the driver is removed                            *)
ASSUME TroublesAssumption ==
  Troubles \subseteq {"reset", "corer", "timeout", "err", "flr", "fault", "remove"}

Vport == 1 .. NumVports
None  == "none"
Work  == {"serv", "event", "init"}
Actor == Work \cup {"pci", "remove", "user"}

(* enum idpf_flags                                                         *)
Flag == {"HR_FUNC_RESET", "HR_DRV_LOAD", "HR_RESET_IN_PROG",
         "REMOVE_IN_PROG", "MB_INTR_MODE", "VC_CORE_INIT",
         "CORER_IN_PROG", "PCI_CB_RESET"}

VARIABLES
  flags,        \* adapter->flags
  pend,         \* the works that are queued
  pc, cur,      \* an actor's place, and the vport it works on
  rtnl, ctrl,   \* the holders of RTNL and of vport_ctrl_lock
  vports,       \* vports that exist (adapter->vports, np->vport)
  netdev,       \* their network devices: "none", "alloc", "reg"
  present, running,   \* netif_device_present, netif_running
  upreq, up,    \* IDPF_VPORT_UP_REQUESTED, IDPF_VPORT_UP
  mbx,          \* the mailbox queues exist (hw.arq, hw.asq)
  active, mb_wait_count,
  corer_done,   \* the completion of a CORER
  arqena, rdy,  \* the device: queue enabled, rstat says ready
  corer,        \* the device: interrupts of a CORER to come
  devreq,       \* the device was asked to reset and has not begun to
  cbkind,       \* the PCI callback: "err" (error_detected), "flr" (prepare)
  beside,       \* history: the event task ran beside the PCI callbacks
  had           \* the troubles that happened

netVars == <<vports, netdev, present, running, upreq, up>>
devVars == <<corer_done, corer, arqena, rdy, devreq, cbkind, beside>>
mbxVars == <<mbx, active, mb_wait_count>>
vars == <<flags, pend, pc, cur, rtnl, ctrl, netVars, mbxVars, devVars, had>>

(* idpf_probe: the transaction manager is up, the load is queued           *)
Init ==
  /\ flags = {"HR_DRV_LOAD"} /\ pend = {"event"}
  /\ pc  = [a \in Actor |-> "idle"] /\ cur = [a \in Actor |-> 0]
  /\ rtnl = None /\ ctrl = None
  /\ vports = {} /\ netdev = [v \in Vport |-> "none"]
  /\ present = {} /\ running = {} /\ upreq = {} /\ up = {}
  /\ mbx = FALSE /\ active = TRUE /\ mb_wait_count = 0
  /\ corer_done = FALSE /\ corer = "none" /\ arqena = FALSE /\ rdy = TRUE
  /\ devreq = FALSE /\ cbkind = "err" /\ beside = FALSE
  /\ had = {}

-----------------------------------------------------------------------------
Go(a, l)  == pc' = [pc EXCEPT ![a] = l]
At(a, l)  == pc[a] = l
Trouble(b) == /\ b \in Troubles \ had /\ Cardinality(had) < MaxTrouble
              /\ had' = had \cup {b}
Fault     == Trouble("fault")
Exists    == pc["remove"] # "gone"

idpf_is_reset_detected == "CORER_IN_PROG" \in flags \/ ~mbx \/ ~arqena

idpf_is_reset_in_prog ==
  flags \cap {"HR_RESET_IN_PROG", "HR_FUNC_RESET", "HR_DRV_LOAD"} # {}

(* A message of the mailbox gets its answer: not from a device that was     *)
(* asked to reset, even before it does                                      *)
VcWorks == active /\ ~idpf_is_reset_detected /\ ~devreq

(* cancel_delayed_work_sync                                                *)
Cancel(ws) == (\A w \in ws : At(w, "idle")) /\ pend' = pend \ ws

-----------------------------------------------------------------------------
(* Mutant: the network device is detached and not closed                   *)
DetachNoClose(a, v) ==
  /\ At(a, "detach") /\ v \in present /\ rtnl = None
  /\ present' = present \ {v}
  /\ upreq' = IF v \in running THEN upreq \cup {v} ELSE upreq
  /\ UNCHANGED <<flags, pend, pc, cur, rtnl, ctrl, vports, netdev, running, up,
                 mbxVars, devVars, had>>

(* idpf_detach_and_close, for actor a                                      *)
Detach(a, v) ==
  /\ At(a, "detach") /\ v \in present /\ rtnl = None
  /\ present' = present \ {v}
  /\ \/ /\ v \in running
        /\ upreq' = upreq \cup {v} /\ rtnl' = a
        /\ cur' = [cur EXCEPT ![a] = v] /\ Go(a, "close")
     \/ /\ v \notin running
        /\ UNCHANGED <<upreq, rtnl, cur, pc>>
  /\ UNCHANGED <<flags, pend, ctrl, vports, netdev, running, up, mbxVars,
                 devVars, had>>

(* dev_close calls idpf_stop, under both locks                             *)
Close(a, next) ==
  /\ At(a, "close") /\ rtnl = a /\ ctrl = None
  /\ up' = up \ {cur[a]} /\ running' = running \ {cur[a]}
  /\ rtnl' = None /\ Go(a, next)
  /\ UNCHANGED <<flags, pend, cur, ctrl, vports, netdev, present, upreq,
                 mbxVars, devVars, had>>

(* dev_open calls idpf_open, under both locks; a failure leaves the device *)
(* down                                                                    *)
Open(a, next) ==
  /\ At(a, "open") /\ rtnl = a /\ ctrl = None
  /\ \/ VcWorks /\ up' = up \cup {cur[a]} /\ UNCHANGED <<running, had>>
     \/ ~VcWorks /\ running' = running \ {cur[a]} /\ UNCHANGED <<up, had>>
     \/ VcWorks /\ Fault /\ running' = running \ {cur[a]} /\ UNCHANGED up
  /\ rtnl' = None /\ Go(a, next)
  /\ UNCHANGED <<flags, pend, cur, ctrl, vports, netdev, present, upreq,
                 mbxVars, devVars>>

(* idpf_open does nothing while the driver is being removed                *)
StartOpen(a, v, next) ==
  /\ rtnl = None
  /\ running' = running \cup {v} /\ cur' = [cur EXCEPT ![a] = v]
  /\ IF "REMOVE_IN_PROG" \in flags THEN Go(a, next) /\ UNCHANGED rtnl
                                   ELSE Go(a, "open") /\ rtnl' = a

(* idpf_vport_dealloc of every vport: outside a reset the network devices  *)
(* are stopped and unregistered, in a reset they are kept                  *)
Dealloc ==
  /\ vports' = {} /\ UNCHANGED upreq
  /\ \/ /\ "HR_RESET_IN_PROG" \in flags
        /\ UNCHANGED <<netdev, present, running, up>>
     \/ /\ "HR_RESET_IN_PROG" \notin flags
        /\ vports # {} => rtnl = None
        /\ vports \cap running # {} => ctrl = None
        /\ up' = up \ vports /\ running' = running \ vports
        /\ present' = present \ vports
        /\ netdev' = [v \in Vport |-> IF v \in vports THEN "none"
                                                      ELSE netdev[v]]

(* The first part of idpf_vc_core_deinit, up to idpf_vc_xn_shutdown, when  *)
(* the core is initialised; idpf_intr_rel frees the interrupt              *)
CoreDown(a, next) ==
  /\ "VC_CORE_INIT" \in flags
  /\ Cancel({"init"}) /\ Dealloc
  /\ flags' = flags \ {"MB_INTR_MODE"} /\ active' = FALSE /\ Go(a, next)
  /\ UNCHANGED <<cur, rtnl, ctrl, mbx, mb_wait_count, devVars, had>>

(* Mutants: the flag stays set, the service task is not cancelled          *)
CoreReleaseKeepsFlag(a, next) ==
  /\ Cancel({"serv"}) /\ Go(a, next)
  /\ UNCHANGED <<flags, cur, rtnl, ctrl, netVars, mbxVars, devVars, had>>

CoreReleaseNoCancel(a, next) ==
  /\ flags' = flags \ {"VC_CORE_INIT"} /\ Go(a, next)
  /\ UNCHANGED <<pend, cur, rtnl, ctrl, netVars, mbxVars, devVars, had>>

(* The rest of it                                                          *)
CoreRelease(a, next) ==
  /\ Cancel({"serv"})
  /\ flags' = flags \ {"VC_CORE_INIT"} /\ Go(a, next)
  /\ UNCHANGED <<cur, rtnl, ctrl, netVars, mbxVars, devVars, had>>

CoreDeinitSkip(a, next) ==
  /\ "VC_CORE_INIT" \notin flags /\ Go(a, next)
  /\ UNCHANGED <<flags, pend, cur, rtnl, ctrl, netVars, mbxVars, devVars, had>>

-----------------------------------------------------------------------------
(* idpf_service_task                                                       *)
ServStart ==
  /\ Exists /\ At("serv", "idle") /\ "serv" \in pend
  /\ pend' = pend \ {"serv"} /\ Go("serv", "check")
  /\ UNCHANGED <<flags, cur, rtnl, ctrl, netVars, mbxVars, devVars, had>>

ServCheck ==
  /\ At("serv", "check")
  /\ Go("serv", IF /\ idpf_is_reset_detected /\ ~idpf_is_reset_in_prog
                   /\ "REMOVE_IN_PROG" \notin flags
                THEN "reset" ELSE "rearm")
  /\ UNCHANGED <<flags, pend, cur, rtnl, ctrl, netVars, mbxVars, devVars, had>>

ServReset ==
  /\ At("serv", "reset")
  /\ flags' = flags \cup {"HR_FUNC_RESET"} /\ pend' = pend \cup {"event"}
  /\ Go("serv", "idle")
  /\ UNCHANGED <<cur, rtnl, ctrl, netVars, mbxVars, devVars, had>>

ServRearm ==
  /\ At("serv", "rearm")
  /\ pend' = pend \cup {"serv"} /\ Go("serv", "idle")
  /\ UNCHANGED <<flags, cur, rtnl, ctrl, netVars, mbxVars, devVars, had>>

ServTask == ServStart \/ ServCheck \/ ServReset \/ ServRearm

-----------------------------------------------------------------------------
(* idpf_init_task: one run creates one default vport and its network       *)
(* device; a device that is registered already gets the new vport          *)
InitStart ==
  /\ Exists /\ At("init", "idle") /\ "init" \in pend
  /\ pend' = pend \ {"init"} /\ Go("init", "create")
  /\ UNCHANGED <<flags, cur, rtnl, ctrl, netVars, mbxVars, devVars, had>>

(* Mutant: one default vport too many                                      *)
InitCreateOneMore ==
  /\ At("init", "create") /\ VcWorks
  /\ \E v \in 1 .. NumVports + 1 :
       /\ v \notin vports /\ \A w \in 1 .. v - 1 : w \in vports
       /\ vports' = vports \cup {v}
  /\ pend' = pend \cup {"init"} /\ Go("init", "idle")
  /\ UNCHANGED <<flags, cur, rtnl, ctrl, netdev, present, running, upreq, up,
                 mbxVars, devVars, had>>

InitCreate ==
  /\ At("init", "create") /\ VcWorks
  /\ \E v \in Vport \ vports :
       /\ \A w \in Vport \ vports : v <= w
       /\ vports' = vports \cup {v}
       /\ netdev' = [netdev EXCEPT ![v] = IF @ = "reg" THEN @ ELSE "alloc"]
  /\ \/ /\ vports' # Vport
        /\ pend' = pend \cup {"init"} /\ Go("init", "idle")
     \/ /\ vports' = Vport
        /\ Go("init", "register") /\ UNCHANGED pend
  /\ UNCHANGED <<flags, cur, rtnl, ctrl, present, running, upreq, up, mbxVars,
                 devVars, had>>

(* register_netdev takes RTNL                                              *)
InitRegister(v) ==
  /\ At("init", "register") /\ netdev[v] = "alloc" /\ rtnl = None
  /\ netdev' = [netdev EXCEPT ![v] = "reg"] /\ present' = present \cup {v}
  /\ UNCHANGED <<flags, pend, pc, cur, rtnl, ctrl, vports, running, upreq, up,
                 mbxVars, devVars, had>>

(* Mutant: the reset bit is not cleared                                    *)
InitReadyKeepsFlag ==
  /\ At("init", "register") /\ (\A v \in Vport : netdev[v] = "reg")
  /\ Go("init", "loaded")
  /\ UNCHANGED <<flags, pend, cur, rtnl, ctrl, netVars, mbxVars, devVars, had>>

(* The end of the loop; a device that fails to register is passed over     *)
InitReady ==
  /\ At("init", "register")
  /\ \/ (\A v \in Vport : netdev[v] = "reg") /\ UNCHANGED had
     \/ (\E v \in Vport : netdev[v] # "reg") /\ Fault
  /\ flags' = flags \ {"HR_RESET_IN_PROG"} /\ Go("init", "loaded")
  /\ UNCHANGED <<pend, cur, rtnl, ctrl, netVars, mbxVars, devVars>>

InitLoaded ==
  /\ At("init", "loaded")
  /\ flags' = flags \ {"HR_DRV_LOAD"} /\ Go("init", "idle")
  /\ UNCHANGED <<pend, cur, rtnl, ctrl, netVars, mbxVars, devVars, had>>

(* unwind_vports                                                           *)
InitUnwind ==
  /\ At("init", "create")
  /\ \/ ~VcWorks /\ UNCHANGED had
     \/ VcWorks /\ Fault
  /\ Dealloc /\ Go("init", "unwound")
  /\ UNCHANGED <<flags, pend, cur, rtnl, ctrl, mbxVars, devVars>>

InitUnwound ==
  /\ At("init", "unwound")
  /\ Go("init", IF "HR_DRV_LOAD" \in flags THEN "cancel" ELSE "failed")
  /\ flags' = flags \ {"HR_DRV_LOAD"}
  /\ UNCHANGED <<pend, cur, rtnl, ctrl, netVars, mbxVars, devVars, had>>

InitCancel ==
  /\ At("init", "cancel") /\ Cancel({"serv"}) /\ Go("init", "failed")
  /\ UNCHANGED <<flags, cur, rtnl, ctrl, netVars, mbxVars, devVars, had>>

InitFailed ==
  /\ At("init", "failed")
  /\ flags' = flags \ {"HR_RESET_IN_PROG"} /\ Go("init", "idle")
  /\ UNCHANGED <<pend, cur, rtnl, ctrl, netVars, mbxVars, devVars, had>>

InitTask ==
  \/ InitStart \/ InitCreate \/ (\E v \in Vport : InitRegister(v))
  \/ InitReady \/ InitLoaded \/ InitUnwind \/ InitUnwound \/ InitCancel
  \/ InitFailed

-----------------------------------------------------------------------------
(* The PCI callbacks are through with vc_event_task and have not queued it *)
CallbackRuns == pc["pci"] \notin {"idle", "serv", "event", "lost"}

(* idpf_vc_event_task                                                      *)
EventStart ==
  /\ Exists /\ At("event", "idle") /\ "event" \in pend
  /\ pend' = pend \ {"event"}
  /\ LET func == "HR_FUNC_RESET" \in flags
         load == flags \cap {"HR_DRV_LOAD", "PCI_CB_RESET"} # {}
         runs == "REMOVE_IN_PROG" \notin flags /\ (func \/ load)
     IN /\ Go("event", IF runs THEN "begin" ELSE "idle")
        /\ active' = (active /\ ~(runs /\ func))
        /\ beside' = (beside \/ (runs /\ CallbackRuns))
  /\ UNCHANGED <<flags, cur, rtnl, ctrl, netVars, mbx, mb_wait_count, corer_done,
                 corer, arqena, rdy, devreq, cbkind, had>>

EventBegin ==
  /\ At("event", "begin")
  /\ flags' = flags \cup {"HR_RESET_IN_PROG"} /\ Go("event", "detach")
  /\ UNCHANGED <<pend, cur, rtnl, ctrl, netVars, mbxVars, devVars, had>>

(* idpf_init_hard_reset: the control lock, and the cause of the reset      *)
EventLock ==
  /\ At("event", "detach") /\ present = {} /\ ctrl = None
  /\ ctrl' = "event" /\ Go("event", "cause")
  /\ UNCHANGED <<flags, pend, cur, rtnl, netVars, mbxVars, devVars, had>>

EventCallback ==
  /\ At("event", "cause") /\ "PCI_CB_RESET" \in flags
  /\ flags' = flags \ {"PCI_CB_RESET"} /\ Go("event", "corer")
  /\ UNCHANGED <<pend, cur, rtnl, ctrl, netVars, mbxVars, devVars, had>>

(* trigger_reset writes PFSWR                                              *)
EventTrigger ==
  /\ At("event", "cause") /\ "PCI_CB_RESET" \notin flags
  /\ \/ /\ "HR_DRV_LOAD" \in flags
        /\ devreq' = TRUE /\ Go("event", "corer")
     \/ /\ "HR_DRV_LOAD" \notin flags /\ "HR_FUNC_RESET" \in flags
        /\ devreq' = (devreq \/ ~idpf_is_reset_detected)
        /\ Go("event", IF idpf_is_reset_detected THEN "corer" ELSE "detect")
     \/ /\ flags \cap {"HR_DRV_LOAD", "HR_FUNC_RESET"} = {}
        /\ Go("event", "fail") /\ UNCHANGED devreq
  /\ UNCHANGED <<flags, pend, cur, rtnl, ctrl, netVars, mbxVars, corer_done, corer,
                 arqena, rdy, cbkind, beside, had>>

(* idpf_wait_on_reset_detection                                            *)
EventDetected ==
  /\ At("event", "detect") /\ idpf_is_reset_detected
  /\ Go("event", "corer")
  /\ UNCHANGED <<flags, pend, cur, rtnl, ctrl, netVars, mbxVars, devVars, had>>

EventUndetected ==
  /\ At("event", "detect") /\ ~idpf_is_reset_detected /\ Fault
  /\ Go("event", "fail")
  /\ UNCHANGED <<flags, pend, cur, rtnl, ctrl, netVars, mbxVars, devVars>>

(* idpf_check_reset_complete: the end of a CORER, then the rstat register  *)
EventCorer ==
  /\ At("event", "corer")
  /\ Go("event", IF "CORER_IN_PROG" \in flags THEN "wait_corer" ELSE "poll")
  /\ UNCHANGED <<flags, pend, cur, rtnl, ctrl, netVars, mbxVars, devVars, had>>

EventCorerDone ==
  /\ At("event", "wait_corer") /\ corer_done
  /\ corer_done' = FALSE /\ Go("event", "poll")
  /\ UNCHANGED <<flags, pend, cur, rtnl, ctrl, netVars, mbxVars, corer, arqena, rdy,
                 devreq, cbkind, beside, had>>

EventCorerTimeout ==
  /\ At("event", "wait_corer") /\ ~corer_done
  /\ \/ corer = "none" /\ UNCHANGED had
     \/ corer # "none" /\ Fault
  /\ flags' = flags \ {"CORER_IN_PROG"} /\ Go("event", "fail")
  /\ UNCHANGED <<pend, cur, rtnl, ctrl, netVars, mbxVars, devVars>>

(* The first value of rstat that says ready will do, also one that the      *)
(* device has not yet cleared for the reset it was asked for                *)
EventPoll ==
  /\ At("event", "poll")
  /\ \/ "REMOVE_IN_PROG" \in flags /\ Go("event", "fail")
     \/ "REMOVE_IN_PROG" \notin flags /\ rdy /\ Go("event", "deinit")
  /\ UNCHANGED <<flags, pend, cur, rtnl, ctrl, netVars, mbxVars, devVars, had>>

EventPollTimeout ==
  /\ At("event", "poll") /\ Fault
  /\ flags' = flags \ {"HR_RESET_IN_PROG"} /\ Go("event", "fail")
  /\ UNCHANGED <<pend, cur, rtnl, ctrl, netVars, mbxVars, devVars>>

(* idpf_vc_core_deinit and idpf_deinit_dflt_mbx, of a function reset only  *)
EventDeinit ==
  /\ At("event", "deinit") /\ "HR_FUNC_RESET" \in flags
  /\ CoreDown("event", "release") \/ CoreDeinitSkip("event", "mbx_down")

EventRelease == At("event", "release") /\ CoreRelease("event", "mbx_down")

EventMbxDown ==
  /\ At("event", "mbx_down")
  /\ mbx' = FALSE /\ Go("event", "recover")
  /\ flags' = flags \ {"MB_INTR_MODE", "HR_FUNC_RESET"}
  /\ UNCHANGED <<pend, cur, rtnl, ctrl, netVars, active, mb_wait_count, devVars,
                 had>>

EventNoDeinit ==
  /\ At("event", "deinit") /\ "HR_FUNC_RESET" \notin flags
  /\ Go("event", "recover")
  /\ UNCHANGED <<flags, pend, cur, rtnl, ctrl, netVars, mbxVars, devVars, had>>

(* idpf_reset_recover: the mailbox, the transactions and the service task; *)
(* a device in reset does not keep the writes to the queue registers       *)
EventRecover ==
  /\ At("event", "recover")
  /\ mbx' = TRUE /\ active' = TRUE /\ arqena' = rdy
  /\ pend' = pend \cup {"serv"} /\ Go("event", "core")
  /\ UNCHANGED <<flags, cur, rtnl, ctrl, netVars, mb_wait_count, corer_done, corer, rdy,
                 devreq, cbkind, beside, had>>

EventNoMbx ==
  /\ At("event", "recover") /\ Fault /\ Go("event", "fail")
  /\ UNCHANGED <<flags, pend, cur, rtnl, ctrl, netVars, mbxVars, devVars>>

(* idpf_vc_core_init: the init task is queued before the flag is set       *)
EventCore ==
  /\ At("event", "core") /\ VcWorks
  /\ flags' = flags \cup {"MB_INTR_MODE"}
  /\ pend' = pend \cup {"init"} /\ mb_wait_count' = 0 /\ Go("event", "core_done")
  /\ UNCHANGED <<cur, rtnl, ctrl, netVars, mbx, active, devVars, had>>

EventCoreDone ==
  /\ At("event", "core_done")
  /\ flags' = flags \cup {"VC_CORE_INIT"} /\ Go("event", "wait")
  /\ UNCHANGED <<pend, cur, rtnl, ctrl, netVars, mbxVars, devVars, had>>

MayRetry(count) == count <= MaxErr

(* init_failed: no version or no capabilities; the load is tried again     *)
EventCoreRetry ==
  /\ At("event", "core")
  /\ \/ ~VcWorks /\ UNCHANGED had
     \/ VcWorks /\ Fault
  /\ LET removing == "REMOVE_IN_PROG" \in flags
         count    == mb_wait_count + 1
         retry    == ~removing /\ MayRetry(count)
     IN /\ mb_wait_count' = IF removing THEN mb_wait_count ELSE count
        /\ active' = (active /\ ~retry)
        /\ flags' = IF retry THEN flags \cup {"HR_DRV_LOAD"} ELSE flags
        /\ pend'  = IF retry THEN pend \cup {"event"} ELSE pend
  /\ Go("event", "init_err")
  /\ UNCHANGED <<cur, rtnl, ctrl, netVars, mbx, devVars>>

(* A later step of idpf_vc_core_init fails                                 *)
EventCoreError ==
  /\ At("event", "core")
  /\ \/ ~VcWorks /\ UNCHANGED had
     \/ VcWorks /\ Fault
  /\ Go("event", "init_err")
  /\ UNCHANGED <<flags, pend, cur, rtnl, ctrl, netVars, mbxVars, devVars>>

EventInitErr ==
  /\ At("event", "init_err") /\ Cancel({"serv"})
  /\ mbx' = FALSE /\ flags' = flags \ {"MB_INTR_MODE"} /\ Go("event", "fail")
  /\ UNCHANGED <<cur, rtnl, ctrl, netVars, active, mb_wait_count, devVars, had>>

(* The init task clears the flag when it has created the vports, or failed *)
EventWait ==
  /\ At("event", "wait") /\ "HR_RESET_IN_PROG" \notin flags
  /\ ctrl' = None /\ Go("event", "attach")
  /\ UNCHANGED <<flags, pend, cur, rtnl, netVars, mbxVars, devVars, had>>

EventFail ==
  /\ At("event", "fail")
  /\ ctrl' = None /\ Go("event", "idle")
  /\ UNCHANGED <<flags, pend, cur, rtnl, netVars, mbxVars, devVars, had>>

(* Mutant: the network device is attached and not opened                   *)
EventAttachDown(v) ==
  /\ At("event", "attach") /\ v \in vports \ present
  /\ present' = present \cup {v} /\ upreq' = upreq \ {v}
  /\ UNCHANGED <<flags, pend, pc, cur, rtnl, ctrl, vports, netdev, running, up,
                 mbxVars, devVars, had>>

(* idpf_attach_and_open                                                    *)
EventAttach(v) ==
  /\ At("event", "attach") /\ v \in vports \ present
  /\ present' = present \cup {v}
  /\ Go("event", IF v \in upreq THEN "reopen" ELSE "attach")
  /\ upreq' = upreq \ {v} /\ cur' = [cur EXCEPT !["event"] = v]
  /\ UNCHANGED <<flags, pend, rtnl, ctrl, vports, netdev, running, up, mbxVars,
                 devVars, had>>

EventReopen ==
  /\ At("event", "reopen")
  /\ \/ /\ cur["event"] \notin running
        /\ StartOpen("event", cur["event"], "attach")
     \/ /\ cur["event"] \in running /\ rtnl = None
        /\ Go("event", "attach") /\ UNCHANGED <<rtnl, cur, running>>
  /\ UNCHANGED <<flags, pend, ctrl, vports, netdev, present, upreq, up, mbxVars,
                 devVars, had>>

EventEnd ==
  /\ At("event", "attach") /\ vports \subseteq present
  /\ Go("event", "idle")
  /\ UNCHANGED <<flags, pend, cur, rtnl, ctrl, netVars, mbxVars, devVars, had>>

EventReset ==
  \/ EventStart \/ EventBegin \/ (\E v \in Vport : Detach("event", v))
  \/ Close("event", "detach") \/ EventLock \/ EventCallback \/ EventTrigger
  \/ EventDetected \/ EventUndetected \/ EventCorer \/ EventCorerDone
  \/ EventCorerTimeout \/ EventPoll \/ EventPollTimeout

EventRecovery ==
  \/ EventDeinit \/ EventRelease \/ EventMbxDown \/ EventNoDeinit
  \/ EventRecover \/ EventNoMbx \/ EventCore \/ EventCoreDone
  \/ EventCoreRetry \/ EventCoreError \/ EventInitErr \/ EventWait
  \/ EventFail \/ (\E v \in Vport : EventAttach(v)) \/ EventReopen
  \/ Open("event", "attach") \/ EventEnd

EventTask == EventReset \/ EventRecovery

-----------------------------------------------------------------------------
(* The PCI error callbacks.  PciError is error_detected, with the channel  *)
(* offline or not; PciFlr is reset_prepare.  Both run idpf_reset_prepare.  *)
(* The PCI core holds the device lock, as it does for the removal.         *)
PciStart(kind, a) ==
  /\ At("pci", "idle") /\ At("remove", "idle") /\ Trouble(kind)
  /\ Go("pci", "serv") /\ cbkind' = kind /\ active' = a
  /\ UNCHANGED <<flags, pend, cur, rtnl, ctrl, netVars, mbx, mb_wait_count,
                 corer_done, corer, arqena, rdy, devreq, beside>>

PciError == \E a \in {active, FALSE} : PciStart("err", a)

PciFlr == PciStart("flr", active)

PciCancelServ ==
  /\ At("pci", "serv") /\ Cancel({"serv"}) /\ Go("pci", "event")
  /\ UNCHANGED <<flags, cur, rtnl, ctrl, netVars, mbxVars, devVars, had>>

PciCancelEvent ==
  /\ At("pci", "event") /\ Cancel({"event"}) /\ Go("pci", "init")
  /\ UNCHANGED <<flags, cur, rtnl, ctrl, netVars, mbxVars, devVars, had>>

PciCancelInit ==
  /\ At("pci", "init") /\ Cancel({"init"}) /\ Go("pci", "begin")
  /\ UNCHANGED <<flags, cur, rtnl, ctrl, netVars, mbxVars, devVars, had>>

PciBegin ==
  /\ At("pci", "begin")
  /\ flags' = flags \cup {"HR_RESET_IN_PROG"} /\ Go("pci", "detach")
  /\ UNCHANGED <<pend, cur, rtnl, ctrl, netVars, mbxVars, devVars, had>>

PciLock ==
  /\ At("pci", "detach") /\ present = {} /\ ctrl = None
  /\ ctrl' = "pci" /\ Go("pci", "deinit")
  /\ UNCHANGED <<flags, pend, cur, rtnl, netVars, mbxVars, devVars, had>>

PciDeinit ==
  /\ At("pci", "deinit")
  /\ CoreDown("pci", "release") \/ CoreDeinitSkip("pci", "mbx_down")

PciRelease == At("pci", "release") /\ CoreRelease("pci", "mbx_down")

PciMbxDown ==
  /\ At("pci", "mbx_down")
  /\ mbx' = FALSE /\ flags' = flags \ {"MB_INTR_MODE"}
  /\ ctrl' = None /\ Go("pci", "prepared")
  /\ UNCHANGED <<pend, cur, rtnl, netVars, active, mb_wait_count, devVars, had>>

(* idpf_pci_err_detected leaves the flag for the resume, unless the device *)
(* is lost for good                                                        *)
PciPrepared ==
  /\ At("pci", "prepared")
  /\ \/ cbkind = "err" /\ Fault /\ Go("pci", "lost") /\ UNCHANGED flags
     \/ /\ cbkind = "err" /\ flags' = flags \cup {"PCI_CB_RESET"}
        /\ Go("pci", "bus") /\ UNCHANGED had
     \/ cbkind = "flr" /\ Go("pci", "bus") /\ UNCHANGED <<flags, had>>
  /\ UNCHANGED <<pend, cur, rtnl, ctrl, netVars, mbxVars, devVars>>

(* The PCI core resets the slot or the function                            *)
PciBusReset ==
  /\ At("pci", "bus") /\ At("remove", "idle")
  /\ arqena' = FALSE /\ rdy' = FALSE /\ devreq' = FALSE
  /\ Go("pci", "resume")
  /\ UNCHANGED <<flags, pend, cur, rtnl, ctrl, netVars, mbxVars, corer_done,
                 corer, cbkind, beside, had>>

(* idpf_pci_err_slot_reset cannot read rstat                               *)
PciSlotLost ==
  /\ At("pci", "resume") /\ cbkind = "err" /\ Fault /\ Go("pci", "lost")
  /\ UNCHANGED <<flags, pend, cur, rtnl, ctrl, netVars, mbxVars, devVars>>

(* idpf_pci_err_resume                                                     *)
PciResume ==
  /\ At("pci", "resume") /\ At("remove", "idle")
  /\ devreq' = (devreq \/ "PCI_CB_RESET" \in flags)
  /\ flags' = flags \cup {"PCI_CB_RESET"} /\ pend' = pend \cup {"event"}
  /\ Go("pci", "idle")
  /\ UNCHANGED <<cur, rtnl, ctrl, netVars, mbxVars, corer_done, corer, arqena, rdy,
                 cbkind, beside, had>>

PciTask ==
  \/ PciCancelServ \/ PciCancelEvent \/ PciCancelInit \/ PciBegin
  \/ (\E v \in Vport : Detach("pci", v)) \/ Close("pci", "detach")
  \/ PciLock \/ PciDeinit \/ PciRelease \/ PciMbxDown \/ PciPrepared
  \/ PciBusReset \/ PciSlotLost \/ PciResume

-----------------------------------------------------------------------------
(* idpf_remove                                                             *)
RemoveStart ==
  /\ "remove" \in Troubles /\ At("remove", "idle")
  /\ pc["pci"] \in {"idle", "bus", "resume", "lost"}
  /\ flags' = flags \cup {"REMOVE_IN_PROG"} /\ Go("remove", "event")
  /\ UNCHANGED <<pend, cur, rtnl, ctrl, netVars, mbxVars, devVars, had>>

RemoveCancelEvent ==
  /\ At("remove", "event") /\ Cancel({"event"}) /\ Go("remove", "deinit")
  /\ UNCHANGED <<flags, cur, rtnl, ctrl, netVars, mbxVars, devVars, had>>

RemoveDeinit ==
  /\ At("remove", "deinit")
  /\ CoreDown("remove", "release") \/ CoreDeinitSkip("remove", "mbx_down")

RemoveRelease == At("remove", "release") /\ CoreRelease("remove", "mbx_down")

RemoveMbxDown ==
  /\ At("remove", "mbx_down")
  /\ devreq' = TRUE /\ mbx' = FALSE /\ flags' = flags \ {"MB_INTR_MODE"}
  /\ Go("remove", "unregister")
  /\ UNCHANGED <<pend, cur, rtnl, ctrl, netVars, active, mb_wait_count, corer_done, corer,
                 arqena, rdy, cbkind, beside, had>>

(* The network devices a reset left behind; unregister_netdev closes one   *)
(* that runs, which takes the control lock                                 *)
RemoveUnregister(v) ==
  /\ At("remove", "unregister") /\ netdev[v] # "none"
  /\ netdev[v] = "reg" => rtnl = None
  /\ v \in running => ctrl = None
  /\ netdev' = [netdev EXCEPT ![v] = "none"]
  /\ present' = present \ {v} /\ running' = running \ {v} /\ up' = up \ {v}
  /\ UNCHANGED <<flags, pend, pc, cur, rtnl, ctrl, vports, upreq, mbxVars,
                 devVars, had>>

(* The work queues are destroyed and the adapter is freed                  *)
RemoveFree ==
  /\ At("remove", "unregister") /\ \A v \in Vport : netdev[v] = "none"
  /\ Go("remove", "gone")
  /\ UNCHANGED <<flags, pend, cur, rtnl, ctrl, netVars, mbxVars, devVars, had>>

RemoveTask ==
  \/ RemoveCancelEvent \/ RemoveDeinit \/ RemoveRelease \/ RemoveMbxDown
  \/ (\E v \in Vport : RemoveUnregister(v)) \/ RemoveFree

-----------------------------------------------------------------------------
(* A user opens or closes a network device; the kernel refuses to open a   *)
(* detached one                                                            *)
UserOpen(v) ==
  /\ At("user", "idle") /\ netdev[v] = "reg"
  /\ v \in present /\ v \notin running
  /\ StartOpen("user", v, "idle")
  /\ UNCHANGED <<flags, pend, ctrl, vports, netdev, present, upreq, up, mbxVars,
                 devVars, had>>

UserClose(v) ==
  /\ At("user", "idle") /\ v \in running /\ rtnl = None
  /\ rtnl' = "user" /\ cur' = [cur EXCEPT !["user"] = v] /\ Go("user", "close")
  /\ UNCHANGED <<flags, pend, ctrl, netVars, mbxVars, devVars, had>>

UserTask == Open("user", "idle") \/ Close("user", "idle")

(* idpf_tx_timeout and idpf_idc_request_reset                              *)
RequestReset ==
  /\ up \cap present # {} /\ ~idpf_is_reset_in_prog /\ Trouble("timeout")
  /\ flags' = flags \cup {"HR_FUNC_RESET"} /\ pend' = pend \cup {"event"}
  /\ UNCHANGED <<pc, cur, rtnl, ctrl, netVars, mbxVars, devVars>>

(* idpf_mb_intr_clean: the first interrupt of a CORER finds the send queue *)
(* disabled, the second one signals the end; any one runs the service task *)
AfterIntr == IF corer = "begin" THEN "run" ELSE "none"

MbIntrMsg ==
  /\ "MB_INTR_MODE" \in flags /\ "CORER_IN_PROG" \notin flags /\ mbx /\ arqena
  /\ pend' = pend \cup {"serv"} /\ corer' = IF corer = "end" THEN "none" ELSE corer
  /\ UNCHANGED <<flags, pc, cur, rtnl, ctrl, netVars, mbxVars, corer_done, arqena,
                 rdy, devreq, cbkind, beside, had>>

MbIntrCorer ==
  /\ "MB_INTR_MODE" \in flags /\ "CORER_IN_PROG" \notin flags
  /\ mbx /\ ~arqena /\ corer \in {"begin", "end"}
  /\ flags' = flags \cup {"CORER_IN_PROG"} /\ corer_done' = FALSE
  /\ pend' = pend \cup {"serv"} /\ corer' = AfterIntr
  /\ UNCHANGED <<pc, cur, rtnl, ctrl, netVars, mbxVars, arqena, rdy, devreq,
                 cbkind, beside, had>>

MbIntrCorerEnd ==
  /\ "MB_INTR_MODE" \in flags /\ "CORER_IN_PROG" \in flags
  /\ corer \in {"begin", "end"}
  /\ flags' = flags \ {"CORER_IN_PROG"} /\ corer_done' = TRUE /\ corer' = AfterIntr
  /\ UNCHANGED <<pend, pc, cur, rtnl, ctrl, netVars, mbxVars, arqena, rdy, devreq,
                 cbkind, beside, had>>

(* An interrupt of a CORER that finds no handler is lost                   *)
MbIntrLost ==
  /\ "MB_INTR_MODE" \notin flags /\ corer # "none"
  /\ corer' = "none"
  /\ UNCHANGED <<flags, pend, pc, cur, rtnl, ctrl, netVars, mbxVars, corer_done,
                 arqena, rdy, devreq, cbkind, beside, had>>

MbIntr == MbIntrMsg \/ MbIntrCorer \/ MbIntrCorerEnd \/ MbIntrLost

(* The device: a reset that was asked for, one of its own, which may be a  *)
(* CORER and then interrupts, and the end of a reset                       *)
DevReset(kind) ==
  /\ Exists
  /\ \/ devreq /\ kind = "none" /\ UNCHANGED had
     \/ ~devreq /\ rdy /\ kind = "none" /\ Trouble("reset")
     \/ ~devreq /\ rdy /\ kind = "begin" /\ Trouble("corer")
  /\ arqena' = FALSE /\ rdy' = FALSE /\ devreq' = FALSE /\ corer' = kind
  /\ UNCHANGED <<flags, pend, pc, cur, rtnl, ctrl, netVars, mbxVars, corer_done,
                 cbkind, beside>>

DevReady ==
  /\ Exists /\ ~rdy /\ corer # "begin"
  /\ rdy' = TRUE /\ corer' = IF corer = "run" THEN "end" ELSE corer
  /\ UNCHANGED <<flags, pend, pc, cur, rtnl, ctrl, netVars, mbxVars, corer_done,
                 arqena, devreq, cbkind, beside, had>>

DevTask == DevReset("none") \/ DevReset("begin") \/ DevReady

-----------------------------------------------------------------------------
Users  == UserTask \/ (\E v \in Vport : UserOpen(v) \/ UserClose(v))
PciAny == PciTask \/ PciError \/ PciFlr

Next ==
  \/ ServTask \/ InitTask \/ EventTask \/ PciAny
  \/ RemoveStart \/ RemoveTask \/ Users \/ RequestReset \/ MbIntr \/ DevTask

Spec == Init /\ [][Next]_vars

(* Queued works run and go on, the locks are fair (a mutex is handed to    *)
(* its oldest waiter), the PCI core goes on with a recovery it has begun,  *)
(* a user inside a call goes on, and the device ends its resets.           *)
FairSpec ==
  /\ Spec
  /\ WF_vars(ServTask) /\ SF_vars(InitTask) /\ SF_vars(EventTask)
  /\ SF_vars(PciTask) /\ SF_vars(RemoveTask)
  /\ SF_vars(Open("user", "idle")) /\ SF_vars(Close("user", "idle"))
  /\ WF_vars(DevReset("none") /\ devreq) /\ WF_vars(DevReady)
  /\ WF_vars(MbIntrCorer) /\ WF_vars(MbIntrCorerEnd) /\ WF_vars(MbIntrLost)

-----------------------------------------------------------------------------
(* The state of the adapter is well formed                                 *)
TypeOK ==
  /\ flags \subseteq Flag /\ pend \subseteq Work
  /\ {rtnl, ctrl} \subseteq Actor \cup {None}
  /\ cur \in [Actor -> 0 .. NumVports]
  /\ netdev \in [Vport -> {"none", "alloc", "reg"}]
  /\ \A S \in {vports, present, running, upreq, up} : S \subseteq Vport
  /\ {mbx, active, corer_done, arqena, rdy, devreq, beside} \subseteq BOOLEAN
  /\ corer \in {"none", "begin", "run", "end"}
  /\ mb_wait_count \in Nat
  /\ had \subseteq Troubles

(* A network device that is attached or runs, or whose queues are up, has  *)
(* a vport: idpf_open, idpf_stop and the ethtool operations use np->vport  *)
(* without a check, and idpf_vport_dealloc in a reset does not stop the    *)
(* queues.                                                                 *)
VportLive == present \cup running \cup up \subseteq vports

(* So it is as long as the event task does not start between the cancels   *)
(* and the end of the PCI callbacks.                                       *)
VportLiveAlone == beside \/ VportLive

(* Recovery starts from nothing: idpf_init_dflt_mbx and idpf_vc_core_init  *)
(* allocate the mailbox, the vport table and the interrupts without a look *)
(* at what is there.  (The same exception as above.)                       *)
RecoversFromNothing ==
  ~beside =>
    /\ At("event", "recover") => ~mbx
    /\ pc["event"] \in {"recover", "core"} =>
         /\ "VC_CORE_INIT" \notin flags /\ vports = {} /\ At("init", "idle")

(* No service and no init work outlives the adapter, whose queues          *)
(* idpf_remove destroys, and no work runs on.  An event task that is       *)
(* queued again after its cancel, by the service task, idpf_tx_timeout or  *)
(* idpf_idc_request_reset, is not covered.                                 *)
WorksDrained ==
  At("remove", "gone") => /\ pend \cap {"serv", "init"} = {}
                          /\ \A w \in Work : At(w, "idle")

(* The device will not reset on its own any more, but with a CORER         *)
Quiet == {"reset"} \cap Troubles \subseteq had \/ Cardinality(had) = MaxTrouble

(* Nothing but resets without a CORER, announced by nobody or by the       *)
(* driver, has happened.                                                   *)
Plain == had \subseteq {"reset", "timeout"} /\ "REMOVE_IN_PROG" \notin flags

(* The device had not begun the reset it was asked for when                *)
(* idpf_check_reset_complete found it ready.                               *)
StaleReady == At("event", "deinit") /\ devreq

(* Whatever resets, failures and removals do meanwhile, the event task     *)
(* comes to an end with a reset or a load (idpf_init_hard_reset) and lets  *)
(* go of vport_ctrl_lock: by the flag that the init task clears, or by an  *)
(* error exit.                                                             *)
ResetEnds ==
  "HR_RESET_IN_PROG" \in flags /\ At("event", "detach")
    ~> "HR_RESET_IN_PROG" \notin flags \/ At("event", "fail")

(* A network device that it closed for a reset is opened again, when       *)
(* nothing fails, the device does not reset once more meanwhile, and it    *)
(* was not found ready before the reset.                                   *)
ComesBack ==
  \A v \in Vport :
    v \in upreq /\ At("event", "detach") /\ Quiet
      ~> v \in up \/ ~Plain \/ StaleReady

(* The flags, works and locks are well formed, and no registered network   *)
(* device is without its vport outside the window of idpf_reset_prepare.   *)
VportsSound == TypeOK /\ VportLiveAlone
=============================================================================
